------------------------------ MODULE Planner ------------------------------
(***************************************************************************)
(* What Reconciler.plan (core.py) asks of the kernel, as pure operators.   *)
(*                                                                         *)
(* The network is a function from slots to cells.  A slot is one asset the *)
(* planner inspects and repairs: the endpoint address of a delegated       *)
(* prefix, the owned tunnel and what lives on it, a route, a policy rule,  *)
(* a tagged firewall rule and, with router recovery, the enrolment record  *)
(* and the monitor flags.  The planner compares what it sees in each slot  *)
(* with what the configuration and the current prefix call for, or refuses *)
(* the whole plan when an asset is not its own.                            *)
(***************************************************************************)
EXTENDS Integers, FiniteSets

CONSTANTS
    Endpoint,        \* local endpoints the delegated prefixes can give
    Network,         \* the routed LANs of the configuration
    RouterRecovery,  \* router_recovery.enabled
    None,            \* no runtime.json yet
    Alien,           \* the slot is occupied by somebody else
    Keep             \* the planner has no wish for this slot

\* An empty slot, and one that holds exactly what the configuration asks for.
\* The cell of a tagged firewall rule is its number of copies.
Absent == 0
On     == 1

ASSUME PlannerAssumption ==
    /\ RouterRecovery \in BOOLEAN
    /\ Alien \notin Nat
    /\ Endpoint \cap (Nat \cup {Alien}) = {}
    /\ Keep \notin Nat \cup {Alien} \cup Endpoint
    /\ None \notin Endpoint

(* The slots ************************************************************)

EndpointAddr(e) == <<"endpoint", e>>    \* <e>/128 on the WAN interface
OuterRule(e)    == <<"outer", e>>       \* tagged ip6tables BR -> e, protocol 4
Tunnel          == <<"tunnel">>         \* its cell is the local endpoint
Alias           == <<"alias">>          \* the ownership mark of the tunnel
FixedIPv4       == <<"fixed">>
Link            == <<"link">>           \* mtu and state
DefaultRoute    == <<"default">>
Connected(n)    == <<"connected", n>>
PolicyRule(n)   == <<"rule", n>>
SourceRule      == <<"source">>
Snat(n)         == <<"snat", n>>
Mss             == <<"mss">>            \* each of the three TCPMSS rules
Enrolment       == <<"enrolment">>      \* router-recovery.json
LocalRule       == <<"local">>          \* each of the rules 32001 and base - 1
Monitor         == <<"monitor">>        \* the UDAPI monitor bind flags

\* Deleting the device deletes these with it.
OnTunnel == {Alias, FixedIPv4, Link, DefaultRoute}

\* A new tunnel gets these by commands that have no inverse of their own.
Bare == {Alias, Link}

RouterSlots == IF RouterRecovery THEN {Enrolment, LocalRule, Monitor} ELSE {}

\* Actions that run a callback (a state file, a UDAPI PUT), not a command.
Callback == RouterSlots \cap {Enrolment, Monitor}

Firewall == {Mss} \cup {Snat(n) : n \in Network} \cup {OuterRule(e) : e \in Endpoint}

\* Priorities (and the table) that the planner refuses to take from others.
Contested == {SourceRule} \cup {PolicyRule(n) : n \in Network}
                \cup (RouterSlots \cap {LocalRule})

Address == {EndpointAddr(e) : e \in Endpoint}

Slot == {Tunnel} \cup OnTunnel \cup Firewall \cup Contested \cup RouterSlots
          \cup Address \cup {Connected(n) : n \in Network}

\* Slots that are filled by add, and those that are emptied by del.
Exclusive == Contested \cup Address
Deletable == Exclusive \cup {FixedIPv4, DefaultRoute} \cup {Connected(n) : n \in Network}

Cell == Endpoint \cup {Alien} \cup Nat

\* What a slot can hold.
CellOf(s) == IF s \in Firewall THEN Nat
             ELSE IF s = Tunnel THEN Endpoint \cup {Absent}
             ELSE IF s \in Contested \cup {Alias} THEN {Absent, On, Alien}
             ELSE {Absent, On}

Net == {net \in [Slot -> Cell] : \A s \in Slot : net[s] \in CellOf(s)}

(* Kernel semantics *****************************************************)

\* Setting one slot; a deleted device takes along what lives on it.
Put(net, s, v) ==
    [t \in Slot |-> IF t = s THEN v
                    ELSE IF s = Tunnel /\ v = Absent /\ t \in OnTunnel THEN Absent
                    ELSE net[t]]

\* A command leads a slot from one cell to another; its inverse leads back.
InverseOf(c) == [slot |-> c.slot, from |-> c.to, to |-> c.from]

\* A command on a device that is not there fails, and so does a second device
\* of the name, a second address or rule of the kind, and the deletion of what
\* is not there; -A and -I add a copy of a firewall rule whatever there is.
Works(net, c) ==
    /\ c.slot \in OnTunnel => net[Tunnel] # Absent
    /\ c.slot \in Firewall => c.to > c.from \/ net[c.slot] > 0
    /\ c.slot = Tunnel => (net[Tunnel] = Absent <=> c.from = Absent)
    /\ c.slot \in Exclusive /\ c.to = On => net[c.slot] # On
    /\ c.slot \in Deletable /\ c.to = Absent => net[c.slot] = On

\* What the kernel, or a callback, makes of a command that works.
Result(net, c) ==
    IF c.slot \in Firewall
    THEN (IF c.to > c.from THEN net[c.slot] + 1 ELSE net[c.slot] - 1)
    ELSE c.to

Effect(net, c) == Put(net, c.slot, Result(net, c))

\* The kernel after a boot.
EmptyNet == [s \in Slot |-> Absent]

(* The planner **********************************************************)

\* Fault: the firewall rule of the old endpoint is not cleaned up.
Goal_WithoutCleanup(e, old, net) ==
    [s \in Slot |->
        IF s = Tunnel THEN e
        ELSE IF s \in {EndpointAddr(e), OuterRule(e)} THEN On
        ELSE IF s = EndpointAddr(old) THEN Absent
        ELSE IF s \in Address \cup {OuterRule(x) : x \in Endpoint} THEN Keep
        ELSE On]

\* What a plan for endpoint e wants, when runtime.json names endpoint old.
\* Cleanup of the old endpoint deletes one copy of its outer rule.
Goal(e, old, net) ==
    [s \in Slot |->
        IF s = Tunnel THEN e
        ELSE IF s \in {EndpointAddr(e), OuterRule(e)} THEN On
        ELSE IF s = EndpointAddr(old) THEN Absent
        ELSE IF s = OuterRule(old) THEN (IF net[s] > 0 THEN net[s] - 1 ELSE Absent)
        ELSE IF s \in Address \cup {OuterRule(x) : x \in Endpoint} THEN Keep
        ELSE On]

\* Fault: slots without a wish count as different.
Steps_OfKept(s, from, to) ==
    IF from = to THEN {} ELSE {[slot |-> s, from |-> from, to |-> to]}

\* The commands that lead slot s from one cell to the other: none when there is
\* no wish or nothing to do, one -D for each superfluous copy, else one.
Steps(s, from, to) ==
    IF to = Keep \/ from = to THEN {}
    ELSE IF s \in Firewall /\ from > to
    THEN {[slot |-> s, from |-> k + 1, to |-> k] : k \in to .. (from - 1)}
    ELSE {[slot |-> s, from |-> from, to |-> to]}

\* The commands of a plan.
Commands(goal, net) == UNION {Steps(s, net[s], goal[s]) : s \in Slot}

\* The slots for which a plan holds an action.
Changes(goal, net) == {s \in Slot : goal[s] \notin {Keep, net[s]}}

\* Ownership checks; when they fail the plan is refused as a foreign conflict.
Owned(e, old, net) ==
    /\ net[Tunnel] # Absent => net[Alias] = On
    /\ \A s \in Contested : net[s] # Alien
    /\ \A x \in Endpoint \ {e, old} : net[OuterRule(x)] = Absent

\* The position in the list of actions: repairs, then duplicates, then the
\* cleanup of the old endpoint, then the router actions.
Stage == [endpoint |-> 1, tunnel |-> 2, alias |-> 3, fixed |-> 4, link |-> 5,
          default |-> 6, connected |-> 7, rule |-> 8, source |-> 9, snat |-> 10,
          mss |-> 11, outer |-> 12, duplicate |-> 13, oldouter |-> 14,
          oldendpoint |-> 15, enrolment |-> 16, local |-> 17, monitor |-> 18]

Rank(c, e) ==
    Stage[IF c.slot[1] = "endpoint" /\ c.slot # EndpointAddr(e) THEN "oldendpoint"
          ELSE IF c.slot[1] = "outer" /\ c.slot # OuterRule(e) THEN "oldouter"
          ELSE IF c.slot \in Firewall /\ c.from > c.to THEN "duplicate"
          ELSE c.slot[1]]

\* Standalone mode replans once, ten seconds after a monitor update.
SettleRounds(slots) == IF Monitor \in slots THEN 1 ELSE 0
=============================================================================
