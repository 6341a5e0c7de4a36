------------------------------ MODULE WanPolicy ------------------------------
(***************************************************************************)
(* The tunnel under UniFi's own WAN policy (wan_policy.py): four rules     *)
(* send what arrives from or leaves for the tunnel into the policy chains  *)
(* of the native WAN.  validate accepts one layout of the chains before    *)
(* it, in which these rules mean that; it knows texts of rules only, here  *)
(* the traversal of iptables says what they mean.  UniFi, other programs   *)
(* and administrators edit the chains at any time.                         *)
(***************************************************************************)
EXTENDS Integers, FiniteSets, Sequences, SequencesExt

CONSTANTS
    MaxEdits,    \* bound on edits of the chains
    MaxFaults    \* bound on interruptions and failing inverses

ASSUME WanPolicyAssumption == MaxEdits \in Nat /\ MaxFaults \in Nat

VARIABLES
    chains,     \* the rules of every chain, in order
    run,        \* the transaction: pc, actions to come, inverses, does it roll back
    hist        \* history: edits, edited since the plan, chains of the plan, faults,
                \* and whether an inverse since the plan failed without effect
vars == <<chains, run, hist>>

\* Rules before a policy chain is met; what a rule can jump to.
DNS_CHAIN == "DNS_PBR_JUMP"
DISPATCH == [FORWARD_IN_USER |-> "WAN_IN", FORWARD_OUT_USER |-> "WAN_OUT", INPUT_USER_HOOK |-> "WAN_LOCAL"]
GRAPH == [INPUT |-> <<"INPUT_JUMP">>, FORWARD |-> <<"FORWARD_JUMP">>,
          INPUT_JUMP |-> <<DNS_CHAIN, "INPUT_USER_HOOK">>,
          FORWARD_JUMP |-> <<"FORWARD_USER_HOOK">>,
          FORWARD_USER_HOOK |-> <<"FORWARD_IN_USER", "FORWARD_OUT_USER">>]
Owned  == {DNS_CHAIN} \cup DOMAIN DISPATCH
Chains == Owned \cup DOMAIN GRAPH

\* A rule matches one interface, interfaces of a pattern, or packets of any;
\* the tag is the project's comment.
Row(on, to) == [on |-> on, to |-> to, tag |-> FALSE]
Rule(c) == [on |-> "tunnel", to |-> IF c = DNS_CHAIN THEN "RETURN" ELSE DISPATCH[c], tag |-> TRUE]

Layout == [c \in Chains |->
    CASE c \in DOMAIN GRAPH -> [i \in DOMAIN GRAPH[c] |-> Row("any", GRAPH[c][i])]
      [] c = DNS_CHAIN      -> <<Row("native", "RETURN"), Row("any", "ACCEPT")>>
      [] OTHER              -> <<Row("native", DISPATCH[c]), Row("lan", "LAN")>>]

Idle == [pc |-> "idle", todo |-> <<>>, undo |-> <<>>, rolling |-> FALSE, outcome |-> "none"]
Init == /\ chains = Layout /\ run = Idle
        /\ hist = [edits |-> 0, touched |-> FALSE, before |-> Layout, faults |-> 0, stuck |-> FALSE]

(* What the rules mean ****************************************************)

Ifaces == {"native", "tunnel", "lan"}
Packets == [hook : {"INPUT"}, in : Ifaces, out : {"none"}] \cup [hook : {"FORWARD"}, in : Ifaces, out : Ifaces]

\* The interface that the rules of a chain look at, and the rules it matches.
Via(c, p) == IF c = "FORWARD_OUT_USER" THEN p.out ELSE p.in
Matches(row, via) == row.on \in {"any", "pattern", via}

\* What a packet can meet: a policy, which lets it pass, or the verdict.  Its
\* path has <<x, y>> when it meets x, and not y before x.
Targets == {"WAN_IN", "WAN_OUT", "WAN_LOCAL", "LAN", "ACCEPT"}
Met(path) == {x \in Targets : <<x, x>> \in path}

\* The path through what a rule jumps to; deeper has the paths through chains.
Meets(row, deeper) == CASE row.to \in Chains  -> deeper[row.to]
                        [] row.to \in Targets -> {row.to} \X Targets
                        [] OTHER              -> {}
Leaves(row, deeper) == row.to = "RETURN" \/ "ACCEPT" \in Met(Meets(row, deeper))

\* The rules of a chain that a packet obeys, and its path through the chain.
Reached(rows, via, deeper) ==
    {i \in DOMAIN rows : /\ Matches(rows[i], via)
                         /\ \A j \in 1 .. i - 1 : ~(Matches(rows[j], via) /\ Leaves(rows[j], deeper))}
Through(rows, via, deeper) ==
    LET reached == Reached(rows, via, deeper)
    IN  UNION {{m \in Meets(rows[i], deeper) :
                   \A j \in reached : j < i => m[2] \notin Met(Meets(rows[j], deeper))} : i \in reached}

\* The path of a packet through the chains cs, which nest four deep.
Nowhere == [c \in Chains |-> {}]
Level(cs, p, deeper) == [c \in Chains |-> Through(cs[c], Via(c, p), deeper)]
Path(cs, p) == Level(cs, p, Level(cs, p, Level(cs, p, Level(cs, p, Nowhere))))[p.hook]

\* The native WAN in the place of the tunnel.
AsNative(p) == [p EXCEPT !.in = IF @ = "tunnel" THEN "native" ELSE @,
                         !.out = IF @ = "tunnel" THEN "native" ELSE @]
Filtered == \A p \in Packets : "tunnel" \in {p.in, p.out} => Path(chains, p) = Path(chains, AsNative(p))

(* validate, plan, transaction ********************************************)

Count(s, x) == Cardinality({i \in DOMAIN s : s[i] = x})
Copies(c)   == Count(chains[c], Rule(c))

\* An interface by its name, to the WAN policy or its LAN twin; the native WAN
\* once, the tunnel only by the project's own rule.
GoodRow(c, row) ==
    /\ row.on \in Ifaces /\ row.to \in {DISPATCH[c], "LAN"}
    /\ row.on = "native" => row.to = DISPATCH[c]
    /\ row.on = "tunnel" => row = Rule(c)

NativeOnce(rows) ==
    \E i \in DOMAIN rows : \A j \in DOMAIN rows : rows[j].on = "native" <=> j = i

\* Behind copies of the project's rule the DNS chain starts with the native RETURN.
GoodDns(rows) ==
    \E n \in 0 .. Len(rows) - 1 :
        /\ \A i \in 1 .. n : rows[i] = Rule(DNS_CHAIN)
        /\ rows[n + 1] = Row("native", "RETURN")
        /\ \A i \in n + 1 .. Len(rows) : rows[i].on # "tunnel"

\* Fault: a pattern is taken for the name of an interface.
Validate_Patterns ==
    /\ \A c \in DOMAIN GRAPH : chains[c] = Layout[c]
    /\ GoodDns(chains[DNS_CHAIN])
    /\ \A c \in DOMAIN DISPATCH :
        /\ \A i \in DOMAIN chains[c] : chains[c][i].on = "pattern" \/ GoodRow(c, chains[c][i])
        /\ NativeOnce(chains[c])

Validate ==
    /\ \A c \in DOMAIN GRAPH : chains[c] = Layout[c]
    /\ GoodDns(chains[DNS_CHAIN])
    /\ \A c \in DOMAIN DISPATCH :
        /\ \A i \in DOMAIN chains[c] : GoodRow(c, chains[c][i])
        /\ NativeOnce(chains[c])

Act(c, cmd) == [chain |-> c, cmd |-> cmd]

\* Fault: the RETURN goes behind the rules it has to precede.
Adding_Last(c) == "append"

\* insert_first, and the same for the copy that an inverse puts back.
Adding(c) == IF c = DNS_CHAIN THEN "insert" ELSE "append"

\* Fault: what a duplicate's inverse puts back goes to the end of the chain.
Reverted_Last(a) == Act(a.chain, IF a.cmd = "delete" THEN "append" ELSE "delete")

Reverted(a) == Act(a.chain, IF a.cmd = "delete" THEN Adding(a.chain) ELSE "delete")

\* Missing rules first, then copies, both in the order of rules().
InOrder(acts) == acts[DNS_CHAIN] \o acts["FORWARD_IN_USER"] \o acts["FORWARD_OUT_USER"] \o acts["INPUT_USER_HOOK"]
Missing == InOrder([c \in Owned |-> IF Copies(c) = 0 THEN <<Act(c, Adding(c))>> ELSE <<>>])

\* Fault: every copy is taken for one too many.
Spare_All == InOrder([c \in Owned |-> [i \in 1 .. Copies(c) |-> Act(c, "delete")]])

Spare == InOrder([c \in Owned |-> [i \in 1 .. Copies(c) - 1 |-> Act(c, "delete")]])

Plan ==
    /\ run.pc = "idle"
    /\ run' = IF Validate THEN [Idle EXCEPT !.pc = "act", !.todo = Missing \o Spare]
              ELSE [Idle EXCEPT !.outcome = "refused"]
    /\ hist' = [hist EXCEPT !.touched = FALSE, !.before = chains, !.stuck = FALSE]
    /\ UNCHANGED chains

\* iptables -D fails when there is nothing to delete.
Works(a) == a.cmd = "delete" => Copies(a.chain) > 0
Done(a)  == chains' = [chains EXCEPT ![a.chain] =
                CASE a.cmd = "insert" -> <<Rule(a.chain)>> \o @
                  [] a.cmd = "append" -> Append(@, Rule(a.chain))
                  [] OTHER            -> RemoveFirst(@, Rule(a.chain))]

\* The inverse of an action is remembered before it runs.
Remembered == [run EXCEPT !.undo = <<Reverted(Head(run.todo))>> \o @, !.todo = Tail(@)]
Raised     == [run EXCEPT !.rolling = TRUE,
                          !.undo = IF run.todo = <<>> THEN @ ELSE <<Reverted(Head(run.todo))>> \o @]

Apply ==
    /\ run.pc = "act" /\ ~run.rolling /\ run.todo # <<>>
    /\ IF Works(Head(run.todo)) THEN Done(Head(run.todo)) /\ run' = Remembered
       ELSE run' = Raised /\ UNCHANGED chains
    /\ UNCHANGED hist

\* The health check validates again and looks for every rule.
HealthCheck ==
    /\ run.pc = "act" /\ ~run.rolling /\ run.todo = <<>>
    /\ run' = IF Validate /\ \A c \in Owned : Copies(c) > 0
              THEN [Idle EXCEPT !.outcome = "healthy"] ELSE Raised
    /\ UNCHANGED <<chains, hist>>

Undo ==
    /\ run.rolling /\ run.undo # <<>>
    /\ IF Works(Head(run.undo)) THEN Done(Head(run.undo)) ELSE UNCHANGED chains
    /\ run' = [run EXCEPT !.undo = Tail(@),
                          !.outcome = IF Works(Head(run.undo)) THEN @ ELSE "rollback-failed"]
    /\ UNCHANGED hist

\* Another inverse fails, as the xtables lock is held for too long or a signal
\* arrives, before or after its effect; the rollback goes on (core.py 875-876).
UndoFails ==
    /\ run.rolling /\ run.undo # <<>> /\ Works(Head(run.undo)) /\ hist.faults < MaxFaults
    /\ run' = [run EXCEPT !.undo = Tail(@), !.outcome = "rollback-failed"]
    /\ \/ Done(Head(run.undo)) /\ hist' = [hist EXCEPT !.faults = @ + 1]
       \/ UNCHANGED chains /\ hist' = [hist EXCEPT !.faults = @ + 1, !.stuck = TRUE]

RolledBack ==
    /\ run.rolling /\ run.undo = <<>>
    /\ run' = [Idle EXCEPT !.outcome = IF run.outcome = "none" THEN "rolled-back" ELSE run.outcome]
    /\ UNCHANGED <<chains, hist>>

\* A signal or a failing command: before the inverse of the next action is
\* remembered, or after.
Interrupted ==
    /\ run.pc = "act" /\ ~run.rolling /\ hist.faults < MaxFaults
    /\ run' \in {Raised, [run EXCEPT !.rolling = TRUE]}
    /\ hist' = [hist EXCEPT !.faults = @ + 1] /\ UNCHANGED chains

(* Others *****************************************************************)

\* What comes up in a chain, beside another copy of the project's rule.
Foreign(c) ==
    CASE c \in DOMAIN GRAPH -> {Row("any", "ACCEPT"), Row("any", "RETURN")}
      [] c = DNS_CHAIN      -> {Row("any", "ACCEPT"), Row("native", "RETURN"), Row("pattern", "RETURN"), Rule(c)}
      [] OTHER              -> {Row("any", "RETURN"), Row("pattern", "LAN"), Row("lan", DISPATCH[c]),
                                Row("native", "LAN"), Row("tunnel", DISPATCH[c]), Rule(c)}

\* UniFi rebuilds all chains without the project's rules; somebody adds a rule,
\* or deletes the project's.
Edit ==
    /\ hist.edits < MaxEdits /\ hist' = [hist EXCEPT !.edits = @ + 1, !.touched = TRUE]
    /\ \/ chains' = Layout
       \/ \E c \in Chains : \E row \in Foreign(c) :
              \E new \in {<<row>> \o chains[c], Append(chains[c], row)} : chains' = [chains EXCEPT ![c] = new]
       \/ \E c \in Owned : Copies(c) > 0 /\ Done(Act(c, "delete"))
    /\ UNCHANGED run

Step == Plan \/ Apply \/ HealthCheck \/ Undo \/ RolledBack
Next == Step \/ Interrupted \/ UndoFails \/ Edit
Spec == Init /\ [][Next]_vars

\* The timer starts run after run.
FairSpec == Spec /\ WF_vars(Step)
-----------------------------------------------------------------------------
(* Properties *************************************************************)

Rows(c)  == {Layout[c][i] : i \in DOMAIN Layout[c]} \cup Foreign(c)
IsRules(cs) == cs \in [Chains -> Seq(UNION {Rows(c) : c \in Chains})] /\ \A c \in Chains : cs[c] \in Seq(Rows(c))
Actions == [chain : Owned, cmd : {"insert", "append", "delete"}]

\* A transaction that nobody disturbs does what its plan says and passes the
\* health check: it never rolls back.
TypeOK ==
    /\ IsRules(chains)
    /\ run \in [pc : {"idle", "act"}, todo : Seq(Actions), undo : Seq(Actions), rolling : BOOLEAN,
                outcome : {"none", "healthy", "refused", "rolled-back", "rollback-failed"}]
    /\ hist \in [edits : 0 .. MaxEdits, touched : BOOLEAN, before : {hist.before}, faults : 0 .. MaxFaults,
                stuck : BOOLEAN]
    /\ IsRules(hist.before)
    /\ run.rolling => hist.touched \/ hist.faults > 0

\* "healthy" means that every packet of the tunnel meets the policies a packet of
\* the native WAN meets, in their order, and no verdict before them (guide.md
\* 76-78): the texts that validate accepts (wan_policy.py 57-93) mean that, for
\* the traversal of the chains.
HealthyIsFiltered == [][run.pc = "act" /\ run'.outcome = "healthy" => Filtered]_vars

\* A rollback leaves the layout acceptable to the next plan, and all packets on the
\* path they had, if nobody else edited it: the first place in the DNS chain is kept
\* (core.py 771).  So does one with an inverse that finds nothing to delete, as its
\* action never ran.  Inverses that really fail change the paths of the tunnel's
\* own packets at most.
RollbackKeepsPaths ==
    [][run.rolling /\ run'.pc = "idle" /\ ~hist.touched =>
          /\ Validate
          /\ \A p \in Packets :
                Path(chains, p) = Path(hist.before, p) \/ (hist.stuck /\ "tunnel" \in {p.in, p.out})]_vars

\* After the last edit the rules are in place, once each and effective, and stay,
\* unless validate refuses the layout.
EventuallyFiltered == <>[](~Validate \/ (Filtered /\ \A c \in Owned : Copies(c) = 1))
=============================================================================
