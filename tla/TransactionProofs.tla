------------------------- MODULE TransactionProofs -------------------------
(* Proofs about Transaction, for every set of processes, endpoints, LANs   *)
(* and every bound on the faults.                                          *)
EXTENDS Transaction, FiniteSetTheorems, SequenceTheorems, TLAPS

(* The operators of the planner *******************************************)

\* Cells, which are not the wish to keep a slot.
LEMMA CellFacts == /\ Absent \in Cell /\ On \in Cell /\ Alien \in Cell /\ Nat \subseteq Cell
                   /\ Keep \notin Cell /\ Endpoint \subseteq Cell
                   /\ Alien # Absent /\ Alien # On /\ Absent # On
                   /\ Absent \notin Endpoint /\ Alien \notin Endpoint
BY PlannerAssumption DEF Cell, Absent, On

\* The tunnel, what lives on it, and what lives elsewhere.
LEMMA SlotFacts ==
    /\ Tunnel \in Slot /\ OnTunnel \subseteq Slot /\ Bare \subseteq OnTunnel /\ Firewall \subseteq Slot
    /\ Tunnel \notin OnTunnel /\ OnTunnel \cap Callback = {} /\ Tunnel \notin Callback
    /\ Tunnel \notin Firewall /\ OnTunnel \cap Firewall = {} /\ Address \cap Firewall = {}
    /\ Contested \cap Firewall = {} /\ Tunnel \notin Address /\ Tunnel \notin Contested
    /\ \A e \in Endpoint : /\ EndpointAddr(e) # Tunnel /\ OuterRule(e) # Tunnel
                           /\ EndpointAddr(e) \notin Bare /\ OuterRule(e) \notin Bare
BY DEF Slot, Tunnel, OnTunnel, Bare, Callback, RouterSlots, Alias, FixedIPv4, Link, Firewall,
       DefaultRoute, Enrolment, LocalRule, Monitor, EndpointAddr, OuterRule, Mss, Snat, Address,
       Contested, SourceRule, PolicyRule

\* What slots of each nature can hold.
LEMMA CellOfFacts ==
    /\ CellOf(Tunnel) = Endpoint \cup {Absent}
    /\ \A s \in Slot : /\ Absent \in CellOf(s)
                       /\ s # Tunnel => On \in CellOf(s)
                       /\ s \in Firewall => CellOf(s) = Nat
                       /\ s \in OnTunnel \ {Alias} => CellOf(s) = {Absent, On}
                       /\ s \in Address => CellOf(s) = {Absent, On}
                       /\ s \in Contested => CellOf(s) = {Absent, On, Alien}
                       /\ CellOf(s) \subseteq Cell
<1>1. Absent \in Nat /\ On \in Nat
  BY DEF Absent, On
<1>2. \A s \in OnTunnel \cup Address : s \notin Contested
  BY DEF OnTunnel, Address, Contested, Alias, FixedIPv4, Link, DefaultRoute, EndpointAddr,
         SourceRule, PolicyRule, LocalRule, RouterSlots, Enrolment, Monitor
<1>3. \A s \in Address : s # Alias
  BY DEF Address, Alias, EndpointAddr
<1> QED
  BY <1>1, <1>2, <1>3, SlotFacts, CellFacts DEF CellOf

\* A network, and what changing one slot of it needs.
LEMMA NetFacts ==
    ASSUME NEW n \in Net
    PROVE  n \in [Slot -> Cell] /\ \A s \in Slot : n[s] \in CellOf(s)
BY DEF Net

\* An empty network is one.
LEMMA EmptyNetType == EmptyNet \in Net
BY CellFacts, CellOfFacts DEF EmptyNet, Net

\* What setting a slot makes of the slots.
LEMMA PutAt ==
    ASSUME NEW n, NEW s \in Slot, NEW v, NEW t \in Slot
    PROVE  Put(n, s, v)[t] = IF t = s THEN v
                             ELSE IF s = Tunnel /\ v = Absent /\ t \in OnTunnel THEN Absent
                             ELSE n[t]
BY DEF Put

\* Setting a slot to what it can hold leaves a network.
LEMMA PutType ==
    ASSUME NEW n \in Net, NEW s \in Slot, NEW v \in CellOf(s)
    PROVE  Put(n, s, v) \in Net
<1>1. n \in [Slot -> Cell] /\ \A t \in Slot : n[t] \in CellOf(t)
  BY NetFacts
<1>2. \A t \in Slot : Put(n, s, v)[t] \in CellOf(t)
  BY <1>1, CellOfFacts, PutAt
<1>3. Put(n, s, v) \in [Slot -> Cell]
  BY <1>1, CellOfFacts, CellFacts DEF Put
<1> QED
  BY <1>2, <1>3 DEF Net

\* A command of a plan, and the inverse of one.
LEMMA CommandFacts ==
    ASSUME NEW c \in Command
    PROVE  /\ c.slot \in Slot /\ c.from \in CellOf(c.slot) /\ c.to \in CellOf(c.slot)
           /\ c.from # c.to /\ c.to # Alien
           /\ c.slot = Tunnel => c.to # Absent
           /\ c.slot \in Bare => c.to = On
           /\ c.slot \in Firewall =>
                 c.from \in Nat /\ c.to \in Nat /\ (c.from = c.to + 1 \/ (c.from = 0 /\ c.to = 1))
           /\ InverseOf(c).slot = c.slot /\ InverseOf(c).from = c.to /\ InverseOf(c).to = c.from
           /\ InverseOf(c) \in Undoing
<1>1. c.slot \in Slot /\ c.from \in CellOf(c.slot) /\ c.to \in CellOf(c.slot)
      /\ c.from \in Cell /\ c.to \in Cell
  BY DEF Command
<1>2. c.slot \in Firewall => c.from \in Nat /\ c.to \in Nat
  BY <1>1, CellOfFacts
<1>3. InverseOf(InverseOf(c)) = c /\ InverseOf(c) \in [slot : Slot, from : Cell, to : Cell]
  BY <1>1 DEF InverseOf, Command
<1> QED
  BY <1>1, <1>2, <1>3 DEF Command, Undoing, InverseOf

\* An inverse leads back to a cell of its slot.
LEMMA UndoingFacts ==
    ASSUME NEW i \in Undoing
    PROVE  /\ i.slot \in Slot /\ i.from \in CellOf(i.slot) /\ i.to \in CellOf(i.slot)
           /\ i.from # i.to /\ i.from # Alien
           /\ i.slot = Tunnel => i.from # Absent
           /\ i.slot \in Firewall =>
                 i.from \in Nat /\ i.to \in Nat /\ (i.to = i.from + 1 \/ (i.to = 0 /\ i.from = 1))
<1> DEFINE c == InverseOf(i)
<1>1. c \in Command /\ c.slot = i.slot /\ c.from = i.to /\ c.to = i.from
  BY DEF Undoing, InverseOf
<1> HIDE DEF c
<1> QED
  BY <1>1, CommandFacts

\* A command that works leaves a network; of a firewall rule it makes one copy
\* more or less, and any other slot it sets.
LEMMA EffectType ==
    ASSUME NEW n \in Net, NEW c \in Command \cup Undoing, Works(n, c)
    PROVE  /\ Effect(n, c) \in Net
           /\ Effect(n, c) = Put(n, c.slot, Result(n, c))
           /\ Result(n, c) \in CellOf(c.slot)
           /\ c.slot \notin Firewall => Result(n, c) = c.to
<1>1. c.slot \in Slot /\ c.to \in CellOf(c.slot)
  BY CommandFacts, UndoingFacts
<1>2. CASE c.slot \in Firewall
  <2>1. n[c.slot] \in Nat /\ CellOf(c.slot) = Nat
    BY <1>1, <1>2, NetFacts, CellOfFacts
  <2>2. c.to > c.from \/ n[c.slot] > 0
    BY <1>2 DEF Works
  <2>3. Result(n, c) \in Nat
    BY <1>2, <2>1, <2>2 DEF Result
  <2> QED
    BY <1>1, <1>2, <2>1, <2>3, PutType DEF Effect
<1>3. CASE c.slot \notin Firewall
  <2>1. Result(n, c) = c.to
    BY <1>3 DEF Result
  <2> QED
    BY <1>1, <1>3, <2>1, PutType DEF Effect
<1> QED
  BY <1>2, <1>3

\* What a plan wants is a cell of the slot, or to leave it; it wants the tunnel,
\* and nothing that is not its own.
LEMMA GoalType ==
    ASSUME NEW e \in Endpoint, NEW old, NEW n \in Net
    PROVE  /\ Goal(e, old, n) \in [Slot -> Cell \cup {Keep}]
           /\ \A s \in Slot : /\ Goal(e, old, n)[s] \in CellOf(s) \cup {Keep}
                              /\ Goal(e, old, n)[s] # Alien
                              /\ s = Tunnel => Goal(e, old, n)[s] = e /\ e # Absent /\ e # Keep
                              /\ s \in Bare => Goal(e, old, n)[s] = On
                              /\ s \in Firewall /\ Goal(e, old, n)[s] # Keep =>
                                    \/ Goal(e, old, n)[s] = On
                                    \/ Goal(e, old, n)[s] \in Nat /\ Goal(e, old, n)[s] <= n[s]
<1> DEFINE g == Goal(e, old, n)
<1>1. e # Absent /\ e # Keep /\ e # Alien /\ Keep # Alien /\ e \in CellOf(Tunnel)
  BY PlannerAssumption, CellOfFacts DEF Absent
<1>2. ASSUME NEW s \in Slot
      PROVE  /\ g[s] \in CellOf(s) \cup {Keep} /\ g[s] # Alien
             /\ s = Tunnel => g[s] = e
             /\ s \in Bare => g[s] = On
             /\ s \in Firewall /\ g[s] # Keep => g[s] = On \/ (g[s] \in Nat /\ g[s] <= n[s])
  <2>1. CASE s = Tunnel
    BY <1>1, <2>1, SlotFacts DEF Goal
  <2>2. CASE s # Tunnel /\ s = OuterRule(old) /\ s # OuterRule(e)
    <3>1. s \in Firewall
      BY <2>2 DEF Slot, OuterRule, Firewall, OnTunnel, Contested, RouterSlots, Address, Tunnel, Alias,
         FixedIPv4, Link, DefaultRoute, Enrolment, LocalRule, Monitor, EndpointAddr, SourceRule,
         PolicyRule, Connected, Mss, Snat
    <3>2. n[s] \in Nat /\ CellOf(s) = Nat /\ Alien \notin Nat /\ s \notin Bare /\ s \notin Address
      BY <3>1, NetFacts, CellOfFacts, PlannerAssumption, SlotFacts
    <3>3. g[s] = IF n[s] > 0 THEN n[s] - 1 ELSE Absent
      BY <2>2, <3>2 DEF Goal, OuterRule, EndpointAddr
    <3> QED
      BY <2>2, <3>1, <3>2, <3>3 DEF Absent
  <2>3. CASE s # Tunnel /\ ~(s = OuterRule(old) /\ s # OuterRule(e))
    <3>1. /\ g[s] \in {On, Absent, Keep}
          /\ g[s] = Absent => s = EndpointAddr(old)
          /\ s \in Bare => g[s] = On
      BY <2>3, CellFacts DEF Goal, Bare, Alias, Link, EndpointAddr, OuterRule, Address
    <3>2. s \in Firewall => s # EndpointAddr(old)
      BY DEF Firewall, Mss, Snat, OuterRule, EndpointAddr
    <3> QED
      BY <1>1, <2>3, <3>1, <3>2, CellOfFacts, CellFacts
  <2> QED
    BY <2>1, <2>2, <2>3
<1>3. g \in [Slot -> Cell \cup {Keep}]
  <2>1. g = [s \in Slot |-> g[s]]
    BY DEF Goal
  <2>2. \A s \in Slot : g[s] \in Cell \cup {Keep}
    BY <1>2, CellOfFacts
  <2> HIDE DEF g
  <2> QED
    BY <2>1, <2>2
<1> QED
  BY <1>1, <1>2, <1>3

\* The commands for one slot: none, one, or one for each superfluous copy.
LEMMA StepsFacts ==
    ASSUME NEW s \in Slot, NEW from \in CellOf(s), NEW to \in CellOf(s) \cup {Keep}
    PROVE  /\ Steps(s, from, to) = {} <=> to \in {Keep, from}
           /\ \A c \in Steps(s, from, to) : c.slot = s
           /\ s \in Firewall /\ to # Keep /\ from > to =>
                 Steps(s, from, to) = {[slot |-> s, from |-> k + 1, to |-> k] : k \in to .. (from - 1)}
           /\ to \notin {Keep, from} /\ ~(s \in Firewall /\ from > to) =>
                 Steps(s, from, to) = {[slot |-> s, from |-> from, to |-> to]}
           /\ IsFiniteSet(Steps(s, from, to))
<1> DEFINE S == Steps(s, from, to)
           one == [slot |-> s, from |-> from, to |-> to]
           all == {[slot |-> s, from |-> k + 1, to |-> k] : k \in to .. (from - 1)}
<1>0. s \in Firewall => from \in Nat
  BY CellOfFacts
<1>1. CASE to \in {Keep, from}
  <2>1. S = {} /\ IsFiniteSet(S)
    BY <1>1, FS_EmptySet DEF Steps
  <2>2. ~(s \in Firewall /\ to # Keep /\ from > to)
    BY <1>0, <1>1
  <2> QED
    BY <1>1, <2>1, <2>2
<1>2. CASE to \notin {Keep, from} /\ ~(s \in Firewall /\ from > to)
  <2>1. S = {one} /\ IsFiniteSet(S)
    <3>1. S = {one}
      BY <1>2 DEF Steps
    <3> QED
      BY <3>1, FS_Singleton
  <2>2. one.slot = s
    OBVIOUS
  <2> HIDE DEF one, S
  <2> QED
    BY <1>2, <2>1, <2>2 DEF one, S
<1>3. CASE to \notin {Keep, from} /\ s \in Firewall /\ from > to
  <2>1. from \in Nat /\ to \in Nat
    BY <1>3, CellOfFacts
  <2>2. S = all
    BY <1>3 DEF Steps
  <2>3. to \in to .. (from - 1)
    BY <1>3, <2>1
  <2>4. IsFiniteSet(to .. (from - 1))
    BY <2>1, FS_Interval
  <2>5. IsFiniteSet(all)
    <3> DEFINE K == to .. (from - 1)
               T == {[slot |-> s, from |-> k + 1, to |-> k] : k \in K}
               f == [k \in K |-> [slot |-> s, from |-> k + 1, to |-> k]]
    <3>1. f \in Surjection(K, T)
      BY DEF Surjection
    <3> HIDE DEF K, T, f
    <3> QED
      BY <2>4, <3>1, FS_Surjection DEF K, T
  <2>6. all # {} /\ \A c \in all : c.slot = s
    <3>1. [slot |-> s, from |-> to + 1, to |-> to] \in all
      BY <2>3
    <3>2. \A c \in all : c.slot = s
      OBVIOUS
    <3> QED
      BY <3>1, <3>2
  <2> HIDE DEF all, S
  <2> QED
    BY <1>3, <2>2, <2>5, <2>6 DEF all, S
<1> QED
  BY <1>1, <1>2, <1>3

\* The commands of a plan are commands, and as many as can be counted.
LEMMA CommandsType ==
    ASSUME NEW e \in Endpoint, NEW old, NEW n \in Net
    PROVE  LET goal == Goal(e, old, n)
           IN  /\ Commands(goal, n) \in SUBSET Command
               /\ IsFiniteSet(Commands(goal, n)) /\ Cardinality(Commands(goal, n)) \in Nat
               /\ \A s \in Slot : {c \in Commands(goal, n) : c.slot = s} = Steps(s, n[s], goal[s])
<1> DEFINE goal == Goal(e, old, n)
<1>1. \A s \in Slot : n[s] \in CellOf(s) /\ goal[s] \in CellOf(s) \cup {Keep}
  BY NetFacts, GoalType
<1>2. ASSUME NEW s \in Slot PROVE Steps(s, n[s], goal[s]) \subseteq Command
  <2> DEFINE from == n[s]
             to   == goal[s]
  <2>0. /\ s = Tunnel => to # Absent
        /\ s \in Bare => to = On
        /\ to # Alien
        /\ s \in Firewall /\ to # Keep => to = On \/ (to \in Nat /\ to <= from)
        /\ s \in Firewall => from \in Nat
    BY <1>2, GoalType, NetFacts, CellOfFacts
  <2>1. from \in CellOf(s) /\ to \in CellOf(s) \cup {Keep} /\ CellOf(s) \subseteq Cell
    BY <1>1, CellOfFacts
  <2>2. s \in Firewall => s # Tunnel /\ s \notin Bare /\ CellOf(s) = Nat
    BY SlotFacts, CellOfFacts
  <2> HIDE DEF goal, from, to
  <2>3. CASE to \in {Keep, from}
    BY <2>1, <2>3, StepsFacts DEF from, to
  <2>4. CASE to \notin {Keep, from} /\ ~(s \in Firewall /\ from > to)
    <3>1. s \in Firewall => from = 0 /\ to = 1
      BY <2>0, <2>4 DEF On
    <3>2. [slot |-> s, from |-> from, to |-> to] \in Command
      BY <2>0, <2>1, <2>4, <3>1 DEF Command
    <3>3. Steps(s, from, to) = {[slot |-> s, from |-> from, to |-> to]}
      BY <2>1, <2>4, StepsFacts
    <3> QED
      BY <3>2, <3>3 DEF from, to
  <2>5. CASE to \notin {Keep, from} /\ s \in Firewall /\ from > to
    <3>1. from \in Nat /\ to \in Nat
      BY <2>0, <2>1, <2>2, <2>5
    <3>2. ASSUME NEW k \in to .. (from - 1)
          PROVE  [slot |-> s, from |-> k + 1, to |-> k] \in Command
      <4>1. k \in Nat /\ k + 1 \in Nat /\ Alien \notin Nat
        BY <3>1, PlannerAssumption
      <4> QED
        BY <2>1, <2>2, <2>5, <4>1 DEF Command
    <3>3. Steps(s, from, to) = {[slot |-> s, from |-> k + 1, to |-> k] : k \in to .. (from - 1)}
      BY <2>1, <2>5, StepsFacts
    <3> QED
      BY <3>2, <3>3 DEF from, to
  <2> QED
    BY <2>3, <2>4, <2>5
<1> DEFINE f == [s \in Slot |-> Steps(s, n[s], goal[s])]
           R == {Steps(s, n[s], goal[s]) : s \in Slot}
<1>3. Commands(goal, n) = UNION R
  BY DEF Commands
<1>4. \A s \in Slot : /\ \A c \in Steps(s, n[s], goal[s]) : c.slot = s
                      /\ IsFiniteSet(Steps(s, n[s], goal[s]))
  BY <1>1, StepsFacts
<1> HIDE DEF goal
<1>5. IsFiniteSet(UNION R)
  <2>1. f \in Surjection(Slot, R)
    BY DEF Surjection
  <2>2. \A T \in R : IsFiniteSet(T)
    BY <1>4
  <2> HIDE DEF f, R
  <2>3. IsFiniteSet(R)
    BY <2>1, SlotAssumption, FS_Surjection
  <2> QED
    BY <2>2, <2>3, FS_UNION
<1>6. \A s \in Slot : {c \in UNION R : c.slot = s} = Steps(s, n[s], goal[s])
  BY <1>4
<1>7. UNION R \in SUBSET Command
  BY <1>2
<1> QED
  BY <1>3, <1>5, <1>6, <1>7, FS_CardinalityType DEF goal

\* The number of replans is a number.
LEMMA SettleRoundsType == \A slots : SettleRounds(slots) \in Nat
BY DEF SettleRounds

\* An idle process has an empty transaction.
LEMMA NoTxType == NoTx \in Tx
<1>1. EmptyNet \in [Slot -> Cell \cup {Keep}]
  BY EmptyNetType, NetFacts
<1> QED
  BY <1>1, EmptyNetType, EmptySeq DEF NoTx, Tx, Reason

\* Faults are counted.
LEMMA FaultType ==
    ASSUME NEW k \in Kind, faults \in [Kind -> Nat], Fault(k)
    PROVE  faults' \in [Kind -> Nat]
BY DEF Fault

\* What is pushed makes the inverses a sequence of inverses.
LEMMA PushInverseType ==
    ASSUME NEW t \in Tx, NEW c \in Command
    PROVE  PushInverse(t, c) \in Seq(Undoing)
<1>1. InverseOf(c) \in Undoing /\ t.inverses \in Seq(Undoing)
  BY CommandFacts DEF Tx
<1> QED
  BY <1>1, AppendProperties DEF PushInverse

\* The latest inverse, and those before it.
LEMMA PopType ==
    ASSUME NEW t \in Tx, Len(t.inverses) > 0
    PROVE  /\ Len(t.inverses) \in Nat
           /\ t.inverses[Len(t.inverses)] \in Undoing
           /\ SubSeq(t.inverses, 1, Len(t.inverses) - 1) \in Seq(Undoing)
<1>1. t.inverses \in Seq(Undoing)
  BY DEF Tx
<1>2. Len(t.inverses) \in Nat /\ \A i \in 1 .. Len(t.inverses) : t.inverses[i] \in Undoing
  BY <1>1, LenProperties, ElementOfSeq
<1> QED
  BY <1>2, SubSeqProperties
(* Types ******************************************************************)

\* The fields of a record of locals, and what assigning some of them keeps.
LEMMA TxFields ==
    ASSUME NEW t \in Tx
    PROVE  /\ t.todo \in SUBSET Command /\ t.seen \in Net
           /\ t.goal \in [Slot -> Cell \cup {Keep}]
           /\ t.local \in Endpoint \cup {None} /\ t.old \in Endpoint \cup {None}
           /\ t.reason \in Reason /\ t.rounds \in Nat /\ t.broken \in BOOLEAN
           /\ t.inverses \in Seq(Undoing) /\ t.kept \in SUBSET Firewall
BY DEF Tx

\* A transaction that gets a reason changes nothing else.
LEMMA TxReason ==
    ASSUME NEW t \in Tx, NEW why \in Reason
    PROVE  LET u == [t EXCEPT !.reason = why]
           IN  u \in Tx /\ u.todo = t.todo /\ u.goal = t.goal /\ u.inverses = t.inverses
               /\ u.local = t.local /\ u.broken = t.broken /\ u.kept = t.kept
BY DEF Tx

\* A transaction that loses an inverse keeps its plan.
LEMMA TxInverses ==
    ASSUME NEW t \in Tx, NEW list \in Seq(Undoing)
    PROVE  LET u == [t EXCEPT !.inverses = list]
               v == [t EXCEPT !.inverses = list, !.broken = TRUE]
           IN  /\ u \in Tx /\ u.todo = t.todo /\ u.goal = t.goal
               /\ v \in Tx /\ v.todo = t.todo /\ v.goal = t.goal
BY DEF Tx

\* A process that notes a reason keeps the types.
LEMMA TxStepReason ==
    ASSUME TypeOK, NEW p \in Proc, NEW why \in Reason,
           tx' = [tx EXCEPT ![p] = [tx[p] EXCEPT !.reason = why]]
    PROVE  tx' \in [Proc -> Tx]
<1>1. tx \in [Proc -> Tx]
  BY DEF TypeOK
<1>2. [tx[p] EXCEPT !.reason = why] \in Tx
  BY <1>1, TxReason
<1> QED
  BY <1>1, <1>2

\* What a command that failed makes of the locals.
LEMMA TxFailed ==
    ASSUME NEW t \in Tx, NEW list \in Seq(Undoing), NEW kept \in SUBSET Firewall,
           NEW why \in Reason
    PROVE  LET u == [[t EXCEPT !.inverses = list] EXCEPT !.reason = why]
               v == [[t EXCEPT !.inverses = list, !.kept = kept] EXCEPT !.reason = why]
           IN  /\ u \in Tx /\ u.inverses = list /\ u.kept = t.kept
               /\ v \in Tx /\ v.inverses = list /\ v.kept = kept
               /\ \A w \in {u, v} : /\ w.broken = t.broken /\ w.local = t.local /\ w.old = t.old
                                    /\ w.todo = t.todo /\ w.goal = t.goal /\ w.seen = t.seen
BY DEF Tx

\* Every variable has its type at the start.
LEMMA InitTypeOK == Init => TypeOK
<1> SUFFICES ASSUME Init PROVE TypeOK
  OBVIOUS
<1>1. tx \in [Proc -> Tx]
  BY NoTxType DEF Init
<1>2. faults \in [Kind -> Nat] /\ pc \in [Proc -> PCs]
  BY DEF Init, PCs
<1>3. /\ before \in Net /\ net \in Net
      /\ journal \in [status : Reason \cup {"none", "applying", "verified"},
                      total : Nat, completed : Nat]
  BY EmptyNetType DEF Init
<1> QED
  BY <1>1, <1>2, <1>3 DEF Init, TypeOK

\* Others leave in a slot what it can hold.
LEMMA DriftType ==
    ASSUME NEW s \in Slot, NEW v \in DriftTo(s)
    PROVE  v \in CellOf(s)
<1>1. 0 .. MaxCopies \subseteq Nat /\ Absent \in Nat
  BY DEF Absent
<1>2. s = Alias => s \notin Firewall /\ s # Tunnel
  BY DEF Alias, Firewall, Mss, Snat, OuterRule, Tunnel
<1> QED
  BY <1>1, <1>2, CellOfFacts, SlotFacts DEF DriftTo, CellOf

\* Every step keeps the types.
LEMMA NextTypeOK == TypeOK /\ [Next]_vars => TypeOK'
<1> SUFFICES ASSUME TypeOK, [Next]_vars PROVE TypeOK'
  OBVIOUS
<1> USE DEF TypeOK, PCs, Applying, Committed, Failing
<1>1. ASSUME UNCHANGED vars PROVE TypeOK'
  BY <1>1 DEF vars, world, files, history
<1>2. ASSUME NEW p \in Proc, Start(p) PROVE TypeOK'
  BY <1>2 DEF Start, Goto, world, files, history
<1>3. ASSUME NEW p \in Proc, Plan(p) PROVE TypeOK'
  <2> DEFINE goal   == Goal(prefix, runtime, net)
             todo   == Commands(goal, net)
             rounds == SettleRounds(Changes(goal, net))
             t == [NoTx EXCEPT !.local = prefix, !.old = runtime, !.seen = net, !.goal = goal,
                               !.todo = todo, !.rounds = rounds]
  <2>1. /\ goal \in [Slot -> Cell \cup {Keep}] /\ rounds \in Nat
        /\ todo \in SUBSET Command /\ Cardinality(todo) \in Nat
    BY GoalType, CommandsType, SettleRoundsType
  <2>2. tx' = [tx EXCEPT ![p] = t]
    BY <1>3 DEF Plan
  <2>3. /\ pc' = [pc EXCEPT ![p] = "apply"] /\ before' = net
        /\ journal' = [status |-> "applying", total |-> Cardinality(todo), completed |-> 0]
    BY <1>3 DEF Plan, Goto
  <2> HIDE DEF goal, todo, rounds
  <2>4. t \in Tx
    BY <2>1, NoTxType DEF Tx, NoTx
  <2> HIDE DEF t
  <2>5. /\ journal' \in [status : Reason \cup {"none", "applying", "verified"},
                         total : Nat, completed : Nat]
        /\ pc' \in [Proc -> PCs] /\ before' \in Net /\ tx' \in [Proc -> Tx]
    BY <2>1, <2>2, <2>3, <2>4
  <2> QED
    BY <1>3, <2>5 DEF Plan, world
<1>4. ASSUME NEW p \in Proc, Refuse(p) PROVE TypeOK'
  <2>1. faults' \in [Kind -> Nat]
    BY <1>4, FaultType DEF Refuse, Refusal, Kind
  <2>2. tx' \in [Proc -> Tx]
    <3> PICK why \in Reason : tx' = [tx EXCEPT ![p] = [tx[p] EXCEPT !.reason = why]]
      BY <1>4 DEF Refuse
    <3> QED
      BY TxStepReason
  <2> QED
    BY <1>4, <2>1, <2>2 DEF Refuse, Goto, world, files
<1>5. ASSUME NEW p \in Proc, Apply(p) PROVE TypeOK'
  <2> PICK c \in tx[p].todo :
        /\ Works(net, c) /\ net' = Effect(net, c)
        /\ tx' = [tx EXCEPT ![p].inverses = PushInverse(tx[p], c), ![p].todo = @ \ {c}]
    BY <1>5 DEF Apply
  <2>1. c \in Command /\ tx[p] \in Tx
    BY TxFields
  <2>2. net' \in Net
    BY <2>1, EffectType
  <2>3. tx' \in [Proc -> Tx]
    <3> DEFINE list == PushInverse(tx[p], c)
               todo == tx[p].todo \ {c}
               u == [tx[p] EXCEPT !.inverses = list, !.todo = todo]
    <3>1. tx' = [tx EXCEPT ![p] = u]
      OBVIOUS
    <3>2. todo \in SUBSET Command
      BY <2>1, TxFields
    <3>3. list \in Seq(Undoing)
      BY <2>1, PushInverseType
    <3> HIDE DEF list, todo
    <3>4. u \in Tx
      BY <2>1, <3>2, <3>3 DEF Tx
    <3> HIDE DEF u
    <3> QED
      BY <3>1, <3>4
  <2> QED
    BY <1>5, <2>2, <2>3 DEF Apply, history
<1>6. ASSUME NEW p \in Proc, ApplyFails(p) PROVE TypeOK'
  <2> PICK c \in tx[p].todo, why \in {"operation-failed", "interrupted"} :
        LET t == [tx[p] EXCEPT !.inverses = PushInverse(tx[p], c)]
            u == [tx[p] EXCEPT !.inverses = PushInverse(tx[p], c), !.kept = {c.slot}]
        IN  /\ net' = net \/ (Works(net, c) /\ net' = Effect(net, c))
            /\ faults' = faults \/ Fault("fail") \/ Fault("keep")
            /\ Fail(p, t, why) \/ (Deletes(c) /\ Fail(p, u, why))
    BY <1>6 DEF ApplyFails
  <2>1. c \in Command /\ tx[p] \in Tx /\ why \in Reason
    BY TxFields DEF Reason
  <2>2. net' \in Net
    BY <2>1, EffectType
  <2>3. faults' \in [Kind -> Nat]
    BY FaultType DEF Kind
  <2>4. tx' \in [Proc -> Tx]
    <3> DEFINE list == PushInverse(tx[p], c)
               kept == {c.slot}
               u == [[tx[p] EXCEPT !.inverses = list] EXCEPT !.reason = why]
               v == [[tx[p] EXCEPT !.inverses = list, !.kept = kept] EXCEPT !.reason = why]
    <3>1. list \in Seq(Undoing)
      BY <2>1, PushInverseType
    <3>2. tx' = [tx EXCEPT ![p] = u] \/ (kept \in SUBSET Firewall /\ tx' = [tx EXCEPT ![p] = v])
      BY DEF Fail, Deletes
    <3> HIDE DEF list, kept
    <3>3. u \in Tx /\ (kept \in SUBSET Firewall => v \in Tx)
      BY <2>1, <3>1, TxFailed, TxFields
    <3> HIDE DEF u, v
    <3> QED
      BY <3>2, <3>3
  <2> QED
    BY <1>6, <2>2, <2>3, <2>4 DEF ApplyFails, files, Fail, Goto
<1>7. ASSUME NEW p \in Proc, Settle(p) PROVE TypeOK'
  <2> DEFINE goal == Goal(prefix, runtime, net)
             todo == Commands(goal, net)
             u == [tx[p] EXCEPT !.local = prefix, !.seen = net, !.goal = goal, !.todo = todo,
                                !.rounds = @ - 1]
  <2>1. /\ goal \in [Slot -> Cell \cup {Keep}]
        /\ todo \in SUBSET Command /\ Cardinality(todo) \in Nat
    BY GoalType, CommandsType
  <2>2. tx' = [tx EXCEPT ![p] = u] /\ tx[p].rounds > 0
    BY <1>7 DEF Settle
  <2>3. journal' = [journal EXCEPT !.total = @ + Cardinality(todo)]
    BY <1>7 DEF Settle
  <2> HIDE DEF goal, todo
  <2>4. u \in Tx
    <3>1. tx[p] \in Tx /\ tx[p].rounds - 1 \in Nat
      BY <2>2, TxFields
    <3> QED
      BY <2>1, <3>1 DEF Tx
  <2> HIDE DEF u
  <2>5. /\ journal' \in [status : Reason \cup {"none", "applying", "verified"},
                         total : Nat, completed : Nat]
        /\ tx' \in [Proc -> Tx]
    BY <2>1, <2>2, <2>3, <2>4
  <2> QED
    BY <1>7, <2>5 DEF Settle, world
<1>8. ASSUME NEW p \in Proc, SettleFails(p) PROVE TypeOK'
  <2>1. faults' \in [Kind -> Nat]
    BY <1>8, FaultType DEF SettleFails, Refusal, Kind
  <2>2. tx' \in [Proc -> Tx]
    <3> PICK why \in Reason : tx' = [tx EXCEPT ![p] = [tx[p] EXCEPT !.reason = why]]
      BY <1>8 DEF SettleFails, Fail
    <3> QED
      BY TxStepReason
  <2> QED
    BY <1>8, <2>1, <2>2 DEF SettleFails, Fail, Goto, world, files
<1>9. ASSUME NEW p \in Proc, ApplyDone(p) \/ HealthPasses(p) \/ DecideNotify(p) PROVE TypeOK'
  BY <1>9 DEF ApplyDone, HealthPasses, DecideNotify, Goto, world, files, history
<1>10. ASSUME NEW p \in Proc, HealthFails(p) PROVE TypeOK'
  <2>1. faults' \in [Kind -> Nat]
    BY <1>10, FaultType DEF HealthFails, Kind
  <2>2. tx' \in [Proc -> Tx]
    <3>1. tx' = [tx EXCEPT ![p] = [tx[p] EXCEPT !.reason = "health-failed"]]
      BY <1>10 DEF HealthFails, Fail
    <3> QED
      BY <3>1, TxStepReason DEF Reason
  <2> QED
    BY <1>10, <2>1, <2>2 DEF HealthFails, Fail, Goto, world, files
<1>11. ASSUME NEW p \in Proc,
              WritePrevious(p) \/ WriteRuntime(p) \/ WriteHealthy(p) \/ ClearQuarantine(p)
       PROVE TypeOK'
  <2>1. tx[p].old \in Endpoint \cup {None} /\ tx[p].local \in Endpoint \cup {None}
    BY TxFields
  <2> QED
    BY <1>11, <2>1 DEF WritePrevious, WriteRuntime, WriteHealthy, ClearQuarantine, Goto, world,
                       history
<1>12. ASSUME NEW p \in Proc, FinishVerified(p) \/ FailJournal(p) PROVE TypeOK'
  <2>1. tx[p].reason \in Reason
    BY TxFields
  <2> QED
    BY <1>12, <2>1 DEF FinishVerified, FailJournal, Goto, world, history
<1>13. ASSUME NEW p \in Proc, NotifyProvider(p) \/ ForgetPending(p) \/ DeferNotification(p)
       PROVE TypeOK'
  <2>1. tx[p].local \in Endpoint \cup {None}
    BY TxFields
  <2>2. CASE NotifyProvider(p)
    BY <2>1, <2>2 DEF NotifyProvider, Goto, files, history
  <2>3. CASE ForgetPending(p) \/ DeferNotification(p)
    BY <2>3 DEF ForgetPending, DeferNotification, Goto, world, history
  <2> QED
    BY <1>13, <2>2, <2>3
<1>14. ASSUME NEW p \in Proc, NotifyFails(p) PROVE TypeOK'
  <2>1. faults' \in [Kind -> Nat]
    BY <1>14, FaultType DEF NotifyFails, Kind
  <2> QED
    BY <1>14, <2>1 DEF NotifyFails, Goto, world, files
<1>15. ASSUME NEW p \in Proc, Report(p) \/ Quarantine(p) PROVE TypeOK'
  <2>1. tx' \in [Proc -> Tx]
    BY <1>15, NoTxType DEF Report, Quarantine, Leave
  <2>2. quarantine' \in Reason \cup {"none"}
    BY <1>15 DEF Report, Quarantine, files, Tx
  <2> QED
    BY <1>15, <2>1, <2>2, EmptyNetType
    DEF Report, Quarantine, Leave, Goto, world, files
<1>16. ASSUME NEW p \in Proc, Raise(p) PROVE TypeOK'
  <2>1. faults' \in [Kind -> Nat]
    BY <1>16, FaultType DEF Raise, Kind
  <2>2. tx' \in [Proc -> Tx]
    <3>1. CASE UNCHANGED tx
      BY <3>1
    <3>2. ASSUME NEW why \in Reason, tx' = [tx EXCEPT ![p] = [tx[p] EXCEPT !.reason = why]]
          PROVE tx' \in [Proc -> Tx]
      BY <3>2, TxStepReason
    <3> QED
      BY <1>16, <3>1, <3>2 DEF Raise, Fail, Reason
  <2>3. pc' \in [Proc -> PCs]
    BY <1>16 DEF Raise, Fail, Goto
  <2> QED
    BY <1>16, <2>1, <2>2, <2>3 DEF Raise, world, files
<1>17. ASSUME NEW p \in Proc, Undo(p) \/ UndoFails(p) PROVE TypeOK'
  <2> DEFINE n == Len(tx[p].inverses)
             i == tx[p].inverses[n]
             rest == SubSeq(tx[p].inverses, 1, n - 1)
             u == [tx[p] EXCEPT !.inverses = rest]
             v == [tx[p] EXCEPT !.inverses = rest, !.broken = TRUE]
  <2>1. i \in Undoing /\ rest \in Seq(Undoing)
    BY <1>17, PopType DEF Undo, UndoFails
  <2>2. /\ net' = net \/ (Works(net, i) /\ net' = Effect(net, i)) \/ net' = Effect(net, i)
        /\ tx' = [tx EXCEPT ![p] = u] \/ tx' = [tx EXCEPT ![p] = v]
        /\ faults' = faults \/ Fault("undo")
    BY <1>17 DEF Undo, UndoFails, history
  <2>3. net' = net \/ (Works(net, i) /\ net' = Effect(net, i))
    BY <1>17 DEF Undo, UndoFails
  <2> HIDE DEF i, rest
  <2>4. net' \in Net
    BY <2>1, <2>3, EffectType
  <2>5. u \in Tx /\ v \in Tx
    BY <2>1, TxInverses
  <2> HIDE DEF u, v
  <2>6. tx' \in [Proc -> Tx] /\ faults' \in [Kind -> Nat]
    BY <2>2, <2>5, FaultType DEF Kind
  <2> QED
    BY <1>17, <2>4, <2>6 DEF Undo, UndoFails, files, history
<1>19. ASSUME NEW p \in Proc, RollbackDone(p) PROVE TypeOK'
  <2>1. tx' \in [Proc -> Tx]
    <3> DEFINE why == IF tx[p].broken THEN "rollback-failed" ELSE tx[p].reason
    <3>1. tx' = [tx EXCEPT ![p] = [tx[p] EXCEPT !.reason = why]]
      BY <1>19 DEF RollbackDone
    <3>2. why \in Reason
      BY TxFields DEF Reason
    <3> QED
      BY <3>1, <3>2, TxStepReason
  <2> QED
    BY <1>19, <2>1 DEF RollbackDone, Goto, world, files, history
<1>20. ASSUME NEW p \in Proc, RecordFailure(p) PROVE TypeOK'
  BY <1>20 DEF RecordFailure, Goto, world, history, Tx
<1>21. ASSUME NEW p \in Proc, Die(p) PROVE TypeOK'
  <2>1. faults' \in [Kind -> Nat]
    BY <1>21, FaultType DEF Die, Kind
  <2>2. tx' \in [Proc -> Tx]
    BY <1>21, NoTxType DEF Die, Leave, NoTx
  <2> QED
    BY <1>21, <2>1, <2>2, EmptyNetType DEF Die, Leave, Goto, world, files
<1>22. ASSUME Drift PROVE TypeOK'
  <2> PICK s \in Fragile : \E v \in DriftTo(s) :
        /\ Fault("drift")
        /\ net' = Put(net, s, v)
        /\ \/ UNCHANGED <<disturbed, unsettled>>
           \/ /\ disturbed' = disturbed \cup Touched(s)
              /\ unsettled' = unsettled \cup Touched(s)
    BY <1>22 DEF Drift
  <2> PICK v \in DriftTo(s) :
        /\ Fault("drift")
        /\ net' = Put(net, s, v)
        /\ \/ UNCHANGED <<disturbed, unsettled>>
           \/ /\ disturbed' = disturbed \cup Touched(s)
              /\ unsettled' = unsettled \cup Touched(s)
    OBVIOUS
  <2>1. s \in Slot
    BY ProcAssumption
  <2>2. v \in CellOf(s)
    BY <2>1, DriftType
  <2>3. net' \in Net /\ faults' \in [Kind -> Nat]
    BY <2>1, <2>2, PutType, FaultType DEF Kind
  <2>4. disturbed' \in SUBSET Slot /\ unsettled' \in SUBSET Slot
    BY <2>1 DEF Touched, Slot
  <2> QED
    BY <1>22, <2>3, <2>4 DEF Drift, files
<1>23. ASSUME MovePrefix PROVE TypeOK'
  <2>1. faults' \in [Kind -> Nat]
    BY <1>23, FaultType DEF MovePrefix, Kind
  <2> QED
    BY <1>23, <2>1 DEF MovePrefix, files
<1>24. ASSUME Reboot PROVE TypeOK'
  <2>1. faults' \in [Kind -> Nat]
    BY <1>24, FaultType DEF Reboot, Kind
  <2>2. tx' \in [Proc -> Tx]
    BY <1>24, NoTxType DEF Reboot, NoTx
  <2>3. net' \in Net
    <3>1. net' = [s \in Slot |-> IF s \in Callback THEN net[s] ELSE Absent]
      BY <1>24 DEF Reboot
    <3>2. \A s \in Slot : net'[s] \in CellOf(s) /\ net'[s] \in Cell
      BY <3>1, NetFacts, CellOfFacts, CellFacts
    <3> QED
      BY <3>1, <3>2 DEF Net
  <2> QED
    BY <1>24, <2>1, <2>2, <2>3, EmptyNetType DEF Reboot, files
<1> QED
  BY <1>1, <1>2, <1>3, <1>4, <1>5, <1>6, <1>7, <1>8, <1>9, <1>10, <1>11, <1>12, <1>13, <1>14,
     <1>15, <1>16, <1>17, <1>19, <1>20, <1>21, <1>22, <1>23, <1>24
  DEF Next, Step, Forward, Commit, Rollback

\* Every variable keeps its type in every behaviour.
THEOREM TypeCorrect == Spec => []TypeOK
<1> QED
  BY InitTypeOK, NextTypeOK, PTL DEF Spec

(* One transaction at a time **********************************************)

\* Whoever is between entering and returning holds the lock.
LockInv == \A p \in Proc : pc[p] # "idle" => lock = p

\* While one process is inside, the others are outside.
LEMMA OthersIdle ==
    ASSUME LockInv, NEW p \in Proc, pc[p] # "idle", NEW q \in Proc, q # p
    PROVE  pc[q] = "idle"
BY DEF LockInv

\* A process that moves is inside; it alone moves, and it gives the lock back
\* exactly when it leaves.
LEMMA StepShape ==
    ASSUME TypeOK, NEW p \in Proc, Step(p) \/ Raise(p) \/ Die(p)
    PROVE  /\ pc[p] # "idle"
           /\ \E label \in PCs : pc' = [pc EXCEPT ![p] = label]
           /\ lock' = lock \/ (lock' = Nobody /\ pc'[p] = "idle")
<1> USE DEF Goto
<1>1. pc = [pc EXCEPT ![p] = pc[p]] /\ pc[p] \in PCs
  BY DEF TypeOK
<1> SUFFICES ASSUME pc \in [Proc -> PCs]
             PROVE  /\ pc[p] # "idle"
                    /\ \/ UNCHANGED pc
                       \/ \E label \in PCs : pc' = [pc EXCEPT ![p] = label]
                    /\ lock' = lock \/ (lock' = Nobody /\ pc'[p] = "idle")
  BY <1>1 DEF TypeOK
<1> USE DEF PCs, Applying, Committed, Failing
<1>2. CASE Plan(p) \/ Refuse(p) \/ ApplyDone(p) \/ HealthPasses(p)
  BY <1>2 DEF Plan, Refuse, ApplyDone, HealthPasses
<1>3. CASE Apply(p) \/ Settle(p) \/ Undo(p) \/ UndoFails(p)
  BY <1>3 DEF Apply, Settle, Undo, UndoFails
<1>4. CASE ApplyFails(p) \/ SettleFails(p) \/ HealthFails(p)
  BY <1>4 DEF ApplyFails, SettleFails, HealthFails, Fail
<1>5. CASE WritePrevious(p) \/ WriteRuntime(p) \/ WriteHealthy(p) \/ ClearQuarantine(p)
  BY <1>5 DEF WritePrevious, WriteRuntime, WriteHealthy, ClearQuarantine
<1>6. CASE FinishVerified(p) \/ DecideNotify(p) \/ NotifyProvider(p) \/ NotifyFails(p)
  BY <1>6 DEF FinishVerified, DecideNotify, NotifyProvider, NotifyFails
<1>7. CASE ForgetPending(p) \/ DeferNotification(p)
  BY <1>7 DEF ForgetPending, DeferNotification
<1>8. CASE RollbackDone(p) \/ FailJournal(p) \/ RecordFailure(p)
  BY <1>8 DEF RollbackDone, FailJournal, RecordFailure
<1>9. CASE Report(p) \/ Quarantine(p) \/ Die(p)
  BY <1>9 DEF Report, Quarantine, Die, Leave
<1>10. CASE Raise(p)
  BY <1>10 DEF Raise, Fail
<1> QED
  BY <1>2, <1>3, <1>4, <1>5, <1>6, <1>7, <1>8, <1>9, <1>10 DEF Step, Forward, Commit, Rollback

\* The lock is free and nobody runs at the start.
LEMMA InitLockInv == Init => LockInv
BY DEF Init, LockInv

\* Every step keeps whoever runs the holder of the lock.
LEMMA NextLockInv == TypeOK /\ LockInv /\ [Next]_vars => LockInv'
<1> SUFFICES ASSUME TypeOK, LockInv, [Next]_vars PROVE LockInv'
  OBVIOUS
<1>1. ASSUME UNCHANGED vars PROVE LockInv'
  BY <1>1 DEF vars, LockInv
<1>2. ASSUME NEW p \in Proc, Start(p) PROVE LockInv'
  <2>1. \A q \in Proc : pc[q] = "idle"
    BY <1>2, ProcAssumption DEF Start, LockInv
  <2> QED
    BY <1>2, <2>1 DEF Start, Goto, LockInv, TypeOK
<1>3. ASSUME NEW p \in Proc, Step(p) \/ Raise(p) \/ Die(p) PROVE LockInv'
  <2>1. /\ pc[p] # "idle"
        /\ lock' = lock \/ (lock' = Nobody /\ pc'[p] = "idle")
    BY <1>3, StepShape
  <2>2. PICK label \in PCs : pc' = [pc EXCEPT ![p] = label]
    BY <1>3, StepShape
  <2>3. \A q \in Proc : q # p => pc[q] = "idle" /\ pc'[q] = "idle"
    BY <2>1, <2>2, OthersIdle DEF TypeOK
  <2> QED
    BY <2>1, <2>2, <2>3 DEF LockInv
<1>4. ASSUME Drift \/ MovePrefix PROVE LockInv'
  BY <1>4 DEF Drift, MovePrefix, LockInv
<1>5. ASSUME Reboot PROVE LockInv'
  BY <1>5 DEF Reboot, LockInv
<1> QED
  BY <1>1, <1>2, <1>3, <1>4, <1>5 DEF Next

\* flock admits one reconcile at a time, for any number of processes and
\* whatever fails, dies or reboots.
THEOREM LockExcludes == Spec => []OneTransaction
<1>1. LockInv => OneTransaction
  BY DEF LockInv, OneTransaction
<1> QED
  BY <1>1, InitTypeOK, NextTypeOK, InitLockInv, NextLockInv, PTL DEF Spec

(* Faults *****************************************************************)

\* A fault is counted, and no count is ever taken back.
LEMMA FaultCounts ==
    ASSUME TypeOK, NEW kind \in Kind, Fault(kind)
    PROVE  faults'[kind] # 0 /\ \A k \in Kind : faults'[k] = 0 => faults[k] = 0
BY DEF Fault, TypeOK

\* A kind of fault that has not occurred had not before.
LEMMA FaultsGrow ==
    ASSUME TypeOK, [Next]_vars, NEW k \in Kind, faults'[k] = 0
    PROVE  faults[k] = 0
<1>0. (faults' = faults \/ \E kind \in Kind : Fault(kind)) => faults[k] = 0
  BY FaultCounts
<1> USE DEF Kind, history, Leave
<1>1. CASE UNCHANGED vars
  BY <1>0, <1>1 DEF vars
<1>2. ASSUME NEW p \in Proc, Start(p) \/ Forward(p) PROVE faults[k] = 0
  BY <1>0, <1>2 DEF Start, Forward, Plan, Refuse, Refusal, Apply, ApplyFails, Settle, SettleFails,
                    ApplyDone, HealthPasses, HealthFails
<1>3. ASSUME NEW p \in Proc, Commit(p) PROVE faults[k] = 0
  BY <1>0, <1>3 DEF Commit, WritePrevious, WriteRuntime, WriteHealthy, ClearQuarantine,
                    FinishVerified, DecideNotify, NotifyProvider, NotifyFails, ForgetPending,
                    DeferNotification, Report
<1>4. ASSUME NEW p \in Proc, Rollback(p) \/ Raise(p) \/ Die(p) PROVE faults[k] = 0
  BY <1>0, <1>4 DEF Rollback, Undo, UndoFails, RollbackDone, FailJournal, RecordFailure, Quarantine,
                    Raise, Die
<1>5. CASE Drift \/ MovePrefix \/ Reboot
  BY <1>0, <1>5 DEF Drift, MovePrefix, Reboot
<1> QED
  BY <1>1, <1>2, <1>3, <1>4, <1>5 DEF Next, Step

(* The commands left to run ***********************************************)

Of(todo, s) == {c \in todo : c.slot = s}

\* The commands left lead every slot that nobody has touched since the latest
\* plan from where it is to where the plan wants it.
WorkAt(p) ==
    pc[p] \in Applying \cup Committed =>
        /\ \A s \in Slot : tx[p].goal[s] \in CellOf(s) \cup {Keep}
        /\ \A s \in Slot \ unsettled : Of(tx[p].todo, s) = Steps(s, net[s], tx[p].goal[s])
        /\ pc[p] # "apply" => tx[p].todo = {}

WorkInv == unsettled \subseteq disturbed /\ \A p \in Proc : WorkAt(p)

\* The command whose turn it is starts where its slot is, and those after it
\* where it ends.
LEMMA NextCommand ==
    ASSUME NEW t \in Tx, NEW n \in Net, NEW c \in t.todo, IsNext(t, c),
           t.goal[c.slot] \in CellOf(c.slot) \cup {Keep},
           Of(t.todo, c.slot) = Steps(c.slot, n[c.slot], t.goal[c.slot])
    PROVE  /\ c.from = n[c.slot]
           /\ Of(t.todo \ {c}, c.slot) = Steps(c.slot, c.to, t.goal[c.slot])
<1> DEFINE s    == c.slot
           from == n[s]
           to   == t.goal[s]
<1>1. c \in Command /\ s \in Slot
  BY TxFields, CommandFacts
<1>2. from \in CellOf(s) /\ to \in CellOf(s) \cup {Keep} /\ c \in Steps(s, from, to)
      /\ c.to \in CellOf(s)
  BY <1>1, NetFacts, CommandFacts DEF Of
<1>3. Of(t.todo, s) = Steps(s, from, to) /\ Of(t.todo \ {c}, s) = Of(t.todo, s) \ {c}
  BY DEF Of
<1>4. to \notin {Keep, from}
  BY <1>1, <1>2, StepsFacts
<1>5. s \in Firewall => \A other \in Of(t.todo, s) : other.from <= c.from
  BY DEF IsNext, Of
<1> HIDE DEF s, from, to
<1>6. CASE ~(s \in Firewall /\ from > to)
  <2>1. Steps(s, from, to) = {[slot |-> s, from |-> from, to |-> to]}
    BY <1>1, <1>2, <1>4, <1>6, StepsFacts
  <2>2. c = [slot |-> s, from |-> from, to |-> to]
    BY <1>2, <2>1
  <2>3. c.from = from /\ c.to = to
    BY <2>2
  <2>4. Steps(s, to, to) = {}
    BY <1>1, <1>2, <1>4, StepsFacts
  <2> QED
    BY <1>3, <2>1, <2>2, <2>3, <2>4 DEF s, from, to
<1>7. CASE s \in Firewall /\ from > to
  <2>1. from \in Nat /\ to \in Nat
    BY <1>1, <1>2, <1>4, <1>7, CellOfFacts
  <2>2. Steps(s, from, to) = {[slot |-> s, from |-> k + 1, to |-> k] : k \in to .. (from - 1)}
    BY <1>1, <1>2, <1>4, <1>7, StepsFacts
  <2>3. PICK k \in to .. (from - 1) : c = [slot |-> s, from |-> k + 1, to |-> k]
    BY <1>2, <2>2
  <2>4. [slot |-> s, from |-> (from - 1) + 1, to |-> from - 1] \in Of(t.todo, s)
    BY <1>3, <1>7, <2>1, <2>2
  <2>5. (from - 1) + 1 <= c.from /\ c.from = k + 1 /\ c.to = k /\ k \in Int
    BY <1>5, <1>7, <2>1, <2>3, <2>4
  <2>6. k = from - 1 /\ c.from = from /\ c.to = from - 1
    BY <2>1, <2>3, <2>5
  <2>7. Steps(s, from, to) \ {c} = {[slot |-> s, from |-> j + 1, to |-> j] : j \in to .. (from - 2)}
    <3>1. \A j \in to .. (from - 2) : /\ j \in to .. (from - 1)
                                      /\ [slot |-> s, from |-> j + 1, to |-> j] # c
      <4> TAKE j \in to .. (from - 2)
      <4>1. j # k /\ j \in to .. (from - 1)
        BY <2>1, <2>6
      <4>2. [slot |-> s, from |-> j + 1, to |-> j].to = j /\ c.to = k
        BY <2>3
      <4> QED
        BY <4>1, <4>2
    <3>2. \A j \in to .. (from - 1) : j = k \/ j \in to .. (from - 2)
      BY <2>1, <2>6
    <3> QED
      BY <2>2, <2>3, <3>1, <3>2
  <2>8. Steps(s, from - 1, to) = {[slot |-> s, from |-> j + 1, to |-> j] : j \in to .. (from - 2)}
    <3>0. from - 1 \in CellOf(s) /\ (from - 1) - 1 = from - 2
      BY <1>1, <1>2, <2>5, <2>6, <2>1
    <3>1. CASE from - 1 = to
      <4>1. to .. (from - 2) = {}
        BY <2>1, <3>1
      <4>2. Steps(s, from - 1, to) = {}
        BY <1>1, <1>2, <3>0, <3>1, StepsFacts
      <4> QED
        BY <4>1, <4>2
    <3>2. CASE from - 1 > to
      BY <1>1, <1>2, <1>4, <1>7, <3>0, <3>2, StepsFacts
    <3> QED
      BY <1>7, <2>1, <3>1, <3>2
  <2> QED
    BY <1>3, <2>6, <2>7, <2>8 DEF s, from, to
<1> QED
  BY <1>6, <1>7

\* A command that works where it was meant to leaves its slot as meant, and the
\* others alone.
LEMMA EffectAt ==
    ASSUME NEW n \in Net, NEW c \in Command, Works(n, c)
    PROVE  /\ \A x \in Slot : x # c.slot => Effect(n, c)[x] = n[x]
           /\ c.from = n[c.slot] => Effect(n, c)[c.slot] = c.to
           /\ c.slot \notin Firewall => Effect(n, c)[c.slot] = c.to
           /\ c.slot \in Firewall => Effect(n, c)[c.slot] =
                 IF c.to > c.from THEN n[c.slot] + 1 ELSE n[c.slot] - 1
<1>1. c.slot \in Slot /\ (c.slot = Tunnel => c.to # Absent)
  BY CommandFacts
<1>2. /\ Effect(n, c) = Put(n, c.slot, Result(n, c))
      /\ c.slot \notin Firewall => Result(n, c) = c.to
  BY EffectType
<1>3. \A x \in Slot : x # c.slot => Effect(n, c)[x] = n[x]
  BY <1>1, <1>2, SlotFacts, PutAt
<1>4. Effect(n, c)[c.slot] = Result(n, c)
  <2> DEFINE s == c.slot
             v == Result(n, c)
  <2>1. s \in Slot /\ Effect(n, c) = Put(n, s, v)
    BY <1>1, <1>2
  <2> HIDE DEF s, v
  <2>2. Put(n, s, v)[s] = v
    BY <2>1, PutAt
  <2> QED
    BY <2>1, <2>2 DEF s, v
<1>5. c.slot \in Firewall /\ c.from = n[c.slot] => Result(n, c) = c.to
  BY CommandFacts DEF Result
<1> QED
  BY <1>2, <1>3, <1>4, <1>5 DEF Result

\* What a drift of one slot touches.
LEMMA TouchedFacts ==
    ASSUME NEW s \in Slot
    PROVE  /\ s \in Touched(s) /\ (s = Tunnel => OnTunnel \subseteq Touched(s))
           /\ Tunnel \in Touched(s) => s = Tunnel
<1>1. CASE s = Tunnel
  BY <1>1, SlotFacts DEF Touched
<1>2. CASE s # Tunnel
  BY <1>2 DEF Touched
<1> QED
  BY <1>1, <1>2

\* Setting a slot leaves alone what it does not touch.
LEMMA PutElsewhere ==
    ASSUME NEW n, NEW s \in Slot, NEW v, NEW x \in Slot, x \notin Touched(s)
    PROVE  Put(n, s, v)[x] = n[x]
<1>1. x # s /\ (s = Tunnel => x \notin OnTunnel)
  BY TouchedFacts
<1> QED
  BY <1>1, PutAt

\* A drift is felt where it touches only, and by nobody at rest.
LEMMA DriftFacts ==
    ASSUME TypeOK, Drift
    PROVE  \E s \in Slot :
              /\ \E v \in CellOf(s) : net' = Put(net, s, v) /\ (s \in OnTunnel => net[Tunnel] # Absent)
              /\ \A x \in Slot \ Touched(s) : net'[x] = net[x]
              /\ \/ AtRest /\ UNCHANGED <<disturbed, unsettled>>
                 \/ /\ disturbed' = disturbed \cup Touched(s)
                    /\ unsettled' = unsettled \cup Touched(s)
              /\ UNCHANGED <<lock, pc, tx, prefix, told, files, before, torn>> /\ Fault("drift")
<1>0. PICK s \in Fragile : \E v \in DriftTo(s) :
         /\ Fault("drift") /\ net' = Put(net, s, v) /\ (s \in OnTunnel => net[Tunnel] # Absent)
         /\ \/ AtRest /\ UNCHANGED <<disturbed, unsettled>>
            \/ /\ disturbed' = disturbed \cup Touched(s)
               /\ unsettled' = unsettled \cup Touched(s)
  BY DEF Drift
<1>1. PICK v \in DriftTo(s) :
         /\ Fault("drift") /\ net' = Put(net, s, v) /\ (s \in OnTunnel => net[Tunnel] # Absent)
         /\ \/ AtRest /\ UNCHANGED <<disturbed, unsettled>>
            \/ /\ disturbed' = disturbed \cup Touched(s)
               /\ unsettled' = unsettled \cup Touched(s)
  BY <1>0
<1>2. s \in Slot /\ v \in CellOf(s)
  BY ProcAssumption, DriftType
<1>3. \A x \in Slot \ Touched(s) : net'[x] = net[x]
  BY <1>1, <1>2, PutElsewhere
<1>4. UNCHANGED <<lock, pc, tx, prefix, told, files, before, torn>>
  BY DEF Drift
<1> QED
  BY <1>1, <1>2, <1>3, <1>4

\* Nothing is left to run at the start.
LEMMA InitWorkInv == Init => WorkInv
BY DEF Init, WorkInv, WorkAt, Applying, Committed

\* A plan, or a replan, leaves its own commands to run.
LEMMA PlanWork ==
    ASSUME TypeOK, NEW p \in Proc, Plan(p) \/ Settle(p)
    PROVE  WorkAt(p)' /\ unsettled' = {}
<1> DEFINE goal == Goal(prefix, runtime, net)
           todo == Commands(goal, net)
<1>1. tx'[p].goal = goal /\ tx'[p].todo = todo
  <2>1. CASE Plan(p)
    BY <2>1 DEF Plan, TypeOK, NoTx
  <2>2. CASE Settle(p)
    BY <2>2 DEF Settle, TypeOK, Tx
  <2> QED
    BY <2>1, <2>2
<1>2. pc'[p] = "apply" /\ unsettled' = {} /\ net' = net
  BY DEF Plan, Settle, Goto, world, TypeOK
<1>3. /\ \A s \in Slot : goal[s] \in CellOf(s) \cup {Keep}
      /\ \A s \in Slot : Of(todo, s) = Steps(s, net[s], goal[s])
  BY GoalType, CommandsType DEF TypeOK, Of
<1> HIDE DEF goal, todo
<1> QED
  BY <1>1, <1>2, <1>3 DEF WorkAt

\* A command that has run is not left to run.
LEMMA ApplyWork ==
    ASSUME TypeOK, NEW p \in Proc, WorkAt(p), Apply(p)
    PROVE  WorkAt(p)'
<1> DEFINE t == tx[p]
<1>1. PICK c \in t.todo :
        /\ IsNext(t, c) /\ Works(net, c) /\ net' = Effect(net, c)
        /\ tx' = [tx EXCEPT ![p].inverses = PushInverse(t, c), ![p].todo = @ \ {c}]
  BY DEF Apply
<1>2. t \in Tx /\ net \in Net /\ c \in Command /\ c.slot \in Slot
  BY TxFields, CommandFacts DEF TypeOK
<1>3. pc[p] = "apply" /\ pc'[p] = "apply" /\ unsettled' = unsettled
  BY DEF Apply, history
<1>4. tx'[p].goal = t.goal /\ tx'[p].todo = t.todo \ {c}
  BY <1>1 DEF TypeOK, Tx
<1>5. /\ \A s \in Slot : t.goal[s] \in CellOf(s) \cup {Keep}
      /\ \A s \in Slot \ unsettled : Of(t.todo, s) = Steps(s, net[s], t.goal[s])
  BY <1>3 DEF WorkAt, Applying
<1> HIDE DEF t
<1>6. ASSUME NEW s \in Slot \ unsettled
      PROVE  Of(t.todo \ {c}, s) = Steps(s, net'[s], t.goal[s])
  <2>1. CASE s = c.slot
    <3>1. c.from = net[s] /\ Of(t.todo \ {c}, s) = Steps(s, c.to, t.goal[s])
      BY <1>1, <1>2, <1>5, <2>1, NextCommand
    <3>2. net'[s] = c.to
      BY <1>1, <1>2, <2>1, <3>1, EffectAt
    <3> QED
      BY <3>1, <3>2
  <2>2. CASE s # c.slot
    <3>1. net'[s] = net[s]
      BY <1>1, <1>2, <2>2, EffectAt
    <3>2. Of(t.todo \ {c}, s) = Of(t.todo, s)
      BY <2>2 DEF Of
    <3> QED
      BY <1>5, <3>1, <3>2
  <2> QED
    BY <2>1, <2>2
<1> QED
  BY <1>3, <1>4, <1>5, <1>6 DEF WorkAt

\* After the commands nothing is left to run.
LEMMA LaterWork ==
    ASSUME TypeOK, NEW p \in Proc, WorkAt(p),
           Step(p) \/ Raise(p) \/ Die(p), ~Plan(p), ~Settle(p), ~Apply(p)
    PROVE  WorkAt(p)'
<1> USE DEF TypeOK, Goto, Applying, Committed
<1>1. \/ pc'[p] \notin Applying \cup Committed
      \/ /\ pc[p] \in Applying \cup Committed /\ pc'[p] # "apply"
         /\ UNCHANGED <<tx, net, unsettled>> /\ (pc[p] = "apply" => tx[p].todo = {})
  <2>1. CASE Refuse(p) \/ ApplyFails(p) \/ SettleFails(p) \/ HealthFails(p)
    BY <2>1 DEF Refuse, ApplyFails, SettleFails, HealthFails, Fail
  <2>2. CASE ApplyDone(p) \/ HealthPasses(p) \/ Raise(p)
    BY <2>2 DEF ApplyDone, HealthPasses, Raise, Fail, world, history
  <2>3. CASE WritePrevious(p) \/ WriteRuntime(p) \/ WriteHealthy(p) \/ ClearQuarantine(p)
    BY <2>3 DEF WritePrevious, WriteRuntime, WriteHealthy, ClearQuarantine, world, history
  <2>4. CASE FinishVerified(p) \/ DecideNotify(p) \/ NotifyProvider(p) \/ NotifyFails(p)
    BY <2>4 DEF FinishVerified, DecideNotify, NotifyProvider, NotifyFails, world, history
  <2>5. CASE ForgetPending(p) \/ DeferNotification(p)
    BY <2>5 DEF ForgetPending, DeferNotification, world, history
  <2>6. CASE Undo(p) \/ UndoFails(p) \/ RollbackDone(p) \/ FailJournal(p) \/ RecordFailure(p)
    BY <2>6 DEF Undo, UndoFails, RollbackDone, FailJournal, RecordFailure
  <2>7. CASE Report(p) \/ Quarantine(p) \/ Die(p)
    BY <2>7 DEF Report, Quarantine, Die, Leave
  <2> QED
    BY <2>1, <2>2, <2>3, <2>4, <2>5, <2>6, <2>7 DEF Step, Forward, Commit, Rollback
<1> QED
  BY <1>1 DEF WorkAt

\* What is unsettled is disturbed.
LEMMA NextUnsettled ==
    ASSUME TypeOK, WorkInv, [Next]_vars
    PROVE  unsettled' \subseteq disturbed'
<1> USE DEF history, Leave, WorkInv
<1>1. CASE UNCHANGED vars
  BY <1>1 DEF vars
<1>2. ASSUME NEW p \in Proc, Start(p) \/ Forward(p) PROVE unsettled' \subseteq disturbed'
  BY <1>2 DEF Start, Forward, Plan, Refuse, Apply, ApplyFails, Settle, SettleFails,
              ApplyDone, HealthPasses, HealthFails
<1>3. ASSUME NEW p \in Proc, Commit(p) PROVE unsettled' \subseteq disturbed'
  BY <1>3 DEF Commit, WritePrevious, WriteRuntime, WriteHealthy, ClearQuarantine,
              FinishVerified, DecideNotify, NotifyProvider, NotifyFails, ForgetPending,
              DeferNotification, Report
<1>4. ASSUME NEW p \in Proc, Rollback(p) \/ Raise(p) \/ Die(p) PROVE unsettled' \subseteq disturbed'
  BY <1>4 DEF Rollback, Undo, UndoFails, RollbackDone, FailJournal, RecordFailure, Quarantine,
              Raise, Die
<1>5. CASE MovePrefix \/ Reboot
  BY <1>5 DEF MovePrefix, Reboot
<1>6. CASE Drift
  BY <1>6, DriftFacts
<1> QED
  BY <1>1, <1>2, <1>3, <1>4, <1>5, <1>6 DEF Next, Step

\* The step of one process leaves the others idle.
LEMMA OthersStayIdle ==
    ASSUME TypeOK, LockInv, NEW p \in Proc, Step(p) \/ Raise(p) \/ Die(p),
           NEW q \in Proc, q # p
    PROVE  pc[q] = "idle" /\ pc'[q] = "idle"
BY StepShape, OthersIdle DEF TypeOK

\* Every step keeps the commands left in accord with the network.
LEMMA NextWorkInv == TypeOK /\ LockInv /\ WorkInv /\ [Next]_vars => WorkInv'
<1> SUFFICES ASSUME TypeOK, LockInv, WorkInv, [Next]_vars PROVE \A q \in Proc : WorkAt(q)'
  BY NextUnsettled DEF WorkInv
<1> SUFFICES ASSUME NEW q \in Proc PROVE WorkAt(q)'
  OBVIOUS
<1>0. WorkAt(q)
  BY DEF WorkInv
<1>1. ASSUME pc'[q] \in {"idle", "plan"} PROVE WorkAt(q)'
  BY <1>1 DEF WorkAt, Applying, Committed
<1>2. ASSUME UNCHANGED <<pc, tx, net, unsettled>> PROVE WorkAt(q)'
  BY <1>0, <1>2 DEF WorkAt
<1>3. ASSUME NEW p \in Proc, Start(p) PROVE WorkAt(q)'
  <2>1. pc[p] = "idle" /\ pc' = [pc EXCEPT ![p] = "plan"] /\ UNCHANGED <<tx, net, unsettled>>
    BY <1>3 DEF Start, Goto, world, history
  <2>2. CASE q = p
    BY <1>1, <2>1, <2>2 DEF TypeOK
  <2>3. CASE q # p
    BY <1>0, <2>1, <2>3 DEF WorkAt, TypeOK
  <2> QED
    BY <2>2, <2>3
<1>4. ASSUME NEW p \in Proc, Step(p) \/ Raise(p) \/ Die(p) PROVE WorkAt(q)'
  <2>1. CASE q # p
    BY <1>1, <1>4, <2>1, OthersStayIdle
  <2>2. CASE q = p
    BY <1>0, <1>4, <2>2, PlanWork, ApplyWork, LaterWork
  <2> QED
    BY <2>1, <2>2
<1>5. CASE Drift
  <2>1. PICK s \in Slot :
           /\ \A x \in Slot \ Touched(s) : net'[x] = net[x]
           /\ AtRest \/ unsettled' = unsettled \cup Touched(s)
           /\ UNCHANGED <<pc, tx>>
    BY <1>5, DriftFacts
  <2>2. CASE AtRest
    BY <2>1, <2>2 DEF AtRest, WorkAt, Applying, Committed
  <2>3. CASE unsettled' = unsettled \cup Touched(s)
    BY <1>0, <2>1, <2>3 DEF WorkAt
  <2> QED
    BY <2>1, <2>2, <2>3
<1>6. CASE Reboot
  BY <1>1, <1>6 DEF Reboot
<1>7. CASE MovePrefix \/ UNCHANGED vars
  BY <1>2, <1>7 DEF MovePrefix, vars, world, history
<1> QED
  BY <1>3, <1>4, <1>5, <1>6, <1>7 DEF Next
(* Rollback ***************************************************************)

\* The list holds an inverse for the slot; it holds one that deletes the tunnel.
Has(list, s) == \E i \in DOMAIN list : list[i].slot = s
DropsTunnel(list) == \E i \in DOMAIN list : list[i].slot = Tunnel /\ list[i].to = Absent

\* The first and the last inverse of a slot, and two in a row.
First(list, i) == \A k \in 1 .. (i - 1) : list[k].slot # list[i].slot
Last(list, i) == \A k \in DOMAIN list : k > i => list[k].slot # list[i].slot
Joined(list, i, j) == /\ i < j /\ list[i].slot = list[j].slot
                      /\ \A k \in DOMAIN list : i < k /\ k < j => list[k].slot # list[j].slot

\* Nothing lives on a device that is not there.
WorldOK == net[Tunnel] = Absent => \A s \in OnTunnel : net[s] = Absent

\* A tunnel that is gone, but not by the hand of others, was not there.
TunnelKept == Tunnel \notin disturbed /\ net[Tunnel] = Absent => before[Tunnel] = Absent

\* The slots that nobody moves, nor takes along.
Free(moved) == Slot \ (moved \cup OnTunnel)

\* Running this list in reverse from network now leaves every slot that others
\* have not moved as it was: the first inverse of a slot, which runs last, leads
\* to the cell it had, each starts where the next one leads, and the last one at
\* the slot as it is, unless its command had no effect; a slot without an inverse
\* has not changed, or goes with the tunnel.
Restorable(list, now, was, moved, kept) ==
    /\ Tunnel \in moved => OnTunnel \subseteq moved
    /\ was[Tunnel] = Absent => \A s \in OnTunnel : was[s] = Absent
    /\ DropsTunnel(list) /\ Tunnel \notin moved => was[Tunnel] = Absent
    /\ \A s \in Slot \ moved :
          \/ Has(list, s)
          \/ now[s] = Left(kept, s, was[s])
          \/ s \in Bare /\ was[s] = Absent /\ now[s] = On /\ DropsTunnel(list)
    /\ \A i \in DOMAIN list :
          list[i].slot \notin moved /\ First(list, i) => list[i].to = was[list[i].slot]
    /\ \A i, j \in DOMAIN list :
          list[j].slot \in Free(moved) /\ Joined(list, i, j) => list[i].from = list[j].to
    /\ \A i \in DOMAIN list :
          list[i].slot \in Free(moved) /\ Last(list, i) =>
             \/ now[list[i].slot] = Left(kept, list[i].slot, list[i].from)
             \/ /\ now[list[i].slot] = list[i].to
                /\ list[i].slot \in Firewall => list[i].to = 0 /\ list[i].slot \notin kept

\* While commands run: they had their effect, and the tunnel comes first.
Applicable(t, now, moved) ==
    /\ \A i \in DOMAIN t.inverses :
          t.inverses[i].slot \in Free(moved) /\ Last(t.inverses, i) =>
             now[t.inverses[i].slot] = t.inverses[i].from
    /\ \A c \in t.todo : c.slot = Tunnel => c.from = t.seen[Tunnel]
    /\ t.seen[Tunnel] = Absent /\ Of(t.todo, Tunnel) = {} => DropsTunnel(t.inverses)

Restored(p) == \A s \in Slot \ disturbed : net[s] = Left(tx[p].kept, s, before[s])

\* No inverse has really failed.
Clean(p) == ~tx[p].broken \/ faults["undo"] = 0

\* What holds of a process at each place of reconcile.
RestoreAt(p) ==
    /\ pc[p] \in Applying \cup Committed \cup {"rollback"} /\ Clean(p) =>
          TunnelKept /\ Restorable(tx[p].inverses, net, before, disturbed, tx[p].kept)
    /\ pc[p] = "apply" => Applicable(tx[p], net, disturbed)
    /\ pc[p] \in {"failJournal", "failHealth", "failQuarantine"} /\ Clean(p) => Restored(p)
    /\ pc[p] \in {"idle", "plan"} \cup Applying \cup Committed => ~tx[p].broken /\ tx[p].kept = {}

RestoreInv == WorldOK /\ \A p \in Proc : RestoreAt(p)

\* Only firewall rules are kept, and none by most.
LEMMA LeftFacts ==
    /\ \A s, v : Left({}, s, v) = v
    /\ \A kept, s, v : s \notin kept => Left(kept, s, v) = v
    /\ \A kept, s, v : s \in kept => Left(kept, s, v) = v + 1
BY DEF Left

\* What lives on the tunnel stays absent while the tunnel is.
LEMMA PutWorldOK ==
    ASSUME WorldOK, NEW s \in Slot, NEW v, s \in OnTunnel => net[Tunnel] # Absent,
           net' = Put(net, s, v)
    PROVE  WorldOK'
<1>1. \A t \in OnTunnel : t \in Slot /\ t # Tunnel
  BY SlotFacts
<1>2. CASE s = Tunnel
  BY <1>1, <1>2, PutAt, SlotFacts DEF WorldOK
<1>3. CASE s # Tunnel
  <2>1. net'[Tunnel] = net[Tunnel]
    BY <1>3, PutAt, SlotFacts
  <2>2. ASSUME net[Tunnel] = Absent, NEW t \in OnTunnel PROVE net'[t] = Absent
    BY <1>1, <1>3, <2>2, PutAt DEF WorldOK
  <2> QED
    BY <2>1, <2>2 DEF WorldOK
<1> QED
  BY <1>2, <1>3

\* Also after a command, or an inverse.
LEMMA EffectWorldOK ==
    ASSUME WorldOK, net \in Net, NEW c \in Command \cup Undoing, Works(net, c), net' = Effect(net, c)
    PROVE  WorldOK'
<1> DEFINE s == c.slot
           v == Result(net, c)
<1>1. s \in Slot /\ net' = Put(net, s, v) /\ (s \in OnTunnel => net[Tunnel] # Absent)
  BY CommandFacts, UndoingFacts DEF Effect, Works
<1> HIDE DEF s, v
<1> QED
  BY <1>1, PutWorldOK

\* A fresh plan has nothing to undo.
LEMMA PlanRestorable ==
    ASSUME NEW now, now[Tunnel] = Absent => \A s \in OnTunnel : now[s] = Absent
    PROVE  Restorable(<<>>, now, now, {}, {})
<1>1. DOMAIN <<>> = {}
  OBVIOUS
<1>2. ~DropsTunnel(<<>>)
  BY <1>1 DEF DropsTunnel
<1> QED
  BY <1>1, <1>2, LeftFacts DEF Restorable

\* The list after the action for command c has pushed its inverse.
LEMMA PushFacts ==
    ASSUME NEW t \in Tx, NEW c \in Command
    PROVE  LET list == PushInverse(t, c)
               n    == Len(t.inverses)
           IN  /\ n \in Nat /\ DOMAIN t.inverses = 1 .. n
               /\ \/ c.slot \in Bare /\ t.seen[Tunnel] = Absent /\ list = t.inverses
                  \/ /\ c.slot \notin Bare \/ t.seen[Tunnel] # Absent
                     /\ DOMAIN list = 1 .. (n + 1)
                     /\ \A i \in 1 .. n : list[i] = t.inverses[i]
                     /\ list[n + 1].slot = c.slot /\ list[n + 1].to = c.from
                     /\ list[n + 1].from = c.to
<1> DEFINE e == InverseOf(c)
<1>1. /\ t.inverses \in Seq(Undoing) /\ e \in Undoing
      /\ e.slot = c.slot /\ e.to = c.from /\ e.from = c.to
  BY CommandFacts DEF Tx
<1>2. Len(t.inverses) \in Nat /\ DOMAIN t.inverses = 1 .. Len(t.inverses)
  BY <1>1, LenProperties
<1>3. CASE c.slot \in Bare /\ t.seen[Tunnel] = Absent
  BY <1>2, <1>3 DEF PushInverse
<1>4. CASE ~(c.slot \in Bare /\ t.seen[Tunnel] = Absent)
  <2>1. PushInverse(t, c) = Append(t.inverses, e)
    BY <1>4 DEF PushInverse
  <2> HIDE DEF e
  <2>2. /\ Append(t.inverses, e) \in Seq(Undoing)
        /\ Len(Append(t.inverses, e)) = Len(t.inverses) + 1
        /\ \A i \in 1 .. Len(t.inverses) : Append(t.inverses, e)[i] = t.inverses[i]
        /\ Append(t.inverses, e)[Len(t.inverses) + 1] = e
    BY <1>1, AppendProperties
  <2>3. DOMAIN Append(t.inverses, e) = 1 .. (Len(t.inverses) + 1)
    BY <2>2, LenProperties
  <2> QED
    BY <1>1, <1>2, <1>4, <2>1, <2>2, <2>3
<1> QED
  BY <1>3, <1>4

\* What the list of inverses has after a push.
LEMMA PushHas ==
    ASSUME NEW t \in Tx, NEW c \in Command
    PROVE  LET list == PushInverse(t, c)
           IN  /\ \A x \in Slot : Has(t.inverses, x) => Has(list, x)
               /\ DropsTunnel(t.inverses) => DropsTunnel(list)
               /\ c.slot \notin Bare \/ t.seen[Tunnel] # Absent => Has(list, c.slot)
               /\ DropsTunnel(list) => DropsTunnel(t.inverses)
                                        \/ (c.slot = Tunnel /\ c.from = Absent)
               /\ c.slot = Tunnel /\ c.from = Absent => DropsTunnel(list)
<1> DEFINE list == PushInverse(t, c)
           n    == Len(t.inverses)
<1>1. CASE c.slot \in Bare /\ t.seen[Tunnel] = Absent /\ list = t.inverses
  <2>1. c.slot # Tunnel
    BY <1>1, SlotFacts
  <2> HIDE DEF list
  <2>2. list = t.inverses
    BY <1>1
  <2> QED
    BY <1>1, <2>1, <2>2 DEF list
<1>2. CASE /\ c.slot \notin Bare \/ t.seen[Tunnel] # Absent
           /\ DOMAIN list = 1 .. (n + 1)
           /\ \A i \in 1 .. n : list[i] = t.inverses[i]
           /\ list[n + 1].slot = c.slot /\ list[n + 1].to = c.from
  <2> HIDE DEF list
  <2>1. n \in Nat /\ DOMAIN t.inverses = 1 .. n
    BY PushFacts
  <2>2. /\ \A i \in 1 .. n : i \in DOMAIN list /\ list[i] = t.inverses[i]
        /\ n + 1 \in DOMAIN list
        /\ \A i \in DOMAIN list : i = n + 1 \/ i \in 1 .. n
    BY <1>2, <2>1
  <2>3. \A x \in Slot : Has(t.inverses, x) => Has(list, x)
    BY <2>1, <2>2 DEF Has
  <2>4. DropsTunnel(t.inverses) => DropsTunnel(list)
    BY <2>1, <2>2 DEF DropsTunnel
  <2>5. Has(list, c.slot)
    BY <1>2, <2>2 DEF Has
  <2>6. DropsTunnel(list) => DropsTunnel(t.inverses) \/ (c.slot = Tunnel /\ c.from = Absent)
    BY <1>2, <2>1, <2>2 DEF DropsTunnel
  <2>7. c.slot = Tunnel /\ c.from = Absent => DropsTunnel(list)
    BY <1>2, <2>2 DEF DropsTunnel
  <2> QED
    BY <2>3, <2>4, <2>5, <2>6, <2>7 DEF list
<1> QED
  BY <1>1, <1>2, PushFacts

\* The tunnel is set up before what a new one gets without inverses.
LEMMA TunnelFirst ==
    ASSUME NEW t \in Tx, NEW c \in Command, c.slot \in Bare, IsNext(t, c)
    PROVE  Of(t.todo, Tunnel) = {}
<1>1. \A d : d.slot = Tunnel => Rank(d, t.local) = 2
  BY SlotFacts DEF Rank, Stage, Tunnel, EndpointAddr, OuterRule
<1>2. Rank(c, t.local) \in {3, 5}
  BY SlotFacts DEF Rank, Stage, Bare, Alias, Link, EndpointAddr, OuterRule
<1> QED
  BY <1>1, <1>2 DEF IsNext, Of

\* A list is another with one more inverse at its end, and what follows from it.
Longer(short, list, n) ==
    /\ \A i \in DOMAIN list : i \in DOMAIN short \/ i = n + 1
    /\ n + 1 \in DOMAIN list /\ \A i \in DOMAIN short : i \in DOMAIN list /\ list[i] = short[i]
    /\ \A i \in DOMAIN short : First(list, i) <=> First(short, i)
    /\ \A i, j \in DOMAIN short : Joined(list, i, j) <=> Joined(short, i, j)
    /\ \A i \in DOMAIN short :
          Last(list, i) <=> Last(short, i) /\ list[n + 1].slot # list[i].slot
    /\ \A i \in DOMAIN short :
          Joined(list, i, n + 1) <=> Last(short, i) /\ list[n + 1].slot = list[i].slot
    /\ \A i \in DOMAIN list : ~Joined(list, n + 1, i)
    /\ First(list, n + 1) <=> ~Has(short, list[n + 1].slot)
    /\ Last(list, n + 1)
    /\ \A s : Has(list, s) <=> Has(short, s) \/ list[n + 1].slot = s
    /\ DropsTunnel(list) <=> DropsTunnel(short)
                              \/ (list[n + 1].slot = Tunnel /\ list[n + 1].to = Absent)

\* It follows from the places of the list.
LEMMA LongerList ==
    ASSUME NEW short, NEW list, NEW n \in Nat, DOMAIN short = 1 .. n, DOMAIN list = 1 .. (n + 1),
           \A i \in 1 .. n : list[i] = short[i]
    PROVE  Longer(short, list, n)
<1>1. /\ \A i \in DOMAIN list : i \in DOMAIN short \/ i = n + 1
      /\ n + 1 \in DOMAIN list
      /\ \A i \in DOMAIN short : i \in DOMAIN list /\ i < n + 1 /\ list[i] = short[i]
  OBVIOUS
<1>2. \A i \in DOMAIN short : First(list, i) <=> First(short, i)
  <2> TAKE i \in DOMAIN short
  <2>1. \A k \in 1 .. (i - 1) : list[k] = short[k]
    OBVIOUS
  <2> QED
    BY <1>1, <2>1 DEF First
<1>3. \A i, j \in DOMAIN short : Joined(list, i, j) <=> Joined(short, i, j)
  <2> TAKE i, j \in DOMAIN short
  <2>1. \A k \in DOMAIN list : k < j => k \in DOMAIN short
    BY <1>1
  <2> QED
    BY <1>1, <2>1 DEF Joined
<1>4. \A i \in DOMAIN short : Last(list, i) <=> Last(short, i) /\ list[n + 1].slot # list[i].slot
  BY <1>1 DEF Last
<1>5. ASSUME NEW i \in DOMAIN short
      PROVE  Joined(list, i, n + 1) <=> Last(short, i) /\ list[n + 1].slot = list[i].slot
  <2>1. /\ \A k \in DOMAIN list : k < n + 1 => k \in DOMAIN short
        /\ i < n + 1 /\ list[i] = short[i] /\ \A k \in DOMAIN short : list[k] = short[k]
    BY <1>1
  <2> QED
    BY <1>1, <2>1 DEF Joined, Last
<1>6. First(list, n + 1) <=> ~Has(short, list[n + 1].slot)
  <2>1. (n + 1) - 1 = n
    OBVIOUS
  <2> QED
    BY <1>1, <2>1 DEF First, Has
<1>7. Last(list, n + 1)
  BY DEF Last
<1>8. \A s : Has(list, s) <=> Has(short, s) \/ list[n + 1].slot = s
  BY <1>1 DEF Has
<1>9. DropsTunnel(list) <=> DropsTunnel(short)
                             \/ (list[n + 1].slot = Tunnel /\ list[n + 1].to = Absent)
  BY <1>1 DEF DropsTunnel
<1>10. \A i \in DOMAIN list : ~Joined(list, n + 1, i)
  BY DEF Joined
<1> QED
  BY <1>1, <1>2, <1>3, <1>4, <1>5, <1>6, <1>7, <1>8, <1>9, <1>10 DEF Longer

\* The commands that were done had their effect.
Done(list, now, moved) ==
    \A i \in DOMAIN list :
        list[i].slot \in Free(moved) /\ Last(list, i) => now[list[i].slot] = list[i].from

\* An action joins those that were done, with or without its own effect.
LEMMA PushedRestorable ==
    ASSUME NEW short, NEW list, NEW n \in Nat, DOMAIN short = 1 .. n, DOMAIN list = 1 .. (n + 1),
           \A i \in 1 .. n : list[i] = short[i],
           NEW c \in Command, list[n + 1].slot = c.slot, list[n + 1].to = c.from,
           list[n + 1].from = c.to,
           NEW now, NEW after, NEW was, NEW moved, NEW kept \in SUBSET {c.slot},
           Restorable(short, now, was, moved, {}), Done(short, now, moved),
           Tunnel \notin moved /\ now[Tunnel] = Absent => was[Tunnel] = Absent,
           c.slot \notin moved => c.from = now[c.slot],
           \A y \in Slot : y # c.slot => after[y] = now[y],
           c.slot \notin moved =>
              \/ after[c.slot] = Left(kept, c.slot, c.to)
              \/ after[c.slot] = c.from /\ (c.slot \in Firewall => c.from = 0 /\ c.slot \notin kept)
    PROVE  Restorable(list, after, was, moved, kept)
<1> DEFINE x == c.slot
           e == list[n + 1]
<1>0. /\ x \in Slot /\ (x \in Bare => c.to = On) /\ c.from # c.to /\ e.slot = x
      /\ e.to = c.from /\ e.from = c.to
  BY CommandFacts
<1>1. /\ \A i \in DOMAIN list : i \in DOMAIN short \/ i = n + 1
      /\ \A i \in DOMAIN short : i \in DOMAIN list /\ list[i] = short[i]
      /\ \A i \in DOMAIN short : First(list, i) <=> First(short, i)
      /\ \A i, j \in DOMAIN short : Joined(list, i, j) <=> Joined(short, i, j)
      /\ \A i \in DOMAIN short : Last(list, i) <=> Last(short, i) /\ x # list[i].slot
      /\ \A i \in DOMAIN short : Joined(list, i, n + 1) <=> Last(short, i) /\ x = list[i].slot
      /\ First(list, n + 1) <=> ~Has(short, x)
      /\ \A s : Has(list, s) <=> Has(short, s) \/ x = s
      /\ DropsTunnel(list) <=> DropsTunnel(short) \/ (x = Tunnel /\ c.from = Absent)
      /\ \A i \in DOMAIN list : ~Joined(list, n + 1, i)
  <2>1. Longer(short, list, n)
    BY LongerList
  <2> HIDE DEF x
  <2> QED
    BY <1>0, <2>1 DEF Longer
<1>2. \A s, v : /\ Left({}, s, v) = v
                /\ s # x => Left(kept, s, v) = v
  BY LeftFacts
<1> HIDE DEF x, e
<1>3. Tunnel \in moved => OnTunnel \subseteq moved
  BY DEF Restorable
<1>4. was[Tunnel] = Absent => \A s \in OnTunnel : was[s] = Absent
  BY DEF Restorable
<1>5. DropsTunnel(list) /\ Tunnel \notin moved => was[Tunnel] = Absent
  BY <1>1 DEF Restorable, x
<1>6. ASSUME NEW s \in Slot \ moved
      PROVE  \/ Has(list, s)
             \/ after[s] = Left(kept, s, was[s])
             \/ s \in Bare /\ was[s] = Absent /\ after[s] = On /\ DropsTunnel(list)
  <2>1. CASE s = x
    BY <1>1, <2>1
  <2>2. CASE s # x
    <3>1. \/ Has(short, s)
          \/ now[s] = Left({}, s, was[s])
          \/ s \in Bare /\ was[s] = Absent /\ now[s] = On /\ DropsTunnel(short)
      BY DEF Restorable
    <3> QED
      BY <1>1, <1>2, <2>2, <3>1 DEF x
  <2> QED
    BY <2>1, <2>2
<1>7. ASSUME NEW i \in DOMAIN list, list[i].slot \notin moved, First(list, i)
      PROVE  list[i].to = was[list[i].slot]
  <2>1. CASE i \in DOMAIN short
    BY <1>1, <1>7, <2>1 DEF Restorable
  <2>2. CASE i = n + 1
    <3>1. ~Has(short, x) /\ x \in Slot \ moved
      BY <1>0, <1>1, <1>7, <2>2 DEF e
    <3>2. \/ now[x] = was[x]
          \/ x \in Bare /\ now[x] = On
      BY <1>2, <3>1 DEF Restorable
    <3>3. c.from = now[x]
      BY <3>1 DEF x
    <3> QED
      BY <1>0, <2>2, <3>2, <3>3 DEF e
  <2> QED
    BY <1>1, <2>1, <2>2
<1>8. ASSUME NEW i \in DOMAIN list, NEW j \in DOMAIN list,
             list[j].slot \in Free(moved), Joined(list, i, j)
      PROVE  list[i].from = list[j].to
  <2>1. i \in DOMAIN short
    BY <1>1, <1>8
  <2>2. CASE j \in DOMAIN short
    BY <1>1, <1>8, <2>1, <2>2 DEF Restorable
  <2>3. CASE j = n + 1
    <3>1. Last(short, i) /\ x = short[i].slot /\ x \in Free(moved)
      BY <1>0, <1>1, <1>8, <2>1, <2>3 DEF e
    <3>2. now[x] = short[i].from /\ c.from = now[x]
      BY <2>1, <3>1 DEF Done, Free, x
    <3> QED
      BY <1>0, <1>1, <2>1, <2>3, <3>2 DEF e
  <2> QED
    BY <1>1, <2>2, <2>3
<1>9. ASSUME NEW i \in DOMAIN list, list[i].slot \in Free(moved), Last(list, i)
      PROVE  \/ after[list[i].slot] = Left(kept, list[i].slot, list[i].from)
             \/ /\ after[list[i].slot] = list[i].to
                /\ list[i].slot \in Firewall => list[i].to = 0 /\ list[i].slot \notin kept
  <2> DEFINE y == list[i].slot
  <2>1. CASE i \in DOMAIN short
    <3>1. Last(short, i) /\ y # x /\ y = short[i].slot /\ y \in Slot
      BY <1>1, <1>9, <2>1 DEF Free
    <3>2. now[y] = short[i].from /\ after[y] = now[y]
      BY <1>9, <2>1, <3>1 DEF Done, x
    <3> QED
      BY <1>1, <1>2, <2>1, <3>1, <3>2
  <2>2. CASE i = n + 1
    <3>1. y = x /\ x \notin moved /\ list[i].to = c.from /\ list[i].from = c.to
      BY <1>0, <1>9, <2>2 DEF e, Free
    <3> QED
      BY <3>1 DEF x
  <2> QED
    BY <1>1, <2>1, <2>2
<1> QED
  BY <1>3, <1>4, <1>5, <1>6, <1>7, <1>8, <1>9 DEF Restorable

\* An action without an inverse: what a new tunnel gets goes with it again.
LEMMA BareRestorable ==
    ASSUME NEW list, NEW c \in Command, c.slot \in Bare, DropsTunnel(list),
           NEW now, NEW after, NEW was, NEW moved,
           Restorable(list, now, was, moved, {}), Done(list, now, moved),
           c.slot \notin moved => c.from = now[c.slot],
           \A y \in Slot : y # c.slot => after[y] = now[y],
           c.slot \notin moved => after[c.slot] \in {c.from, c.to}
    PROVE  Restorable(list, after, was, moved, {})
<1> DEFINE x == c.slot
<1>1. x \in Slot /\ x \in OnTunnel /\ c.to = On
  BY CommandFacts, SlotFacts
<1>2. \A s, v : Left({}, s, v) = v
  BY LeftFacts
<1> HIDE DEF x
<1>3. ASSUME NEW s \in Slot \ moved
      PROVE  \/ Has(list, s)
             \/ after[s] = was[s]
             \/ s \in Bare /\ was[s] = Absent /\ after[s] = On /\ DropsTunnel(list)
  <2>1. CASE s # x \/ after[x] = now[x]
    <3>1. after[s] = now[s]
      BY <2>1 DEF x
    <3> QED
      BY <1>2, <3>1 DEF Restorable
  <2>2. CASE s = x /\ after[x] # now[x]
    <3>1. after[x] = On /\ Tunnel \notin moved
      BY <1>1, <2>2 DEF x, Restorable
    <3>2. was[x] = Absent
      BY <1>1, <3>1 DEF Restorable
    <3> QED
      BY <2>2, <3>1, <3>2 DEF x
  <2> QED
    BY <2>1, <2>2
<1>4. \A y \in Free(moved) : after[y] = now[y]
  BY <1>1 DEF Free, x
<1> QED
  BY <1>2, <1>3, <1>4 DEF Restorable, Done

\* An inverse done, or without anything to undo, the rest of the list leads back.
LEMMA PoppedRestorable ==
    ASSUME NEW short, NEW list, NEW n \in Nat, DOMAIN short = 1 .. n, DOMAIN list = 1 .. (n + 1),
           \A k \in 1 .. n : list[k] = short[k],
           NEW e \in Undoing, list[n + 1] = e,
           NEW now, NEW after, NEW was, NEW moved, NEW kept \in SUBSET Firewall,
           Restorable(list, now, was, moved, kept),
           \A y \in Slot \ moved : y # e.slot =>
              after[y] = IF e.slot = Tunnel /\ e.to = Absent /\ y \in OnTunnel THEN Absent ELSE now[y],
           e.slot \notin moved =>
              \/ after[e.slot] = Left(kept, e.slot, e.to)
              \/ e.slot \in OnTunnel /\ after[e.slot] = was[e.slot]
    PROVE  Restorable(short, after, was, moved, kept)
<1> DEFINE x == e.slot
<1>0. x \in Slot
  BY UndoingFacts
<1>1. /\ n + 1 \in DOMAIN list /\ \A k \in DOMAIN short : k \in DOMAIN list /\ list[k] = short[k]
      /\ \A k \in DOMAIN short : First(list, k) <=> First(short, k)
      /\ \A k, j \in DOMAIN short : Joined(list, k, j) <=> Joined(short, k, j)
      /\ \A k \in DOMAIN short : Last(list, k) <=> Last(short, k) /\ x # list[k].slot
      /\ \A k \in DOMAIN short : Joined(list, k, n + 1) <=> Last(short, k) /\ x = list[k].slot
      /\ First(list, n + 1) <=> ~Has(short, x)
      /\ \A s : Has(list, s) <=> Has(short, s) \/ x = s
      /\ DropsTunnel(list) <=> DropsTunnel(short) \/ (x = Tunnel /\ e.to = Absent)
  <2>1. Longer(short, list, n)
    BY LongerList
  <2> QED
    BY <2>1 DEF Longer
<1>2. /\ \A s, v : s \notin kept => Left(kept, s, v) = v
      /\ \A s \in OnTunnel : s \in Slot /\ s \notin kept /\ s # Tunnel
      /\ Bare \subseteq OnTunnel
  BY LeftFacts, SlotFacts
<1> HIDE DEF x
<1>3. Tunnel \in moved => OnTunnel \subseteq moved
  BY DEF Restorable
<1>4. was[Tunnel] = Absent => \A s \in OnTunnel : was[s] = Absent
  BY DEF Restorable
<1>5. DropsTunnel(short) /\ Tunnel \notin moved => was[Tunnel] = Absent
  BY <1>1 DEF Restorable
<1>6. ASSUME NEW s \in Slot \ moved
      PROVE  \/ Has(short, s)
             \/ after[s] = Left(kept, s, was[s])
             \/ s \in Bare /\ was[s] = Absent /\ after[s] = On /\ DropsTunnel(short)
  <2>1. CASE s = x /\ ~Has(short, x)
    <3>1. e.to = was[x]
      BY <1>1, <2>1 DEF Restorable, x
    <3>2. \/ after[x] = Left(kept, x, e.to)
          \/ x \in OnTunnel /\ after[x] = was[x]
      BY <2>1 DEF x
    <3> QED
      BY <1>2, <2>1, <3>1, <3>2
  <2>2. CASE s # x
    <3>1. \/ Has(short, s)
          \/ now[s] = Left(kept, s, was[s])
          \/ s \in Bare /\ was[s] = Absent /\ now[s] = On /\ DropsTunnel(list)
      BY <1>1, <2>2 DEF Restorable
    <3>2. CASE x = Tunnel /\ e.to = Absent /\ s \in OnTunnel
      <4>1. after[s] = Absent /\ Tunnel \notin moved /\ DropsTunnel(list)
        BY <1>1, <1>3, <2>2, <3>2 DEF x
      <4>2. was[s] = Absent
        BY <1>4, <3>2, <4>1 DEF Restorable
      <4> QED
        BY <1>2, <3>2, <4>1, <4>2
    <3>3. CASE ~(x = Tunnel /\ e.to = Absent /\ s \in OnTunnel)
      <4>1. after[s] = now[s]
        BY <2>2, <3>3 DEF x
      <4> QED
        BY <1>1, <1>2, <3>1, <3>3, <4>1
    <3> QED
      BY <3>2, <3>3
  <2> QED
    BY <2>1, <2>2
<1>7. ASSUME NEW k \in DOMAIN short, short[k].slot \notin moved, First(short, k)
      PROVE  short[k].to = was[short[k].slot]
  BY <1>1, <1>7 DEF Restorable
<1>8. ASSUME NEW k \in DOMAIN short, NEW j \in DOMAIN short,
             short[j].slot \in Free(moved), Joined(short, k, j)
      PROVE  short[k].from = short[j].to
  BY <1>1, <1>8 DEF Restorable
<1>9. ASSUME NEW k \in DOMAIN short, short[k].slot \in Free(moved), Last(short, k)
      PROVE  \/ after[short[k].slot] = Left(kept, short[k].slot, short[k].from)
             \/ /\ after[short[k].slot] = short[k].to
                /\ short[k].slot \in Firewall => short[k].to = 0 /\ short[k].slot \notin kept
  <2> DEFINE y == short[k].slot
  <2>0. list[k] = short[k] /\ k \in DOMAIN list /\ y \in Slot \ moved /\ y \notin OnTunnel
    BY <1>1, <1>9 DEF Free
  <2>1. CASE y = x
    <3>1. Joined(list, k, n + 1) /\ list[n + 1].slot \in Free(moved)
      BY <1>1, <1>9, <2>0, <2>1 DEF x
    <3>2. list[k].from = e.to
      BY <1>1, <2>0, <3>1 DEF Restorable
    <3>3. after[x] = Left(kept, x, e.to)
      BY <2>0, <2>1 DEF x
    <3> QED
      BY <2>0, <2>1, <3>2, <3>3
  <2>2. CASE y # x
    <3>1. Last(list, k)
      BY <1>1, <1>9, <2>0, <2>2
    <3>2. after[y] = now[y]
      BY <2>0, <2>2 DEF x
    <3> QED
      BY <1>9, <2>0, <3>1, <3>2 DEF Restorable
  <2> QED
    BY <2>1, <2>2
<1> QED
  BY <1>3, <1>4, <1>5, <1>6, <1>7, <1>8, <1>9 DEF Restorable

\* Where the slot of the latest inverse is.
LEMMA LatestSlot ==
    ASSUME NEW list, NEW n \in Nat, DOMAIN list = 1 .. n, n > 0, NEW e \in Undoing, list[n] = e,
           NEW now, NEW was, NEW moved, NEW kept, Restorable(list, now, was, moved, kept),
           e.slot \in Free(moved)
    PROVE  \/ now[e.slot] = Left(kept, e.slot, e.from)
           \/ now[e.slot] = e.to /\ (e.slot \in Firewall => e.to = 0 /\ e.slot \notin kept)
<1>1. n \in DOMAIN list /\ Last(list, n)
  BY DEF Last
<1> QED
  BY <1>1 DEF Restorable

\* An inverse that works leads where it should.
LEMMA UndoneSlot ==
    ASSUME NEW list, NEW n \in Nat, DOMAIN list = 1 .. n, n > 0, NEW e \in Undoing, list[n] = e,
           NEW now \in Net, NEW was, NEW moved, NEW kept \in SUBSET Firewall,
           Restorable(list, now, was, moved, kept), Works(now, e)
    PROVE  /\ \A y \in Slot : y # e.slot =>
                 Effect(now, e)[y] =
                    IF e.slot = Tunnel /\ e.to = Absent /\ y \in OnTunnel THEN Absent ELSE now[y]
           /\ e.slot \notin moved => Effect(now, e)[e.slot] = Left(kept, e.slot, e.to)
           /\ e.slot = Tunnel => Effect(now, e)[Tunnel] = e.to
<1> DEFINE x == e.slot
           v == Result(now, e)
<1>1. x \in Slot /\ Effect(now, e) = Put(now, x, v) /\ (x \notin Firewall => v = e.to)
  BY UndoingFacts, EffectType
<1>2. x \in Firewall /\ x \notin moved => v = Left(kept, x, e.to)
  <2> SUFFICES ASSUME x \in Firewall, x \notin moved PROVE v = Left(kept, x, e.to)
    OBVIOUS
  <2>1. x \in Free(moved)
    BY <1>1, SlotFacts DEF Free
  <2>2. \/ now[x] = Left(kept, x, e.from)
        \/ now[x] = e.to /\ e.to = 0 /\ x \notin kept
    BY <2>1, LatestSlot
  <2>3. e.from \in Nat /\ e.to \in Nat /\ (e.to = e.from + 1 \/ (e.to = 0 /\ e.from = 1))
    BY UndoingFacts
  <2>4. v = (IF e.to > e.from THEN now[x] + 1 ELSE now[x] - 1) /\ (e.to > e.from \/ now[x] > 0)
    BY DEF Result, Works
  <2>5. \A k : Left(kept, x, k) = IF x \in kept THEN k + 1 ELSE k
    BY DEF Left
  <2> HIDE DEF x, v
  <2> QED
    BY <2>2, <2>3, <2>4, <2>5
<1>3. x \notin Firewall => Left(kept, x, e.to) = e.to
  BY LeftFacts
<1>4. Tunnel \notin Firewall /\ Tunnel \in Slot
  BY SlotFacts
<1> HIDE DEF x, v
<1>5. Put(now, x, v)[x] = v
  BY <1>1 DEF Put
<1>6. ASSUME NEW y \in Slot, y # x
      PROVE  Put(now, x, v)[y] =
               IF x = Tunnel /\ e.to = Absent /\ y \in OnTunnel THEN Absent ELSE now[y]
  BY <1>1, <1>4, <1>6 DEF Put
<1> QED
  BY <1>1, <1>2, <1>3, <1>4, <1>5, <1>6 DEF x

\* An inverse fails of itself only where there is nothing to undo.
LEMMA SkippedSlot ==
    ASSUME NEW list, NEW n \in Nat, DOMAIN list = 1 .. n, n > 0, NEW e \in Undoing, list[n] = e,
           NEW now \in Net, NEW was, NEW moved, NEW kept \in SUBSET Firewall,
           Restorable(list, now, was, moved, kept), ~Works(now, e),
           now[Tunnel] = Absent => \A s \in OnTunnel : now[s] = Absent,
           Tunnel \notin moved /\ now[Tunnel] = Absent => was[Tunnel] = Absent
    PROVE  /\ \A y \in Slot : y # e.slot =>
                 now[y] = IF e.slot = Tunnel /\ e.to = Absent /\ y \in OnTunnel THEN Absent ELSE now[y]
           /\ e.slot \notin moved =>
                 \/ now[e.slot] = Left(kept, e.slot, e.to)
                 \/ e.slot \in OnTunnel /\ now[e.slot] = was[e.slot]
<1> DEFINE x == e.slot
<1>1. /\ x \in Slot /\ now[x] \in CellOf(x) /\ e.from \in CellOf(x) /\ e.from # e.to
      /\ e.from # Alien /\ (x = Tunnel => e.from # Absent)
  BY UndoingFacts, NetFacts
<1>2. x = Tunnel => now[Tunnel] = Absent
  BY <1>1, SlotFacts DEF Works, Exclusive, Deletable, Connected, DefaultRoute, FixedIPv4, Tunnel
<1>3. x \notin Firewall => \A v : Left(kept, x, v) = v
  BY LeftFacts
<1>4. x \in Free(moved) =>
        \/ now[x] = Left(kept, x, e.from)
        \/ now[x] = e.to /\ (x \in Firewall => e.to = 0 /\ x \notin kept)
  BY LatestSlot
<1>5. ASSUME x \notin moved
      PROVE  \/ now[x] = Left(kept, x, e.to)
             \/ x \in OnTunnel /\ now[x] = was[x]
  <2>1. CASE x \in Firewall
    <3>1. x \in Free(moved)
      BY <1>1, <1>5, <2>1, SlotFacts DEF Free
    <3>2. e.from \in Nat /\ e.to \in Nat /\ (e.to = e.from + 1 \/ (e.to = 0 /\ e.from = 1))
      BY <2>1, UndoingFacts
    <3>3. x \notin OnTunnel /\ x # Tunnel /\ x \notin Exclusive /\ x \notin Deletable
      BY <2>1, SlotFacts DEF Exclusive, Deletable, FixedIPv4, DefaultRoute, OnTunnel,
         Connected, Firewall, Mss, Snat, OuterRule
    <3>4. ~(e.to > e.from) /\ ~(now[x] > 0)
      BY <3>3 DEF Works
    <3>5. \A k : Left(kept, x, k) = IF x \in kept THEN k + 1 ELSE k
      BY DEF Left
    <3> HIDE DEF x
    <3> QED
      BY <1>4, <2>1, <3>1, <3>2, <3>4, <3>5
  <2>2. CASE x = Tunnel
    <3>1. x \in Free(moved) /\ x \notin Firewall
      BY <1>1, <1>5, <2>2, SlotFacts DEF Free
    <3> QED
      BY <1>1, <1>2, <1>3, <1>4, <2>2, <3>1
  <2>3. CASE x \in OnTunnel
    <3>1. x \notin Firewall /\ x # Tunnel /\ x \notin Exclusive
      BY <2>3, SlotFacts DEF Exclusive, Contested, RouterSlots, OnTunnel, Address, EndpointAddr,
         SourceRule, PolicyRule, LocalRule, Alias, FixedIPv4, Link, DefaultRoute
    <3>2. Tunnel \notin moved
      BY <1>5, <2>3 DEF Restorable
    <3>3. CASE now[Tunnel] = Absent
      BY <2>3, <3>2, <3>3 DEF Restorable
    <3>4. CASE now[Tunnel] # Absent
      <4>1. x \in Deletable /\ e.to = Absent /\ now[x] # On
        BY <3>1, <3>4 DEF Works
      <4>2. x \in {FixedIPv4, DefaultRoute} \/ x \notin OnTunnel
        BY <3>1, <4>1 DEF Deletable, OnTunnel, Connected, Alias, Link
      <4>3. CellOf(x) = {Absent, On}
        BY <1>1, <2>3, <4>2, CellOfFacts DEF Alias, FixedIPv4, DefaultRoute
      <4> QED
        BY <1>1, <1>3, <3>1, <4>1, <4>3
    <3> QED
      BY <3>3, <3>4
  <2>4. CASE x \notin Firewall /\ x # Tunnel /\ x \notin OnTunnel
    <3>1. x \in Free(moved)
      BY <1>1, <1>5, <2>4 DEF Free
    <3>2. CellOf(x) \subseteq {Absent, On, Alien}
      BY <1>1, <2>4 DEF CellOf
    <3>3. \/ x \in Exclusive /\ e.to = On /\ now[x] = On
          \/ x \in Deletable /\ e.to = Absent /\ now[x] # On
      BY <2>4 DEF Works
    <3> HIDE DEF x
    <3> QED
      BY <1>1, <1>3, <1>4, <2>4, <3>1, <3>2, <3>3
  <2> QED
    BY <2>1, <2>2, <2>3, <2>4
<1> QED
  BY <1>2, <1>5

\* What others move is not the transaction's to restore.
LEMMA DriftRestorable ==
    ASSUME NEW list, NEW now, NEW was, NEW moved, NEW kept, NEW s \in Slot, NEW v,
           Restorable(list, now, was, moved, kept)
    PROVE  Restorable(list, Put(now, s, v), was, moved \cup Touched(s), kept)
<1>1. \A x \in Slot \ (moved \cup Touched(s)) : Put(now, s, v)[x] = now[x]
  BY PutElsewhere
<1>2. Tunnel \in moved \cup Touched(s) => OnTunnel \subseteq moved \cup Touched(s)
  BY TouchedFacts DEF Restorable
<1>3. /\ \A x : x \notin moved \cup Touched(s) => x \notin moved
      /\ \A x \in Free(moved \cup Touched(s)) :
            x \in Free(moved) /\ x \in Slot \ (moved \cup Touched(s))
  BY DEF Free
<1> HIDE DEF Put
<1> QED
  BY <1>1, <1>2, <1>3 DEF Restorable

\* A drift leaves the actions on other slots applicable.
LEMMA DriftApplicable ==
    ASSUME NEW t, NEW now, NEW moved, NEW s \in Slot, NEW v, Applicable(t, now, moved)
    PROVE  Applicable(t, Put(now, s, v), moved \cup Touched(s))
<1>1. \A x \in Slot \ (moved \cup Touched(s)) : Put(now, s, v)[x] = now[x]
  BY PutElsewhere
<1>2. \A x \in Free(moved \cup Touched(s)) :
         x \in Free(moved) /\ x \in Slot \ (moved \cup Touched(s))
  BY DEF Free
<1> HIDE DEF Put
<1> QED
  BY <1>1, <1>2 DEF Applicable

\* A plan, the first or a later one, leaves its commands applicable.
LEMMA PlanApplicable ==
    ASSUME NEW t \in Tx, NEW e \in Endpoint, NEW old, NEW now \in Net, NEW moved,
           t.seen = now, t.todo = Commands(Goal(e, old, now), now), Done(t.inverses, now, moved)
    PROVE  Applicable(t, now, moved)
<1> DEFINE goal == Goal(e, old, now)
<1>1. /\ Of(t.todo, Tunnel) = Steps(Tunnel, now[Tunnel], goal[Tunnel])
      /\ goal[Tunnel] = e /\ e # Absent /\ e # Keep
  BY CommandsType, GoalType, SlotFacts DEF Of
<1>2. now[Tunnel] \in CellOf(Tunnel) /\ goal[Tunnel] \in CellOf(Tunnel) \cup {Keep}
  BY NetFacts, GoalType, SlotFacts
<1> HIDE DEF goal
<1>3. \A c \in Steps(Tunnel, now[Tunnel], e) : c.from = now[Tunnel]
  BY <1>1, SlotFacts DEF Steps
<1>4. now[Tunnel] = Absent => Of(t.todo, Tunnel) # {}
  BY <1>1, <1>2, StepsFacts, SlotFacts
<1> QED
  BY <1>1, <1>3, <1>4 DEF Applicable, Done, Of

\* After an action the next ones are applicable.
LEMMA PushApplicable ==
    ASSUME NEW t \in Tx, NEW c \in t.todo, NEW u, u.seen = t.seen, u.todo = t.todo \ {c},
           u.inverses = PushInverse(t, c), NEW now, NEW after, NEW moved,
           Applicable(t, now, moved),
           \A y \in Slot : y # c.slot => after[y] = now[y],
           c.slot \notin moved => after[c.slot] = c.to
    PROVE  Applicable(u, after, moved)
<1> DEFINE list == PushInverse(t, c)
           n    == Len(t.inverses)
<1>1. c \in Command /\ c.slot \in Slot
  BY TxFields, CommandFacts
<1>2. Done(u.inverses, after, moved)
  <2>1. CASE c.slot \in Bare /\ t.seen[Tunnel] = Absent /\ list = t.inverses
    <3>1. \A y \in Free(moved) : after[y] = now[y]
      BY <2>1, SlotFacts DEF Free
    <3> QED
      BY <2>1, <3>1 DEF Applicable, Done
  <2>2. CASE /\ DOMAIN list = 1 .. (n + 1) /\ DOMAIN t.inverses = 1 .. n /\ n \in Nat
             /\ \A i \in 1 .. n : list[i] = t.inverses[i]
             /\ list[n + 1].slot = c.slot /\ list[n + 1].from = c.to
    <3> HIDE DEF list
    <3>1. Longer(t.inverses, list, n)
      BY <2>2, LongerList
    <3>2. ASSUME NEW i \in DOMAIN list, list[i].slot \in Free(moved), Last(list, i)
          PROVE  after[list[i].slot] = list[i].from
      <4>1. CASE i = n + 1
        BY <2>2, <3>2, <4>1 DEF Free
      <4>2. CASE i \in DOMAIN t.inverses
        BY <2>2, <3>1, <3>2, <4>2 DEF Longer, Applicable, Free
      <4> QED
        BY <3>1, <4>1, <4>2 DEF Longer
    <3> QED
      BY <3>2 DEF Done, list
  <2> QED
    BY <1>1, <2>1, <2>2, PushFacts
<1>3. /\ DropsTunnel(t.inverses) => DropsTunnel(list)
      /\ c.slot = Tunnel /\ c.from = Absent => DropsTunnel(list)
  BY <1>1, PushHas
<1>4. c.slot # Tunnel /\ Of(u.todo, Tunnel) = {} => Of(t.todo, Tunnel) = {}
  BY DEF Of
<1> QED
  BY <1>2, <1>3, <1>4 DEF Applicable, Done

\* After an action, done or failed, the list leads back.
LEMMA PushRestorable ==
    ASSUME NEW t \in Tx, NEW c \in t.todo, IsNext(t, c),
           NEW now, NEW after, NEW was, NEW moved, NEW kept \in SUBSET {c.slot},
           Restorable(t.inverses, now, was, moved, {}), Applicable(t, now, moved),
           Tunnel \notin moved /\ now[Tunnel] = Absent => was[Tunnel] = Absent,
           kept \subseteq Firewall,
           c.slot \notin moved => c.from = now[c.slot],
           \A y \in Slot : y # c.slot => after[y] = now[y],
           c.slot \notin moved =>
              \/ after[c.slot] = Left(kept, c.slot, c.to)
              \/ after[c.slot] = c.from /\ (c.slot \in Firewall => c.from = 0 /\ c.slot \notin kept)
    PROVE  Restorable(PushInverse(t, c), after, was, moved, kept)
<1> DEFINE list == PushInverse(t, c)
           n    == Len(t.inverses)
<1>1. c \in Command /\ Done(t.inverses, now, moved)
  BY TxFields DEF Applicable, Done
<1>2. CASE c.slot \in Bare /\ t.seen[Tunnel] = Absent /\ list = t.inverses
  <2>1. DropsTunnel(t.inverses)
    BY <1>1, <1>2, TunnelFirst DEF Applicable
  <2>2. kept = {} /\ \A s, v : Left({}, s, v) = v
    BY <1>2, SlotFacts, LeftFacts
  <2>3. c.slot \notin moved => after[c.slot] \in {c.from, c.to}
    BY <2>2
  <2> HIDE DEF list
  <2>4. Restorable(t.inverses, after, was, moved, {})
    BY <1>1, <1>2, <2>1, <2>3, BareRestorable
  <2> QED
    BY <1>2, <2>2, <2>4 DEF list
<1>3. CASE /\ DOMAIN list = 1 .. (n + 1) /\ DOMAIN t.inverses = 1 .. n /\ n \in Nat
           /\ \A i \in 1 .. n : list[i] = t.inverses[i]
           /\ list[n + 1].slot = c.slot /\ list[n + 1].to = c.from /\ list[n + 1].from = c.to
  <2> DEFINE short == t.inverses
  <2>0. Restorable(short, now, was, moved, {}) /\ Done(short, now, moved)
    BY <1>1
  <2>1. /\ DOMAIN list = 1 .. (n + 1) /\ DOMAIN short = 1 .. n
        /\ \A i \in 1 .. n : list[i] = short[i]
        /\ list[n + 1].slot = c.slot /\ list[n + 1].to = c.from /\ list[n + 1].from = c.to
    BY <1>3
  <2> HIDE DEF list, n, short
  <2>2. c \in Command /\ n \in Nat
    BY <1>1, <1>3
  <2>3. Restorable(list, after, was, moved, kept)
    BY <2>0, <2>1, <2>2, PushedRestorable
  <2> QED
    BY <2>3 DEF list
<1> QED
  BY <1>1, <1>2, <1>3, PushFacts

\* A process changes no locals but its own.
LEMMA OwnLocals ==
    ASSUME TypeOK, NEW p \in Proc, Step(p) \/ Raise(p) \/ Die(p), NEW q \in Proc, q # p
    PROVE  tx'[q] = tx[q]
<1> SUFFICES ASSUME tx \in [Proc -> Tx] PROVE tx'[q] = tx[q]
  BY DEF TypeOK
<1> USE DEF Fail, Leave, history
<1>1. CASE Plan(p) \/ Refuse(p) \/ ApplyDone(p) \/ HealthPasses(p)
  BY <1>1 DEF Plan, Refuse, ApplyDone, HealthPasses
<1>2. CASE Apply(p) \/ Settle(p) \/ Undo(p) \/ UndoFails(p)
  BY <1>2 DEF Apply, Settle, Undo, UndoFails
<1>3. CASE ApplyFails(p) \/ SettleFails(p) \/ HealthFails(p)
  BY <1>3 DEF ApplyFails, SettleFails, HealthFails
<1>4. CASE WritePrevious(p) \/ WriteRuntime(p) \/ WriteHealthy(p) \/ ClearQuarantine(p)
  BY <1>4 DEF WritePrevious, WriteRuntime, WriteHealthy, ClearQuarantine
<1>5. CASE FinishVerified(p) \/ DecideNotify(p) \/ NotifyProvider(p) \/ NotifyFails(p)
  BY <1>5 DEF FinishVerified, DecideNotify, NotifyProvider, NotifyFails
<1>6. CASE ForgetPending(p) \/ DeferNotification(p)
  BY <1>6 DEF ForgetPending, DeferNotification
<1>7. CASE RollbackDone(p) \/ FailJournal(p) \/ RecordFailure(p)
  BY <1>7 DEF RollbackDone, FailJournal, RecordFailure
<1>8. CASE Report(p) \/ Quarantine(p) \/ Die(p)
  BY <1>8 DEF Report, Quarantine, Die
<1>9. CASE Raise(p)
  BY <1>9 DEF Raise
<1> QED
  BY <1>1, <1>2, <1>3, <1>4, <1>5, <1>6, <1>7, <1>8, <1>9 DEF Step, Forward, Commit, Rollback

\* The step of one process is nothing to the others.
LEMMA OthersRestoreAt ==
    ASSUME TypeOK, LockInv, RestoreInv, NEW p \in Proc, Step(p) \/ Raise(p) \/ Die(p),
           NEW q \in Proc, q # p
    PROVE  RestoreAt(q)'
<1>1. pc[q] = "idle" /\ pc'[q] = "idle" /\ tx'[q] = tx[q]
  BY StepShape, OthersIdle, OwnLocals DEF TypeOK
<1>2. ~tx[q].broken /\ tx[q].kept = {}
  BY <1>1 DEF RestoreInv, RestoreAt
<1> QED
  BY <1>1, <1>2 DEF RestoreAt, Applying, Committed

\* What a process in its try block has.
LEMMA TryFacts ==
    ASSUME RestoreInv, NEW p \in Proc, pc[p] \in Applying \cup Committed
    PROVE  /\ WorldOK /\ TunnelKept /\ Restorable(tx[p].inverses, net, before, disturbed, {})
           /\ ~tx[p].broken /\ tx[p].kept = {}
           /\ pc[p] = "apply" => Applicable(tx[p], net, disturbed)
BY DEF RestoreInv, RestoreAt, Clean

\* Steps of the try block that leave the network and the inverses alone.
LEMMA Carry ==
    ASSUME RestoreInv, NEW p \in Proc, pc[p] \in Applying \cup Committed,
           pc'[p] \in (Applying \cup Committed \cup {"rollback"}) \ {"apply"},
           tx'[p].inverses = tx[p].inverses, tx'[p].broken = tx[p].broken,
           tx'[p].kept = tx[p].kept, UNCHANGED <<net, before, disturbed>>
    PROVE  WorldOK' /\ RestoreAt(p)'
<1>1. /\ WorldOK /\ TunnelKept /\ Restorable(tx[p].inverses, net, before, disturbed, {})
      /\ ~tx[p].broken /\ tx[p].kept = {}
  BY TryFacts
<1>2. pc'[p] # "apply" /\ pc'[p] \notin {"failJournal", "failHealth", "failQuarantine"}
  BY DEF Applying, Committed
<1> QED
  BY <1>1, <1>2 DEF RestoreAt, WorldOK, TunnelKept

\* The files a commit writes leave the inverses good.
LEMMA CommitRestore ==
    ASSUME TypeOK, RestoreInv, NEW p \in Proc,
           \/ WritePrevious(p) \/ WriteRuntime(p) \/ WriteHealthy(p) \/ ClearQuarantine(p)
           \/ FinishVerified(p) \/ DecideNotify(p) \/ NotifyProvider(p) \/ NotifyFails(p)
           \/ ForgetPending(p) \/ DeferNotification(p) \/ ApplyDone(p) \/ HealthPasses(p)
    PROVE  WorldOK' /\ RestoreAt(p)'
<1>1. /\ UNCHANGED <<tx, net, before, disturbed>>
      /\ pc[p] \in Applying \cup Committed
      /\ pc'[p] \in (Applying \cup Committed \cup {"rollback"}) \ {"apply"}
  <2> USE DEF Goto, history, world, Applying, Committed, TypeOK
  <2>1. CASE WritePrevious(p) \/ WriteRuntime(p) \/ WriteHealthy(p) \/ ClearQuarantine(p)
    BY <2>1 DEF WritePrevious, WriteRuntime, WriteHealthy, ClearQuarantine
  <2>2. CASE FinishVerified(p) \/ DecideNotify(p) \/ NotifyProvider(p) \/ NotifyFails(p)
    BY <2>2 DEF FinishVerified, DecideNotify, NotifyProvider, NotifyFails
  <2>3. CASE ForgetPending(p) \/ DeferNotification(p) \/ ApplyDone(p) \/ HealthPasses(p)
    BY <2>3 DEF ForgetPending, DeferNotification, ApplyDone, HealthPasses
  <2> QED
    BY <2>1, <2>2, <2>3
<1> QED
  BY <1>1, Carry

\* A failure leaves the inverses good for the rollback.
LEMMA FailRestore ==
    ASSUME TypeOK, RestoreInv, NEW p \in Proc, SettleFails(p) \/ HealthFails(p) \/ Raise(p)
    PROVE  WorldOK' /\ RestoreAt(p)'
<1> USE DEF TypeOK, Goto, world, history
<1>1. /\ UNCHANGED <<net, before, disturbed>>
      /\ pc[p] \in Applying \cup Committed
      /\ pc'[p] \in {"rollback", "defer"}
      /\ UNCHANGED tx \/ \E why \in Reason : tx' = [tx EXCEPT ![p] = [tx[p] EXCEPT !.reason = why]]
  <2>1. CASE SettleFails(p)
    BY <2>1 DEF SettleFails, Fail, Applying
  <2>2. CASE HealthFails(p)
    BY <2>2 DEF HealthFails, Fail, Applying, Reason
  <2>3. CASE Raise(p)
    BY <2>3 DEF Raise, Fail, Reason
  <2> QED
    BY <2>1, <2>2, <2>3
<1>2. tx[p] \in Tx
  OBVIOUS
<1>3. tx'[p].inverses = tx[p].inverses /\ tx'[p].broken = tx[p].broken /\ tx'[p].kept = tx[p].kept
  <2>1. ASSUME NEW why \in Reason, tx' = [tx EXCEPT ![p] = [tx[p] EXCEPT !.reason = why]]
        PROVE  tx'[p].inverses = tx[p].inverses /\ tx'[p].broken = tx[p].broken /\ tx'[p].kept = tx[p].kept
    BY <1>2, <2>1, TxReason
  <2> QED
    BY <1>1, <2>1
<1> QED
  BY <1>1, <1>3, Carry DEF Committed

\* A plan starts with the network it restores.
LEMMA PlanRestore ==
    ASSUME TypeOK, TypeOK', RestoreInv, NEW p \in Proc, Plan(p) \/ Refuse(p)
    PROVE  WorldOK' /\ RestoreAt(p)'
<1>1. CASE Plan(p)
  <2> DEFINE t == tx'[p]
  <2>1. /\ pc'[p] = "apply" /\ before' = net /\ disturbed' = {} /\ net' = net
        /\ t.todo = Commands(Goal(prefix, runtime, net), net)
        /\ t.seen = net /\ t.inverses = <<>> /\ ~t.broken /\ t.kept = {} /\ t \in Tx
    <3>1. t = [NoTx EXCEPT !.local = prefix, !.old = runtime, !.seen = net,
                 !.goal = Goal(prefix, runtime, net),
                 !.todo = Commands(Goal(prefix, runtime, net), net),
                 !.rounds = SettleRounds(Changes(Goal(prefix, runtime, net), net))]
      BY <1>1 DEF Plan, TypeOK
    <3>2. /\ t.todo = Commands(Goal(prefix, runtime, net), net)
          /\ t.seen = net /\ t.inverses = <<>> /\ ~t.broken /\ t.kept = {}
      BY <3>1 DEF NoTx
    <3>3. t \in Tx
      BY DEF TypeOK
    <3>4. pc'[p] = "apply" /\ before' = net /\ disturbed' = {} /\ net' = net
      BY <1>1 DEF Plan, Goto, world, TypeOK
    <3> QED
      BY <3>2, <3>3, <3>4
  <2>2. prefix \in Endpoint /\ net \in Net
    BY DEF TypeOK
  <2>3. Restorable(t.inverses, net, net, {}, {})
    BY <2>1, PlanRestorable DEF RestoreInv, WorldOK
  <2>4. Applicable(t, net, {})
    <3>1. DOMAIN <<>> = {}
      OBVIOUS
    <3>2. Done(t.inverses, net, {})
      BY <2>1, <3>1 DEF Done
    <3> HIDE DEF t
    <3> QED BY <2>1, <2>2, <3>2, PlanApplicable
  <2> QED
    BY <2>1, <2>3, <2>4 DEF RestoreInv, RestoreAt, WorldOK, TunnelKept, Applying
<1>2. CASE Refuse(p)
  <2>1. /\ pc'[p] = "failHealth" /\ before' = net /\ disturbed' = {} /\ net' = net
        /\ tx'[p].kept = tx[p].kept
    BY <1>2 DEF Refuse, Goto, world, TypeOK, Tx
  <2>2. tx[p].kept = {}
    BY <1>2 DEF Refuse, RestoreInv, RestoreAt
  <2> QED
    BY <2>1, <2>2, LeftFacts DEF RestoreInv, RestoreAt, Restored, WorldOK, Applying, Committed
<1> QED
  BY <1>1, <1>2

\* A command starts where its slot is, unless others moved it.
LEMMA CommandStarts ==
    ASSUME TypeOK, WorkInv, NEW p \in Proc, pc[p] = "apply", NEW c \in tx[p].todo, IsNext(tx[p], c)
    PROVE  c.slot \notin disturbed => c.from = net[c.slot]
<1>1. tx[p] \in Tx /\ net \in Net /\ c.slot \in Slot
  BY TxFields, CommandFacts DEF TypeOK
<1>2. ASSUME c.slot \notin disturbed PROVE c.from = net[c.slot]
  <2>1. /\ tx[p].goal[c.slot] \in CellOf(c.slot) \cup {Keep}
        /\ Of(tx[p].todo, c.slot) = Steps(c.slot, net[c.slot], tx[p].goal[c.slot])
    BY <1>1, <1>2 DEF WorkInv, WorkAt, Applying
  <2> QED
    BY <1>1, <2>1, NextCommand
<1> QED
  BY <1>2

\* An action done has its inverse in the list.
LEMMA ApplyRestore ==
    ASSUME TypeOK, WorkInv, RestoreInv, NEW p \in Proc, Apply(p)
    PROVE  WorldOK' /\ RestoreAt(p)'
<1> DEFINE t == tx[p]
           u == tx'[p]
<1>1. PICK c \in t.todo :
        /\ IsNext(t, c) /\ Works(net, c) /\ net' = Effect(net, c)
        /\ tx' = [tx EXCEPT ![p].inverses = PushInverse(t, c), ![p].todo = @ \ {c}]
  BY DEF Apply
<1>2. pc'[p] = "apply" /\ pc[p] = "apply" /\ UNCHANGED <<before, disturbed>>
  BY DEF Apply, history
<1>3. /\ t \in Tx /\ net \in Net /\ c \in Command
      /\ u.seen = t.seen /\ u.todo = t.todo \ {c} /\ u.inverses = PushInverse(t, c)
      /\ u.broken = t.broken /\ u.kept = t.kept
  BY <1>1 DEF TypeOK, Tx
<1>4. /\ TunnelKept /\ Restorable(t.inverses, net, before, disturbed, {})
      /\ Applicable(t, net, disturbed) /\ ~t.broken /\ t.kept = {}
  BY <1>2, TryFacts DEF Applying
<1>5. WorldOK'
  BY <1>1, <1>3, EffectWorldOK DEF RestoreInv
<1>6. /\ \A y \in Slot : y # c.slot => net'[y] = net[y]
      /\ c.slot \notin disturbed => net'[c.slot] = c.to /\ c.from = net[c.slot]
      /\ c.slot = Tunnel => net'[Tunnel] # Absent
  <2>1. c.slot \notin disturbed => c.from = net[c.slot]
    BY <1>1, <1>2, CommandStarts
  <2>2. c.slot = Tunnel => c.slot \notin Firewall /\ c.to # Absent
    BY <1>3, CommandFacts, SlotFacts
  <2> QED
    BY <1>1, <1>3, <2>1, <2>2, EffectAt
<1>7. TunnelKept'
  BY <1>2, <1>4, <1>6, SlotFacts DEF TunnelKept
<1>8. net'[c.slot] = c.to => net'[c.slot] = Left({}, c.slot, c.to)
  BY LeftFacts
<1> HIDE DEF t, u
<1>9. Restorable(u.inverses, net', before, disturbed, {})
  BY <1>1, <1>3, <1>4, <1>6, <1>8, PushRestorable DEF TunnelKept
<1>10. Applicable(u, net', disturbed)
  BY <1>1, <1>3, <1>4, <1>6, PushApplicable
<1> QED
  BY <1>2, <1>3, <1>4, <1>5, <1>7, <1>9, <1>10 DEF RestoreAt, Applying, u

\* An action that failed may have its inverse in the list as well; that of a
\* deletion that left its rule repeats the rule.
LEMMA ApplyFailsRestore ==
    ASSUME TypeOK, WorkInv, RestoreInv, NEW p \in Proc, ApplyFails(p)
    PROVE  WorldOK' /\ RestoreAt(p)'
<1> DEFINE t == tx[p]
           u == tx'[p]
<1>1. PICK c \in t.todo :
        /\ IsNext(t, c)
        /\ \E why \in {"operation-failed", "interrupted"} :
              \/ /\ Works(net, c)
                 /\ net' \in {Effect(net, c)} \cup (IF Deletes(c) THEN {} ELSE {net})
                 /\ Fail(p, [t EXCEPT !.inverses = PushInverse(t, c)], why)
              \/ /\ Deletes(c) /\ net' = net
                 /\ Fail(p, [t EXCEPT !.inverses = PushInverse(t, c), !.kept = {c.slot}], why)
              \/ /\ ~Works(net, c) /\ net' = net
                 /\ Fail(p, [t EXCEPT !.inverses = PushInverse(t, c)], why)
  BY DEF ApplyFails
<1>2. pc[p] = "apply" /\ pc'[p] = "rollback" /\ UNCHANGED <<before, disturbed>>
  BY DEF ApplyFails, Fail, Goto, TypeOK
<1>3. t \in Tx /\ net \in Net /\ c \in Command /\ c.slot \in Slot
      /\ PushInverse(t, c) \in Seq(Undoing)
      /\ (c.slot = Tunnel => c.to # Absent /\ c.slot \notin Firewall)
  BY CommandFacts, PushInverseType, SlotFacts DEF TypeOK, Tx
<1>4. /\ WorldOK /\ TunnelKept /\ Restorable(t.inverses, net, before, disturbed, {})
      /\ Applicable(t, net, disturbed) /\ t.kept = {}
  BY <1>2, TryFacts DEF Applying
<1>5. c.slot \notin disturbed => c.from = net[c.slot]
  BY <1>1, <1>2, CommandStarts
<1>6. PICK kept \in SUBSET {c.slot} :
        /\ u.inverses = PushInverse(t, c) /\ u.kept = kept
        /\ \/ kept = {} /\ Works(net, c) /\ net' = Effect(net, c)
           \/ kept = {} /\ net' = net /\ (Works(net, c) => ~Deletes(c))
           \/ kept = {c.slot} /\ net' = net /\ Deletes(c)
  <2>0. t.kept = {} /\ t \in Tx
    BY <1>3, <1>4
  <2> DEFINE list == PushInverse(t, c)
             some == {c.slot}
             v == [t EXCEPT !.inverses = list]
             w == [t EXCEPT !.inverses = list, !.kept = some]
  <2> HIDE DEF list, some, t
  <2>1. \A why \in Reason : /\ [v EXCEPT !.reason = why].inverses = list
                            /\ [v EXCEPT !.reason = why].kept = {}
    BY <2>0 DEF Tx
  <2>2. \A why \in Reason : /\ [w EXCEPT !.reason = why].inverses = list
                            /\ [w EXCEPT !.reason = why].kept = some
    BY <2>0 DEF Tx
  <2>3. /\ \A why : Fail(p, v, why) => u = [v EXCEPT !.reason = why]
        /\ \A why : Fail(p, w, why) => u = [w EXCEPT !.reason = why]
    BY DEF Fail, TypeOK, t
  <2>4. PICK why \in {"operation-failed", "interrupted"} :
              \/ /\ Works(net, c)
                 /\ net' \in {Effect(net, c)} \cup (IF Deletes(c) THEN {} ELSE {net})
                 /\ Fail(p, v, why)
              \/ Deletes(c) /\ net' = net /\ Fail(p, w, why)
              \/ ~Works(net, c) /\ net' = net /\ Fail(p, v, why)
    BY <1>1 DEF t, list, some
  <2>5. why \in Reason
    BY DEF Reason
  <2> USE DEF list, some
  <2> HIDE DEF v, w, u
  <2>6. CASE Works(net, c) /\ Fail(p, v, why)
             /\ net' \in {Effect(net, c)} \cup (IF Deletes(c) THEN {} ELSE {net})
    <3>1. u.inverses = PushInverse(t, c) /\ u.kept = {} /\ {} \in SUBSET {c.slot}
      BY <2>1, <2>3, <2>5, <2>6
    <3>2. net' = Effect(net, c) \/ (net' = net /\ ~Deletes(c))
      BY <2>6
    <3> QED
      BY <2>6, <3>1, <3>2
  <2>7. CASE Deletes(c) /\ net' = net /\ Fail(p, w, why)
    <3>1. u.inverses = PushInverse(t, c) /\ u.kept = {c.slot} /\ {c.slot} \in SUBSET {c.slot}
      BY <2>2, <2>3, <2>5, <2>7
    <3> QED
      BY <2>7, <3>1
  <2>8. CASE ~Works(net, c) /\ net' = net /\ Fail(p, v, why)
    <3>1. u.inverses = PushInverse(t, c) /\ u.kept = {} /\ {} \in SUBSET {c.slot}
      BY <2>1, <2>3, <2>5, <2>8
    <3> QED
      BY <2>8, <3>1
  <2> QED
    BY <2>4, <2>6, <2>7, <2>8
<1>7. WorldOK'
  BY <1>3, <1>4, <1>6, EffectWorldOK DEF WorldOK
<1>8. \A y \in Slot : y # c.slot => net'[y] = net[y]
  BY <1>3, <1>6, EffectAt
<1>9. TunnelKept'
  <2>1. c.slot = Tunnel => net'[Tunnel] # Absent \/ net' = net
    BY <1>3, <1>6, EffectAt
  <2> QED
    BY <1>2, <1>3, <1>4, <1>8, <2>1, SlotFacts DEF TunnelKept
<1>10. kept \subseteq Firewall
  BY <1>6 DEF Deletes
<1>11. ASSUME c.slot \notin disturbed
       PROVE  \/ net'[c.slot] = Left(kept, c.slot, c.to)
              \/ /\ net'[c.slot] = c.from
                 /\ c.slot \in Firewall => c.from = 0 /\ c.slot \notin kept
  <2> DEFINE s == c.slot
  <2>1. c.from = net[s]
    BY <1>5, <1>11
  <2>2. CASE kept = {} /\ Works(net, c) /\ net' = Effect(net, c)
    BY <1>3, <2>1, <2>2, EffectAt, LeftFacts
  <2>3. CASE kept = {} /\ net' = net /\ (Works(net, c) => ~Deletes(c))
    <3>1. s \in Firewall => /\ c.from \in Nat /\ c.to \in Nat
                            /\ c.from = c.to + 1 \/ (c.from = 0 /\ c.to = 1)
      BY <1>3, CommandFacts
    <3>2. s \in Firewall /\ c.from > c.to => ~Works(net, c)
      BY <2>3 DEF Deletes
    <3>3. s \in Firewall => s \notin Deletable /\ s \notin Exclusive /\ s \notin OnTunnel /\ s # Tunnel
      BY SlotFacts DEF Exclusive, Deletable, FixedIPv4, DefaultRoute, OnTunnel,
         Connected, Firewall, Mss, Snat, OuterRule
    <3>4. s \in Firewall /\ c.from > c.to => ~(net[s] > 0)
      BY <3>2, <3>3 DEF Works
    <3> HIDE DEF s
    <3>5. s \in Firewall => c.from = 0
      BY <2>1, <3>1, <3>4
    <3> QED
      BY <2>1, <2>3, <3>5 DEF s
  <2>4. CASE kept = {c.slot} /\ net' = net /\ Deletes(c)
    <3>1. s \in Firewall /\ c.from > c.to /\ c.from \in Nat /\ c.to \in Nat
          /\ (c.from = c.to + 1 \/ (c.from = 0 /\ c.to = 1))
      BY <1>3, <2>4, CommandFacts DEF Deletes
    <3>2. Left(kept, s, c.to) = c.to + 1
      BY <2>4, LeftFacts
    <3> HIDE DEF s
    <3>3. net[s] = Left(kept, s, c.to)
      BY <2>1, <3>1, <3>2
    <3> QED
      BY <2>4, <3>3 DEF s
  <2> QED
    BY <1>6, <2>2, <2>3, <2>4
<1> HIDE DEF t, u
<1>12. Restorable(u.inverses, net', before, disturbed, kept)
  BY <1>1, <1>3, <1>4, <1>5, <1>6, <1>8, <1>10, <1>11, PushRestorable DEF TunnelKept
<1> QED
  BY <1>2, <1>6, <1>7, <1>9, <1>12 DEF RestoreAt, Applying, Committed, u

\* A replan adds actions to a list that still leads back to the first plan.
LEMMA SettleRestore ==
    ASSUME TypeOK, TypeOK', RestoreInv, NEW p \in Proc, Settle(p)
    PROVE  WorldOK' /\ RestoreAt(p)'
<1> DEFINE t == tx[p]
           u == tx'[p]
<1>1. pc[p] = "apply" /\ pc'[p] = "apply" /\ UNCHANGED <<net, before, disturbed>>
  BY DEF Settle, world
<1>2. /\ u.todo = Commands(Goal(prefix, runtime, net), net) /\ u.seen = net
      /\ u.inverses = t.inverses /\ u.broken = t.broken /\ u.kept = t.kept
  BY DEF Settle, TypeOK, Tx
<1>3. u \in Tx /\ net \in Net /\ prefix \in Endpoint
  BY DEF TypeOK
<1>4. /\ WorldOK /\ TunnelKept /\ Restorable(t.inverses, net, before, disturbed, {})
      /\ Applicable(t, net, disturbed) /\ ~t.broken /\ t.kept = {}
  BY <1>1, TryFacts DEF Applying
<1>5. Done(u.inverses, net, disturbed)
  BY <1>2, <1>4 DEF Applicable, Done
<1> HIDE DEF t, u
<1>6. Applicable(u, net, disturbed)
  BY <1>2, <1>3, <1>5, PlanApplicable
<1> QED
  BY <1>1, <1>2, <1>4, <1>6 DEF RestoreAt, WorldOK, TunnelKept, Applying, u

\* A rollback that has only failed in skipping has not really failed before.
LEMMA CleanBefore ==
    ASSUME TypeOK, [Next]_vars, NEW p \in Proc, Clean(p)', tx[p].broken => tx'[p].broken
    PROVE  Clean(p)
<1>1. faults'["undo"] = 0 => faults["undo"] = 0
  BY FaultsGrow DEF Kind
<1> QED
  BY <1>1 DEF Clean

\* An inverse done, or skipped for want of anything to undo, the rest of the list
\* leads back.
LEMMA UndoRestore ==
    ASSUME TypeOK, RestoreInv, [Next]_vars, NEW p \in Proc, Undo(p) \/ UndoFails(p)
    PROVE  WorldOK' /\ RestoreAt(p)'
<1> DEFINE list == tx[p].inverses
           n    == Len(list)
           e    == list[n]
           short == SubSeq(list, 1, n - 1)
<1>1. /\ pc[p] = "rollback" /\ pc'[p] = "rollback" /\ n > 0 /\ UNCHANGED <<before, disturbed>>
      /\ tx[p] \in Tx /\ net \in Net
  BY DEF Undo, UndoFails, history, TypeOK
<1>2. /\ \/ Works(net, e) /\ net' = Effect(net, e)
         \/ ~Works(net, e) /\ net' = net
         \/ Works(net, e) /\ net' = net /\ ~Clean(p)'
      /\ tx'[p].inverses = short /\ tx'[p].kept = tx[p].kept
      /\ tx[p].broken => tx'[p].broken
  <2>1. CASE Undo(p)
    BY <1>1, <2>1 DEF Undo, TypeOK, Tx
  <2>2. CASE UndoFails(p)
    <3>1. /\ tx'[p].inverses = short /\ tx'[p].kept = tx[p].kept /\ tx'[p].broken
      BY <1>1, <2>2 DEF UndoFails, TypeOK, Tx
    <3>2. Fault("undo") => faults'["undo"] # 0
      BY FaultCounts DEF Kind
    <3> QED
      BY <2>2, <3>1, <3>2 DEF UndoFails, Clean
  <2> QED
    BY <2>1, <2>2
<1>3. /\ list \in Seq(Undoing) /\ e \in Undoing /\ n \in Nat /\ DOMAIN list = 1 .. n
      /\ short \in Seq(Undoing) /\ Len(short) = n - 1
      /\ \A k \in 1 .. (n - 1) : short[k] = list[k]
  <2>1. list \in Seq(Undoing) /\ e \in Undoing /\ short \in Seq(Undoing) /\ n \in Nat
    BY <1>1, TxFields, PopType
  <2>2. DOMAIN list = 1 .. n
    BY <2>1, LenProperties
  <2> HIDE DEF list
  <2>3. Len(short) = n - 1 /\ \A k \in 1 .. (n - 1) : short[k] = list[k]
    <3>1. 1 \in 1 .. (Len(list) + 1) /\ n - 1 \in (1 - 1) .. Len(list) /\ (n - 1) - 1 + 1 = n - 1
      BY <1>1, <2>1
    <3>2. /\ Len(short) = (n - 1) - 1 + 1
          /\ \A k \in 1 .. ((n - 1) - 1 + 1) : short[k] = list[1 + k - 1]
      BY <2>1, <3>1, SubSeqProperties
    <3>3. \A k \in 1 .. (n - 1) : 1 + k - 1 = k
      OBVIOUS
    <3> QED
      BY <3>1, <3>2, <3>3
  <2> QED
    BY <2>1, <2>2, <2>3
<1>4. DOMAIN short = 1 .. (n - 1) /\ n - 1 \in Nat /\ DOMAIN list = 1 .. ((n - 1) + 1)
      /\ list[(n - 1) + 1] = e
  <2>1. DOMAIN short = 1 .. Len(short)
    BY <1>3, LenProperties
  <2> HIDE DEF short, e, list
  <2>2. n - 1 \in Nat /\ (n - 1) + 1 = n
    BY <1>1, <1>3
  <2> QED
    BY <1>3, <2>1, <2>2 DEF e
<1>5. WorldOK'
  <2> HIDE DEF e
  <2> QED
    BY <1>1, <1>2, <1>3, EffectWorldOK DEF RestoreInv, WorldOK
<1>6. ASSUME Clean(p)'
      PROVE  TunnelKept' /\ Restorable(short, net', before, disturbed, tx[p].kept)
  <2>1. TunnelKept /\ Restorable(list, net, before, disturbed, tx[p].kept) /\ WorldOK
    BY <1>1, <1>2, <1>6, CleanBefore DEF RestoreInv, RestoreAt
  <2>2. tx[p].kept \in SUBSET Firewall
    BY <1>1, TxFields
  <2> HIDE DEF list, n, e, short
  <2>3. CASE Works(net, e) /\ net' = Effect(net, e)
    <3>1. /\ \A y \in Slot : y # e.slot =>
                net'[y] = IF e.slot = Tunnel /\ e.to = Absent /\ y \in OnTunnel THEN Absent
                          ELSE net[y]
          /\ e.slot \notin disturbed => net'[e.slot] = Left(tx[p].kept, e.slot, e.to)
          /\ e.slot = Tunnel => net'[Tunnel] = e.to
      BY <1>1, <1>3, <1>4, <2>1, <2>2, <2>3, UndoneSlot DEF e
    <3>2. Restorable(short, net', before, disturbed, tx[p].kept)
      BY <1>3, <1>4, <2>1, <2>2, <3>1, PoppedRestorable
    <3>3. Tunnel \in Slot /\ Tunnel \notin OnTunnel
      BY SlotFacts
    <3>4. TunnelKept'
      <4>1. CASE e.slot = Tunnel /\ net'[Tunnel] = Absent /\ Tunnel \notin disturbed
        <5>1. n \in DOMAIN list /\ list[n] = e
          BY <1>1, <1>3 DEF e
        <5>2. DropsTunnel(list)
          BY <3>1, <4>1, <5>1 DEF DropsTunnel
        <5>3. before[Tunnel] = Absent
          BY <2>1, <4>1, <5>2 DEF Restorable
        <5> QED
          BY <1>1, <5>3 DEF TunnelKept
      <4>2. CASE e.slot # Tunnel
        BY <1>1, <2>1, <3>1, <3>3, <4>2 DEF TunnelKept
      <4>3. CASE ~(net'[Tunnel] = Absent /\ Tunnel \notin disturbed)
        BY <1>1, <4>3 DEF TunnelKept
      <4> QED
        BY <4>1, <4>2, <4>3
    <3> QED
      BY <3>2, <3>4
  <2>4. CASE ~Works(net, e) /\ net' = net
    <3>1. /\ \A y \in Slot : y # e.slot =>
                net[y] = IF e.slot = Tunnel /\ e.to = Absent /\ y \in OnTunnel THEN Absent
                         ELSE net[y]
          /\ e.slot \notin disturbed =>
                \/ net[e.slot] = Left(tx[p].kept, e.slot, e.to)
                \/ e.slot \in OnTunnel /\ net[e.slot] = before[e.slot]
      BY <1>1, <1>3, <1>4, <2>1, <2>2, <2>4, SkippedSlot DEF e, WorldOK, TunnelKept
    <3>2. Restorable(short, net, before, disturbed, tx[p].kept)
      BY <1>3, <1>4, <2>1, <2>2, <3>1, PoppedRestorable
    <3> QED
      BY <1>1, <2>1, <2>4, <3>2 DEF TunnelKept
  <2> QED
    BY <1>2, <1>6, <2>3, <2>4
<1> QED
  BY <1>1, <1>2, <1>5, <1>6 DEF RestoreAt, Applying, Committed

\* The files a rollback writes leave the network restored.
LEMMA RecordRestore ==
    ASSUME TypeOK, RestoreInv, [Next]_vars, NEW p \in Proc,
           RollbackDone(p) \/ FailJournal(p) \/ RecordFailure(p)
    PROVE  WorldOK' /\ RestoreAt(p)'
<1>1. /\ UNCHANGED <<net, before, disturbed>>
      /\ pc'[p] \in {"failJournal", "failHealth", "failQuarantine"}
      /\ tx'[p].broken = tx[p].broken /\ tx'[p].kept = tx[p].kept
  BY DEF RollbackDone, FailJournal, RecordFailure, world, history, Goto, TypeOK, Tx
<1>2. ASSUME Clean(p)' PROVE Restored(p)
  <2>1. Clean(p)
    BY <1>1, <1>2, CleanBefore
  <2>2. CASE RollbackDone(p)
    <3>1. tx[p].inverses = <<>> /\ pc[p] = "rollback" /\ DOMAIN <<>> = {}
      BY <2>2 DEF RollbackDone
    <3>2. Restorable(<<>>, net, before, disturbed, tx[p].kept) => Restored(p)
      BY <3>1 DEF Restorable, Restored, Has, DropsTunnel
    <3> QED
      BY <2>1, <3>1, <3>2 DEF RestoreInv, RestoreAt
  <2>3. CASE FailJournal(p) \/ RecordFailure(p)
    BY <2>1, <2>3 DEF FailJournal, RecordFailure, RestoreInv, RestoreAt
  <2> QED
    BY <2>2, <2>3
<1> QED
  BY <1>1, <1>2 DEF RestoreInv, RestoreAt, Restored, WorldOK, Applying, Committed

\* A process that leaves owes nothing.
LEMMA LeaveRestore ==
    ASSUME TypeOK, RestoreInv, NEW p \in Proc, Report(p) \/ Quarantine(p) \/ Die(p)
    PROVE  WorldOK' /\ RestoreAt(p)'
<1>1. pc'[p] = "idle" /\ net' = net /\ tx'[p] = NoTx
  BY DEF Report, Quarantine, Die, Leave, Goto, world, TypeOK
<1>2. ~NoTx.broken /\ NoTx.kept = {}
  BY DEF NoTx
<1> QED
  BY <1>1, <1>2 DEF RestoreInv, RestoreAt, WorldOK, Applying, Committed

\* What others touch need not be restored any more.
LEMMA DriftRestore ==
    ASSUME TypeOK, RestoreInv, [Next]_vars, Drift
    PROVE  RestoreInv'
<1>1. PICK s \in Fragile : \E v \in DriftTo(s) :
         /\ s \in OnTunnel => net[Tunnel] # Absent
         /\ net' = Put(net, s, v)
         /\ AtRest \/ disturbed' = disturbed \cup Touched(s)
  BY DEF Drift
<1>2. PICK v \in DriftTo(s) :
         /\ s \in OnTunnel => net[Tunnel] # Absent
         /\ net' = Put(net, s, v)
         /\ AtRest \/ disturbed' = disturbed \cup Touched(s)
  BY <1>1
<1>3. s \in Slot
  BY ProcAssumption
<1>4. UNCHANGED <<pc, tx, before>>
  BY DEF Drift
<1>5. WorldOK'
  BY <1>2, <1>3, PutWorldOK DEF RestoreInv
<1>6. ASSUME NEW p \in Proc PROVE RestoreAt(p)'
  <2>1. CASE AtRest
    BY <1>4, <2>1 DEF AtRest, RestoreInv, RestoreAt, Applying, Committed
  <2>2. CASE disturbed' = disturbed \cup Touched(s)
    <3>1. RestoreAt(p)
      BY DEF RestoreInv
    <3>2. Restorable(tx[p].inverses, net, before, disturbed, tx[p].kept) =>
            Restorable(tx[p].inverses, net', before, disturbed', tx[p].kept)
      BY <1>2, <1>3, <2>2, DriftRestorable
    <3>3. Applicable(tx[p], net, disturbed) => Applicable(tx[p], net', disturbed')
      BY <1>2, <1>3, <2>2, DriftApplicable
    <3>4. Restored(p) => Restored(p)'
      BY <1>2, <1>3, <1>4, <2>2, PutElsewhere DEF Restored
    <3>5. TunnelKept => TunnelKept'
      <4>1. Tunnel \in Slot /\ (Tunnel \notin Touched(s) => Put(net, s, v)[Tunnel] = net[Tunnel])
        BY <1>3, SlotFacts, PutElsewhere
      <4> QED
        BY <1>2, <1>4, <2>2, <4>1 DEF TunnelKept
    <3>6. Clean(p)' => Clean(p)
      BY <1>4, CleanBefore
    <3> QED
      BY <1>4, <3>1, <3>2, <3>3, <3>4, <3>5, <3>6 DEF RestoreAt
  <2> QED
    BY <1>2, <2>1, <2>2
<1> QED
  BY <1>5, <1>6 DEF RestoreInv

\* There is nothing to restore at the start.
LEMMA InitRestoreInv == Init => RestoreInv
<1>1. ~NoTx.broken /\ NoTx.kept = {}
  BY DEF NoTx
<1> QED
  BY <1>1, SlotFacts DEF Init, RestoreInv, RestoreAt, WorldOK, EmptyNet, Applying, Committed

\* Every step keeps the inverses good.
LEMMA NextRestoreInv ==
    TypeOK /\ TypeOK' /\ LockInv /\ WorkInv /\ RestoreInv /\ [Next]_vars => RestoreInv'
<1> SUFFICES ASSUME TypeOK, TypeOK', LockInv, WorkInv, RestoreInv, [Next]_vars PROVE RestoreInv'
  OBVIOUS
<1>1. ASSUME UNCHANGED <<net, pc, tx, before, disturbed>> PROVE RestoreInv'
  <2>1. \A p \in Proc : Clean(p)' => Clean(p)
    BY <1>1, CleanBefore
  <2> QED
    BY <1>1, <2>1 DEF RestoreInv, RestoreAt, Restored, WorldOK, TunnelKept
<1>2. ASSUME NEW p \in Proc, Start(p) PROVE RestoreInv'
  <2>1. /\ UNCHANGED <<net, tx, before, disturbed, faults>>
        /\ \A q \in Proc : q # p => pc'[q] = pc[q]
        /\ pc'[p] = "plan" /\ pc[p] = "idle"
    BY <1>2 DEF Start, Goto, world, history, TypeOK
  <2>2. WorldOK'
    BY <2>1 DEF RestoreInv, WorldOK
  <2>3. RestoreAt(p)'
    BY <2>1 DEF RestoreInv, RestoreAt, Applying, Committed
  <2>4. \A q \in Proc : q # p => RestoreAt(q)'
    BY <2>1 DEF RestoreInv, RestoreAt, Restored, TunnelKept, Clean
  <2> QED
    BY <2>2, <2>3, <2>4 DEF RestoreInv
<1>3. ASSUME NEW p \in Proc, Step(p) \/ Raise(p) \/ Die(p) PROVE RestoreInv'
  <2>1. \A q \in Proc : q # p => RestoreAt(q)'
    BY <1>3, OthersRestoreAt
  <2>2. WorldOK' /\ RestoreAt(p)'
    <3>1. CASE Forward(p)
      BY <3>1, PlanRestore, ApplyRestore, ApplyFailsRestore, SettleRestore, FailRestore,
         CommitRestore DEF Forward
    <3>2. CASE Commit(p)
      BY <3>2, CommitRestore, LeaveRestore DEF Commit
    <3>3. CASE Rollback(p)
      BY <3>3, UndoRestore, RecordRestore, LeaveRestore DEF Rollback
    <3>4. CASE Raise(p) \/ Die(p)
      BY <3>4, FailRestore, LeaveRestore
    <3> QED
      BY <1>3, <3>1, <3>2, <3>3, <3>4 DEF Step
  <2> QED
    BY <2>1, <2>2 DEF RestoreInv
<1>4. ASSUME Drift PROVE RestoreInv'
  BY <1>4, DriftRestore
<1>5. ASSUME Reboot PROVE RestoreInv'
  <2>1. ~NoTx.broken /\ NoTx.kept = {}
    BY DEF NoTx
  <2>2. \A p \in Proc : RestoreAt(p)'
    BY <1>5, <2>1 DEF Reboot, RestoreAt, Applying, Committed
  <2>3. WorldOK'
    BY <1>5, SlotFacts DEF Reboot, WorldOK
  <2> QED
    BY <2>2, <2>3 DEF RestoreInv
<1>6. ASSUME MovePrefix PROVE RestoreInv'
  BY <1>1, <1>6 DEF MovePrefix
<1>7. ASSUME UNCHANGED vars PROVE RestoreInv'
  BY <1>1, <1>7 DEF vars, world, history
<1> QED
  BY <1>2, <1>3, <1>4, <1>5, <1>6, <1>7 DEF Next

\* The invariants together.
LEMMA RestoreAlways == Spec => []RestoreInv
<1>1. Init => TypeOK /\ LockInv /\ WorkInv /\ RestoreInv
  BY InitTypeOK, InitLockInv, InitWorkInv, InitRestoreInv
<1>2. TypeOK /\ LockInv /\ WorkInv /\ RestoreInv /\ [Next]_vars
        => (TypeOK /\ LockInv /\ WorkInv /\ RestoreInv)'
  BY NextTypeOK, NextLockInv, NextWorkInv, NextRestoreInv
<1> QED
  BY <1>1, <1>2, PTL DEF Spec

\* A transaction that fails and reports that all its inverses worked has put
\* every slot that nobody else touched back as it found it, save one more copy of
\* the firewall rule whose deletion failed: for any planner slots, any number of
\* copies, any order of failures and signals and any drift on the way.
THEOREM RollbackCorrect == Spec => []RollbackRestores
<1>1. RestoreInv => RollbackRestores
  BY DEF RestoreInv, RestoreAt, Restored, RollbackRestores, Clean
<1> QED
  BY <1>1, RestoreAlways, PTL

\* A rollback that has not been hit by a fault leaves every slot that nobody else
\* touched as it was found, save one more copy of the firewall rule whose deletion
\* failed, also when it reports rollback-failed: the inverses it skipped were those
\* of commands without effect, and had nothing to undo.
SkipsOnlyNothing ==
    \A p \in Proc :
        faults["undo"] = 0 /\ pc[p] \in {"failJournal", "failHealth", "failQuarantine"} =>
            \A s \in Slot \ disturbed : net[s] = Left(tx[p].kept, s, before[s])

\* Skipping the inverses that find nothing to undo loses nothing.
THEOREM SkippedInversesAreHarmless == Spec => []SkipsOnlyNothing
<1>1. RestoreInv => SkipsOnlyNothing
  BY DEF RestoreInv, RestoreAt, Restored, SkipsOnlyNothing, Clean
<1> QED
  BY <1>1, RestoreAlways, PTL
=============================================================================
