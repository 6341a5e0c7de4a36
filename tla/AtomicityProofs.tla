-------------------------- MODULE AtomicityProofs --------------------------
(* Proofs that a reconcile is one step to whoever sees only its outcome:   *)
(* what its records say agrees with what it did, the provider hears of it, *)
(* what it leaves behind is its own, and Transaction implements AtomicRepair. *)
EXTENDS TransactionProofs, TransactionRefinement

(* The steps of a run *****************************************************)

\* The steps between the plan of a run and its end that keep the plan.
Inner(p) ==
    \/ Apply(p) \/ ApplyFails(p) \/ SettleFails(p) \/ ApplyDone(p)
    \/ HealthPasses(p) \/ HealthFails(p)
    \/ WritePrevious(p) \/ WriteRuntime(p) \/ WriteHealthy(p) \/ ClearQuarantine(p)
    \/ FinishVerified(p) \/ DecideNotify(p) \/ NotifyProvider(p) \/ NotifyFails(p)
    \/ ForgetPending(p) \/ DeferNotification(p)
    \/ Undo(p) \/ UndoFails(p) \/ RollbackDone(p) \/ FailJournal(p) \/ RecordFailure(p)
    \/ Raise(p)

Ending(p) == Report(p) \/ Quarantine(p) \/ Die(p)

\* The steps of a process: plans, replans, inner ones and last ones.
LEMMA StepSplit ==
    ASSUME NEW p \in Proc
    PROVE  Step(p) \/ Raise(p) \/ Die(p) <=>
              Plan(p) \/ Refuse(p) \/ Settle(p) \/ Inner(p) \/ Ending(p)
BY DEF Step, Forward, Commit, Rollback, Inner, Ending

\* What one process does leaves the others idle and their locals alone.
LEMMA OthersStay ==
    ASSUME TypeOK, LockInv, NEW p \in Proc, Step(p) \/ Raise(p) \/ Die(p),
           NEW q \in Proc, q # p
    PROVE  pc[q] = "idle" /\ pc'[q] = "idle" /\ tx'[q] = tx[q]
<1>1. pc[q] = "idle" /\ pc'[q] = "idle"
  BY StepShape, OthersIdle DEF TypeOK
<1>2. tx'[q] = tx[q]
  BY OwnLocals
<1> QED
  BY <1>1, <1>2

\* The last step of a run leaves the network and what it has recorded.
LEMMA EndingLeaves ==
    ASSUME TypeOK, NEW p \in Proc, Ending(p)
    PROVE  /\ pc'[p] = "idle" /\ tx'[p] = NoTx /\ lock' = Nobody
           /\ disturbed' = {} /\ unsettled' = {}
           /\ UNCHANGED <<net, runtime, health>>
BY DEF Ending, Report, Quarantine, Die, Leave, Goto, TypeOK, world, files

\* An idle process has no endpoint.
LEMMA NoTxLocal == NoTx.local = None
BY DEF NoTx

\* Drift at one slot leaves the others as they are.
DriftAt(s) ==
    /\ \A x \in Slot \ Touched(s) : net'[x] = net[x]
    /\ \/ AtRest /\ UNCHANGED <<disturbed, unsettled>>
       \/ disturbed' = disturbed \cup Touched(s) /\ unsettled' = unsettled \cup Touched(s)

\* A drift is the drift of one slot.
LEMMA DriftShape == Drift => \E s \in Slot : DriftAt(s)
<1> SUFFICES ASSUME Drift PROVE \E s \in Slot : DriftAt(s)
  OBVIOUS
<1>1. PICK s \in Fragile : \E v \in DriftTo(s) :
        /\ net' = Put(net, s, v)
        /\ \/ AtRest /\ UNCHANGED <<disturbed, unsettled>>
           \/ disturbed' = disturbed \cup Touched(s) /\ unsettled' = unsettled \cup Touched(s)
  BY DEF Drift
<1>2. s \in Slot
  BY ProcAssumption
<1> QED
  BY <1>1, <1>2, PutElsewhere DEF DriftAt

SamePlan(p) == /\ tx'[p].local = tx[p].local /\ tx'[p].old = tx[p].old
               /\ tx'[p].seen = tx[p].seen /\ tx'[p].goal = tx[p].goal

\* A step that keeps the plan keeps the history, and where the process stands
\* on its way tells where it came from.
LEMMA InnerKeeps ==
    ASSUME TypeOK, NEW p \in Proc, Inner(p)
    PROVE  /\ SamePlan(p) /\ UNCHANGED <<prefix, before, disturbed, unsettled, torn>>
           /\ pc[p] \in PCs \ {"idle", "plan"} /\ pc'[p] \in PCs \ {"idle", "plan"}
           /\ pc'[p] \in Applying \cup Committed => pc[p] \in Applying \cup Committed
<1> USE DEF TypeOK, PCs, Applying, Committed, Failing, Goto, files, history, world
<1>0. tx[p] \in Tx
  OBVIOUS
<1>1. ASSUME UNCHANGED tx PROVE SamePlan(p)
  BY <1>1 DEF SamePlan
<1>2. ASSUME NEW why \in Reason, tx' = [tx EXCEPT ![p] = [tx[p] EXCEPT !.reason = why]]
      PROVE  SamePlan(p)
  BY <1>0, <1>2 DEF SamePlan, Tx
<1>3. CASE Apply(p)
  BY <1>0, <1>3 DEF Apply, SamePlan, Tx
<1>4. CASE ApplyFails(p)
  <2>1. PICK c \in tx[p].todo, why \in {"operation-failed", "interrupted"} :
           LET list == PushInverse(tx[p], c)
           IN  \/ tx' = [tx EXCEPT ![p] = [[tx[p] EXCEPT !.inverses = list] EXCEPT !.reason = why]]
               \/ tx' = [tx EXCEPT ![p] = [[tx[p] EXCEPT !.inverses = list, !.kept = {c.slot}]
                                           EXCEPT !.reason = why]]
    BY <1>4 DEF ApplyFails, Fail
  <2>2. SamePlan(p)
    <3>1. PICK w : tx' = [tx EXCEPT ![p] = w] /\ w.local = tx[p].local /\ w.old = tx[p].old
                   /\ w.seen = tx[p].seen /\ w.goal = tx[p].goal
      <4> DEFINE t == tx[p]
                 list == PushInverse(t, c)
                 u == [[t EXCEPT !.inverses = list] EXCEPT !.reason = why]
                 v == [[t EXCEPT !.inverses = list, !.kept = {c.slot}] EXCEPT !.reason = why]
      <4>1. tx' = [tx EXCEPT ![p] = u] \/ tx' = [tx EXCEPT ![p] = v]
        BY <2>1
      <4>2. /\ u.local = t.local /\ u.old = t.old /\ u.seen = t.seen /\ u.goal = t.goal
            /\ v.local = t.local /\ v.old = t.old /\ v.seen = t.seen /\ v.goal = t.goal
        <5>1. t \in Tx
          BY <1>0
        <5> HIDE DEF t, list
        <5> QED
          BY <5>1 DEF Tx
      <4> HIDE DEF u, v
      <4> QED
        BY <4>1, <4>2
    <3> QED
      BY <3>1 DEF SamePlan
  <2> QED
    BY <1>4, <2>2 DEF ApplyFails, Fail
<1>5. CASE SettleFails(p)
  BY <1>2, <1>5 DEF SettleFails, Fail
<1>6. CASE ApplyDone(p) \/ HealthPasses(p)
  BY <1>1, <1>6 DEF ApplyDone, HealthPasses
<1>7. CASE HealthFails(p)
  BY <1>2, <1>7 DEF HealthFails, Fail, Reason
<1>8. CASE WritePrevious(p) \/ WriteRuntime(p) \/ WriteHealthy(p) \/ ClearQuarantine(p)
           \/ FinishVerified(p)
  BY <1>1, <1>8 DEF WritePrevious, WriteRuntime, WriteHealthy, ClearQuarantine, FinishVerified
<1>9. CASE DecideNotify(p) \/ NotifyProvider(p) \/ NotifyFails(p) \/ ForgetPending(p)
           \/ DeferNotification(p)
  BY <1>1, <1>9 DEF DecideNotify, NotifyProvider, NotifyFails, ForgetPending, DeferNotification
<1>10. CASE Undo(p) \/ UndoFails(p)
  BY <1>0, <1>10 DEF Undo, UndoFails, SamePlan, Tx
<1>11. CASE RollbackDone(p)
  BY <1>0, <1>11 DEF RollbackDone, SamePlan, Tx
<1>12. CASE FailJournal(p) \/ RecordFailure(p)
  BY <1>1, <1>12 DEF FailJournal, RecordFailure
<1>13. CASE Raise(p)
  BY <1>1, <1>2, <1>13 DEF Raise, Fail, Reason
<1> QED
  BY <1>3, <1>4, <1>5, <1>6, <1>7, <1>8, <1>9, <1>10, <1>11, <1>12, <1>13 DEF Inner

(* What a run remembers ***************************************************)

\* Before its plan a process has no locals; after it they are those of one
\* plan, for the record the first plan read.  Further copies of a rule that are
\* there, or were when the latest plan was made, were there.  The record is that
\* of the first plan until it is this run's own.
Grown(n) == \E s \in Firewall \ disturbed : n[s] > 1 /\ n[s] > before[s]

TraceAt(p) ==
    /\ pc[p] \in {"idle", "plan"} => tx[p] = NoTx
    /\ pc[p] \in Applying \cup Committed =>
          /\ tx[p].local \in Endpoint
          /\ tx[p].goal = Goal(tx[p].local, tx[p].old, tx[p].seen)
          /\ ~Grown(net) /\ ~Grown(tx[p].seen)
    /\ runtime \in Endpoint \/ tx[p].local = None \/ runtime = tx[p].old
    /\ pc[p] \in Applying => runtime = tx[p].old
    /\ pc[p] \in Committed => runtime = tx[p].local

TraceInv == \A p \in Proc : TraceAt(p)

\* Nothing has grown beyond itself.
LEMMA NotGrown == TypeOK /\ before = net => ~Grown(net)
<1> SUFFICES ASSUME TypeOK, before = net, NEW s \in Firewall PROVE ~(net[s] > before[s])
  BY DEF Grown
<1>1. net[s] \in Nat
  BY NetFacts, CellOfFacts, SlotFacts DEF TypeOK
<1> QED
  BY <1>1

\* A command of a plan makes no further copy of a rule that is there.
LEMMA ApplyGrows ==
    ASSUME TypeOK, WorkInv, NEW p \in Proc, ~Grown(net), Apply(p)
    PROVE  \A s \in Firewall \ disturbed : ~(net'[s] > 1 /\ net'[s] > before[s])
<1>1. PICK c \in tx[p].todo : IsNext(tx[p], c) /\ Works(net, c) /\ net' = Effect(net, c)
  BY DEF Apply
<1>2. pc[p] = "apply" /\ tx[p] \in Tx /\ c \in Command /\ net \in Net /\ before \in Net
  BY TxFields DEF Apply, TypeOK
<1>3. c.slot \notin disturbed => c.from = net[c.slot]
  BY <1>1, <1>2, CommandStarts
<1>4. ASSUME NEW s \in Firewall \ disturbed PROVE ~(net'[s] > 1 /\ net'[s] > before[s])
  <2>1. s \in Slot /\ net[s] \in Nat /\ before[s] \in Nat /\ ~(net[s] > 1 /\ net[s] > before[s])
    BY <1>2, NetFacts, CellOfFacts, SlotFacts DEF Grown
  <2>2. CASE s # c.slot
    BY <1>1, <1>2, <2>1, <2>2, EffectAt
  <2>3. CASE s = c.slot
    <3>1. net'[s] = c.to /\ c.from = net[s]
      BY <1>1, <1>2, <1>3, <2>3, EffectAt
    <3>2. c.from = c.to + 1 \/ (c.from = 0 /\ c.to = 1)
      BY <1>2, <2>3, CommandFacts
    <3>3. c.to \in Nat
      BY <1>2, <2>3, CommandFacts
    <3> QED
      BY <2>1, <3>1, <3>2, <3>3
  <2> QED
    BY <2>2, <2>3
<1> QED
  BY <1>4

\* A plan traces back to the record it has read.
LEMMA PlanTrace ==
    ASSUME TypeOK, TraceInv, NEW p \in Proc, Plan(p) \/ Refuse(p) \/ Settle(p)
    PROVE  TraceAt(p)'
<1> USE DEF TypeOK
<1>0. /\ tx[p] \in Tx /\ prefix \in Endpoint /\ prefix # None
      /\ TraceAt(p)
  BY PlannerAssumption DEF TraceInv
<1>1. CASE Plan(p)
  <2>1. /\ tx'[p].local = prefix /\ tx'[p].old = runtime /\ tx'[p].seen = net
        /\ tx'[p].goal = Goal(prefix, runtime, net)
    BY <1>1 DEF Plan, NoTx
  <2>2. /\ pc'[p] = "apply" /\ UNCHANGED <<net, runtime>> /\ before' = net
        /\ disturbed' = {} /\ unsettled' = {}
    BY <1>1 DEF Plan, Goto, world
  <2>3. ~Grown(net)'
    BY <2>2, NetFacts, CellOfFacts, SlotFacts DEF Grown
  <2>4. ~Grown(tx[p].seen)'
    BY <2>1, <2>2, <2>3 DEF Grown
  <2> QED
    BY <1>0, <2>1, <2>2, <2>3, <2>4 DEF TraceAt, Applying, Committed
<1>2. CASE Refuse(p)
  <2>1. pc[p] = "plan" /\ tx[p] = NoTx
    BY <1>0, <1>2 DEF Refuse, TraceAt
  <2>2. tx'[p].local = None
    BY <1>2, <2>1 DEF Refuse, NoTx
  <2>3. pc'[p] = "failHealth" /\ disturbed' = {} /\ unsettled' = {}
    BY <1>2 DEF Refuse, Goto
  <2> QED
    BY <2>2, <2>3 DEF TraceAt, Applying, Committed
<1>3. CASE Settle(p)
  <2>1. /\ tx'[p].local = prefix /\ tx'[p].old = tx[p].old /\ tx'[p].seen = net
        /\ tx'[p].goal = Goal(prefix, runtime, net)
    BY <1>0, <1>3 DEF Settle, Tx
  <2>2. /\ pc[p] = "apply" /\ pc'[p] = "apply" /\ unsettled' = {}
        /\ UNCHANGED <<net, before, disturbed, runtime>>
    BY <1>3 DEF Settle, world
  <2>3. ~Grown(net)' /\ ~Grown(tx[p].seen)'
    BY <1>0, <2>1, <2>2 DEF Grown, TraceAt, Applying
  <2> QED
    BY <1>0, <2>1, <2>2, <2>3 DEF TraceAt, Applying, Committed
<1> QED
  BY <1>1, <1>2, <1>3

\* A step that keeps the plan, by what it does to the network and the record.
LEMMA KeepTrace ==
    ASSUME TypeOK, TraceInv, NEW p \in Proc, Inner(p),
           pc'[p] \in Applying \cup Committed =>
              net' = net \/ \A s \in Firewall \ disturbed : ~(net'[s] > 1 /\ net'[s] > before[s]),
           \/ runtime' = runtime /\ (pc'[p] \in Applying => pc[p] \in Applying)
                                 /\ (pc'[p] \in Committed => pc[p] \in Committed)
           \/ runtime' = tx[p].local /\ pc[p] \in Applying /\ pc'[p] \in Committed
    PROVE  TraceAt(p)'
<1>1. /\ SamePlan(p) /\ UNCHANGED <<prefix, before, disturbed, unsettled, torn>>
      /\ pc'[p] \in PCs \ {"idle", "plan"}
      /\ pc'[p] \in Applying \cup Committed => pc[p] \in Applying \cup Committed
  BY InnerKeeps
<1>2. TraceAt(p)
  BY DEF TraceInv
<1>3. Applying \cap Committed = {}
  BY DEF Applying, Committed
<1>4. pc'[p] \in Applying \cup Committed => ~Grown(net)' /\ ~Grown(tx[p].seen)'
  BY <1>1, <1>2 DEF TraceAt, SamePlan, Grown
<1> QED
  BY <1>1, <1>2, <1>3, <1>4 DEF TraceAt, SamePlan

\* What follows a plan traces back to it.
LEMMA InnerTrace ==
    ASSUME TypeOK, WorkInv, TraceInv, NEW p \in Proc, Inner(p)
    PROVE  TraceAt(p)'
<1> USE DEF TypeOK, Goto
<1>0. tx[p] \in Tx /\ TraceAt(p)
  BY DEF TraceInv
<1>1. ASSUME UNCHANGED <<net, runtime>>,
             pc'[p] \in Applying => pc[p] \in Applying,
             pc'[p] \in Committed => pc[p] \in Committed
      PROVE  TraceAt(p)'
  BY <1>1, KeepTrace
<1>2. CASE Apply(p) \/ ApplyFails(p)
  <2>1. /\ pc[p] = "apply" /\ UNCHANGED runtime /\ pc'[p] \notin Committed
        /\ (pc'[p] \in Applying => pc[p] \in Applying /\ Apply(p))
    BY <1>2 DEF Apply, ApplyFails, Fail, files, Applying, Committed
  <2>2. ~Grown(net)
    BY <1>0, <2>1 DEF TraceAt, Applying
  <2> QED
    BY <1>2, <2>1, <2>2, ApplyGrows, KeepTrace
<1>3. CASE Undo(p) \/ UndoFails(p)
  <2>1. pc[p] = "rollback" /\ pc'[p] = "rollback" /\ runtime' = runtime
    BY <1>3 DEF Undo, UndoFails, files
  <2>2. /\ SamePlan(p) /\ UNCHANGED <<disturbed, unsettled>>
    BY InnerKeeps
  <2> QED
    BY <1>0, <2>1, <2>2 DEF TraceInv, TraceAt, SamePlan, Applying, Committed
<1>4. CASE SettleFails(p) \/ HealthFails(p) \/ ApplyDone(p) \/ HealthPasses(p)
  BY <1>1, <1>4 DEF SettleFails, HealthFails, ApplyDone, HealthPasses, Fail, world, files,
                    Applying, Committed
<1>5. CASE WritePrevious(p) \/ WriteHealthy(p) \/ ClearQuarantine(p) \/ FinishVerified(p)
  BY <1>1, <1>5 DEF WritePrevious, WriteHealthy, ClearQuarantine, FinishVerified, world,
                    Applying, Committed
<1>6. CASE DecideNotify(p) \/ NotifyProvider(p) \/ NotifyFails(p) \/ ForgetPending(p)
           \/ DeferNotification(p)
  BY <1>1, <1>6 DEF DecideNotify, NotifyProvider, NotifyFails, ForgetPending, DeferNotification,
                    world, files, Applying, Committed
<1>7. CASE RollbackDone(p) \/ FailJournal(p) \/ RecordFailure(p)
  BY <1>1, <1>7 DEF RollbackDone, FailJournal, RecordFailure, world, files, Applying, Committed
<1>8. CASE Raise(p)
  BY <1>1, <1>8 DEF Raise, Fail, world, files, Applying, Committed
<1>9. CASE WriteRuntime(p)
  <2>1. /\ runtime' = tx[p].local /\ net' = net
        /\ pc[p] \in Applying /\ pc'[p] \in Committed
    BY <1>9 DEF WriteRuntime, world, Applying, Committed
  <2> QED
    BY <2>1, KeepTrace
<1> QED
  BY <1>2, <1>3, <1>4, <1>5, <1>6, <1>7, <1>8, <1>9 DEF Inner

\* Nobody has a plan at the start.
LEMMA InitTraceInv == Init => TraceInv
BY DEF Init, TraceInv, TraceAt, NoTx, Applying, Committed

\* Every step keeps the locals those of one plan.
LEMMA NextTraceInv == TypeOK /\ LockInv /\ WorkInv /\ TraceInv /\ [Next]_vars => TraceInv'
<1> SUFFICES ASSUME TypeOK, LockInv, WorkInv, TraceInv, [Next]_vars PROVE TraceInv'
  OBVIOUS
<1> USE DEF TypeOK
<1>1. ASSUME UNCHANGED <<net, pc, tx, before, disturbed, unsettled, runtime>> PROVE TraceInv'
  BY <1>1 DEF TraceInv, TraceAt, Grown
<1>2. ASSUME NEW p \in Proc, Start(p) PROVE TraceInv'
  <2>1. /\ UNCHANGED <<net, tx, before, disturbed, unsettled, runtime>>
        /\ \A q \in Proc : q # p => pc'[q] = pc[q]
        /\ pc[p] = "idle" /\ pc'[p] = "plan"
    BY <1>2 DEF Start, Goto, world, files, history
  <2>2. \A q \in Proc : TraceAt(q)'
    BY <2>1 DEF TraceInv, TraceAt, Grown, Applying, Committed
  <2> QED
    BY <2>2 DEF TraceInv
<1>3. ASSUME NEW p \in Proc, Step(p) \/ Raise(p) \/ Die(p) PROVE TraceInv'
  <2>1. \A q \in Proc : q # p => pc[q] = "idle" /\ pc'[q] = "idle" /\ tx'[q] = tx[q]
    BY <1>3, OthersStay
  <2>2. \A q \in Proc : q # p => TraceAt(q)'
    BY <2>1, NoTxLocal DEF TraceInv, TraceAt, Applying, Committed
  <2>3. TraceAt(p)'
    <3>1. CASE Ending(p)
      BY <3>1, EndingLeaves, NoTxLocal DEF TraceAt, Applying, Committed
    <3> QED
      BY <1>3, <3>1, StepSplit, PlanTrace, InnerTrace
  <2> QED
    BY <2>2, <2>3 DEF TraceInv
<1>4. ASSUME Drift PROVE TraceInv'
  <2>1. PICK s \in Slot : DriftAt(s)
    BY <1>4, DriftShape
  <2>2. UNCHANGED <<pc, tx, before, runtime>>
    BY <1>4 DEF Drift, files
  <2>3. ASSUME NEW p \in Proc PROVE TraceAt(p)'
    <3>1. CASE AtRest
      BY <2>2, <3>1 DEF AtRest, TraceInv, TraceAt, Applying, Committed
    <3>2. CASE disturbed' = disturbed \cup Touched(s)
      <4>1. \A x \in Slot \ disturbed' : net'[x] = net[x]
        BY <2>1, <3>2 DEF DriftAt
      <4>2. /\ Grown(net)' => Grown(net)
            /\ Grown(tx[p].seen)' => Grown(tx[p].seen)
        BY <2>2, <3>2, <4>1, SlotFacts DEF Grown
      <4> QED
        BY <2>2, <4>2 DEF TraceInv, TraceAt
    <3> QED
      BY <2>1, <3>1, <3>2 DEF DriftAt
  <2> QED
    BY <2>3 DEF TraceInv
<1>5. ASSUME Reboot PROVE TraceInv'
  BY <1>5 DEF Reboot, TraceInv, TraceAt, NoTx, Applying, Committed
<1>6. ASSUME MovePrefix PROVE TraceInv'
  BY <1>1, <1>6 DEF MovePrefix, files
<1>7. ASSUME UNCHANGED vars PROVE TraceInv'
  BY <1>1, <1>7 DEF vars, world, files, history
<1> QED
  BY <1>2, <1>3, <1>4, <1>5, <1>6, <1>7 DEF Next

(* What the health check judges *******************************************)

\* When no command is left, what nobody has touched is as planned.
LEMMA WorkDone ==
    ASSUME TypeOK, WorkInv, NEW p \in Proc, pc[p] \in (Applying \ {"apply"}) \cup Committed
    PROVE  /\ tx[p].todo = {}
           /\ \A s \in Slot \ unsettled : tx[p].goal[s] \in {Keep, net[s]}
<1>1. /\ tx[p].todo = {}
      /\ \A s \in Slot : tx[p].goal[s] \in CellOf(s) \cup {Keep}
      /\ \A s \in Slot \ unsettled : Of(tx[p].todo, s) = Steps(s, net[s], tx[p].goal[s])
  BY DEF WorkInv, WorkAt, Applying, Committed
<1>2. ASSUME NEW s \in Slot \ unsettled PROVE tx[p].goal[s] \in {Keep, net[s]}
  <2>1. Steps(s, net[s], tx[p].goal[s]) = {}
    BY <1>1 DEF Of
  <2>2. net[s] \in CellOf(s)
    BY NetFacts DEF TypeOK
  <2> QED
    BY <1>1, <2>1, <2>2, StepsFacts
<1> QED
  BY <1>1, <1>2

\* From the health check on, every slot that nobody touched since the latest
\* plan is as that plan wants it, for any number of slots, copies, replans and
\* faults: runtime.json never vouches for a repair that was not made.
THEOREM ConvergenceBeforeRecord == Spec => []CommitConverged
<1>1. TypeOK /\ WorkInv => CommitConverged
  BY WorkDone DEF CommitConverged, Applying
<1>2. TypeOK /\ LockInv /\ WorkInv /\ [Next]_vars => (TypeOK /\ LockInv /\ WorkInv)'
  BY NextTypeOK, NextLockInv, NextWorkInv
<1> QED
  BY <1>1, <1>2, InitTypeOK, InitLockInv, InitWorkInv, PTL DEF Spec

(* What the journal says **************************************************)

\* What is done and what is left make up the list, and no list of a run that
\* goes on is verified yet.
Listing == Applying \cup {"healthy", "clear", "finish"}
JournalAt(p) ==
    pc[p] \in Listing =>
        /\ journal.status # "verified" /\ IsFiniteSet(tx[p].todo)
        /\ journal.completed + Cardinality(tx[p].todo) = journal.total

JournalInv == VerifiedComplete /\ \A p \in Proc : JournalAt(p)

\* Actions left are counted, one less when one is done.
LEMMA TodoCount ==
    ASSUME NEW S, IsFiniteSet(S)
    PROVE  /\ Cardinality(S) \in Nat
           /\ \A c \in S : IsFiniteSet(S \ {c}) /\ Cardinality(S \ {c}) = Cardinality(S) - 1
           /\ S = {} => Cardinality(S) = 0
BY FS_CardinalityType, FS_RemoveElement, FS_EmptySet

\* A plan has so many commands as can be counted.
LEMMA PlanCount ==
    ASSUME TypeOK
    PROVE  LET todo == Commands(Goal(prefix, runtime, net), net)
           IN  IsFiniteSet(todo) /\ Cardinality(todo) \in Nat
BY CommandsType DEF TypeOK

\* The steps that add to the list or take from it.
LEMMA ListJournal ==
    ASSUME TypeOK, TypeOK', WorkInv, JournalInv, NEW p \in Proc,
           Plan(p) \/ Settle(p) \/ Apply(p)
    PROVE  VerifiedComplete' /\ JournalAt(p)'
<1> USE DEF TypeOK
<1>0. tx[p] \in Tx /\ tx'[p] \in Tx
  OBVIOUS
<1>1. CASE Plan(p)
  <2> DEFINE todo == Commands(Goal(prefix, runtime, net), net)
  <2>1. /\ tx'[p].todo = todo
        /\ journal' = [status |-> "applying", total |-> Cardinality(todo), completed |-> 0]
    BY <1>1 DEF Plan, NoTx
  <2>2. IsFiniteSet(todo) /\ Cardinality(todo) \in Nat
    BY PlanCount
  <2> HIDE DEF todo
  <2> QED
    BY <2>1, <2>2 DEF VerifiedComplete, JournalAt
<1>2. CASE Settle(p)
  <2> DEFINE todo == Commands(Goal(prefix, runtime, net), net)
  <2>1. /\ tx'[p].todo = todo /\ tx[p].todo = {} /\ pc[p] = "apply"
        /\ journal' = [journal EXCEPT !.total = @ + Cardinality(todo)]
    BY <1>0, <1>2 DEF Settle, Tx
  <2>2. IsFiniteSet(todo) /\ Cardinality(todo) \in Nat /\ Cardinality(tx[p].todo) = 0
    BY <2>1, PlanCount, FS_EmptySet
  <2>3. journal.status # "verified" /\ journal.completed = journal.total
    <3>1. /\ journal.status # "verified"
          /\ journal.completed + Cardinality(tx[p].todo) = journal.total
      BY <2>1 DEF JournalInv, JournalAt, Listing, Applying
    <3>2. journal.completed \in Nat
      OBVIOUS
    <3> QED
      BY <2>2, <3>1, <3>2
  <2> HIDE DEF todo
  <2>4. /\ journal'.status # "verified" /\ journal'.completed = journal.completed
        /\ journal'.total = journal.total + Cardinality(todo)
    BY <2>1, <2>3
  <2> QED
    BY <2>1, <2>2, <2>3, <2>4 DEF VerifiedComplete, JournalAt
<1>3. CASE Apply(p)
  <2> PICK c \in tx[p].todo :
        tx' = [tx EXCEPT ![p].inverses = PushInverse(tx[p], c), ![p].todo = @ \ {c}]
    BY <1>3 DEF Apply
  <2>1. /\ tx'[p].todo = tx[p].todo \ {c} /\ pc[p] = "apply"
        /\ journal' = [journal EXCEPT !.completed = @ + 1]
    BY <1>0, <1>3 DEF Apply, Tx
  <2>0. IsFiniteSet(tx[p].todo)
    BY <2>1 DEF JournalInv, JournalAt, Listing, Applying
  <2>2. /\ Cardinality(tx[p].todo) \in Nat /\ IsFiniteSet(tx'[p].todo)
        /\ Cardinality(tx'[p].todo) = Cardinality(tx[p].todo) - 1
    BY <2>0, <2>1, TodoCount
  <2>3. /\ journal.status # "verified"
        /\ journal.completed + Cardinality(tx[p].todo) = journal.total
    BY <2>1 DEF JournalInv, JournalAt, Listing, Applying
  <2>4. /\ journal'.status # "verified" /\ journal'.completed = journal.completed + 1
        /\ journal'.total = journal.total
    BY <2>1, <2>3
  <2> QED
    BY <2>2, <2>3, <2>4 DEF VerifiedComplete, JournalAt
<1> QED
  BY <1>1, <1>2, <1>3

\* There is no journal at the start.
LEMMA InitJournalInv == Init => JournalInv
BY DEF Init, JournalInv, JournalAt, VerifiedComplete, Listing, Applying

\* Every step keeps the count of what is done and what is left.
LEMMA NextJournalInv ==
    TypeOK /\ TypeOK' /\ LockInv /\ WorkInv /\ JournalInv /\ [Next]_vars => JournalInv'
<1> SUFFICES ASSUME TypeOK, TypeOK', LockInv, WorkInv, JournalInv, [Next]_vars
             PROVE JournalInv'
  OBVIOUS
<1> USE DEF TypeOK, Goto
<1>1. ASSUME UNCHANGED <<pc, tx, journal>> PROVE JournalInv'
  BY <1>1 DEF JournalInv, JournalAt, VerifiedComplete
<1>2. ASSUME NEW p \in Proc, Start(p) PROVE JournalInv'
  <2>1. /\ UNCHANGED <<tx, journal>> /\ pc'[p] = "plan"
        /\ \A q \in Proc : q # p => pc'[q] = pc[q]
    BY <1>2 DEF Start, files
  <2> QED
    BY <2>1 DEF JournalInv, JournalAt, VerifiedComplete, Listing, Applying
<1>3. ASSUME NEW p \in Proc, Step(p) \/ Raise(p) \/ Die(p) PROVE JournalInv'
  <2>1. \A q \in Proc : q # p => JournalAt(q)'
    BY <1>3, OthersStay DEF JournalAt, Listing, Applying
  <2> SUFFICES VerifiedComplete' /\ JournalAt(p)'
    BY <2>1 DEF JournalInv
  <2>2. ASSUME UNCHANGED journal, pc'[p] \notin Listing
        PROVE  VerifiedComplete' /\ JournalAt(p)'
    BY <2>2 DEF JournalInv, JournalAt, VerifiedComplete
  <2>3. ASSUME UNCHANGED <<tx, journal>>, pc[p] \in Listing
        PROVE  VerifiedComplete' /\ JournalAt(p)'
    BY <2>3 DEF JournalInv, JournalAt, VerifiedComplete
  <2>4. CASE Ending(p) \/ Refuse(p)
    <3>1. journal' = journal /\ pc'[p] \in {"idle", "failHealth"}
      BY <2>4, EndingLeaves DEF Ending, Report, Quarantine, Die, Refuse, files
    <3> QED
      BY <2>2, <3>1 DEF Listing, Applying
  <2>5. CASE ApplyFails(p) \/ SettleFails(p) \/ HealthFails(p) \/ Raise(p) \/ Undo(p) \/ UndoFails(p)
    <3>1. journal' = journal /\ pc'[p] \in {"rollback", "defer"}
      BY <2>5 DEF ApplyFails, SettleFails, HealthFails, Raise, Undo, UndoFails, Fail, files
    <3> QED
      BY <2>2, <3>1 DEF Listing, Applying
  <2>6. CASE RollbackDone(p) \/ RecordFailure(p) \/ DecideNotify(p) \/ NotifyProvider(p)
             \/ NotifyFails(p) \/ ForgetPending(p) \/ DeferNotification(p)
    BY <2>2, <2>6 DEF RollbackDone, RecordFailure, DecideNotify, NotifyProvider, NotifyFails,
                      ForgetPending, DeferNotification, files, Listing, Applying
  <2>7. CASE ApplyDone(p) \/ HealthPasses(p) \/ WritePrevious(p) \/ WriteRuntime(p)
             \/ WriteHealthy(p) \/ ClearQuarantine(p)
    BY <2>3, <2>7 DEF ApplyDone, HealthPasses, WritePrevious, WriteRuntime, WriteHealthy,
                      ClearQuarantine, files, Listing, Applying
  <2>8. CASE FinishVerified(p)
    <3>1. /\ pc[p] = "finish" /\ pc'[p] = "decide"
          /\ journal' = [journal EXCEPT !.status = "verified"]
      BY <2>8 DEF FinishVerified
    <3>2. Cardinality(tx[p].todo) = 0
      BY <3>1, WorkDone, FS_EmptySet DEF Committed
    <3>3. journal.completed = journal.total
      BY <3>1, <3>2 DEF JournalInv, JournalAt, Listing
    <3> QED
      BY <3>1, <3>3 DEF JournalAt, VerifiedComplete, Listing, Applying
  <2>9. CASE FailJournal(p)
    <3>1. /\ pc'[p] = "failHealth" /\ tx[p].reason # "verified"
          /\ journal' = [journal EXCEPT !.status = tx[p].reason]
      BY <2>9, TxFields DEF FailJournal, Reason
    <3> QED
      BY <3>1 DEF JournalAt, VerifiedComplete, Listing, Applying
  <2> QED
    BY <1>3, StepSplit, ListJournal, <2>4, <2>5, <2>6, <2>7, <2>8, <2>9 DEF Inner
<1>4. ASSUME Drift \/ MovePrefix PROVE JournalInv'
  BY <1>1, <1>4 DEF Drift, MovePrefix, files
<1>5. ASSUME Reboot PROVE JournalInv'
  BY <1>5 DEF Reboot, files, JournalInv, JournalAt, VerifiedComplete, Listing, Applying
<1>6. ASSUME UNCHANGED vars PROVE JournalInv'
  BY <1>1, <1>6 DEF vars, files
<1> QED
  BY <1>2, <1>3, <1>4, <1>5, <1>6 DEF Next

\* A journal that says verified lists exactly the actions that were completed,
\* through replans that lengthen the list and failures that cut it short.
THEOREM VerifiedIsComplete == Spec => []VerifiedComplete
<1>1. JournalInv => VerifiedComplete
  BY DEF JournalInv
<1>2. TypeOK /\ LockInv /\ WorkInv /\ JournalInv /\ [Next]_vars
        => (TypeOK /\ LockInv /\ WorkInv /\ JournalInv)'
  BY NextTypeOK, NextLockInv, NextWorkInv, NextJournalInv
<1> QED
  BY <1>1, <1>2, InitTypeOK, InitLockInv, InitWorkInv, InitJournalInv, PTL DEF Spec

(* What health.json and quarantine.json say *******************************)

\* The files follow one another; a rollback that did not work is named.
RecordsAt(p) ==
    /\ pc[p] \in Committed \ {"healthy"} => health = "healthy"
    /\ pc[p] \in Committed \ {"healthy", "clear"} => quarantine = "none"
    /\ pc[p] = "failQuarantine" => health = tx[p].reason
    /\ pc[p] \in {"failJournal", "failHealth", "failQuarantine"} /\ tx[p].broken =>
          tx[p].reason = "rollback-failed"

RecordsInv == RecordsAgree /\ \A p \in Proc : RecordsAt(p)

\* The records during a run.
LEMMA InnerRecords ==
    ASSUME TypeOK, TraceInv, RecordsInv, NEW p \in Proc,
           Inner(p) \/ Plan(p) \/ Refuse(p) \/ Settle(p)
    PROVE  RecordsAt(p)'
<1> USE DEF TypeOK, Goto, Committed
<1>0. tx[p] \in Tx /\ RecordsAt(p)
  BY DEF RecordsInv
<1>1. ASSUME pc'[p] \in {"apply", "health", "previous", "runtime", "healthy", "rollback"}
      PROVE  RecordsAt(p)'
  BY <1>1 DEF RecordsAt
<1>2. CASE Plan(p) \/ Settle(p) \/ Apply(p) \/ ApplyFails(p) \/ SettleFails(p) \/ ApplyDone(p)
           \/ HealthPasses(p) \/ HealthFails(p)
  BY <1>1, <1>2 DEF Plan, Settle, Apply, ApplyFails, SettleFails, ApplyDone, HealthPasses,
                    HealthFails, Fail
<1>3. CASE WritePrevious(p) \/ WriteRuntime(p) \/ Undo(p) \/ UndoFails(p)
  BY <1>1, <1>3 DEF WritePrevious, WriteRuntime, Undo, UndoFails
<1>4. CASE Refuse(p)
  <2>1. pc'[p] = "failHealth" /\ tx[p] = NoTx
    BY <1>4 DEF Refuse, TraceInv, TraceAt
  <2>2. ~tx'[p].broken
    BY <1>4, <2>1 DEF Refuse, NoTx
  <2> QED
    BY <2>1, <2>2 DEF RecordsAt
<1>5. CASE Raise(p)
  <2>1. \/ pc'[p] = "rollback"
        \/ pc'[p] = "defer" /\ pc[p] \in {"notify", "told"} /\ UNCHANGED <<health, quarantine>>
    BY <1>5 DEF Raise, Fail, files
  <2> QED
    BY <1>0, <1>1, <2>1 DEF RecordsAt
<1>6. CASE WriteHealthy(p) \/ ClearQuarantine(p)
  BY <1>0, <1>6 DEF WriteHealthy, ClearQuarantine, RecordsAt
<1>7. CASE FinishVerified(p) \/ DecideNotify(p) \/ NotifyProvider(p) \/ NotifyFails(p)
           \/ ForgetPending(p) \/ DeferNotification(p)
  BY <1>0, <1>7 DEF FinishVerified, DecideNotify, NotifyProvider, NotifyFails, ForgetPending,
                    DeferNotification, files, RecordsAt
<1>8. CASE RollbackDone(p)
  <2>1. pc'[p] = "failJournal" /\ tx'[p].broken = tx[p].broken
        /\ (tx[p].broken => tx'[p].reason = "rollback-failed")
    BY <1>0, <1>8 DEF RollbackDone, Tx
  <2> QED
    BY <2>1 DEF RecordsAt
<1>9. CASE FailJournal(p) \/ RecordFailure(p)
  BY <1>0, <1>9 DEF FailJournal, RecordFailure, RecordsAt
<1> QED
  BY <1>2, <1>3, <1>4, <1>5, <1>6, <1>7, <1>8, <1>9 DEF Inner

\* The records when a run ends.
LEMMA EndingRecords ==
    ASSUME TypeOK, RecordsInv, NEW p \in Proc, Ending(p)
    PROVE  RecordsAgree' /\ RecordsAt(p)'
<1>0. RecordsAt(p)
  BY DEF RecordsInv
<1>1. RecordsAt(p)'
  BY EndingLeaves DEF RecordsAt, Committed
<1> SUFFICES RecordsAgree'
  BY <1>1
<1>2. CASE Die(p)
  BY <1>2 DEF Die, RecordsAgree
<1>3. CASE Report(p)
  <2>1. health' = "healthy" /\ quarantine' = "none"
    BY <1>0, <1>3 DEF Report, files, RecordsAt, Committed
  <2> QED
    BY <2>1 DEF RecordsAgree
<1>4. CASE Quarantine(p)
  <2>1. health' = tx[p].reason /\ quarantine' = tx[p].reason /\ tx[p].reason \in Reason
    BY <1>0, <1>4, TxFields DEF Quarantine, RecordsAt, TypeOK
  <2> QED
    BY <2>1 DEF RecordsAgree, Reason
<1> QED
  BY <1>2, <1>3, <1>4 DEF Ending

\* There are no records at the start.
LEMMA InitRecordsInv == Init => RecordsInv
BY DEF Init, RecordsInv, RecordsAt, RecordsAgree, Committed

\* Every step keeps the records as its line says.
LEMMA NextRecordsInv ==
    TypeOK /\ LockInv /\ TraceInv /\ RecordsInv /\ [Next]_vars => RecordsInv'
<1> SUFFICES ASSUME TypeOK, LockInv, TraceInv, RecordsInv, [Next]_vars PROVE RecordsInv'
  OBVIOUS
<1>1. ASSUME UNCHANGED <<pc, tx, health, quarantine, torn>> PROVE RecordsInv'
  BY <1>1 DEF RecordsInv, RecordsAt, RecordsAgree, AtRest
<1>2. ASSUME NEW p \in Proc, Start(p) PROVE RecordsInv'
  <2>1. /\ UNCHANGED <<tx, health, quarantine, torn>> /\ pc'[p] = "plan"
        /\ \A q \in Proc : q # p => pc'[q] = pc[q]
    BY <1>2 DEF Start, Goto, files, history, TypeOK
  <2> QED
    BY <2>1 DEF RecordsInv, RecordsAt, RecordsAgree, AtRest, Committed
<1>3. ASSUME NEW p \in Proc, Step(p) \/ Raise(p) \/ Die(p) PROVE RecordsInv'
  <2>1. \A q \in Proc : q # p => RecordsAt(q)'
    BY <1>3, OthersStay DEF RecordsAt, Committed
  <2>2. CASE Ending(p)
    BY <2>1, <2>2, EndingRecords DEF RecordsInv
  <2>3. CASE Plan(p) \/ Refuse(p) \/ Settle(p) \/ Inner(p)
    <3>1. pc'[p] # "idle"
      BY <2>3, InnerKeeps DEF Plan, Refuse, Settle, Goto, TypeOK
    <3> QED
      BY <2>1, <2>3, <3>1, InnerRecords DEF RecordsInv, RecordsAgree, AtRest
  <2> QED
    BY <1>3, <2>2, <2>3, StepSplit
<1>4. ASSUME Drift \/ MovePrefix PROVE RecordsInv'
  BY <1>1, <1>4 DEF Drift, MovePrefix, files
<1>5. ASSUME Reboot PROVE RecordsInv'
  <2>1. \A p \in Proc : RecordsAt(p)'
    BY <1>5 DEF Reboot, RecordsAt, Committed
  <2>2. CASE torn'
    BY <2>1, <2>2 DEF RecordsInv, RecordsAgree
  <2>3. CASE ~torn /\ lock = Nobody
    <3>1. AtRest
      BY <2>3, ProcAssumption DEF AtRest, LockInv
    <3> QED
      BY <1>5, <2>1, <2>3, <3>1 DEF Reboot, files, RecordsInv, RecordsAgree
  <2> QED
    BY <1>5, <2>2, <2>3 DEF Reboot
<1>6. ASSUME UNCHANGED vars PROVE RecordsInv'
  BY <1>1, <1>6 DEF vars, files, history
<1> QED
  BY <1>2, <1>3, <1>4, <1>5, <1>6 DEF Next

\* At rest, unless a run was cut short, quarantine.json exists exactly when
\* health.json reports a failure, whichever of the two files came first.
THEOREM RecordsAlwaysAgree == Spec => []RecordsAgree
<1>1. RecordsInv => RecordsAgree
  BY DEF RecordsInv
<1>2. TypeOK /\ LockInv /\ WorkInv /\ TraceInv /\ RecordsInv /\ [Next]_vars
        => (TypeOK /\ LockInv /\ WorkInv /\ TraceInv /\ RecordsInv)'
  BY NextTypeOK, NextLockInv, NextWorkInv, NextTraceInv, NextRecordsInv
<1> QED
  BY <1>1, <1>2, InitTypeOK, InitLockInv, InitWorkInv, InitTraceInv, InitRecordsInv, PTL DEF Spec

(* What the provider knows ************************************************)

\* No signal has been raised in a run and nothing has been killed.
Uninterrupted == faults["raise"] = 0 /\ faults["die"] = 0

\* Without interruptions nobody is hit by a signal or dies.
LEMMA Interrupts ==
    ASSUME TypeOK, Uninterrupted'
    PROVE  /\ [Next]_vars => Uninterrupted
           /\ ~Reboot /\ \A p \in Proc : ~Raise(p) /\ ~Die(p)
BY FaultsGrow, FaultCounts DEF Uninterrupted, Kind, Raise, Die, Reboot

Informed == runtime # None => told = runtime \/ pending

\* Until it has decided, a run that changed the record leaves the provider with
\* the endpoint it started from; after that it has told it, or left a note.
TellAt(p) ==
    /\ pc[p] \in {"healthy", "clear", "finish", "decide", "notify"} /\ tx[p].old # None =>
          told = tx[p].old \/ pending
    /\ pc[p] = "told" => told = tx[p].local
    /\ pc[p] = "report" => told = tx[p].local \/ pending

TellInv ==
    Uninterrupted =>
        /\ (\A p \in Proc : pc[p] \notin Committed) => Informed
        /\ \A p \in Proc : TellAt(p)

\* There is no endpoint to tell at the start.
LEMMA InitTellInv == Init => TellInv
BY DEF Init, TellInv, TellAt, Informed, Committed

\* The steps of one process, seen from the provider.
LEMMA StepTell ==
    ASSUME TypeOK, TraceInv, NEW p \in Proc, Step(p), TellAt(p),
           pc[p] \notin Committed => Informed
    PROVE  TellAt(p)' /\ (pc'[p] \notin Committed => Informed')
<1> USE DEF TypeOK, Goto, Committed
<1>0. tx[p] \in Tx /\ TraceAt(p) /\ None \notin Endpoint
  BY PlannerAssumption DEF TraceInv
<1>1. ASSUME UNCHANGED <<told, runtime, pending>>, pc[p] \notin Committed, pc'[p] \notin Committed
      PROVE  TellAt(p)' /\ (pc'[p] \notin Committed => Informed')
  BY <1>1 DEF TellAt, Informed
<1>2. CASE Plan(p) \/ Refuse(p) \/ Apply(p) \/ ApplyFails(p) \/ Settle(p) \/ SettleFails(p)
           \/ ApplyDone(p) \/ HealthPasses(p) \/ HealthFails(p) \/ WritePrevious(p)
  BY <1>1, <1>2 DEF Plan, Refuse, Apply, ApplyFails, Settle, SettleFails, ApplyDone, HealthPasses,
                    HealthFails, WritePrevious, Fail, world, files
<1>3. CASE Rollback(p)
  BY <1>1, <1>3 DEF Rollback, Undo, UndoFails, RollbackDone, FailJournal, RecordFailure, Quarantine,
                    Leave, world, files
<1>4. CASE WriteRuntime(p)
  <2>1. pc[p] = "runtime" /\ pc'[p] = "healthy" /\ UNCHANGED <<told, pending, tx>>
    BY <1>4 DEF WriteRuntime, world
  <2>2. runtime = tx[p].old
    BY <1>0, <2>1 DEF TraceAt, Applying
  <2> QED
    BY <2>1, <2>2 DEF TellAt, Informed
<1>5. CASE WriteHealthy(p) \/ ClearQuarantine(p) \/ FinishVerified(p)
  BY <1>5 DEF WriteHealthy, ClearQuarantine, FinishVerified, TellAt, world
<1>6. CASE DecideNotify(p)
  <2>1. tx[p].local \in Endpoint
    BY <1>0, <1>6 DEF DecideNotify, TraceAt
  <2> QED
    BY <1>0, <1>6, <2>1 DEF DecideNotify, TellAt, world, files
<1>7. CASE NotifyProvider(p) \/ NotifyFails(p)
  BY <1>7 DEF NotifyProvider, NotifyFails, TellAt, world, files
<1>8. CASE ForgetPending(p) \/ DeferNotification(p)
  BY <1>8 DEF ForgetPending, DeferNotification, TellAt, world
<1>9. CASE Report(p)
  <2>1. pc'[p] = "idle" /\ UNCHANGED <<told, runtime, pending>>
    BY <1>9 DEF Report, Leave, world, files
  <2>2. runtime = tx[p].local /\ (told = tx[p].local \/ pending)
    BY <1>0, <1>9 DEF Report, TraceAt, TellAt
  <2> QED
    BY <2>1, <2>2 DEF TellAt, Informed
<1> QED
  BY <1>2, <1>3, <1>4, <1>5, <1>6, <1>7, <1>8, <1>9 DEF Step, Forward, Commit

\* Every step keeps the provider informed, or is about to.
LEMMA NextTellInv == TypeOK /\ LockInv /\ TraceInv /\ TellInv /\ [Next]_vars => TellInv'
<1> SUFFICES ASSUME TypeOK, LockInv, TraceInv, TellInv, [Next]_vars, Uninterrupted'
             PROVE  /\ (\A p \in Proc : pc'[p] \notin Committed) => Informed'
                    /\ \A p \in Proc : TellAt(p)'
  BY DEF TellInv
<1>0. /\ (\A p \in Proc : pc[p] \notin Committed) => Informed
      /\ \A p \in Proc : TellAt(p)
  BY Interrupts DEF TellInv
<1>1. CASE UNCHANGED <<pc, tx, runtime, told, pending>>
  BY <1>0, <1>1 DEF TellAt, Informed
<1>2. CASE Drift \/ MovePrefix \/ UNCHANGED vars
  BY <1>1, <1>2 DEF Drift, MovePrefix, vars, world, files
<1>3. ASSUME NEW p \in Proc, Start(p)
      PROVE  /\ (\A q \in Proc : pc'[q] \notin Committed) => Informed'
             /\ \A q \in Proc : TellAt(q)'
  <2>1. /\ UNCHANGED <<tx, runtime, told, pending>> /\ pc[p] = "idle" /\ pc'[p] = "plan"
        /\ \A q \in Proc : q # p => pc'[q] = pc[q]
    BY <1>3 DEF Start, Goto, world, files, TypeOK
  <2>2. \A q \in Proc : pc'[q] \notin Committed => pc[q] \notin Committed
    BY <2>1 DEF Committed
  <2> QED
    BY <1>0, <2>1, <2>2 DEF TellAt, Informed
<1>4. ASSUME NEW p \in Proc, Step(p)
      PROVE  /\ (\A q \in Proc : pc'[q] \notin Committed) => Informed'
             /\ \A q \in Proc : TellAt(q)'
  <2>1. \A q \in Proc : q # p => pc[q] = "idle" /\ pc'[q] = "idle"
    BY <1>4, OthersStay
  <2>2. TellAt(p) /\ (pc[p] \notin Committed => Informed)
    BY <1>0, <2>1 DEF Committed
  <2>3. TellAt(p)' /\ (pc'[p] \notin Committed => Informed')
    BY <1>4, <2>2, StepTell
  <2>4. \A q \in Proc : q # p => TellAt(q)'
    BY <2>1 DEF TellAt
  <2> QED
    BY <2>3, <2>4
<1> QED
  BY <1>2, <1>3, <1>4, Interrupts DEF Next

\* As long as no run is hit by a signal or killed, the provider knows the
\* recorded endpoint between runs, or the notification is on record as pending:
\* through failed notifications, rollbacks, prefix changes and deferred
\* notifications of earlier runs.
THEOREM ProviderHears == Spec => [](Uninterrupted => ProviderInformed)
<1>1. TellInv => (Uninterrupted => ProviderInformed)
  BY DEF TellInv, ProviderInformed, Informed, AtRest, Committed
<1>2. TypeOK /\ LockInv /\ WorkInv /\ TraceInv /\ TellInv /\ [Next]_vars
        => (TypeOK /\ LockInv /\ WorkInv /\ TraceInv /\ TellInv)'
  BY NextTypeOK, NextLockInv, NextWorkInv, NextTraceInv, NextTellInv
<1> QED
  BY <1>1, <1>2, InitTypeOK, InitLockInv, InitWorkInv, InitTraceInv, InitTellInv, PTL DEF Spec

(* What a failed deletion leaves ******************************************)

\* At most one deletion fails in a run, and then it is counted.
KeptAt(p) == tx[p].kept = {} \/ (faults["keep"] # 0 /\ \E s \in Firewall : tx[p].kept = {s})
KeptInv == \A p \in Proc : KeptAt(p)

\* Nothing is kept at the start.
LEMMA InitKeptInv == Init => KeptInv
BY DEF Init, KeptInv, KeptAt, NoTx

\* A failed deletion is counted, and its rule is remembered.
LEMMA FailedKept ==
    ASSUME TypeOK, TypeOK', KeptInv, [Next]_vars, NEW p \in Proc, ApplyFails(p)
    PROVE  KeptAt(p)'
<1> DEFINE t == tx[p]
<1>1. PICK c \in t.todo, why \in {"operation-failed", "interrupted"} :
        LET list == PushInverse(t, c)
            u == [[t EXCEPT !.inverses = list] EXCEPT !.reason = why]
            v == [[t EXCEPT !.inverses = list, !.kept = {c.slot}] EXCEPT !.reason = why]
        IN  \/ tx' = [tx EXCEPT ![p] = u]
            \/ tx' = [tx EXCEPT ![p] = v] /\ Deletes(c) /\ Fault("keep")
  BY DEF ApplyFails, Fail
<1> DEFINE list == PushInverse(t, c)
           u == [[t EXCEPT !.inverses = list] EXCEPT !.reason = why]
           v == [[t EXCEPT !.inverses = list, !.kept = {c.slot}] EXCEPT !.reason = why]
<1>2. t \in Tx /\ u.kept = t.kept /\ v.kept = {c.slot}
  BY DEF TypeOK, Tx
<1>3. \/ tx'[p] = u
      \/ tx'[p] = v /\ Deletes(c) /\ Fault("keep")
  BY <1>1 DEF TypeOK
<1>4. faults["keep"] # 0 => faults'["keep"] # 0
  BY FaultsGrow DEF Kind
<1>5. Fault("keep") => faults'["keep"] # 0
  BY FaultCounts DEF Kind
<1>6. KeptAt(p)
  BY DEF KeptInv
<1> HIDE DEF u, v
<1> QED
  BY <1>2, <1>3, <1>4, <1>5, <1>6 DEF KeptAt, Deletes

\* Every step keeps what failed deletions leave on record.
LEMMA NextKeptInv == TypeOK /\ TypeOK' /\ KeptInv /\ [Next]_vars => KeptInv'
<1> SUFFICES ASSUME TypeOK, TypeOK', KeptInv, [Next]_vars, NEW q \in Proc PROVE KeptAt(q)'
  BY DEF KeptInv
<1>0. KeptAt(q) /\ tx[q] \in Tx /\ (faults["keep"] # 0 => faults'["keep"] # 0)
  BY FaultsGrow DEF KeptInv, Kind, TypeOK
<1>1. ASSUME tx'[q].kept \in {tx[q].kept, {}} PROVE KeptAt(q)'
  BY <1>0, <1>1 DEF KeptAt
<1>2. NoTx.kept = {}
  BY DEF NoTx
<1>3. ASSUME NEW p \in Proc, Step(p) \/ Raise(p) \/ Die(p) PROVE KeptAt(q)'
  <2>1. CASE q # p
    BY <1>1, <1>3, <2>1, OwnLocals
  <2>2. CASE q = p
    <3> USE DEF TypeOK
    <3>1. ASSUME NEW why, tx' = [tx EXCEPT ![p] = [tx[p] EXCEPT !.reason = why]] PROVE KeptAt(q)'
      BY <1>0, <1>1, <2>2, <3>1 DEF Tx
    <3>2. CASE Plan(p)
      BY <1>1, <2>2, <3>2 DEF Plan, NoTx
    <3>3. CASE Refuse(p)
      BY <1>0, <1>1, <2>2, <3>3 DEF Refuse, Tx
    <3>4. CASE Apply(p) \/ Settle(p) \/ Undo(p) \/ UndoFails(p) \/ RollbackDone(p)
      <4>1. CASE Apply(p)
        BY <1>0, <1>1, <2>2, <4>1 DEF Apply, Tx
      <4>2. CASE Settle(p)
        BY <1>0, <1>1, <2>2, <4>2 DEF Settle, Tx
      <4>3. CASE Undo(p)
        BY <1>0, <1>1, <2>2, <4>3 DEF Undo, Tx
      <4>4. CASE UndoFails(p)
        BY <1>0, <1>1, <2>2, <4>4 DEF UndoFails, Tx
      <4>5. CASE RollbackDone(p)
        BY <1>0, <1>1, <2>2, <4>5 DEF RollbackDone, Tx
      <4> QED
        BY <3>4, <4>1, <4>2, <4>3, <4>4, <4>5
    <3>5. CASE SettleFails(p) \/ HealthFails(p)
      BY <3>1, <3>5 DEF SettleFails, HealthFails, Fail
    <3>6. CASE Raise(p)
      BY <1>1, <2>2, <3>1, <3>6 DEF Raise, Fail
    <3>7. CASE ApplyFails(p)
      BY <2>2, <3>7, FailedKept
    <3>8. CASE Ending(p)
      BY <1>1, <1>2, <2>2, <3>8, EndingLeaves
    <3>9. CASE ApplyDone(p) \/ HealthPasses(p) \/ FailJournal(p) \/ RecordFailure(p)
               \/ WritePrevious(p) \/ WriteRuntime(p) \/ WriteHealthy(p) \/ ClearQuarantine(p)
      BY <1>1, <2>2, <3>9 DEF ApplyDone, HealthPasses, FailJournal, RecordFailure, WritePrevious,
                              WriteRuntime, WriteHealthy, ClearQuarantine
    <3>10. CASE FinishVerified(p) \/ DecideNotify(p) \/ NotifyProvider(p) \/ NotifyFails(p)
                \/ ForgetPending(p) \/ DeferNotification(p)
      BY <1>1, <2>2, <3>10 DEF FinishVerified, DecideNotify, NotifyProvider, NotifyFails,
                               ForgetPending, DeferNotification
    <3> QED
      BY <1>3, StepSplit, <3>2, <3>3, <3>4, <3>5, <3>6, <3>7, <3>8, <3>9, <3>10 DEF Inner
  <2> QED
    BY <2>1, <2>2
<1>4. CASE Drift \/ MovePrefix \/ UNCHANGED vars
  BY <1>1, <1>4 DEF Drift, MovePrefix, vars
<1>5. ASSUME NEW p \in Proc, Start(p) PROVE KeptAt(q)'
  BY <1>1, <1>5 DEF Start
<1>6. CASE Reboot
  BY <1>1, <1>2, <1>6 DEF Reboot
<1> QED
  BY <1>3, <1>4, <1>5, <1>6 DEF Next

(* The project's own leftovers ********************************************)

\* The slots that the ownership checks look at.
Judged == {Tunnel, Alias} \cup Contested \cup {OuterRule(e) : e \in Endpoint}

\* The device, if there is one, carries the alias, no priority is taken, and
\* only the recorded endpoint has an outer rule, not more than one.
Tidy(n, old) ==
    /\ n[Tunnel] # Absent => n[Alias] = On
    /\ \A s \in Contested : n[s] # Alien
    /\ \A x \in Endpoint : n[OuterRule(x)] <= 1
    /\ \A x \in Endpoint \ {old} : n[OuterRule(x)] = Absent

\* A tidy network passes the ownership checks for every endpoint.
LEMMA TidyIsOwned ==
    ASSUME NEW n, NEW old, Tidy(n, old)
    PROVE  \A e \in Endpoint : Owned(e, old, n)
BY DEF Tidy, Owned

\* Whether a network is tidy depends on the judged slots only.
LEMMA TidyDepends ==
    ASSUME NEW n, NEW m, NEW old, Tidy(n, old), \A s \in Judged : m[s] = n[s]
    PROVE  Tidy(m, old)
BY DEF Tidy, Judged

\* The contested priorities and the outer rules do not live on the tunnel.
LEMMA JudgedFacts ==
    /\ Judged \subseteq Slot
    /\ \A s \in Contested : s \notin OnTunnel /\ s # Tunnel
    /\ \A x \in Endpoint : OuterRule(x) \notin OnTunnel /\ OuterRule(x) # Tunnel
BY DEF Judged, Slot, OnTunnel, Contested, Firewall, RouterSlots, Tunnel, Alias, FixedIPv4, Link,
       DefaultRoute, OuterRule, SourceRule, PolicyRule, LocalRule

\* What a plan wants of the slots that the ownership checks look at.
LEMMA GoalJudged ==
    ASSUME NEW e \in Endpoint, NEW old, NEW n
    PROVE  /\ Goal(e, old, n)[Alias] = On
           /\ \A s \in Contested : Goal(e, old, n)[s] = On
           /\ Goal(e, old, n)[OuterRule(e)] = On
           /\ \A x \in Endpoint \ {e} :
                 Goal(e, old, n)[OuterRule(x)] =
                    IF x = old THEN (IF n[OuterRule(x)] > 0 THEN n[OuterRule(x)] - 1 ELSE Absent)
                    ELSE Keep
<1>1. Goal(e, old, n)[Alias] = On
  BY JudgedFacts DEF Goal, Judged, Alias, Tunnel, EndpointAddr, OuterRule, Address
<1>2. ASSUME NEW s \in Contested PROVE Goal(e, old, n)[s] = On
  <2>1. /\ s \in Slot /\ s # Tunnel /\ \A x : s # EndpointAddr(x) /\ s # OuterRule(x)
    BY JudgedFacts DEF Judged, Contested, RouterSlots, SourceRule, PolicyRule, LocalRule,
       EndpointAddr, OuterRule
  <2> QED
    BY <2>1 DEF Goal, Address
<1>3. ASSUME NEW x \in Endpoint
      PROVE  /\ OuterRule(x) \in Slot /\ OuterRule(x) # Tunnel
             /\ \A y : OuterRule(x) # EndpointAddr(y)
             /\ \A y : OuterRule(x) = OuterRule(y) => x = y
  BY JudgedFacts DEF Judged, EndpointAddr, OuterRule
<1>4. Goal(e, old, n)[OuterRule(e)] = On
  BY <1>3 DEF Goal
<1>5. ASSUME NEW x \in Endpoint \ {e}
      PROVE  Goal(e, old, n)[OuterRule(x)] =
                IF x = old THEN (IF n[OuterRule(x)] > 0 THEN n[OuterRule(x)] - 1 ELSE Absent)
                ELSE Keep
  BY <1>3 DEF Goal
<1> QED
  BY <1>1, <1>2, <1>4, <1>5

\* Nothing but the project changes the slots that the checks look at.
Alone == Fragile \cap Judged = {}

\* Nor has an inverse failed; nor the deletion of a firewall rule.
Calm  == Uninterrupted /\ faults["undo"] = 0
Quiet == Calm /\ faults["keep"] = 0

TidyAt(p) ==
    /\ pc[p] \in Applying \cup Committed =>
          /\ Tidy(before, tx[p].old)
          /\ \A s \in Contested : net[s] # Alien
          /\ \A x \in Endpoint \ {tx[p].local, tx[p].old} : net[OuterRule(x)] = Absent
    /\ pc[p] \in Failing => Tidy(before, runtime)

TidyInv ==
    /\ disturbed \cap Judged = {}
    /\ Quiet => /\ (\A p \in Proc : pc[p] \in {"idle", "plan"}) => Tidy(net, runtime)
                /\ \A p \in Proc : TidyAt(p)

\* An empty network is tidy.
LEMMA InitTidyInv == Init => TidyInv
<1>1. \A s \in Judged : EmptyNet[s] = Absent
  BY JudgedFacts DEF EmptyNet
<1>2. Tidy(EmptyNet, None)
  BY <1>1, PlannerAssumption DEF Tidy, Judged, Absent
<1> QED
  BY <1>2 DEF Init, TidyInv, TidyAt, Applying, Committed, Failing

\* The steps that set the network right.
LEMMA RepairTidy ==
    ASSUME TypeOK, WorkInv, TraceInv, NEW p \in Proc, TidyAt(p), disturbed \cap Judged = {},
           Apply(p) \/ Settle(p)
    PROVE  TidyAt(p)'
<1> USE DEF TypeOK
<1>0. /\ tx[p] \in Tx /\ TraceAt(p) /\ pc[p] = "apply" /\ pc'[p] = "apply"
      /\ UNCHANGED <<before, disturbed>>
  BY DEF TraceInv, Apply, Settle, history
<1>1. /\ tx[p].local \in Endpoint /\ tx[p].goal = Goal(tx[p].local, tx[p].old, tx[p].seen)
      /\ runtime = tx[p].old
  BY <1>0 DEF TraceAt, Applying
<1>2. /\ Tidy(before, tx[p].old)
      /\ \A s \in Contested : net[s] # Alien
      /\ \A x \in Endpoint \ {tx[p].local, tx[p].old} : net[OuterRule(x)] = Absent
  BY <1>0 DEF TidyAt, Applying
<1>3. CASE Apply(p)
  <2>1. PICK c \in tx[p].todo : Works(net, c) /\ net' = Effect(net, c)
    BY <1>3 DEF Apply
  <2>2. SamePlan(p)
    BY <1>3, InnerKeeps DEF Inner
  <2>3. c \in Command /\ c.slot \in Slot /\ c.to # Alien /\ net \in Net
    BY <1>0, TxFields, CommandFacts
  <2>4. ASSUME NEW t \in Slot, t # c.slot PROVE net'[t] = net[t]
    BY <2>1, <2>3, <2>4, EffectAt
  <2>5. ASSUME NEW t \in Contested PROVE net'[t] # Alien
    <3>1. t \in Slot /\ t \notin Firewall
      BY SlotFacts, JudgedFacts DEF Judged
    <3>2. CASE t = c.slot
      BY <2>1, <2>3, <3>1, <3>2, EffectAt
    <3> QED
      BY <1>2, <2>4, <3>1, <3>2
  <2>6. ASSUME NEW x \in Endpoint \ {tx[p].local, tx[p].old} PROVE net'[OuterRule(x)] = Absent
    <3> DEFINE t == OuterRule(x)
    <3>1. t \in Judged /\ t \in Slot /\ t \notin unsettled
      BY JudgedFacts DEF Judged, WorkInv
    <3>2. tx[p].goal[t] = Keep
      BY <1>1, GoalJudged
    <3>3. Of(tx[p].todo, t) = Steps(t, net[t], Keep)
      BY <1>0, <3>1, <3>2 DEF WorkInv, WorkAt, Applying
    <3>4. t # c.slot
      BY <3>3 DEF Of, Steps
    <3> QED
      BY <1>2, <2>4, <3>1, <3>4
  <2> QED
    BY <1>0, <1>2, <2>2, <2>5, <2>6 DEF TidyAt, SamePlan, Failing
<1>4. CASE Settle(p)
  <2>1. tx'[p].local = prefix /\ tx'[p].old = tx[p].old /\ net' = net /\ Owned(prefix, runtime, net)
    BY <1>0, <1>4 DEF Settle, Tx, world
  <2> QED
    BY <1>0, <1>1, <1>2, <2>1 DEF TidyAt, Owned, Failing
<1> QED
  BY <1>3, <1>4

\* A run that reports success leaves a tidy network.
LEMMA ReportTidy ==
    ASSUME TypeOK, WorkInv, TraceInv, disturbed \cap Judged = {}, NEW p \in Proc,
           TidyAt(p), Report(p)
    PROVE  Tidy(net, runtime)
<1> DEFINE e    == tx[p].local
           old  == tx[p].old
           seen == tx[p].seen
<1>1. pc[p] = "report"
  BY DEF Report
<1>2. /\ e \in Endpoint /\ runtime = e /\ unsettled \subseteq disturbed
      /\ tx[p].goal = Goal(e, old, seen)
      /\ ~Grown(seen) /\ seen \in Net
  BY <1>1, TxFields DEF TraceInv, TraceAt, WorkInv, Committed, TypeOK
<1>3. \A s \in Judged : s \in Slot \ disturbed /\ Goal(e, old, seen)[s] \in {Keep, net[s]}
  BY <1>1, <1>2, JudgedFacts, WorkDone DEF Committed
<1>4. /\ Tidy(before, old)
      /\ \A s \in Contested : net[s] # Alien
      /\ \A x \in Endpoint \ {e, old} : net[OuterRule(x)] = Absent
  BY <1>1 DEF TidyAt, Committed
<1>5. On # Keep /\ Absent # Keep
  BY CellFacts
<1> HIDE DEF e, old, seen
<1>6. Alias \in Judged /\ \A x \in Endpoint : OuterRule(x) \in Judged
  BY DEF Judged
<1>7. net[Alias] = On /\ net[OuterRule(e)] = On
  BY <1>2, <1>3, <1>5, <1>6, GoalJudged
<1>8. ASSUME NEW x \in Endpoint \ {e} PROVE net[OuterRule(x)] = Absent
  <2>1. CASE x = old
    <3> DEFINE s == OuterRule(x)
    <3>0. s \in Firewall \ disturbed /\ s \in Slot /\ before[s] <= 1
      BY <1>3, <1>4, <1>6 DEF Tidy, Firewall
    <3>1. seen[s] \in Nat /\ before[s] \in Nat /\ ~(seen[s] > 1)
      <4>1. seen[s] \in Nat /\ before[s] \in Nat
        BY <1>2, <3>0, NetFacts, CellOfFacts DEF TypeOK
      <4>2. ~(seen[s] > 1 /\ seen[s] > before[s])
        BY <1>2, <3>0 DEF Grown
      <4> QED
        BY <3>0, <4>1, <4>2
    <3>2. Goal(e, old, seen)[s] = Absent
      <4>1. Goal(e, old, seen)[s] = IF seen[s] > 0 THEN seen[s] - 1 ELSE Absent
        BY <1>2, <2>1, GoalJudged
      <4> HIDE DEF s
      <4> QED
        BY <3>1, <4>1 DEF Absent
    <3> QED
      BY <1>3, <1>5, <1>6, <3>2
  <2>2. CASE x # old
    BY <1>4, <2>2
  <2> QED
    BY <2>1, <2>2
<1>9. \A x \in Endpoint : net[OuterRule(x)] <= 1
  BY <1>7, <1>8 DEF On, Absent
<1> QED
  BY <1>2, <1>4, <1>7, <1>8, <1>9 DEF Tidy

\* Every step of a process, unless it is interrupted.
LEMMA StepTidy ==
    ASSUME TypeOK, WorkInv, TraceInv, RestoreInv, KeptInv, Quiet, NEW p \in Proc, Step(p), TidyAt(p),
           disturbed \cap Judged = {},
           pc[p] = "plan" => Tidy(net, runtime)
    PROVE  TidyAt(p)' /\ (pc'[p] = "idle" => Tidy(net, runtime)')
<1> USE DEF TypeOK, Goto, Applying, Committed, Failing
<1>0. tx[p] \in Tx /\ TraceAt(p)
  BY DEF TraceInv
<1>1. CASE Plan(p)
  <2>1. /\ tx'[p].local = prefix /\ tx'[p].old = runtime
        /\ pc[p] = "plan" /\ pc'[p] = "apply" /\ before' = net /\ net' = net
    BY <1>1 DEF Plan, NoTx, world
  <2> QED
    BY <2>1 DEF TidyAt, Tidy
<1>2. CASE Refuse(p)
  <2>1. pc[p] = "plan" /\ pc'[p] = "failHealth" /\ before' = net /\ runtime' = runtime
    BY <1>2 DEF Refuse, files
  <2> QED
    BY <2>1 DEF TidyAt
<1>3. CASE Apply(p) \/ Settle(p)
  <2>1. pc'[p] = "apply"
    BY <1>3 DEF Apply, Settle
  <2> QED
    BY <1>3, <2>1, RepairTidy
<1>4. CASE ApplyFails(p) \/ SettleFails(p) \/ HealthFails(p)
  <2>1. pc[p] \in Applying /\ pc'[p] = "rollback" /\ UNCHANGED <<before, runtime>>
    BY <1>4 DEF ApplyFails, SettleFails, HealthFails, Fail, files
  <2>2. runtime = tx[p].old
    BY <1>0, <2>1 DEF TraceAt
  <2> QED
    BY <2>1, <2>2 DEF TidyAt
<1>5. ASSUME UNCHANGED <<net, before, tx>>, pc[p] \in Applying \cup Committed,
             pc'[p] \in Applying \cup Committed
      PROVE  TidyAt(p)' /\ (pc'[p] = "idle" => Tidy(net, runtime)')
  BY <1>5 DEF TidyAt
<1>6. CASE WritePrevious(p) \/ WriteRuntime(p) \/ WriteHealthy(p) \/ ClearQuarantine(p)
           \/ FinishVerified(p) \/ ApplyDone(p) \/ HealthPasses(p)
  BY <1>5, <1>6 DEF WritePrevious, WriteRuntime, WriteHealthy, ClearQuarantine, FinishVerified,
                    ApplyDone, HealthPasses, world, history
<1>7. CASE DecideNotify(p) \/ NotifyProvider(p) \/ NotifyFails(p) \/ ForgetPending(p)
           \/ DeferNotification(p)
  BY <1>5, <1>7 DEF DecideNotify, NotifyProvider, NotifyFails, ForgetPending, DeferNotification,
                    world, history
<1>8. CASE Report(p)
  <2>1. pc'[p] = "idle" /\ UNCHANGED <<net, runtime>>
    BY <1>8 DEF Report, Leave, world, files
  <2> QED
    BY <1>8, <2>1, ReportTidy DEF TidyAt
<1>9. CASE Undo(p) \/ UndoFails(p) \/ RollbackDone(p) \/ FailJournal(p) \/ RecordFailure(p)
  <2>1. pc[p] \in Failing /\ pc'[p] \in Failing /\ UNCHANGED <<before, runtime>>
    BY <1>9 DEF Undo, UndoFails, RollbackDone, FailJournal, RecordFailure, files, history
  <2> QED
    BY <2>1 DEF TidyAt
<1>10. CASE Quarantine(p)
  <2>1. pc[p] = "failQuarantine" /\ pc'[p] = "idle" /\ UNCHANGED <<net, runtime>>
    BY <1>10 DEF Quarantine, Leave, world
  <2>2. Tidy(before, runtime) /\ \A s \in Judged : net[s] = before[s]
    <3>1. tx[p].kept = {}
      BY DEF KeptInv, KeptAt, Quiet
    <3>2. \A s \in Slot \ disturbed : net[s] = Left(tx[p].kept, s, before[s])
      BY <2>1 DEF RestoreInv, RestoreAt, Restored, Clean, Quiet, Calm
    <3> QED
      BY <2>1, <3>1, <3>2, JudgedFacts, LeftFacts DEF TidyAt
  <2> QED
    BY <2>1, <2>2, TidyDepends DEF TidyAt
<1> QED
  BY <1>1, <1>2, <1>3, <1>4, <1>6, <1>7, <1>8, <1>9, <1>10 DEF Step, Forward, Commit, Rollback

\* Only Start leads to the place before the plan.
LEMMA StepLeavesPlan ==
    ASSUME TypeOK, NEW p \in Proc, Step(p)
    PROVE  pc'[p] # "plan"
BY StepSplit, InnerKeeps, EndingLeaves DEF Plan, Refuse, Settle, Goto, TypeOK

\* What is disturbed, by nobody who touches the slots that the checks look at.
LEMMA NextDisturbed ==
    ASSUME Alone, TypeOK, LockInv, [Next]_vars, disturbed \cap Judged = {}
    PROVE  disturbed' \cap Judged = {}
<1>1. ASSUME NEW p \in Proc, Start(p) PROVE disturbed' = disturbed
  BY <1>1 DEF Start, history
<1>2. ASSUME NEW p \in Proc, Step(p) \/ Raise(p) \/ Die(p) PROVE disturbed' \in {disturbed, {}}
  <2>1. CASE Plan(p) \/ Refuse(p) \/ Settle(p)
    BY <2>1 DEF Plan, Refuse, Settle
  <2> QED
    BY <1>2, <2>1, StepSplit, InnerKeeps, EndingLeaves
<1>3. CASE Drift
  <2>1. PICK s \in Fragile : disturbed' = disturbed \/ disturbed' = disturbed \cup Touched(s)
    BY <1>3 DEF Drift
  <2>2. s # Tunnel /\ s \notin Judged
    BY DEF Alone, Judged
  <2> QED
    BY <2>1, <2>2 DEF Touched
<1>4. CASE MovePrefix \/ UNCHANGED vars \/ Reboot
  BY <1>4 DEF MovePrefix, Reboot, vars, history
<1> QED
  BY <1>1, <1>2, <1>3, <1>4 DEF Next

\* Every step keeps the network between runs tidy.
LEMMA NextTidyInv ==
    ASSUME Alone, TypeOK, LockInv, WorkInv, TraceInv, RestoreInv, KeptInv, TidyInv, [Next]_vars
    PROVE  TidyInv'
<1>1. disturbed' \cap Judged = {}
  BY NextDisturbed DEF TidyInv
<1> SUFFICES ASSUME Quiet'
             PROVE  /\ (\A p \in Proc : pc'[p] \in {"idle", "plan"}) => Tidy(net, runtime)'
                    /\ \A p \in Proc : TidyAt(p)'
  BY <1>1 DEF TidyInv
<1>2. Quiet /\ disturbed \cap Judged = {}
  BY Interrupts, FaultsGrow DEF Quiet, Calm, Kind, TidyInv
<1>3. /\ (\A p \in Proc : pc[p] \in {"idle", "plan"}) => Tidy(net, runtime)
      /\ \A p \in Proc : TidyAt(p)
  BY <1>2 DEF TidyInv
<1>4. ASSUME UNCHANGED <<pc, tx, before, runtime>>, \A s \in Judged : net'[s] = net[s]
      PROVE  /\ (\A p \in Proc : pc'[p] \in {"idle", "plan"}) => Tidy(net, runtime)'
             /\ \A p \in Proc : TidyAt(p)'
  <2>1. Tidy(net, runtime) => Tidy(net', runtime)
    BY <1>4, TidyDepends
  <2>2. ASSUME NEW p \in Proc PROVE TidyAt(p)'
    BY <1>3, <1>4 DEF TidyAt, Judged
  <2> QED
    BY <1>3, <1>4, <2>1, <2>2
<1>5. CASE MovePrefix \/ UNCHANGED vars
  BY <1>4, <1>5 DEF MovePrefix, vars, world, files, history
<1>6. CASE Drift
  <2>1. PICK s \in Fragile : \E v \in DriftTo(s) : net' = Put(net, s, v)
    BY <1>6 DEF Drift
  <2>2. s # Tunnel /\ s \notin Judged /\ s \in Slot
    BY ProcAssumption DEF Alone, Judged
  <2>3. \A x \in Judged : net'[x] = net[x]
    BY <2>1, <2>2, PutAt, JudgedFacts
  <2> QED
    BY <1>4, <1>6, <2>3 DEF Drift, files
<1>7. ASSUME NEW p \in Proc, Start(p)
      PROVE  /\ (\A q \in Proc : pc'[q] \in {"idle", "plan"}) => Tidy(net, runtime)'
             /\ \A q \in Proc : TidyAt(q)'
  <2>1. /\ UNCHANGED <<tx, net, before, runtime>> /\ pc[p] = "idle" /\ pc'[p] = "plan"
        /\ \A q \in Proc : q # p => pc'[q] = pc[q]
    BY <1>7 DEF Start, Goto, world, files, history, TypeOK
  <2>2. ASSUME NEW q \in Proc PROVE TidyAt(q)'
    <3>1. CASE q = p
      BY <2>1, <3>1 DEF TidyAt, Applying, Committed, Failing
    <3>2. CASE q # p
      BY <1>3, <2>1, <3>2 DEF TidyAt
    <3> QED
      BY <3>1, <3>2
  <2>3. (\A q \in Proc : pc'[q] \in {"idle", "plan"}) => Tidy(net, runtime)
    BY <1>3, <2>1
  <2> QED
    BY <2>1, <2>2, <2>3
<1>8. ASSUME NEW p \in Proc, Step(p)
      PROVE  /\ (\A q \in Proc : pc'[q] \in {"idle", "plan"}) => Tidy(net, runtime)'
             /\ \A q \in Proc : TidyAt(q)'
  <2>1. \A q \in Proc : q # p => pc[q] = "idle" /\ pc'[q] = "idle"
    BY <1>8, OthersStay
  <2>2. pc[p] = "plan" => Tidy(net, runtime)
    BY <1>3, <2>1
  <2>3. TidyAt(p)' /\ (pc'[p] = "idle" => Tidy(net, runtime)')
    BY <1>2, <1>3, <1>8, <2>2, StepTidy
  <2>4. \A q \in Proc : q # p => TidyAt(q)'
    BY <2>1 DEF TidyAt, Applying, Committed, Failing
  <2>5. pc'[p] # "plan"
    BY <1>8, StepLeavesPlan
  <2> QED
    BY <2>1, <2>3, <2>4, <2>5
<1> QED
  BY <1>2, <1>5, <1>6, <1>7, <1>8, Interrupts DEF Next, Quiet, Calm

\* As long as nobody else touches the device, its alias, the outer rules or the
\* priorities, and no run is interrupted, nothing the project leaves behind is
\* ever a foreign conflict to it, whatever endpoint comes next: not after failed
\* commands, replans with another prefix, and rollbacks; as long as no deletion of
\* a firewall rule has failed, which the property itself excepts.
THEOREM LeftoversAreOwn ==
    ASSUME Alone
    PROVE  Spec => [](Calm => NeverSelfConflict)
<1>1. TidyInv => (Calm => NeverSelfConflict)
  BY TidyIsOwned DEF TidyInv, NeverSelfConflict, AtRest, Quiet
<1> DEFINE All == TypeOK /\ LockInv /\ WorkInv /\ TraceInv /\ RestoreInv /\ KeptInv /\ TidyInv
<1>2. All /\ [Next]_vars => All'
  BY NextTypeOK, NextLockInv, NextWorkInv, NextTraceInv, NextRestoreInv, NextKeptInv, NextTidyInv
<1>3. Init => All
  BY InitTypeOK, InitLockInv, InitWorkInv, InitTraceInv, InitRestoreInv, InitKeptInv, InitTidyInv
<1>4. All => TidyInv
  OBVIOUS
<1> QED
  BY <1>1, <1>2, <1>3, <1>4, PTL DEF Spec

(* Refinement *************************************************************)

\* The planner that the abstract specification speaks of is the same.
LEMMA SamePlanner ==
    /\ Atomic!Slot = Slot /\ Atomic!Firewall = Firewall
    /\ Atomic!Net = Net /\ Atomic!EmptyNet = EmptyNet
    /\ \A e, old, n : Atomic!Goal(e, old, n) = Goal(e, old, n)
    /\ \A e : Atomic!OuterRule(e) = OuterRule(e)
<1> USE DEF Tunnel, Atomic!Tunnel, OnTunnel, Atomic!OnTunnel, Alias, Atomic!Alias,
            FixedIPv4, Atomic!FixedIPv4, Link, Atomic!Link, DefaultRoute, Atomic!DefaultRoute,
            Firewall, Atomic!Firewall, Mss, Atomic!Mss, Snat, Atomic!Snat,
            OuterRule, Atomic!OuterRule, Contested, Atomic!Contested,
            SourceRule, Atomic!SourceRule, PolicyRule, Atomic!PolicyRule,
            RouterSlots, Atomic!RouterSlots, Enrolment, Atomic!Enrolment,
            LocalRule, Atomic!LocalRule, Monitor, Atomic!Monitor,
            EndpointAddr, Atomic!EndpointAddr, Connected, Atomic!Connected,
            Address, Atomic!Address, Absent, Atomic!Absent, On, Atomic!On
<1>1. /\ Atomic!Slot = Slot /\ Atomic!Firewall = Firewall /\ Atomic!Address = Address
      /\ Atomic!Contested = Contested /\ Atomic!Cell = Cell
  BY DEF Slot, Atomic!Slot, Cell, Atomic!Cell
<1>2. \A s : Atomic!CellOf(s) = CellOf(s)
  BY <1>1 DEF CellOf, Atomic!CellOf
<1>3. Atomic!Net = Net
  BY <1>1, <1>2 DEF Net, Atomic!Net
<1>4. Atomic!EmptyNet = EmptyNet
  BY <1>1 DEF EmptyNet, Atomic!EmptyNet
<1>5. \A e, old, n : Atomic!Goal(e, old, n) = Goal(e, old, n)
  BY <1>1 DEF Goal, Atomic!Goal
<1>6. \A e : Atomic!OuterRule(e) = OuterRule(e)
  OBVIOUS
<1> QED
  BY <1>1, <1>3, <1>4, <1>5, <1>6

\* What is shown is a network.
LEMMA ShownType ==
    ASSUME NEW n \in Net, NEW m \in Net, NEW S
    PROVE  [s \in Slot |-> IF s \in S THEN n[s] ELSE m[s]] \in Net
<1>1. \A s \in Slot : /\ n[s] \in CellOf(s) /\ m[s] \in CellOf(s) /\ CellOf(s) \subseteq Cell
  BY NetFacts, CellOfFacts
<1> QED
  BY <1>1 DEF Net

\* So it is after a step.
LEMMA ShownNet == TypeOK' => Shown' \in Net
<1> SUFFICES ASSUME TypeOK' PROVE Shown' \in Net
  OBVIOUS
<1>1. before' \in Net /\ net' \in Net
  BY DEF TypeOK
<1>2. CASE InRun'
  <2>1. Shown' = [s \in Slot |-> IF s \in Slot \ disturbed' THEN before'[s] ELSE net'[s]]
    BY <1>2 DEF Shown
  <2> QED
    BY <1>1, <2>1, ShownType
<1>3. CASE ~InRun'
  <2>1. Shown' = [s \in Slot |-> IF s \in {} THEN before'[s] ELSE net'[s]]
    BY <1>3 DEF Shown
  <2> QED
    BY <1>1, <2>1, ShownType
<1> QED
  BY <1>2, <1>3

\* Whoever is not idle holds the lock.
LEMMA HolderRuns ==
    ASSUME LockInv, NEW p \in Proc, pc[p] # "idle"
    PROVE  lock = p /\ lock # Nobody
BY ProcAssumption DEF LockInv

\* A step inside a run shows nothing, but in what others have changed.
LEMMA StayMaps ==
    ASSUME TypeOK, TypeOK', LockInv, NEW p \in Proc,
           pc[p] \notin {"idle", "plan"}, pc'[p] \notin {"idle", "plan"}, lock' = lock,
           tx'[p].old = tx[p].old, tx'[p].local # None <=> tx[p].local # None,
           runtime' = runtime \/ tx[p].local # None,
           UNCHANGED <<before, disturbed>>
    PROVE  Atomic!Others
<1>1. lock = p /\ lock # Nobody /\ lock' = p
  BY HolderRuns
<1>2. InRun /\ InRun'
  BY <1>1 DEF InRun
<1>3. Moved = disturbed /\ Moved' = disturbed /\ Status = "running" /\ Status' = "running"
  BY <1>2 DEF Moved, Status
<1>4. Record' = Record
  BY <1>1, <1>2 DEF Record
<1>5. /\ Shown' \in Net
      /\ \A s \in Slot \ disturbed : Shown'[s] = Shown[s]
  BY <1>2, ShownNet DEF Shown
<1>6. disturbed \in SUBSET Slot
  BY DEF TypeOK
<1> QED
  BY SamePlanner, <1>3, <1>4, <1>5, <1>6 DEF Atomic!Others, Atomic!Same

\* The abstract repair runs while a process is past its plan.
LEMMA StatusRuns == Status = "running" <=> InRun
BY DEF Status

\* Inside a run only others are seen to act.
LEMMA InnerMaps ==
    ASSUME TypeOK, TypeOK', LockInv, TraceInv, NEW p \in Proc, Inner(p) \/ Settle(p)
    PROVE  Atomic!Others
<1> USE DEF TypeOK
<1>0. tx[p] \in Tx
  OBVIOUS
<1>1. CASE Inner(p)
  <2>1. /\ SamePlan(p) /\ UNCHANGED <<before, disturbed>>
        /\ pc[p] \notin {"idle", "plan"} /\ pc'[p] \notin {"idle", "plan"}
    BY <1>1, InnerKeeps
  <2>2. lock' = lock
    BY <1>1, <2>1, StepSplit, StepShape
  <2>3. runtime' = runtime \/ pc[p] = "runtime"
    <3>1. CASE Apply(p) \/ ApplyFails(p) \/ SettleFails(p) \/ ApplyDone(p) \/ HealthPasses(p)
               \/ HealthFails(p) \/ Raise(p)
      BY <3>1 DEF Apply, ApplyFails, SettleFails, ApplyDone, HealthPasses, HealthFails, Raise, files
    <3>2. CASE Undo(p) \/ UndoFails(p) \/ RollbackDone(p) \/ FailJournal(p) \/ RecordFailure(p)
      BY <3>2 DEF Undo, UndoFails, RollbackDone, FailJournal, RecordFailure, files
    <3>3. CASE WritePrevious(p) \/ WriteRuntime(p) \/ WriteHealthy(p) \/ ClearQuarantine(p)
               \/ FinishVerified(p)
      BY <3>3 DEF WritePrevious, WriteRuntime, WriteHealthy, ClearQuarantine, FinishVerified, files
    <3>4. CASE DecideNotify(p) \/ NotifyProvider(p) \/ NotifyFails(p) \/ ForgetPending(p)
               \/ DeferNotification(p)
      BY <3>4 DEF DecideNotify, NotifyProvider, NotifyFails, ForgetPending, DeferNotification, files
    <3> QED
      BY <1>1, <3>1, <3>2, <3>3, <3>4 DEF Inner
  <2>4. pc[p] = "runtime" => tx[p].local # None
    BY PlannerAssumption DEF TraceInv, TraceAt, Applying
  <2> QED
    BY <2>1, <2>2, <2>3, <2>4, StayMaps DEF SamePlan
<1>2. CASE Settle(p)
  <2>1. /\ pc[p] = "apply" /\ pc'[p] = "apply" /\ lock' = lock /\ runtime' = runtime
        /\ UNCHANGED <<before, disturbed>>
    BY <1>2 DEF Settle
  <2>2. tx'[p].old = tx[p].old /\ tx'[p].local = prefix
    BY <1>0, <1>2 DEF Settle, Tx
  <2>3. tx[p].local # None /\ prefix # None
    BY <2>1, PlannerAssumption DEF TraceInv, TraceAt, Applying
  <2> QED
    BY <2>1, <2>2, <2>3, StayMaps
<1> QED
  BY <1>1, <1>2

\* A plan begins the abstract repair.
LEMMA PlanMaps ==
    ASSUME TypeOK, LockInv, TraceInv, NEW p \in Proc, Plan(p) \/ Refuse(p)
    PROVE  Atomic!Begin
<1> USE DEF TypeOK
<1>1. /\ pc[p] = "plan" /\ pc'[p] \notin {"idle", "plan"} /\ lock' = lock
      /\ before' = net /\ disturbed' = {} /\ UNCHANGED <<net, runtime>>
  BY DEF Plan, Refuse, Goto, world, files
<1>2. lock = p /\ lock # Nobody
  BY <1>1, HolderRuns
<1>3. ~InRun /\ InRun'
  BY <1>1, <1>2 DEF InRun
<1>4. Status # "running" /\ Status' = "running" /\ Moved' = {}
  BY <1>1, <1>3, StatusRuns DEF Moved, Status
<1>5. Shown' = Shown
  BY <1>1, <1>3 DEF Shown
<1>6. tx'[p].local = None \/ tx'[p].old = runtime
  <2>1. CASE Plan(p)
    BY <2>1 DEF Plan, NoTx
  <2>2. CASE Refuse(p)
    <3>1. tx[p] = NoTx
      BY <1>1 DEF TraceInv, TraceAt
    <3> QED
      BY <2>2, <3>1 DEF Refuse, NoTx
  <2> QED
    BY <2>1, <2>2
<1>7. Record' = Record
  BY <1>1, <1>2, <1>3, <1>6 DEF Record
<1> QED
  BY <1>4, <1>5, <1>7 DEF Atomic!Begin

\* After a run the world sees what is there.
LEMMA EndingShows ==
    ASSUME TypeOK, LockInv, NEW p \in Proc, Ending(p)
    PROVE  /\ ~InRun' /\ Moved' = {} /\ Record' = runtime
           /\ \A s \in Slot : Shown'[s] = net[s]
<1>1. lock' = Nobody /\ net' = net /\ runtime' = runtime
  BY EndingLeaves
<1>2. ~InRun'
  BY <1>1 DEF InRun
<1> QED
  BY <1>1, <1>2 DEF Moved, Record, Shown

\* What is shown during a run is what its first plan saw.
LEMMA RunShows ==
    ASSUME TypeOK, LockInv, NEW p \in Proc, pc[p] \notin {"idle", "plan"}
    PROVE  /\ InRun /\ Moved = disturbed /\ Status = "running"
           /\ Record = (IF tx[p].local # None THEN tx[p].old ELSE runtime)
           /\ \A s \in Slot \ disturbed : Shown[s] = before[s]
<1>1. lock = p /\ lock # Nobody
  BY HolderRuns
<1>2. InRun
  BY <1>1 DEF InRun
<1> QED
  BY <1>1, <1>2 DEF Moved, Status, Record, Shown

\* Only for the old outer rule does a plan depend on what it sees.
LEMMA GoalSees ==
    ASSUME NEW e \in Endpoint, NEW old, NEW n, NEW m, NEW s \in Slot
    PROVE  \/ Goal(e, old, n)[s] = Goal(e, old, m)[s]
           \/ /\ s = OuterRule(old)
              /\ Goal(e, old, n)[s] = (IF n[s] > 0 THEN n[s] - 1 ELSE Absent)
              /\ Goal(e, old, m)[s] = (IF m[s] > 0 THEN m[s] - 1 ELSE Absent)
BY DEF Goal

\* Outer rules are firewall rules.
LEMMA OuterFirewall == \A x : OuterRule(x) \in Slot => OuterRule(x) \in Firewall
BY DEF Slot, OuterRule, Firewall, OnTunnel, Contested, RouterSlots, Address, Tunnel, Alias,
       FixedIPv4, Link, DefaultRoute, Enrolment, LocalRule, Monitor, EndpointAddr, SourceRule,
       PolicyRule, Connected, Mss, Snat

\* The last record of a commit is the abstract commit.
LEMMA ReportMaps ==
    ASSUME TypeOK, LockInv, WorkInv, TraceInv, RecordsInv, NEW p \in Proc, Report(p)
    PROVE  Atomic!Commit
<1> DEFINE e    == tx[p].local
           old  == tx[p].old
           seen == tx[p].seen
<1>1. pc[p] = "report" /\ ~torn' /\ health' = health
  BY DEF Report, files
<1>2. /\ e \in Endpoint /\ e # None /\ runtime = e /\ unsettled \subseteq disturbed
      /\ tx[p].goal = Goal(e, old, seen)
      /\ ~Grown(seen) /\ seen \in Net /\ before \in Net /\ net \in Net
  BY <1>1, TxFields, PlannerAssumption DEF TraceInv, TraceAt, WorkInv, Committed, TypeOK
<1>3. \A s \in Slot \ disturbed : Goal(e, old, seen)[s] \in {Keep, net[s]}
  BY <1>1, <1>2, WorkDone DEF Committed
<1>4. /\ Status = "running" /\ Moved = disturbed /\ Record = old
      /\ \A s \in Slot \ disturbed : Shown[s] = before[s]
  BY <1>1, <1>2, RunShows
<1>5. /\ Moved' = {} /\ Record' = e /\ ~InRun' /\ \A s \in Slot : Shown'[s] = net[s]
  BY <1>2, EndingShows DEF Ending
<1>6. Status' = "healthy"
  BY <1>1, <1>5 DEF Status, RecordsInv, RecordsAt, Committed
<1>7. ASSUME NEW s \in Slot \ disturbed
      PROVE  \/ Goal(e, old, Shown)[s] \in {Keep, Shown'[s]}
             \/ s = OuterRule(old) /\ Shown'[s] <= Goal(e, old, Shown)[s]
  <2>1. Goal(e, old, seen)[s] \in {Keep, Shown'[s]} /\ Shown[s] = before[s]
    BY <1>3, <1>4, <1>5
  <2>2. CASE Goal(e, old, seen)[s] = Goal(e, old, Shown)[s]
    BY <2>1, <2>2
  <2>3. CASE /\ s = OuterRule(old)
             /\ Goal(e, old, seen)[s] = (IF seen[s] > 0 THEN seen[s] - 1 ELSE Absent)
             /\ Goal(e, old, Shown)[s] = (IF Shown[s] > 0 THEN Shown[s] - 1 ELSE Absent)
    <3>1. s \in Firewall
      BY <2>3, OuterFirewall
    <3>2. seen[s] \in Nat /\ before[s] \in Nat /\ Keep \notin Nat
      BY <1>2, <3>1, NetFacts, CellOfFacts, PlannerAssumption
    <3>3. seen[s] > 1 => seen[s] <= before[s]
      BY <1>2, <3>1, <3>2 DEF Grown
    <3> DEFINE a == seen[s]
               b == before[s]
               c == Shown'[s]
    <3>4. /\ c = (IF a > 0 THEN a - 1 ELSE 0)
          /\ Goal(e, old, Shown)[s] = (IF b > 0 THEN b - 1 ELSE 0)
      <4>1. (IF a > 0 THEN a - 1 ELSE 0) \in Nat
        <5>1. a \in Nat
          BY <3>2
        <5> HIDE DEF a
        <5> QED
          BY <5>1
      <4>2. Goal(e, old, seen)[s] = (IF a > 0 THEN a - 1 ELSE 0)
        BY <2>3 DEF Absent
      <4>3. Goal(e, old, Shown)[s] = (IF b > 0 THEN b - 1 ELSE 0)
        BY <2>1, <2>3 DEF Absent
      <4>4. Goal(e, old, seen)[s] # Keep
        BY <3>2, <4>1, <4>2
      <4> QED
        BY <2>1, <4>2, <4>3, <4>4
    <3>5. a \in Nat /\ b \in Nat /\ (a > 1 => a <= b)
      BY <3>2, <3>3
    <3> HIDE DEF a, b, c
    <3>6. (IF a > 0 THEN a - 1 ELSE 0) <= (IF b > 0 THEN b - 1 ELSE 0)
      BY <3>5
    <3> QED
      BY <2>3, <3>4, <3>6 DEF c
  <2> HIDE DEF e, old, seen
  <2> QED
    BY <1>2, <2>2, <2>3, GoalSees
<1> HIDE DEF e, old, seen
<1> QED
  BY <1>2, <1>4, <1>5, <1>6, <1>7, SamePlanner DEF Atomic!Commit, Atomic!Repaired

\* The last record of a rollback is an abort, or says that it is broken.
LEMMA QuarantineMaps ==
    ASSUME TypeOK, TypeOK', LockInv, TraceInv, RestoreInv, KeptInv, RecordsInv, NEW p \in Proc,
           Quarantine(p)
    PROVE  Atomic!Abort \/ Atomic!Break
<1>1. pc[p] = "failQuarantine" /\ ~torn' /\ health' = health
  BY DEF Quarantine
<1>2. /\ Status = "running" /\ Moved = disturbed
      /\ Record = (IF tx[p].local # None THEN tx[p].old ELSE runtime)
      /\ \A s \in Slot \ disturbed : Shown[s] = before[s]
  BY <1>1, RunShows
<1>3. /\ Moved' = {} /\ Record' = runtime /\ ~InRun' /\ \A s \in Slot : Shown'[s] = net[s]
  BY EndingShows DEF Ending
<1>4. Record' \in Endpoint \cup {Record}
  BY <1>2, <1>3 DEF TraceInv, TraceAt
<1>5. health = tx[p].reason /\ health \in Reason
  BY <1>1, TxFields DEF RecordsInv, RecordsAt, TypeOK
<1>6. CASE health = "rollback-failed"
  <2>1. Status' = "broken"
    BY <1>1, <1>3, <1>6 DEF Status
  <2>2. Shown' \in Net
    BY ShownNet
  <2> QED
    BY <1>2, <1>3, <1>4, <2>1, <2>2, SamePlanner DEF Atomic!Break
<1>7. CASE health # "rollback-failed"
  <2>1. Status' = "failed"
    BY <1>1, <1>3, <1>5, <1>7 DEF Status, Reason
  <2>2. ~tx[p].broken
    BY <1>1, <1>5, <1>7 DEF RecordsInv, RecordsAt
  <2>3. \A s \in Slot \ disturbed : net[s] = Left(tx[p].kept, s, before[s])
    BY <1>1, <2>2 DEF RestoreInv, RestoreAt, Restored, Clean
  <2>4. CASE tx[p].kept = {}
    BY <1>2, <1>3, <1>4, <2>1, <2>3, <2>4, SamePlanner, LeftFacts DEF Atomic!Abort, Atomic!Same
  <2>5. ASSUME NEW x \in Firewall, tx[p].kept = {x} PROVE Atomic!Abort
    <3>1. \A s \in Slot \ (disturbed \cup {x}) : Shown'[s] = Shown[s]
      BY <1>2, <1>3, <2>3, <2>5, LeftFacts
    <3>2. x \in disturbed => Atomic!Same(disturbed)
      BY <3>1, SamePlanner DEF Atomic!Same
    <3>3. x \notin disturbed => Shown'[x] = Shown[x] + 1
      BY <1>2, <1>3, <2>3, <2>5, LeftFacts, SlotFacts
    <3>4. Atomic!Same(disturbed \cup {x})
      BY <3>1, SamePlanner DEF Atomic!Same
    <3> QED
      BY <1>2, <1>3, <1>4, <2>1, <3>2, <3>3, <3>4, SamePlanner DEF Atomic!Abort
  <2> QED
    BY <2>4, <2>5 DEF KeptInv, KeptAt
<1> QED
  BY <1>6, <1>7

\* A death tears the abstract repair.
LEMMA DieMaps ==
    ASSUME TypeOK, TypeOK', LockInv, TraceInv, NEW p \in Proc, Die(p)
    PROVE  Atomic!Tear
<1>1. torn' /\ pc[p] # "idle"
  BY DEF Die
<1>2. Moved' = {} /\ Record' = runtime /\ ~InRun'
  BY EndingShows DEF Ending
<1>3. Record' \in Endpoint \cup {Record}
  <2>1. CASE pc[p] = "plan"
    BY <1>1, <1>2, <2>1, HolderRuns DEF Record, InRun
  <2>2. CASE pc[p] # "plan"
    BY <1>1, <1>2, <2>2, RunShows DEF TraceInv, TraceAt
  <2> QED
    BY <2>1, <2>2
<1>4. Shown' \in Net
  BY ShownNet
<1> QED
  BY <1>1, <1>2, <1>3, <1>4, SamePlanner DEF Atomic!Tear, Status

\* So does a reboot during a run; otherwise it is an act of others.
LEMMA RebootMaps ==
    ASSUME TypeOK, TypeOK', LockInv, TraceInv, Reboot
    PROVE  Atomic!Tear \/ Atomic!Others
<1>1. /\ lock' = Nobody /\ torn' = (torn \/ lock # Nobody) /\ runtime' = runtime
      /\ health' = health /\ disturbed' = {}
  BY DEF Reboot, files
<1>2. ~InRun' /\ Moved' = {} /\ Record' = runtime
  BY <1>1 DEF InRun, Moved, Record
<1>3. Shown' \in Net
  BY ShownNet
<1>4. CASE torn \/ lock # Nobody
  <2>1. Status' = "torn"
    BY <1>1, <1>2, <1>4 DEF Status
  <2>2. Record' \in Endpoint \cup {Record}
    <3>1. CASE InRun
      <4>1. lock \in Proc
        BY <3>1 DEF InRun, TypeOK
      <4> QED
        BY <1>2, <3>1, <4>1 DEF Record, TraceInv, TraceAt
    <3>2. CASE ~InRun
      BY <1>2, <3>2 DEF Record
    <3> QED
      BY <3>1, <3>2
  <2> QED
    BY <1>2, <1>3, <2>1, <2>2, SamePlanner DEF Atomic!Tear
<1>5. CASE ~torn /\ lock = Nobody
  <2>1. ~InRun /\ Moved = {} /\ Record' = Record
    BY <1>2, <1>5 DEF InRun, Moved, Record
  <2>2. Status' = Status
    BY <1>1, <1>2, <1>5, <2>1 DEF Status
  <2>3. Status # "running"
    BY <2>1, StatusRuns
  <2> QED
    BY <1>2, <1>3, <2>1, <2>2, <2>3, SamePlanner DEF Atomic!Others
<1> QED
  BY <1>4, <1>5

\* A drift is an act of others.
LEMMA DriftMaps ==
    ASSUME TypeOK, TypeOK', LockInv, Drift
    PROVE  Atomic!Others
<1>1. PICK s \in Slot : DriftAt(s)
  BY DriftShape
<1>2. UNCHANGED <<lock, pc, tx, runtime, health, before, torn>>
  BY DEF Drift, files
<1>3. InRun' = InRun /\ Record' = Record /\ Status' = Status
  BY <1>2 DEF InRun, Record, Status
<1>4. Shown' \in Net /\ Moved' \in SUBSET Slot
  BY ShownNet DEF Moved, TypeOK
<1>5. CASE InRun
  <2>1. lock \in Proc /\ ~AtRest
    BY <1>5 DEF InRun, AtRest, TypeOK
  <2>2. Moved = disturbed /\ Moved' = disturbed' /\ disturbed \subseteq disturbed'
    BY <1>1, <1>3, <1>5, <2>1 DEF Moved, DriftAt
  <2>3. \A x \in Slot \ disturbed' : Shown'[x] = Shown[x]
    BY <1>2, <1>3, <1>5, <2>2 DEF Shown
  <2> QED
    BY <1>3, <1>4, <2>2, <2>3, SamePlanner DEF Atomic!Others, Atomic!Same
<1>6. CASE ~InRun
  BY <1>3, <1>4, <1>6, StatusRuns, SamePlanner DEF Moved, Atomic!Others
<1> QED
  BY <1>5, <1>6

\* What changes nothing that is shown is a stutter.
LEMMA QuietMaps ==
    ASSUME \/ UNCHANGED <<lock, pc, tx, runtime, health, before, disturbed, torn, net>>
           \/ /\ ~InRun /\ ~InRun'
              /\ UNCHANGED <<runtime, health, torn, net>>
    PROVE  UNCHANGED Atomic!avars
<1>1. CASE UNCHANGED <<lock, pc, tx, runtime, health, before, disturbed, torn, net>>
  BY <1>1 DEF Atomic!avars, Shown, Record, Status, Moved, InRun
<1>2. CASE ~InRun /\ ~InRun' /\ UNCHANGED <<runtime, health, torn, net>>
  BY <1>2 DEF Atomic!avars, Shown, Record, Status, Moved
<1> QED
  BY <1>1, <1>2

\* Initial states map to initial states.
LEMMA InitMaps == Init => Atomic!AInit
<1> SUFFICES ASSUME Init PROVE Atomic!AInit
  OBVIOUS
<1>1. ~InRun /\ Record = None /\ Status = "none" /\ Moved = {}
  BY DEF Init, InRun, Record, Status, Moved
<1>2. Shown = EmptyNet
  BY <1>1 DEF Init, Shown, EmptyNet
<1> QED
  BY <1>1, <1>2, SamePlanner DEF Atomic!AInit

AtomicInv ==
    TypeOK /\ LockInv /\ WorkInv /\ RestoreInv /\ TraceInv /\ RecordsInv /\ KeptInv

\* Every step maps to a step or a stutter.
LEMMA NextMaps == AtomicInv /\ AtomicInv' /\ [Next]_vars => [Atomic!ANext]_Atomic!avars
<1> SUFFICES ASSUME AtomicInv, AtomicInv', [Next]_vars PROVE [Atomic!ANext]_Atomic!avars
  OBVIOUS
<1> USE DEF AtomicInv, Atomic!ANext
<1>1. ASSUME NEW p \in Proc, Start(p) PROVE UNCHANGED Atomic!avars
  <2>1. lock = Nobody /\ lock' = p /\ pc'[p] = "plan" /\ UNCHANGED <<runtime, health, torn, net>>
    BY <1>1 DEF Start, Goto, world, files, history, TypeOK
  <2>2. ~InRun /\ ~InRun'
    BY <2>1 DEF InRun
  <2> QED
    BY <2>1, <2>2, QuietMaps
<1>2. ASSUME NEW p \in Proc, Step(p) \/ Raise(p) \/ Die(p) PROVE Atomic!ANext
  BY <1>2, StepSplit, InnerMaps, PlanMaps, ReportMaps, QuarantineMaps, DieMaps DEF Ending
<1>3. ASSUME Drift \/ Reboot PROVE Atomic!ANext
  BY <1>3, DriftMaps, RebootMaps
<1>4. ASSUME MovePrefix \/ UNCHANGED vars PROVE UNCHANGED Atomic!avars
  BY <1>4, QuietMaps DEF MovePrefix, vars, world, files, history
<1> QED
  BY <1>1, <1>2, <1>3, <1>4 DEF Next

\* A reconcile is one step to whoever sees only its outcome: it has repaired
\* everything, or nothing has happened but one more copy of the firewall rule
\* whose deletion failed, or the failed rollback is on record, or it was cut
\* short; for any planner slots and any interleaving of processes, drift,
\* failures, signals, deaths and boots.
THEOREM Atomicity == Spec => Implements
<1>1. Init => AtomicInv
  BY InitTypeOK, InitLockInv, InitWorkInv, InitRestoreInv, InitTraceInv, InitRecordsInv, InitKeptInv
  DEF AtomicInv
<1>2. AtomicInv /\ [Next]_vars => AtomicInv'
  BY NextTypeOK, NextLockInv, NextWorkInv, NextRestoreInv, NextTraceInv, NextRecordsInv,
     NextKeptInv DEF AtomicInv
<1> QED
  BY <1>1, <1>2, InitMaps, NextMaps, PTL DEF Spec, Implements, Atomic!ASpec
=============================================================================
