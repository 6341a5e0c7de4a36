---------------------------- MODULE Transaction ----------------------------
(***************************************************************************)
(* Reconciler.reconcile (core.py), step by step, over the planner's slots. *)
(*                                                                         *)
(* Several processes (timer, event monitor, UDAPI path, operator) call     *)
(* reconcile; flock admits one.  It plans, begins the journal, applies the *)
(* actions one command at a time while keeping their inverses in memory,   *)
(* replans after a settling delay when the plan asks for one, checks       *)
(* health and then writes, one file after the other, previous-runtime,     *)
(* runtime, health, quarantine and journal before it tells the provider.   *)
(* An exception anywhere in that span runs the inverses in reverse.        *)
(* Around it the network drifts, the prefix moves, signals arrive and      *)
(* processes die.                                                          *)
(***************************************************************************)
EXTENDS Planner, Sequences

CONSTANTS
    Proc,       \* processes that may call reconcile
    Nobody,     \* the lock is free
    Fragile,    \* the slots that others may change
    MaxCopies,  \* bound on the copies of a firewall rule that others make
    MaxOf,      \* bound on the faults of each kind
    MaxFaults   \* bound on the faults together

\* Others change a slot; the prefix moves; something fails; the deletion of a
\* firewall rule fails and leaves the rule; an exception; an inverse fails; a
\* process dies.
Kind == {"drift", "move", "fail", "keep", "raise", "undo", "die"}

ASSUME ProcAssumption ==
    /\ Nobody \notin Proc
    /\ Fragile \subseteq Slot
    /\ MaxOf \in [Kind -> Nat] /\ MaxFaults \in Nat /\ MaxCopies \in Nat

ASSUME SlotAssumption == IsFiniteSet(Slot)

VARIABLES
    lock,        \* holder of operation.lock
    pc,          \* where each process is in reconcile
    tx,          \* the local variables of each process
    net,         \* the kernel and the UDAPI configuration
    prefix,      \* the endpoint the delegated prefix gives now
    runtime, previous,        \* local_endpoint of runtime.json, previous-runtime.json
    health,      \* status of health.json: none, healthy or the failure reason
    quarantine,  \* reason in quarantine.json, or none
    journal,     \* transaction.json
    pending,     \* pending-provider.json exists
    told,        \* the endpoint the provider knows
    \* history, read by no action of the program:
    before,      \* the network when the running plan was made
    disturbed,   \* slots that others changed since that plan
    unsettled,   \* slots that others changed since the latest (re)plan
    torn,        \* the last run ended without keeping its records
    faults       \* how many faults of each kind have happened

files   == <<runtime, previous, health, quarantine, journal, pending>>
world   == <<net, prefix, told>>
history == <<before, disturbed, unsettled, torn, faults>>
vars    == <<lock, pc, tx, world, files, history>>

Reason == {"foreign-conflict", "prerequisite-unavailable", "operation-failed",
           "interrupted", "monitor-configuration-unstable", "health-failed",
           "rollback-failed"}

\* The commands of plans: the tunnel is not deleted, its mark and link are set,
\* and firewall rules come and go copy by copy.
Command == {c \in [slot : Slot, from : Cell, to : Cell] :
              /\ {c.from, c.to} \subseteq CellOf(c.slot) /\ c.from # c.to /\ c.to # Alien
              /\ c.slot = Tunnel => c.to # Absent
              /\ c.slot \in Bare => c.to = On
              /\ c.slot \in Firewall => c.from = c.to + 1 \/ (c.from = 0 /\ c.to = 1)}

\* Their inverses.
Undoing == {i \in [slot : Slot, from : Cell, to : Cell] : InverseOf(i) \in Command}

\* The locals of reconcile; kept is history: the firewall rule whose deletion
\* has failed in this transaction.
Tx == [local : Endpoint \cup {None}, old : Endpoint \cup {None}, seen : Net,
       goal : [Slot -> Cell \cup {Keep}], todo : SUBSET Command,
       inverses : Seq(Undoing), rounds : Nat, reason : Reason,
       broken : BOOLEAN, kept : SUBSET Firewall]

NoTx == [local |-> None, old |-> None, seen |-> EmptyNet, goal |-> EmptyNet,
         todo |-> {}, inverses |-> <<>>, rounds |-> 0, reason |-> "operation-failed",
         broken |-> FALSE, kept |-> {}]

\* The try block of reconcile, before and after runtime.json is written.
Applying  == {"apply", "health", "previous", "runtime"}
Committed == {"healthy", "clear", "finish", "decide", "notify", "told", "defer", "report"}
Failing   == {"rollback", "failJournal", "failHealth", "failQuarantine"}
PCs       == {"idle", "plan"} \cup Applying \cup Committed \cup Failing

Init ==
    /\ lock = Nobody
    /\ pc = [p \in Proc |-> "idle"]
    /\ tx = [p \in Proc |-> NoTx]
    /\ net = EmptyNet
    /\ prefix \in Endpoint
    /\ runtime = None /\ previous = None
    /\ health = "none" /\ quarantine = "none"
    /\ journal = [status |-> "none", total |-> 0, completed |-> 0]
    /\ pending = FALSE
    /\ told = None
    /\ before = EmptyNet /\ disturbed = {} /\ unsettled = {} /\ torn = FALSE
    /\ faults = [k \in Kind |-> 0]

(* Helpers of the steps ***************************************************)

\* One more fault of this kind, within the bounds.
Fault(kind) ==
    /\ faults[kind] < MaxOf[kind]
    /\ faults.drift + faults.move + faults.fail + faults.keep + faults.raise
         + faults.undo + faults.die < MaxFaults
    /\ faults' = [faults EXCEPT ![kind] = @ + 1]

Goto(p, label) == pc' = [pc EXCEPT ![p] = label]

\* An exception in the try block: go and run the inverses.
Fail(p, t, why) ==
    /\ tx' = [tx EXCEPT ![p] = [t EXCEPT !.reason = why]]
    /\ Goto(p, "rollback")

\* The with block is left: flock is released and the locals are gone.
Leave(p) ==
    /\ lock' = Nobody
    /\ Goto(p, "idle")
    /\ tx' = [tx EXCEPT ![p] = NoTx]
    /\ before' = EmptyNet /\ disturbed' = {} /\ unsettled' = {}

\* Fault: only commands are remembered, callbacks are not.
PushInverse_CommandsOnly(t, c) ==
    IF c.slot \in Callback \/ (c.slot \in Bare /\ t.seen[Tunnel] = Absent)
    THEN t.inverses
    ELSE Append(t.inverses, InverseOf(c))

\* An action is remembered before its command runs, if it has an inverse.
PushInverse(t, c) ==
    IF c.slot \in Bare /\ t.seen[Tunnel] = Absent
    THEN t.inverses
    ELSE Append(t.inverses, InverseOf(c))

\* The action whose turn it is; copies of a rule go one after the other.
IsNext(t, c) ==
    /\ c \in t.todo
    /\ \A other \in t.todo :
          /\ Rank(c, t.local) <= Rank(other, t.local)
          /\ other.slot = c.slot /\ c.slot \in Firewall => other.from <= c.from

\* A -D.
Deletes(c) == c.slot \in Firewall /\ c.from > c.to

(* Entering, planning *****************************************************)

\* Fault: the result of flock is not looked at.
Start_WithoutLock(p) ==
    /\ pc[p] = "idle"
    /\ lock' = p
    /\ Goto(p, "plan")
    /\ UNCHANGED <<tx, world, files, history>>

\* A busy lock raises PrerequisiteUnavailable before anything is written.
Start(p) ==
    /\ pc[p] = "idle"
    /\ lock = Nobody
    /\ lock' = p
    /\ Goto(p, "plan")
    /\ UNCHANGED <<tx, world, files, history>>

\* plan, read runtime.json, begin_transaction.
Plan(p) ==
    LET goal == Goal(prefix, runtime, net)
        todo == Commands(goal, net)
    IN  /\ pc[p] = "plan"
        /\ Owned(prefix, runtime, net)
        /\ tx' = [tx EXCEPT ![p] = [NoTx EXCEPT !.local = prefix, !.old = runtime,
                     !.seen = net, !.goal = goal, !.todo = todo,
                     !.rounds = SettleRounds(Changes(goal, net))]]
        /\ journal' = [status |-> "applying", total |-> Cardinality(todo), completed |-> 0]
        /\ Goto(p, "apply")
        /\ before' = net /\ disturbed' = {} /\ unsettled' = {}
        /\ UNCHANGED <<lock, world, runtime, previous, health, quarantine, pending, torn, faults>>

\* Why a plan is refused: discovery can fail at any time, ownership only when
\* it is violated.
Refusal(why) ==
    \/ why = "prerequisite-unavailable" /\ Fault("fail")
    \/ why = "foreign-conflict" /\ ~Owned(prefix, runtime, net) /\ UNCHANGED faults

Refuse(p) ==
    /\ pc[p] = "plan"
    /\ \E why \in Reason : Refusal(why) /\ tx' = [tx EXCEPT ![p].reason = why]
    /\ Goto(p, "failHealth")
    /\ before' = net /\ disturbed' = {} /\ unsettled' = {}
    /\ UNCHANGED <<lock, world, files, torn>>

(* Applying, settling, health *********************************************)

Apply(p) ==
    \E c \in tx[p].todo :
        /\ pc[p] = "apply"
        /\ IsNext(tx[p], c)
        /\ Works(net, c)
        /\ net' = Effect(net, c)
        /\ tx' = [tx EXCEPT ![p].inverses = PushInverse(tx[p], c), ![p].todo = @ \ {c}]
        /\ journal' = [journal EXCEPT !.completed = @ + 1]
        /\ UNCHANGED <<lock, pc, prefix, told, runtime, previous, health, quarantine,
                       pending, history>>

\* The command fails, its success cannot be confirmed, or a signal arrives while
\* it runs: its inverse is remembered all the same.
ApplyFails(p) ==
    \E c \in tx[p].todo, why \in {"operation-failed", "interrupted"} :
        /\ pc[p] = "apply"
        /\ IsNext(tx[p], c)
        /\ \/ /\ Works(net, c) /\ Fault("fail")
              /\ net' \in {Effect(net, c)} \cup (IF Deletes(c) THEN {} ELSE {net})
              /\ Fail(p, [tx[p] EXCEPT !.inverses = PushInverse(tx[p], c)], why)
           \/ /\ Works(net, c) /\ Deletes(c) /\ Fault("keep")
              /\ UNCHANGED net
              /\ Fail(p, [tx[p] EXCEPT !.inverses = PushInverse(tx[p], c),
                                       !.kept = {c.slot}], why)
           \/ /\ ~Works(net, c) /\ UNCHANGED <<net, faults>>
              /\ Fail(p, [tx[p] EXCEPT !.inverses = PushInverse(tx[p], c)], why)
        /\ UNCHANGED <<lock, prefix, told, files, before, disturbed, unsettled, torn>>

\* Fault: the settled actions are journalled but not run.
Settle_WithoutApply(p) ==
    LET goal == Goal(prefix, runtime, net)
        todo == Commands(goal, net)
    IN  /\ pc[p] = "apply" /\ tx[p].todo = {} /\ tx[p].rounds > 0
        /\ Owned(prefix, runtime, net)
        /\ Changes(goal, net) \cap Callback = {}
        /\ tx' = [tx EXCEPT ![p].local = prefix, ![p].seen = net, ![p].goal = goal,
                            ![p].rounds = @ - 1]
        /\ journal' = [journal EXCEPT !.total = @ + Cardinality(todo)]
        /\ unsettled' = {}
        /\ UNCHANGED <<lock, pc, world, runtime, previous, health, quarantine, pending,
                       before, disturbed, torn, faults>>

\* Fault: the journal keeps the list of the first plan.
Settle_OldJournal(p) ==
    LET goal == Goal(prefix, runtime, net)
    IN  /\ pc[p] = "apply" /\ tx[p].todo = {} /\ tx[p].rounds > 0
        /\ Owned(prefix, runtime, net)
        /\ Changes(goal, net) \cap Callback = {}
        /\ tx' = [tx EXCEPT ![p].local = prefix, ![p].seen = net, ![p].goal = goal,
                            ![p].todo = Commands(goal, net), ![p].rounds = @ - 1]
        /\ unsettled' = {}
        /\ UNCHANGED <<lock, pc, world, files, before, disturbed, torn, faults>>

\* A replan after the settling delay: its actions join the transaction.
Settle(p) ==
    LET goal == Goal(prefix, runtime, net)
        todo == Commands(goal, net)
    IN  /\ pc[p] = "apply" /\ tx[p].todo = {} /\ tx[p].rounds > 0
        /\ Owned(prefix, runtime, net)
        /\ Changes(goal, net) \cap Callback = {}
        /\ tx' = [tx EXCEPT ![p].local = prefix, ![p].seen = net, ![p].goal = goal,
                            ![p].todo = todo, ![p].rounds = @ - 1]
        /\ journal' = [journal EXCEPT !.total = @ + Cardinality(todo)]
        /\ unsettled' = {}
        /\ UNCHANGED <<lock, pc, world, runtime, previous, health, quarantine, pending,
                       before, disturbed, torn, faults>>

SettleFails(p) ==
    /\ pc[p] = "apply" /\ tx[p].todo = {} /\ tx[p].rounds > 0
    /\ \E why \in Reason :
          /\ \/ Refusal(why)
             \/ /\ why = "monitor-configuration-unstable"
                /\ Owned(prefix, runtime, net)
                /\ Changes(Goal(prefix, runtime, net), net) \cap Callback # {}
                /\ UNCHANGED faults
          /\ Fail(p, tx[p], why)
    /\ UNCHANGED <<lock, world, files, before, disturbed, unsettled, torn>>

ApplyDone(p) ==
    /\ pc[p] = "apply" /\ tx[p].todo = {} /\ tx[p].rounds = 0
    /\ Goto(p, "health")
    /\ UNCHANGED <<lock, tx, world, files, history>>

\* _health_check reads the default route and the live monitor flags itself;
\* whether the pings succeed is up to the world.
Inspected == net[DefaultRoute] = On /\ (RouterRecovery => net[Monitor] = On)

HealthPasses(p) ==
    /\ pc[p] = "health"
    /\ Inspected
    /\ Goto(p, IF tx[p].old = None THEN "runtime" ELSE "previous")
    /\ UNCHANGED <<lock, tx, world, files, history>>

\* Fault: a failed check is recorded, and nothing undone.
HealthFails_Recorded(p) ==
    /\ pc[p] = "health"
    /\ \/ Fault("fail")
       \/ ~Inspected /\ UNCHANGED faults
    /\ tx' = [tx EXCEPT ![p].reason = "health-failed"]
    /\ Goto(p, "failJournal")
    /\ UNCHANGED <<lock, world, files, before, disturbed, unsettled, torn>>

HealthFails(p) ==
    /\ pc[p] = "health"
    /\ \/ Fault("fail")
       \/ ~Inspected /\ UNCHANGED faults
    /\ Fail(p, tx[p], "health-failed")
    /\ UNCHANGED <<lock, world, files, before, disturbed, unsettled, torn>>

(* The records of a success, one file after the other *********************)

WritePrevious(p) ==
    /\ pc[p] = "previous"
    /\ previous' = tx[p].old
    /\ Goto(p, "runtime")
    /\ UNCHANGED <<lock, tx, world, runtime, health, quarantine, journal, pending, history>>

WriteRuntime(p) ==
    /\ pc[p] = "runtime"
    /\ runtime' = tx[p].local
    /\ Goto(p, "healthy")
    /\ UNCHANGED <<lock, tx, world, previous, health, quarantine, journal, pending, history>>

WriteHealthy(p) ==
    /\ pc[p] = "healthy"
    /\ health' = "healthy"
    /\ Goto(p, "clear")
    /\ UNCHANGED <<lock, tx, world, runtime, previous, quarantine, journal, pending, history>>

ClearQuarantine(p) ==
    /\ pc[p] = "clear"
    /\ quarantine' = "none"
    /\ Goto(p, "finish")
    /\ UNCHANGED <<lock, tx, world, runtime, previous, health, journal, pending, history>>

FinishVerified(p) ==
    /\ pc[p] = "finish"
    /\ journal' = [journal EXCEPT !.status = "verified"]
    /\ Goto(p, "decide")
    /\ UNCHANGED <<lock, tx, world, runtime, previous, health, quarantine, pending, history>>

(* Provider and webhook ***************************************************)

\* Fault: the endpoint is compared with the runtime.json just written.
DecideNotify_NewRuntime(p) ==
    /\ pc[p] = "decide"
    /\ Goto(p, IF runtime # tx[p].local \/ pending THEN "notify" ELSE "report")
    /\ UNCHANGED <<lock, tx, world, files, history>>

\* Fault: a deferred notification is not picked up again.
DecideNotify_IgnoresPending(p) ==
    /\ pc[p] = "decide"
    /\ Goto(p, IF tx[p].old # tx[p].local THEN "notify" ELSE "report")
    /\ UNCHANGED <<lock, tx, world, files, history>>

DecideNotify(p) ==
    /\ pc[p] = "decide"
    /\ Goto(p, IF tx[p].old # tx[p].local \/ pending THEN "notify" ELSE "report")
    /\ UNCHANGED <<lock, tx, world, files, history>>

NotifyProvider(p) ==
    /\ pc[p] = "notify"
    /\ told' = tx[p].local
    /\ Goto(p, "told")
    /\ UNCHANGED <<lock, tx, net, prefix, files, history>>

\* The provider did not answer with success: a JpixError, caught on the spot.
NotifyFails(p) ==
    /\ pc[p] = "notify"
    /\ Fault("fail")
    /\ Goto(p, "defer")
    /\ UNCHANGED <<lock, tx, world, files, before, disturbed, unsettled, torn>>

ForgetPending(p) ==
    /\ pc[p] = "told"
    /\ pending' = FALSE
    /\ Goto(p, "report")
    /\ UNCHANGED <<lock, tx, world, runtime, previous, health, quarantine, journal, history>>

DeferNotification(p) ==
    /\ pc[p] = "defer"
    /\ pending' = TRUE
    /\ Goto(p, "report")
    /\ UNCHANGED <<lock, tx, world, runtime, previous, health, quarantine, journal, history>>

\* The webhook changes nothing here; then reconcile returns.
Report(p) ==
    /\ pc[p] = "report"
    /\ Leave(p)
    /\ torn' = FALSE
    /\ UNCHANGED <<world, files, faults>>

(* Failure ****************************************************************)

\* SIGTERM or SIGINT (a JpixError) or any other exception in the try block.
\* A JpixError inside the notification only defers it.
Raise(p) ==
    \E why \in {"interrupted", "operation-failed"} :
        /\ pc[p] \in Applying \cup Committed
        /\ Fault("raise")
        /\ IF why = "interrupted" /\ pc[p] \in {"notify", "told"}
           THEN Goto(p, "defer") /\ UNCHANGED tx
           ELSE Fail(p, tx[p], why)
        /\ UNCHANGED <<lock, world, files, before, disturbed, unsettled, torn>>

\* One inverse, the latest first: a command like any other.
Undo(p) ==
    LET n == Len(tx[p].inverses)
        i == tx[p].inverses[n]
    IN  /\ pc[p] = "rollback" /\ n > 0
        /\ Works(net, i)
        /\ net' = Effect(net, i)
        /\ tx' = [tx EXCEPT ![p].inverses = SubSeq(@, 1, n - 1)]
        /\ UNCHANGED <<lock, pc, prefix, told, files, history>>

\* An inverse that fails is counted against the rollback and skipped; so is one
\* that finds nothing to undo, as after a command that had no effect.
UndoFails(p) ==
    LET n == Len(tx[p].inverses)
        i == tx[p].inverses[n]
    IN  /\ pc[p] = "rollback" /\ n > 0
        /\ \/ /\ Works(net, i) /\ Fault("undo")
              /\ net' \in {net, Effect(net, i)}
           \/ /\ ~Works(net, i)
              /\ UNCHANGED <<net, faults>>
        /\ tx' = [tx EXCEPT ![p].inverses = SubSeq(@, 1, n - 1), ![p].broken = TRUE]
        /\ UNCHANGED <<lock, pc, prefix, told, files, before, disturbed, unsettled, torn>>

RollbackDone(p) ==
    /\ pc[p] = "rollback" /\ tx[p].inverses = <<>>
    /\ tx' = [tx EXCEPT ![p].reason = IF tx[p].broken THEN "rollback-failed" ELSE @]
    /\ Goto(p, "failJournal")
    /\ UNCHANGED <<lock, world, files, history>>

FailJournal(p) ==
    /\ pc[p] = "failJournal"
    /\ journal' = [journal EXCEPT !.status = tx[p].reason]
    /\ Goto(p, "failHealth")
    /\ UNCHANGED <<lock, tx, world, runtime, previous, health, quarantine, pending, history>>

RecordFailure(p) ==
    /\ pc[p] = "failHealth"
    /\ health' = tx[p].reason
    /\ Goto(p, "failQuarantine")
    /\ UNCHANGED <<lock, tx, world, runtime, previous, quarantine, journal, pending, history>>

\* Fault: the failure is recorded but not quarantined.
Quarantine_Skipped(p) ==
    /\ pc[p] = "failQuarantine"
    /\ Leave(p)
    /\ torn' = FALSE
    /\ UNCHANGED <<world, files, faults>>

Quarantine(p) ==
    /\ pc[p] = "failQuarantine"
    /\ quarantine' = tx[p].reason
    /\ Leave(p)
    /\ torn' = FALSE
    /\ UNCHANGED <<world, runtime, previous, health, journal, pending, faults>>

\* SIGKILL at any point, a signal before the handlers are installed, or an
\* exception while a failure is being handled: nothing more is written.
Die(p) ==
    /\ pc[p] # "idle"
    /\ Fault("die")
    /\ Leave(p)
    /\ torn' = TRUE
    /\ UNCHANGED <<world, files>>

(* The world **************************************************************)

AtRest == \A p \in Proc : pc[p] = "idle"

Touched(s) == {s} \cup (IF s = Tunnel THEN OnTunnel ELSE {})

\* What other programs and administrators can do to a slot.  Nobody else
\* writes a rule with the project's tag, but a rebuild can lose or repeat one.
DriftTo(s) ==
    CASE s = Tunnel           -> {Absent} \cup Endpoint
      [] s = Alias            -> {Absent, Alien}
      [] s \in Firewall       -> IF net[s] = Absent THEN {} ELSE 0 .. MaxCopies
      [] s \in Contested      -> {Absent, On, Alien}
      [] s = Enrolment        -> {}
      [] OTHER                -> {Absent, On}

Drift ==
    \E s \in Fragile : \E v \in DriftTo(s) :
        /\ Fault("drift")
        /\ v # net[s] /\ (s \in OnTunnel => net[Tunnel] # Absent)
        /\ net' = Put(net, s, v)
        /\ IF AtRest THEN UNCHANGED <<disturbed, unsettled>>
           ELSE /\ disturbed' = disturbed \cup Touched(s)
                /\ unsettled' = unsettled \cup Touched(s)
        /\ UNCHANGED <<lock, pc, tx, prefix, told, files, before, torn>>

\* The ISP delegates another prefix.
MovePrefix ==
    /\ Fault("move")
    /\ prefix' \in Endpoint \ {prefix}
    /\ UNCHANGED <<lock, pc, tx, net, told, files, before, disturbed, unsettled, torn>>

\* A boot: every process is gone, the kernel is empty, the files remain.
Reboot ==
    /\ Fault("die")
    /\ lock' = Nobody
    /\ pc' = [p \in Proc |-> "idle"]
    /\ tx' = [p \in Proc |-> NoTx]
    /\ net' = [s \in Slot |-> IF s \in Callback THEN net[s] ELSE Absent]
    /\ before' = EmptyNet /\ disturbed' = {} /\ unsettled' = {}
    /\ torn' = (torn \/ lock # Nobody)
    /\ UNCHANGED <<prefix, told, files>>

(* The specification ******************************************************)

Forward(p) ==
    \/ Plan(p) \/ Refuse(p) \/ Apply(p) \/ ApplyFails(p) \/ Settle(p) \/ SettleFails(p)
    \/ ApplyDone(p) \/ HealthPasses(p) \/ HealthFails(p)

Commit(p) ==
    \/ WritePrevious(p) \/ WriteRuntime(p) \/ WriteHealthy(p) \/ ClearQuarantine(p)
    \/ FinishVerified(p) \/ DecideNotify(p) \/ NotifyProvider(p) \/ NotifyFails(p)
    \/ ForgetPending(p) \/ DeferNotification(p) \/ Report(p)

Rollback(p) ==
    \/ Undo(p) \/ UndoFails(p) \/ RollbackDone(p) \/ FailJournal(p) \/ RecordFailure(p)
    \/ Quarantine(p)

Step(p) == Forward(p) \/ Commit(p) \/ Rollback(p)

Next ==
    \/ \E p \in Proc : Start(p) \/ Step(p) \/ Raise(p) \/ Die(p)
    \/ Drift \/ MovePrefix \/ Reboot

Spec == Init /\ [][Next]_vars

\* A process that entered keeps running; the timer calls reconcile again.
FairSpec ==
    /\ Spec
    /\ \A p \in Proc : WF_vars(Step(p))
    /\ WF_vars(\E p \in Proc : Start(p))

(* Properties *************************************************************)

\* Every variable keeps its type: the files hold known reasons and endpoints,
\* the network holds cells, each process is at a known place.
TypeOK ==
    /\ lock \in Proc \cup {Nobody}
    /\ pc \in [Proc -> PCs]
    /\ tx \in [Proc -> Tx]
    /\ net \in Net /\ prefix \in Endpoint
    /\ runtime \in Endpoint \cup {None} /\ previous \in Endpoint \cup {None}
    /\ health \in Reason \cup {"none", "healthy"} /\ quarantine \in Reason \cup {"none"}
    /\ journal \in [status : Reason \cup {"none", "applying", "verified"},
                    total : Nat, completed : Nat]
    /\ pending \in BOOLEAN /\ told \in Endpoint \cup {None}
    /\ before \in Net
    /\ disturbed \in SUBSET Slot /\ unsettled \in SUBSET Slot
    /\ torn \in BOOLEAN
    /\ faults \in [Kind -> Nat]

\* flock admits one reconcile at a time: no two processes are ever between
\* lock acquisition and return, whatever dies, reboots or is interrupted.
OneTransaction ==
    \A p, q \in Proc : pc[p] # "idle" /\ pc[q] # "idle" => p = q

\* What a rollback leaves of the cell v of slot s: a deletion that failed and
\* left its rule is undone all the same, by one more copy.
Left(kept, s, v) == IF s \in kept THEN v + 1 ELSE v

\* A transaction that fails and reports that its inverses all worked has put
\* every slot that nobody else touched back as it found it, even when it was
\* replanned on the way, save one more copy of the firewall rule whose deletion
\* failed; and a refused plan has changed nothing.
RollbackRestores ==
    \A p \in Proc :
        pc[p] \in {"failJournal", "failHealth", "failQuarantine"} /\ ~tx[p].broken =>
            \A s \in Slot \ disturbed : net[s] = Left(tx[p].kept, s, before[s])

\* From the health check on, the network is what the latest plan wanted in
\* every slot that nobody touched since that plan: runtime.json is never
\* written for a network whose repairs were not all made.
CommitConverged ==
    \A p \in Proc :
        pc[p] \in {"health", "previous", "runtime"} \cup Committed =>
            \A s \in Slot \ unsettled : tx[p].goal[s] \in {Keep, net[s]}

\* A journal that says verified lists exactly the actions that were completed.
VerifiedComplete ==
    journal.status = "verified" => journal.completed = journal.total

\* Unless a run was cut short, quarantine.json exists exactly when
\* health.json reports a failure.
RecordsAgree ==
    AtRest /\ ~torn => (quarantine # "none" <=> health \notin {"none", "healthy"})

\* At rest the provider knows the recorded endpoint, or the notification is
\* on record as pending.
ProviderInformed ==
    AtRest /\ runtime # None => told = runtime \/ pending

\* A notification that fails never takes a healthy data plane down.
NotificationNeverReverts ==
    [][\A p \in Proc : pc[p] = "notify" => pc'[p] # "rollback"]_vars

\* Whatever the prefix does next, the project's own leftovers never make the
\* planner refuse with a foreign conflict, unless the deletion of a firewall rule
\* failed once: its inverse repeats the rule, and of a repeated rule of an old
\* endpoint one copy is never cleaned up.
NeverSelfConflict ==
    AtRest /\ faults.keep = 0 => \A e \in Endpoint : Owned(e, runtime, net)

\* Everything is repaired and on record, and the provider knows it.
Healed ==
    /\ runtime = prefix /\ told = prefix
    /\ Changes(Goal(prefix, runtime, net), net) = {}
    /\ quarantine = "none" /\ health = "healthy"

\* Once the faults stop, the repeated runs repair the network, its records and
\* the provider's knowledge, and it stays so; unless the deletion of a firewall
\* rule failed once, and the copy that its inverse made is refused for ever.
EventuallyHealed ==
    <>[]Healed \/ <>[](faults.keep > 0 /\ ~Owned(prefix, runtime, net))
=============================================================================
