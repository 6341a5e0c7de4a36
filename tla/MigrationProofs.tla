-------------------------- MODULE MigrationProofs --------------------------
(***************************************************************************)
(* Proofs about module Migration, for any number of trials, deaths, failed *)
(* runs, edits and power losses: one shell in which the operator runs the  *)
(* commands of the guide one at a time, beside the reconcile service and   *)
(* any number of timers' recoveries, which may run beside an activation.   *)
(***************************************************************************)
EXTENDS Migration, TLAPS

\* The surroundings the documents ask for.
Solitary == Orderly /\ \E s : Shells = {s}

(* The invariant **********************************************************)

Lines == Locked \cup {"idle", "reconcile", "await", "seal", "enrol", "arm", "halt", "change",
                      "resume", "failed", "read", "claim", "mark", "disarm"}

\* Where each command can be.
LinesOf(op) ==
    CASE op = "none"      -> {"idle"}
      [] op = "reconcile" -> {"reconcile", "repair"}
      [] op = "activate"  -> {"enrol", "arm", "halt", "change", "clear", "drop", "reconcile", "repair",
                              "await", "resume", "failed"}
      [] op = "confirm"   -> {"reconcile", "repair", "seal", "disarm"}
      [] OTHER            -> {"read", "halt", "claim", "clear", "restore", "flags", "route", "config",
                              "runtime", "unenrol", "reconcile", "repair", "mark", "disarm", "resume"}

Shape ==
    /\ disk \in [status : Status, trial : Nat, mode : Modes, runtime : Modes, enrolled : BOOLEAN]
    /\ sys \in [native : {"original", "desired", "edited"}, flags : Modes,
                path : Modes \cup {"none"}, rules : Modes \cup {"none"},
                outer : {"recorded", "moved"}, endpoint : {"recorded", "moved"},
                units : BOOLEAN, timers : SUBSET Nat]
    /\ run \in [Procs -> [op : {"none", "reconcile", "activate", "confirm", "recover"}, at : Lines,
                          mode : Modes, status : Status, trial : Nat]]
    /\ hist \in [faults : 0 .. MaxFaults, trials : 0 .. MaxTrials, overtaken : BOOLEAN]

\* Who runs what; with the units stopped no service runs.
Roles ==
    /\ \A p \in Procs : run[p].at \in LinesOf(run[p].op)
    /\ \A p \in Alarms : run[p].op \in {"none", "recover"}
    /\ run[Service].op \in {"none", "reconcile"} /\ (~sys.units => run[Service].op = "none")
    /\ \A p \in Shells : run[p].op # "reconcile"
    /\ \A p, q \in Procs : {run[p].at, run[q].at} \subseteq Locked => p = q

Repairing(p) == At(p, "reconcile") \/ At(p, "repair")

\* A repair in standalone mode has the configuration with it; one in managed
\* mode that comes after a recovery finds its way blocked.
RepairOK ==
    \A p \in Procs : Repairing(p) =>
        /\ run[p].mode = "standalone" => disk.mode = "standalone"
        /\ run[p].mode = "managed" /\ disk.status = "recovered" => sys.path = "standalone"
        /\ By(p, "recover") => run[p].mode = "standalone"
        /\ By(p, "activate") \/ By(p, "confirm") => run[p].mode = "managed"

\* What an activation knows of the disk and of the recoveries under way.
Repaired   == disk.mode = "managed" => disk.runtime = "managed" /\ disk.enrolled
ActivateOK ==
    \A p \in Procs : By(p, "activate") =>
        /\ ~At(p, "enrol") => run[p].status \in {"pending", "awaiting"}
        /\ run[p].status = "awaiting" => At(p, "resume") \/ At(p, "failed")
        /\ At(p, "clear") \/ At(p, "drop") =>
              disk.mode = "managed" /\ disk.status = "pending" /\ \A q \in Procs : ~Unrecorded(q)
        /\ At(p, "await") \/ run[p].status = "awaiting" => Repaired

\* What a recovery knows of them.
RecoverOK ==
    \A p \in Procs : By(p, "recover") =>
        /\ run[p].at \in Locked => disk.status # "confirmed"
        /\ run[p].at \in {"runtime", "unenrol", "mark"} => disk.mode = "standalone"
        /\ At(p, "mark") => disk.runtime = "standalone" /\ sys.path = "standalone" /\ sys.rules # "managed"

\* A trial that waits in managed mode has been repaired in it.
AwaitingOK == disk.status = "awaiting" => Repaired

Decisions ==
    /\ disk.status = "confirmed" => disk.mode = "managed" /\ disk.runtime = "managed" /\ disk.enrolled
    /\ disk.status = "recovered" => "managed" \notin {disk.mode, disk.runtime, sys.path, sys.rules}

\* All of it unless an activation has changed over behind a recovery.
Kept == RepairOK /\ ActivateOK /\ RecoverOK /\ AwaitingOK /\ Decisions
IInv == Shape /\ Roles /\ (~hist.overtaken => Kept)

(* Steps ******************************************************************)

\* Every step keeps the shape of the records.
LEMMA ShapeStep ==
    ASSUME NEW s, Shells = {s}, Orderly, Shape, [Next]_vars
    PROVE  Shape'
<1> USE MigrationAssumption DEF Procs, At, By, Go, End, Begin, Raise, Disturbance, Free, Locked,
        Idle, Decided, WriteRecord, Shape, Lines, Modes, Status
<1>1. ASSUME NEW p \in Procs, ReconcileLocks(p) PROVE Shape'
    BY <1>1 DEF ReconcileLocks
<1>2. ASSUME NEW p \in Procs, Repairs(p) PROVE Shape'
    <2>1. disk' \in [status : Status, trial : Nat, mode : Modes, runtime : Modes, enrolled : BOOLEAN]
        BY <1>2 DEF Repairs
    <2>2. sys' \in [native : {"original", "desired", "edited"}, flags : Modes,
                    path : Modes \cup {"none"}, rules : Modes \cup {"none"},
                    outer : {"recorded", "moved"}, endpoint : {"recorded", "moved"},
                    units : BOOLEAN, timers : SUBSET Nat]
        BY <1>2 DEF Repairs
    <2>3. run' \in [Procs -> [op : {"none", "reconcile", "activate", "confirm", "recover"}, at : Lines,
                              mode : Modes, status : Status, trial : Nat]]
        BY <1>2 DEF Repairs
    <2> QED
        BY <1>2, <2>1, <2>2, <2>3 DEF Repairs
<1>3. ASSUME NEW p \in Procs, RepairFails(p) PROVE Shape'
    BY <1>3 DEF RepairFails
<1>4. ASSUME NEW p \in Procs, Enrol(p) PROVE Shape'
    <2>1. hist.trials + 1 \in Nat /\ hist' \in [faults : 0 .. MaxFaults, trials : 0 .. MaxTrials, overtaken : BOOLEAN]
        BY <1>4 DEF Enrol
    <2>2. hist'.trials \in Nat
        BY <2>1
    <2>3. run' \in [Procs -> [op : {"none", "reconcile", "activate", "confirm", "recover"}, at : Lines,
                              mode : Modes, status : Status, trial : Nat]]
        BY <1>4, <2>2 DEF Enrol
    <2>4. disk' \in [status : Status, trial : Nat, mode : Modes, runtime : Modes, enrolled : BOOLEAN]
        BY <1>4, <2>2 DEF Enrol
    <2> QED
        BY <1>4, <2>1, <2>3, <2>4 DEF Enrol
<1>5. ASSUME NEW p \in Procs, Arm(p) PROVE Shape'
    BY <1>5 DEF Arm
<1>6. ASSUME NEW p \in Procs, Halt(p) PROVE Shape'
    <2>1. run' \in [Procs -> [op : {"none", "reconcile", "activate", "confirm", "recover"}, at : Lines,
                              mode : Modes, status : Status, trial : Nat]]
        BY <1>6 DEF Halt
    <2> QED
        BY <1>6, <2>1 DEF Halt
<1>7. ASSUME NEW p \in Procs, Change(p) PROVE Shape'
    <2>1. hist' \in [faults : 0 .. MaxFaults, trials : 0 .. MaxTrials, overtaken : BOOLEAN]
        <3>1. CASE Free /\ {sys.path, sys.rules} = {"standalone"}
            <4> DEFINE behind == hist.overtaken \/ disk.status # "pending" \/ sys.units \/ \E q \in Procs : Unrecorded(q)
            <4>1. hist' = [hist EXCEPT !.overtaken = behind]
                BY <1>7, <3>1, Zenon DEF Change
            <4>2. behind \in BOOLEAN
                OBVIOUS
            <4> HIDE DEF behind
            <4> QED
                BY <4>1, <4>2
        <3>2. CASE ~(Free /\ {sys.path, sys.rules} = {"standalone"})
            BY <1>7, <3>2 DEF Change
        <3> QED
            BY <3>1, <3>2
    <2> QED
        BY <1>7, <2>1 DEF Change
<1>8. ASSUME NEW p \in Procs, Clear(p) PROVE Shape'
    BY <1>8 DEF Clear
<1>9. ASSUME NEW p \in Procs, Drop(p) PROVE Shape'
    BY <1>9 DEF Drop
<1>10. ASSUME NEW p \in Procs, Await(p) PROVE Shape'
    BY <1>10 DEF Await
<1>11. ASSUME NEW p \in Procs, Failed(p) PROVE Shape'
    BY <1>11 DEF Failed
<1>12. ASSUME NEW p \in Procs, Read(p) PROVE Shape'
    BY <1>12 DEF Read
<1>13. ASSUME NEW p \in Procs, Claim(p) PROVE Shape'
    <2>1. run' \in [Procs -> [op : {"none", "reconcile", "activate", "confirm", "recover"}, at : Lines,
                              mode : Modes, status : Status, trial : Nat]]
        <3>1. CASE Free /\ disk.status \notin Decided
            BY <1>13, <3>1 DEF Claim
        <3>2. CASE ~(Free /\ disk.status \notin Decided)
            BY <1>13, <3>2 DEF Claim
        <3> QED
            BY <3>1, <3>2
    <2>2. sys' \in [native : {"original", "desired", "edited"}, flags : Modes,
                    path : Modes \cup {"none"}, rules : Modes \cup {"none"},
                    outer : {"recorded", "moved"}, endpoint : {"recorded", "moved"},
                    units : BOOLEAN, timers : SUBSET Nat]
        BY <1>13 DEF Claim
    <2> QED
        BY <1>13, <2>1, <2>2 DEF Claim
<1>14. ASSUME NEW p \in Procs, PutBack(p) PROVE Shape'
    BY <1>14 DEF PutBack
<1>15. ASSUME NEW p \in Procs, WriteBack(p) PROVE Shape'
    <2>1. CASE At(p, "config")
        BY <1>15, <2>1 DEF WriteBack
    <2>2. CASE At(p, "runtime")
        BY <1>15, <2>2 DEF WriteBack
    <2>3. CASE At(p, "unenrol")
        <3>1. disk' \in [status : Status, trial : Nat, mode : Modes, runtime : Modes, enrolled : BOOLEAN]
            BY <1>15, <2>3 DEF WriteBack
        <3>2. run' \in [Procs -> [op : {"none", "reconcile", "activate", "confirm", "recover"}, at : Lines,
                                  mode : Modes, status : Status, trial : Nat]]
            BY <1>15, <2>3 DEF WriteBack
        <3> QED
            BY <1>15, <3>1, <3>2 DEF WriteBack
    <2> QED
        BY <1>15, <2>1, <2>2, <2>3 DEF WriteBack
<1>16. ASSUME NEW p \in Procs, Mark(p) PROVE Shape'
    BY <1>16 DEF Mark
<1>17. ASSUME NEW p \in Procs, Disarm(p) PROVE Shape'
    BY <1>17 DEF Disarm
<1>18. ASSUME NEW p \in Procs, Resume(p) PROVE Shape'
    BY <1>18 DEF Resume
<1>19. ASSUME NEW p \in Procs, Seal(p) PROVE Shape'
    BY <1>19 DEF Seal
<1>20. ASSUME NEW p \in Procs, Reconcile(p) PROVE Shape'
    BY <1>20 DEF Reconcile
<1>21. ASSUME NEW p \in Procs, ActivateFails(p) PROVE Shape'
    <2>1. sys' \in [native : {"original", "desired", "edited"}, flags : Modes,
                    path : Modes \cup {"none"}, rules : Modes \cup {"none"},
                    outer : {"recorded", "moved"}, endpoint : {"recorded", "moved"},
                    units : BOOLEAN, timers : SUBSET Nat]
        <3>1. (sys.units \/ run[p].at = "resume") \in BOOLEAN
            OBVIOUS
        <3> QED
            BY <1>21, <3>1 DEF ActivateFails
    <2>2. run' \in [Procs -> [op : {"none", "reconcile", "activate", "confirm", "recover"}, at : Lines,
                              mode : Modes, status : Status, trial : Nat]]
        BY <1>21 DEF ActivateFails
    <2> QED
        BY <1>21, <2>1, <2>2 DEF ActivateFails
<1>22. ASSUME NEW p \in Procs, Dies(p) PROVE Shape'
    BY <1>22 DEF Dies
<1>23. ASSUME NEW p \in Shells, Activate(p) PROVE Shape'
    BY <1>23 DEF Activate
<1>24. ASSUME NEW p \in Shells, Confirm(p) PROVE Shape'
    BY <1>24 DEF Confirm
<1>25. ASSUME NEW p \in Shells, RecoverByHand(p) PROVE Shape'
    BY <1>25 DEF RecoverByHand
<1>26. ASSUME NEW p \in Alarms, TimerFires(p) PROVE Shape'
    BY <1>26 DEF TimerFires
<1>27. CASE Disturb
    BY <1>27 DEF Disturb
<1>28. CASE PowerLoss
    <2>1. run' \in [Procs -> [op : {"none", "reconcile", "activate", "confirm", "recover"}, at : Lines,
                              mode : Modes, status : Status, trial : Nat]]
        BY <1>28 DEF PowerLoss
    <2>2. sys' \in [native : {"original", "desired", "edited"}, flags : Modes,
                    path : Modes \cup {"none"}, rules : Modes \cup {"none"},
                    outer : {"recorded", "moved"}, endpoint : {"recorded", "moved"},
                    units : BOOLEAN, timers : SUBSET Nat]
        BY <1>28 DEF PowerLoss
    <2> QED
        BY <1>28, <2>1, <2>2 DEF PowerLoss
<1>29. CASE UNCHANGED vars
    BY <1>29 DEF vars
<1> QED
    BY <1>1, <1>2, <1>3, <1>4, <1>5, <1>6, <1>7, <1>8, <1>9, <1>10, <1>11, <1>12, <1>13, <1>14,
       <1>15, <1>16, <1>17, <1>18, <1>19, <1>20, <1>21, <1>22, <1>23, <1>24, <1>25, <1>26, <1>27, <1>28, <1>29
    DEF Next, Step

\* Every step keeps who runs what: the lock has one holder.
LEMMA RolesStep ==
    ASSUME NEW s, Shells = {s}, Orderly, Shape, Roles, [Next]_vars
    PROVE  Roles'
<1> USE MigrationAssumption DEF Procs, At, By, Go, End, Begin, Raise, Disturbance, Free, Locked,
        Idle, Decided, WriteRecord, Roles, LinesOf, Shape
<1>1. ASSUME NEW p \in Procs, ReconcileLocks(p) PROVE Roles'
    BY <1>1 DEF ReconcileLocks
<1>2. ASSUME NEW p \in Procs, Repairs(p) PROVE Roles'
    BY <1>2 DEF Repairs
<1>3. ASSUME NEW p \in Procs, RepairFails(p) PROVE Roles'
    BY <1>3 DEF RepairFails
<1>4. ASSUME NEW p \in Procs, Enrol(p) PROVE Roles'
    BY <1>4 DEF Enrol
<1>5. ASSUME NEW p \in Procs, Arm(p) PROVE Roles'
    BY <1>5 DEF Arm
<1>6. ASSUME NEW p \in Procs, Halt(p) PROVE Roles'
    BY <1>6 DEF Halt
<1>7. ASSUME NEW p \in Procs, Change(p) PROVE Roles'
    BY <1>7 DEF Change
<1>8. ASSUME NEW p \in Procs, Clear(p) PROVE Roles'
    BY <1>8 DEF Clear
<1>9. ASSUME NEW p \in Procs, Drop(p) PROVE Roles'
    BY <1>9 DEF Drop
<1>10. ASSUME NEW p \in Procs, Await(p) PROVE Roles'
    BY <1>10 DEF Await
<1>11. ASSUME NEW p \in Procs, Failed(p) PROVE Roles'
    BY <1>11 DEF Failed
<1>12. ASSUME NEW p \in Procs, Read(p) PROVE Roles'
    BY <1>12 DEF Read
<1>13. ASSUME NEW p \in Procs, Claim(p) PROVE Roles'
    BY <1>13 DEF Claim
<1>14. ASSUME NEW p \in Procs, PutBack(p) PROVE Roles'
    BY <1>14 DEF PutBack
<1>15. ASSUME NEW p \in Procs, WriteBack(p) PROVE Roles'
    BY <1>15 DEF WriteBack
<1>16. ASSUME NEW p \in Procs, Mark(p) PROVE Roles'
    BY <1>16 DEF Mark
<1>17. ASSUME NEW p \in Procs, Disarm(p) PROVE Roles'
    BY <1>17 DEF Disarm
<1>18. ASSUME NEW p \in Procs, Resume(p) PROVE Roles'
    BY <1>18 DEF Resume
<1>19. ASSUME NEW p \in Procs, Seal(p) PROVE Roles'
    BY <1>19 DEF Seal
<1>20. ASSUME NEW p \in Procs, Reconcile(p) PROVE Roles'
    BY <1>20 DEF Reconcile
<1>21. ASSUME NEW p \in Procs, ActivateFails(p) PROVE Roles'
    BY <1>21 DEF ActivateFails
<1>22. ASSUME NEW p \in Procs, Dies(p) PROVE Roles'
    BY <1>22 DEF Dies
<1>23. ASSUME NEW p \in Shells, Activate(p) PROVE Roles'
    BY <1>23 DEF Activate
<1>24. ASSUME NEW p \in Shells, Confirm(p) PROVE Roles'
    BY <1>24 DEF Confirm
<1>25. ASSUME NEW p \in Shells, RecoverByHand(p) PROVE Roles'
    BY <1>25 DEF RecoverByHand
<1>26. ASSUME NEW p \in Alarms, TimerFires(p) PROVE Roles'
    BY <1>26 DEF TimerFires
<1>27. CASE Disturb
    BY <1>27 DEF Disturb
<1>28. CASE PowerLoss
    BY <1>28 DEF PowerLoss
<1>29. CASE UNCHANGED vars
    BY <1>29 DEF vars
<1> QED
    BY <1>1, <1>2, <1>3, <1>4, <1>5, <1>6, <1>7, <1>8, <1>9, <1>10, <1>11, <1>12, <1>13, <1>14,
       <1>15, <1>16, <1>17, <1>18, <1>19, <1>20, <1>21, <1>22, <1>23, <1>24, <1>25, <1>26, <1>27, <1>28, <1>29
    DEF Next, Step

\* A change-over that nobody was ahead of, and one that is refused.
ChangesOver(p) ==
    /\ At(p, "change") /\ Free /\ sys.path = "standalone" /\ sys.rules = "standalone"
    /\ disk.status = "pending" /\ ~sys.units /\ \A q \in Procs : ~Unrecorded(q)
    /\ disk' = [disk EXCEPT !.mode = "managed"] /\ sys' = sys /\ Go(p, "clear")
Refused(p) == At(p, "change") /\ Raise(p) /\ UNCHANGED <<disk, sys>>

\* Neither kind is overlooked.
LEMMA ChangeCases ==
    ASSUME NEW p \in Procs, Shape, Change(p), ~hist'.overtaken
    PROVE  ChangesOver(p) \/ Refused(p)
<1> DEFINE behind == hist.overtaken \/ disk.status # "pending" \/ sys.units \/ \E q \in Procs : Unrecorded(q)
<1>1. CASE Free /\ {sys.path, sys.rules} = {"standalone"}
    <2>1. hist' = [hist EXCEPT !.overtaken = behind]
        BY <1>1, Zenon DEF Change
    <2>2. ~behind
        <3> HIDE DEF behind
        <3> QED
            BY <2>1 DEF Shape
    <2> QED
        BY <1>1, <2>2 DEF Change, ChangesOver
<1>2. CASE ~(Free /\ {sys.path, sys.rules} = {"standalone"})
    BY <1>2 DEF Change, Refused
<1> QED
    BY <1>1, <1>2

\* Every step keeps repairs that cannot undo a decision.
LEMMA RepairStep ==
    ASSUME NEW s, Shells = {s}, Orderly, Shape, Roles, Kept, ~hist'.overtaken, [Next]_vars
    PROVE  RepairOK'
<1> USE MigrationAssumption DEF Procs, At, By, Go, End, Begin, Raise, Disturbance, Free, Locked,
        Idle, Decided, WriteRecord, Shape, Roles, LinesOf, Modes, Kept, Unrecorded, Repairing,
        Repaired, RepairOK, ActivateOK, RecoverOK, AwaitingOK, Decisions, Buildable, Adapter
<1>1. ASSUME NEW p \in Procs, ReconcileLocks(p) PROVE RepairOK'
    BY <1>1 DEF ReconcileLocks
<1>2. ASSUME NEW p \in Procs, Repairs(p) PROVE RepairOK'
    BY <1>2 DEF Repairs
<1>3. ASSUME NEW p \in Procs, RepairFails(p) PROVE RepairOK'
    BY <1>3 DEF RepairFails
<1>4. ASSUME NEW p \in Procs, Enrol(p) PROVE RepairOK'
    BY <1>4 DEF Enrol
<1>5. ASSUME NEW p \in Procs, Arm(p) PROVE RepairOK'
    BY <1>5 DEF Arm
<1>6. ASSUME NEW p \in Procs, Halt(p) PROVE RepairOK'
    BY <1>6 DEF Halt
<1>7. ASSUME NEW p \in Procs, Change(p) PROVE RepairOK'
    <2>1. CASE Refused(p)
        BY <2>1 DEF Refused
    <2>2. CASE ChangesOver(p)
        BY <2>2 DEF ChangesOver
    <2> QED
        BY <1>7, <2>1, <2>2, ChangeCases
<1>8. ASSUME NEW p \in Procs, Clear(p) PROVE RepairOK'
    BY <1>8 DEF Clear
<1>9. ASSUME NEW p \in Procs, Drop(p) PROVE RepairOK'
    BY <1>9 DEF Drop
<1>10. ASSUME NEW p \in Procs, Await(p) PROVE RepairOK'
    BY <1>10 DEF Await
<1>11. ASSUME NEW p \in Procs, Failed(p) PROVE RepairOK'
    BY <1>11 DEF Failed
<1>12. ASSUME NEW p \in Procs, Read(p) PROVE RepairOK'
    BY <1>12 DEF Read
<1>13. ASSUME NEW p \in Procs, Claim(p) PROVE RepairOK'
    BY <1>13 DEF Claim
<1>14. ASSUME NEW p \in Procs, PutBack(p) PROVE RepairOK'
    BY <1>14 DEF PutBack
<1>15. ASSUME NEW p \in Procs, WriteBack(p) PROVE RepairOK'
    BY <1>15 DEF WriteBack
<1>16. ASSUME NEW p \in Procs, Mark(p) PROVE RepairOK'
    BY <1>16 DEF Mark
<1>17. ASSUME NEW p \in Procs, Disarm(p) PROVE RepairOK'
    BY <1>17 DEF Disarm
<1>18. ASSUME NEW p \in Procs, Resume(p) PROVE RepairOK'
    BY <1>18 DEF Resume
<1>19. ASSUME NEW p \in Procs, Seal(p) PROVE RepairOK'
    BY <1>19 DEF Seal
<1>20. ASSUME NEW p \in Procs, Reconcile(p) PROVE RepairOK'
    BY <1>20 DEF Reconcile
<1>21. ASSUME NEW p \in Procs, ActivateFails(p) PROVE RepairOK'
    BY <1>21 DEF ActivateFails
<1>22. ASSUME NEW p \in Procs, Dies(p) PROVE RepairOK'
    BY <1>22 DEF Dies
<1>23. ASSUME NEW p \in Shells, Activate(p) PROVE RepairOK'
    BY <1>23 DEF Activate
<1>24. ASSUME NEW p \in Shells, Confirm(p) PROVE RepairOK'
    BY <1>24 DEF Confirm
<1>25. ASSUME NEW p \in Shells, RecoverByHand(p) PROVE RepairOK'
    BY <1>25 DEF RecoverByHand
<1>26. ASSUME NEW p \in Alarms, TimerFires(p) PROVE RepairOK'
    BY <1>26 DEF TimerFires
<1>27. CASE Disturb
    BY <1>27 DEF Disturb
<1>28. CASE PowerLoss
    BY <1>28 DEF PowerLoss
<1>29. CASE UNCHANGED vars
    BY <1>29 DEF vars
<1> QED
    BY <1>1, <1>2, <1>3, <1>4, <1>5, <1>6, <1>7, <1>8, <1>9, <1>10, <1>11, <1>12, <1>13, <1>14,
       <1>15, <1>16, <1>17, <1>18, <1>19, <1>20, <1>21, <1>22, <1>23, <1>24, <1>25, <1>26, <1>27, <1>28, <1>29
    DEF Next, Step

\* Every step keeps what an activation knows.
LEMMA ActivateStep ==
    ASSUME NEW s, Shells = {s}, Orderly, Shape, Roles, Kept, ~hist'.overtaken, [Next]_vars
    PROVE  ActivateOK'
<1> USE MigrationAssumption DEF Procs, At, By, Go, End, Begin, Raise, Disturbance, Free, Locked,
        Idle, Decided, WriteRecord, Shape, Roles, LinesOf, Modes, Kept, Unrecorded, Repairing,
        Repaired, RepairOK, ActivateOK, RecoverOK, AwaitingOK, Decisions, Buildable, Adapter
<1>1. ASSUME NEW p \in Procs, ReconcileLocks(p) PROVE ActivateOK'
    BY <1>1 DEF ReconcileLocks
<1>2. ASSUME NEW p \in Procs, Repairs(p) PROVE ActivateOK'
    <2>1. Repaired'
        <3>1. CASE run[p].mode = "managed"
            <4>1. disk'.runtime = "managed" /\ disk'.enrolled
                BY <1>2, <3>1 DEF Repairs
            <4> QED
                BY <4>1
        <3>2. CASE run[p].mode = "standalone"
            <4>1. disk.mode = "standalone" /\ disk'.mode = disk.mode
                BY <1>2, <3>2 DEF Repairs
            <4> QED
                BY <4>1
        <3> QED
            BY <1>2, <3>1, <3>2 DEF Repairs
    <2>2. \A q \in Procs : q # p => run'[q] = run[q]
        BY <1>2 DEF Repairs
    <2>3. run'[p].op = "activate" => run[p].op = "activate" /\ run'[p].status = run[p].status
        BY <1>2 DEF Repairs
    <2>4. run'[p].at \in {"await", "mark", "seal", "idle"} /\ At(p, "repair")
        BY <1>2 DEF Repairs
    <2>5. ASSUME NEW q \in Procs PROVE run[q].at \notin {"clear", "drop"}
        BY <2>4, <2>5
    <2>6. ASSUME NEW q \in Procs, By(q, "activate")'
          PROVE  /\ (~At(q, "enrol"))' => run'[q].status \in {"pending", "awaiting"}
                 /\ run'[q].status = "awaiting" => At(q, "resume")' \/ At(q, "failed")'
                 /\ ~At(q, "clear")' /\ ~At(q, "drop")'
        BY <2>2, <2>3, <2>5, <2>6, <2>4
    <2> QED
        BY <2>1, <2>6
<1>3. ASSUME NEW p \in Procs, RepairFails(p) PROVE ActivateOK'
    BY <1>3 DEF RepairFails
<1>4. ASSUME NEW p \in Procs, Enrol(p) PROVE ActivateOK'
    BY <1>4 DEF Enrol
<1>5. ASSUME NEW p \in Procs, Arm(p) PROVE ActivateOK'
    BY <1>5 DEF Arm
<1>6. ASSUME NEW p \in Procs, Halt(p) PROVE ActivateOK'
    BY <1>6 DEF Halt
<1>7. ASSUME NEW p \in Procs, Change(p) PROVE ActivateOK'
    <2>1. CASE Refused(p)
        BY <2>1 DEF Refused
    <2>2. CASE ChangesOver(p)
        <3>1. \A q \in Procs : q # p => run'[q] = run[q]
            BY <2>2 DEF ChangesOver
        <3>2. run'[p].op = run[p].op /\ run'[p].status = run[p].status /\ run'[p].at = "clear" /\ run[p].at = "change"
            BY <2>2 DEF ChangesOver
        <3>3. By(p, "activate") /\ p = s /\ run[p].status # "awaiting"
            BY <3>2
        <3>4. disk'.mode = "managed" /\ disk'.status = "pending" /\ \A q \in Procs : ~Unrecorded(q)'
            BY <2>2, <3>1, <3>2 DEF ChangesOver
        <3>5. disk'.runtime = disk.runtime /\ disk'.enrolled = disk.enrolled
            BY <2>2 DEF ChangesOver
        <3>6. ASSUME NEW q \in Procs, By(q, "activate")' PROVE q = p
            BY <3>1, <3>3, <3>6
        <3> QED
            BY <3>2, <3>3, <3>4, <3>5, <3>6
    <2> QED
        BY <1>7, <2>1, <2>2, ChangeCases
<1>8. ASSUME NEW p \in Procs, Clear(p) PROVE ActivateOK'
    BY <1>8 DEF Clear
<1>9. ASSUME NEW p \in Procs, Drop(p) PROVE ActivateOK'
    BY <1>9 DEF Drop
<1>10. ASSUME NEW p \in Procs, Await(p) PROVE ActivateOK'
    BY <1>10 DEF Await
<1>11. ASSUME NEW p \in Procs, Failed(p) PROVE ActivateOK'
    BY <1>11 DEF Failed
<1>12. ASSUME NEW p \in Procs, Read(p) PROVE ActivateOK'
    BY <1>12 DEF Read
<1>13. ASSUME NEW p \in Procs, Claim(p) PROVE ActivateOK'
    BY <1>13 DEF Claim
<1>14. ASSUME NEW p \in Procs, PutBack(p) PROVE ActivateOK'
    BY <1>14 DEF PutBack
<1>15. ASSUME NEW p \in Procs, WriteBack(p) PROVE ActivateOK'
    BY <1>15 DEF WriteBack
<1>16. ASSUME NEW p \in Procs, Mark(p) PROVE ActivateOK'
    BY <1>16 DEF Mark
<1>17. ASSUME NEW p \in Procs, Disarm(p) PROVE ActivateOK'
    BY <1>17 DEF Disarm
<1>18. ASSUME NEW p \in Procs, Resume(p) PROVE ActivateOK'
    BY <1>18 DEF Resume
<1>19. ASSUME NEW p \in Procs, Seal(p) PROVE ActivateOK'
    BY <1>19 DEF Seal
<1>20. ASSUME NEW p \in Procs, Reconcile(p) PROVE ActivateOK'
    BY <1>20 DEF Reconcile
<1>21. ASSUME NEW p \in Procs, ActivateFails(p) PROVE ActivateOK'
    BY <1>21 DEF ActivateFails
<1>22. ASSUME NEW p \in Procs, Dies(p) PROVE ActivateOK'
    BY <1>22 DEF Dies
<1>23. ASSUME NEW p \in Shells, Activate(p) PROVE ActivateOK'
    BY <1>23 DEF Activate
<1>24. ASSUME NEW p \in Shells, Confirm(p) PROVE ActivateOK'
    BY <1>24 DEF Confirm
<1>25. ASSUME NEW p \in Shells, RecoverByHand(p) PROVE ActivateOK'
    BY <1>25 DEF RecoverByHand
<1>26. ASSUME NEW p \in Alarms, TimerFires(p) PROVE ActivateOK'
    BY <1>26 DEF TimerFires
<1>27. CASE Disturb
    BY <1>27 DEF Disturb
<1>28. CASE PowerLoss
    BY <1>28 DEF PowerLoss
<1>29. CASE UNCHANGED vars
    BY <1>29 DEF vars
<1> QED
    BY <1>1, <1>2, <1>3, <1>4, <1>5, <1>6, <1>7, <1>8, <1>9, <1>10, <1>11, <1>12, <1>13, <1>14,
       <1>15, <1>16, <1>17, <1>18, <1>19, <1>20, <1>21, <1>22, <1>23, <1>24, <1>25, <1>26, <1>27, <1>28, <1>29
    DEF Next, Step

\* Every step keeps what a recovery knows.
LEMMA RecoverStep ==
    ASSUME NEW s, Shells = {s}, Orderly, Shape, Roles, Kept, ~hist'.overtaken, [Next]_vars
    PROVE  RecoverOK'
<1> USE MigrationAssumption DEF Procs, At, By, Go, End, Begin, Raise, Disturbance, Free, Locked,
        Idle, Decided, WriteRecord, Shape, Roles, LinesOf, Modes, Kept, Unrecorded, Repairing,
        Repaired, RepairOK, ActivateOK, RecoverOK, AwaitingOK, Decisions, Buildable, Adapter
<1>1. ASSUME NEW p \in Procs, ReconcileLocks(p) PROVE RecoverOK'
    BY <1>1 DEF ReconcileLocks
<1>2. ASSUME NEW p \in Procs, Repairs(p) PROVE RecoverOK'
    BY <1>2 DEF Repairs
<1>3. ASSUME NEW p \in Procs, RepairFails(p) PROVE RecoverOK'
    BY <1>3 DEF RepairFails
<1>4. ASSUME NEW p \in Procs, Enrol(p) PROVE RecoverOK'
    BY <1>4 DEF Enrol
<1>5. ASSUME NEW p \in Procs, Arm(p) PROVE RecoverOK'
    BY <1>5 DEF Arm
<1>6. ASSUME NEW p \in Procs, Halt(p) PROVE RecoverOK'
    BY <1>6 DEF Halt
<1>7. ASSUME NEW p \in Procs, Change(p) PROVE RecoverOK'
    <2>1. CASE Refused(p)
        BY <2>1 DEF Refused
    <2>2. CASE ChangesOver(p)
        BY <2>2 DEF ChangesOver
    <2> QED
        BY <1>7, <2>1, <2>2, ChangeCases
<1>8. ASSUME NEW p \in Procs, Clear(p) PROVE RecoverOK'
    BY <1>8 DEF Clear
<1>9. ASSUME NEW p \in Procs, Drop(p) PROVE RecoverOK'
    BY <1>9 DEF Drop
<1>10. ASSUME NEW p \in Procs, Await(p) PROVE RecoverOK'
    BY <1>10 DEF Await
<1>11. ASSUME NEW p \in Procs, Failed(p) PROVE RecoverOK'
    BY <1>11 DEF Failed
<1>12. ASSUME NEW p \in Procs, Read(p) PROVE RecoverOK'
    BY <1>12 DEF Read
<1>13. ASSUME NEW p \in Procs, Claim(p) PROVE RecoverOK'
    BY <1>13 DEF Claim
<1>14. ASSUME NEW p \in Procs, PutBack(p) PROVE RecoverOK'
    BY <1>14 DEF PutBack
<1>15. ASSUME NEW p \in Procs, WriteBack(p) PROVE RecoverOK'
    BY <1>15 DEF WriteBack
<1>16. ASSUME NEW p \in Procs, Mark(p) PROVE RecoverOK'
    BY <1>16 DEF Mark
<1>17. ASSUME NEW p \in Procs, Disarm(p) PROVE RecoverOK'
    BY <1>17 DEF Disarm
<1>18. ASSUME NEW p \in Procs, Resume(p) PROVE RecoverOK'
    BY <1>18 DEF Resume
<1>19. ASSUME NEW p \in Procs, Seal(p) PROVE RecoverOK'
    BY <1>19 DEF Seal
<1>20. ASSUME NEW p \in Procs, Reconcile(p) PROVE RecoverOK'
    BY <1>20 DEF Reconcile
<1>21. ASSUME NEW p \in Procs, ActivateFails(p) PROVE RecoverOK'
    BY <1>21 DEF ActivateFails
<1>22. ASSUME NEW p \in Procs, Dies(p) PROVE RecoverOK'
    BY <1>22 DEF Dies
<1>23. ASSUME NEW p \in Shells, Activate(p) PROVE RecoverOK'
    BY <1>23 DEF Activate
<1>24. ASSUME NEW p \in Shells, Confirm(p) PROVE RecoverOK'
    BY <1>24 DEF Confirm
<1>25. ASSUME NEW p \in Shells, RecoverByHand(p) PROVE RecoverOK'
    BY <1>25 DEF RecoverByHand
<1>26. ASSUME NEW p \in Alarms, TimerFires(p) PROVE RecoverOK'
    BY <1>26 DEF TimerFires
<1>27. CASE Disturb
    BY <1>27 DEF Disturb
<1>28. CASE PowerLoss
    BY <1>28 DEF PowerLoss
<1>29. CASE UNCHANGED vars
    BY <1>29 DEF vars
<1> QED
    BY <1>1, <1>2, <1>3, <1>4, <1>5, <1>6, <1>7, <1>8, <1>9, <1>10, <1>11, <1>12, <1>13, <1>14,
       <1>15, <1>16, <1>17, <1>18, <1>19, <1>20, <1>21, <1>22, <1>23, <1>24, <1>25, <1>26, <1>27, <1>28, <1>29
    DEF Next, Step

\* Every step keeps what waits for its confirmation repaired.
LEMMA AwaitingStep ==
    ASSUME NEW s, Shells = {s}, Orderly, Shape, Roles, Kept, ~hist'.overtaken, [Next]_vars
    PROVE  AwaitingOK'
<1> USE MigrationAssumption DEF Procs, At, By, Go, End, Begin, Raise, Disturbance, Free, Locked,
        Idle, Decided, WriteRecord, Shape, Roles, LinesOf, Modes, Kept, Unrecorded, Repairing,
        Repaired, RepairOK, ActivateOK, RecoverOK, AwaitingOK, Decisions, Buildable, Adapter
<1>1. ASSUME NEW p \in Procs, ReconcileLocks(p) PROVE AwaitingOK'
    BY <1>1 DEF ReconcileLocks
<1>2. ASSUME NEW p \in Procs, Repairs(p) PROVE AwaitingOK'
    BY <1>2 DEF Repairs
<1>3. ASSUME NEW p \in Procs, RepairFails(p) PROVE AwaitingOK'
    BY <1>3 DEF RepairFails
<1>4. ASSUME NEW p \in Procs, Enrol(p) PROVE AwaitingOK'
    BY <1>4 DEF Enrol
<1>5. ASSUME NEW p \in Procs, Arm(p) PROVE AwaitingOK'
    BY <1>5 DEF Arm
<1>6. ASSUME NEW p \in Procs, Halt(p) PROVE AwaitingOK'
    BY <1>6 DEF Halt
<1>7. ASSUME NEW p \in Procs, Change(p) PROVE AwaitingOK'
    <2>1. CASE Refused(p)
        BY <2>1 DEF Refused
    <2>2. CASE ChangesOver(p)
        BY <2>2 DEF ChangesOver
    <2> QED
        BY <1>7, <2>1, <2>2, ChangeCases
<1>8. ASSUME NEW p \in Procs, Clear(p) PROVE AwaitingOK'
    BY <1>8 DEF Clear
<1>9. ASSUME NEW p \in Procs, Drop(p) PROVE AwaitingOK'
    BY <1>9 DEF Drop
<1>10. ASSUME NEW p \in Procs, Await(p) PROVE AwaitingOK'
    BY <1>10 DEF Await
<1>11. ASSUME NEW p \in Procs, Failed(p) PROVE AwaitingOK'
    BY <1>11 DEF Failed
<1>12. ASSUME NEW p \in Procs, Read(p) PROVE AwaitingOK'
    BY <1>12 DEF Read
<1>13. ASSUME NEW p \in Procs, Claim(p) PROVE AwaitingOK'
    BY <1>13 DEF Claim
<1>14. ASSUME NEW p \in Procs, PutBack(p) PROVE AwaitingOK'
    BY <1>14 DEF PutBack
<1>15. ASSUME NEW p \in Procs, WriteBack(p) PROVE AwaitingOK'
    BY <1>15 DEF WriteBack
<1>16. ASSUME NEW p \in Procs, Mark(p) PROVE AwaitingOK'
    BY <1>16 DEF Mark
<1>17. ASSUME NEW p \in Procs, Disarm(p) PROVE AwaitingOK'
    BY <1>17 DEF Disarm
<1>18. ASSUME NEW p \in Procs, Resume(p) PROVE AwaitingOK'
    BY <1>18 DEF Resume
<1>19. ASSUME NEW p \in Procs, Seal(p) PROVE AwaitingOK'
    BY <1>19 DEF Seal
<1>20. ASSUME NEW p \in Procs, Reconcile(p) PROVE AwaitingOK'
    BY <1>20 DEF Reconcile
<1>21. ASSUME NEW p \in Procs, ActivateFails(p) PROVE AwaitingOK'
    BY <1>21 DEF ActivateFails
<1>22. ASSUME NEW p \in Procs, Dies(p) PROVE AwaitingOK'
    BY <1>22 DEF Dies
<1>23. ASSUME NEW p \in Shells, Activate(p) PROVE AwaitingOK'
    BY <1>23 DEF Activate
<1>24. ASSUME NEW p \in Shells, Confirm(p) PROVE AwaitingOK'
    BY <1>24 DEF Confirm
<1>25. ASSUME NEW p \in Shells, RecoverByHand(p) PROVE AwaitingOK'
    BY <1>25 DEF RecoverByHand
<1>26. ASSUME NEW p \in Alarms, TimerFires(p) PROVE AwaitingOK'
    BY <1>26 DEF TimerFires
<1>27. CASE Disturb
    BY <1>27 DEF Disturb
<1>28. CASE PowerLoss
    BY <1>28 DEF PowerLoss
<1>29. CASE UNCHANGED vars
    BY <1>29 DEF vars
<1> QED
    BY <1>1, <1>2, <1>3, <1>4, <1>5, <1>6, <1>7, <1>8, <1>9, <1>10, <1>11, <1>12, <1>13, <1>14,
       <1>15, <1>16, <1>17, <1>18, <1>19, <1>20, <1>21, <1>22, <1>23, <1>24, <1>25, <1>26, <1>27, <1>28, <1>29
    DEF Next, Step

\* Every step keeps a decision and what it is about together.
LEMMA DecisionsStep ==
    ASSUME NEW s, Shells = {s}, Orderly, Shape, Roles, Kept, ~hist'.overtaken, [Next]_vars
    PROVE  Decisions'
<1> USE MigrationAssumption DEF Procs, At, By, Go, End, Begin, Raise, Disturbance, Free, Locked,
        Idle, Decided, WriteRecord, Shape, Roles, LinesOf, Modes, Kept, Unrecorded, Repairing,
        Repaired, RepairOK, ActivateOK, RecoverOK, AwaitingOK, Decisions, Buildable, Adapter
<1>1. ASSUME NEW p \in Procs, ReconcileLocks(p) PROVE Decisions'
    BY <1>1 DEF ReconcileLocks
<1>2. ASSUME NEW p \in Procs, Repairs(p) PROVE Decisions'
    BY <1>2 DEF Repairs
<1>3. ASSUME NEW p \in Procs, RepairFails(p) PROVE Decisions'
    BY <1>3 DEF RepairFails
<1>4. ASSUME NEW p \in Procs, Enrol(p) PROVE Decisions'
    BY <1>4 DEF Enrol
<1>5. ASSUME NEW p \in Procs, Arm(p) PROVE Decisions'
    BY <1>5 DEF Arm
<1>6. ASSUME NEW p \in Procs, Halt(p) PROVE Decisions'
    BY <1>6 DEF Halt
<1>7. ASSUME NEW p \in Procs, Change(p) PROVE Decisions'
    <2>1. CASE Refused(p)
        BY <2>1 DEF Refused
    <2>2. CASE ChangesOver(p)
        BY <2>2 DEF ChangesOver
    <2> QED
        BY <1>7, <2>1, <2>2, ChangeCases
<1>8. ASSUME NEW p \in Procs, Clear(p) PROVE Decisions'
    BY <1>8 DEF Clear
<1>9. ASSUME NEW p \in Procs, Drop(p) PROVE Decisions'
    BY <1>9 DEF Drop
<1>10. ASSUME NEW p \in Procs, Await(p) PROVE Decisions'
    BY <1>10 DEF Await
<1>11. ASSUME NEW p \in Procs, Failed(p) PROVE Decisions'
    BY <1>11 DEF Failed
<1>12. ASSUME NEW p \in Procs, Read(p) PROVE Decisions'
    BY <1>12 DEF Read
<1>13. ASSUME NEW p \in Procs, Claim(p) PROVE Decisions'
    BY <1>13 DEF Claim
<1>14. ASSUME NEW p \in Procs, PutBack(p) PROVE Decisions'
    BY <1>14 DEF PutBack
<1>15. ASSUME NEW p \in Procs, WriteBack(p) PROVE Decisions'
    BY <1>15 DEF WriteBack
<1>16. ASSUME NEW p \in Procs, Mark(p) PROVE Decisions'
    BY <1>16 DEF Mark
<1>17. ASSUME NEW p \in Procs, Disarm(p) PROVE Decisions'
    BY <1>17 DEF Disarm
<1>18. ASSUME NEW p \in Procs, Resume(p) PROVE Decisions'
    BY <1>18 DEF Resume
<1>19. ASSUME NEW p \in Procs, Seal(p) PROVE Decisions'
    BY <1>19 DEF Seal
<1>20. ASSUME NEW p \in Procs, Reconcile(p) PROVE Decisions'
    BY <1>20 DEF Reconcile
<1>21. ASSUME NEW p \in Procs, ActivateFails(p) PROVE Decisions'
    BY <1>21 DEF ActivateFails
<1>22. ASSUME NEW p \in Procs, Dies(p) PROVE Decisions'
    BY <1>22 DEF Dies
<1>23. ASSUME NEW p \in Shells, Activate(p) PROVE Decisions'
    BY <1>23 DEF Activate
<1>24. ASSUME NEW p \in Shells, Confirm(p) PROVE Decisions'
    BY <1>24 DEF Confirm
<1>25. ASSUME NEW p \in Shells, RecoverByHand(p) PROVE Decisions'
    BY <1>25 DEF RecoverByHand
<1>26. ASSUME NEW p \in Alarms, TimerFires(p) PROVE Decisions'
    BY <1>26 DEF TimerFires
<1>27. CASE Disturb
    BY <1>27 DEF Disturb
<1>28. CASE PowerLoss
    BY <1>28 DEF PowerLoss
<1>29. CASE UNCHANGED vars
    BY <1>29 DEF vars
<1> QED
    BY <1>1, <1>2, <1>3, <1>4, <1>5, <1>6, <1>7, <1>8, <1>9, <1>10, <1>11, <1>12, <1>13, <1>14,
       <1>15, <1>16, <1>17, <1>18, <1>19, <1>20, <1>21, <1>22, <1>23, <1>24, <1>25, <1>26, <1>27, <1>28, <1>29
    DEF Next, Step

\* That an activation changed over behind a recovery is not forgotten.
LEMMA OvertakenStays == ASSUME Shape, hist.overtaken, [Next]_vars PROVE hist'.overtaken
<1> USE DEF Shape, Disturbance, WriteRecord
<1>1. ASSUME NEW p \in Procs, Step(p) PROVE hist'.overtaken
    BY <1>1 DEF Step, ReconcileLocks, Repairs, RepairFails, Enrol, Arm, Halt, Change, Clear, Drop, Await, Failed,
       Read, Claim, PutBack, WriteBack, Mark, Disarm, Resume, Seal
<1>2. ASSUME NEW p \in Procs, Reconcile(p) \/ ActivateFails(p) \/ Dies(p) PROVE hist'.overtaken
    BY <1>2 DEF Reconcile, ActivateFails, Dies
<1>3. CASE \E p \in Shells : Activate(p) \/ Confirm(p) \/ RecoverByHand(p)
    BY <1>3 DEF Activate, Confirm, RecoverByHand
<1>4. CASE (\E p \in Alarms : TimerFires(p)) \/ Disturb \/ PowerLoss
    BY <1>4 DEF TimerFires, Disturb, PowerLoss
<1>5. CASE UNCHANGED vars
    BY <1>5 DEF vars
<1> QED
    BY <1>1, <1>2, <1>3, <1>4, <1>5 DEF Next

(* Theorems ***************************************************************)

\* The invariant holds at the start.
LEMMA InitIInv == Init => IInv
<1> SUFFICES ASSUME Init PROVE IInv
    OBVIOUS
<1> USE MigrationAssumption DEF Init, Procs, Idle, At, By, Modes, Status, Decided
<1>1. Shape
    BY DEF Shape, Lines
<1>2. Roles
    BY DEF Roles, LinesOf, Locked
<1>3. RepairOK /\ ActivateOK /\ RecoverOK
    BY DEF RepairOK, Repairing, ActivateOK, RecoverOK
<1>4. AwaitingOK /\ Decisions
    BY DEF AwaitingOK, Decisions
<1> QED
    BY <1>1, <1>2, <1>3, <1>4 DEF IInv, Kept

\* The invariant is kept where one shell runs the commands of the guide.
LEMMA Invariance == ASSUME Solitary PROVE Spec => []IInv
<1>1. IInv /\ [Next]_vars => IInv'
    <2> SUFFICES ASSUME IInv, [Next]_vars PROVE IInv'
        OBVIOUS
    <2>1. PICK s : Shells = {s}
        BY DEF Solitary
    <2>2. Orderly
        BY DEF Solitary
    <2>3. Shape' /\ Roles'
        BY <2>1, <2>2, ShapeStep, RolesStep DEF IInv
    <2>4. ASSUME ~hist'.overtaken PROVE Kept'
        <3>1. Shape /\ Roles /\ Kept
            BY <2>4, OvertakenStays DEF IInv
        <3>2. RepairOK' /\ ActivateOK' /\ RecoverOK'
            BY <2>1, <2>2, <2>4, <3>1, RepairStep, ActivateStep, RecoverStep
        <3>3. AwaitingOK' /\ Decisions'
            BY <2>1, <2>2, <2>4, <3>1, AwaitingStep, DecisionsStep
        <3> QED
            BY <3>2, <3>3 DEF Kept
    <2> QED
        BY <2>3, <2>4 DEF IInv
<1> QED
    BY InitIInv, <1>1, PTL DEF Spec

\* operation.lock has one holder whatever dies, is stopped or races (core.py 337-341).
THEOREM TypeCorrect == ASSUME Solitary PROVE Spec => []TypeOK
<1>1. IInv => TypeOK
    BY DEF IInv, Shape, Roles, TypeOK
<1> QED
    BY Invariance, <1>1, PTL

\* The migration record does not contradict configuration, runtime record, enrolment
\* and network (integration.py 103-110, 187-192), for any number of trials, timers'
\* recoveries and faults, until an activation changes over behind a recovery.
THEOREM DecisionsCorrect == ASSUME Solitary PROVE Spec => []DecisionsAgree
<1>1. IInv => DecisionsAgree
    BY DEF IInv, Kept, Decisions, DecisionsAgree
<1> QED
    BY Invariance, <1>1, PTL

\* A recovery that comes late leaves a confirmed WAN alone (integration.py 73-77,
\* 187-192), however often power was lost and runs failed before.
THEOREM ConfirmedKept == ASSUME Solitary PROVE Spec => ConfirmedUntouched
<1> DEFINE Untouched == disk.status = "confirmed" /\ ~hist.overtaken =>
                           /\ disk'.mode = disk.mode
                           /\ \A p \in Procs : By(p, "recover") /\ Step(p) => WAN' = WAN
<1>1. IInv /\ [Next]_vars => [Untouched]_vars
    <2> SUFFICES ASSUME IInv, [Next]_vars, disk.status = "confirmed", ~hist.overtaken
                 PROVE  /\ disk'.mode = disk.mode
                        /\ \A p \in Procs : By(p, "recover") /\ Step(p) => WAN' = WAN
        OBVIOUS
    <2>0. Shape /\ Roles /\ Kept
        BY DEF IInv
    <2>1. disk.mode = "managed"
        BY <2>0 DEF Kept, Decisions
    <2>2. ASSUME NEW p \in Procs, By(p, "recover")
          PROVE  run[p].at \in {"read", "halt", "claim", "disarm", "resume"}
        <3>1. run[p].at \notin Locked /\ run[p].at # "mark"
            BY <2>0, <2>1, <2>2 DEF Kept, RecoverOK, At
        <3>2. run[p].at # "reconcile"
            BY <2>0, <2>1, <2>2 DEF Kept, RepairOK, Repairing, At
        <3> QED
            BY <2>0, <2>2, <3>1, <3>2 DEF Roles, LinesOf, By, Locked
    <2>3. ASSUME NEW p \in Procs, By(p, "recover"), Step(p)
          PROVE  WAN' = WAN
        <3>1. Read(p) \/ Halt(p) \/ Claim(p) \/ Disarm(p) \/ Resume(p)
            BY <2>2, <2>3 DEF Step, At, ReconcileLocks, Repairs, RepairFails, Enrol, Arm, Change, Clear,
                Drop, Await, Failed, PutBack, WriteBack, Mark, Seal, WriteRecord
        <3>2. sys' = sys \/ (\E b \in BOOLEAN : sys' = [sys EXCEPT !.units = b])
                  \/ \E t \in SUBSET Nat : sys' = [sys EXCEPT !.timers = t]
            BY <2>0, <3>1 DEF Shape, Read, Halt, Claim, Free, Disarm, Resume
        <3> QED
            BY <2>0, <3>2 DEF Shape, WAN
    <2>4. disk'.mode = disk.mode
        <3>1. ASSUME NEW p \in Procs, Change(p) PROVE disk'.mode = disk.mode
            BY <2>0, <2>1, <3>1 DEF Change, Shape
        <3>2. ASSUME NEW p \in Procs, WriteBack(p) PROVE FALSE
            <4>1. run[p].op = "recover" /\ run[p].at \in {"config", "runtime", "unenrol"}
                <5>1. run[p].at \in {"config", "runtime", "unenrol"}
                    BY <3>2 DEF WriteBack, At
                <5>2. run[p].at \in LinesOf(run[p].op)
                    BY <2>0, <3>2 DEF Roles
                <5>3. run[p].op \in {"none", "reconcile", "activate", "confirm", "recover"}
                    BY <2>0, <3>2 DEF Shape
                <5> QED
                    BY <5>1, <5>2, <5>3 DEF LinesOf
            <4> QED
                BY <2>2, <3>2, <4>1 DEF By
        <3>3. ASSUME NEW p \in Procs, Step(p) \/ Reconcile(p) \/ ActivateFails(p) \/ Dies(p)
              PROVE  disk'.mode = disk.mode
            BY <2>0, <3>1, <3>2, <3>3 DEF Step, ReconcileLocks, Repairs, RepairFails, Enrol, Arm, Halt, Clear, Drop,
                Await, Failed, Read, Claim, PutBack, Mark, Disarm, Resume, Seal, WriteRecord, Reconcile, Dies,
                ActivateFails, Shape
        <3>4. CASE \E p \in Shells : Activate(p) \/ Confirm(p) \/ RecoverByHand(p)
            BY <3>4 DEF Activate, Confirm, RecoverByHand
        <3>5. CASE (\E p \in Alarms : TimerFires(p)) \/ Disturb \/ PowerLoss
            BY <3>5 DEF TimerFires, Disturb, PowerLoss
        <3>6. CASE UNCHANGED vars
            BY <3>6 DEF vars
        <3> QED
            BY <3>3, <3>4, <3>5, <3>6 DEF Next
    <2> QED
        BY <2>3, <2>4
<1> QED
    BY Invariance, <1>1, PTL DEF Spec, ConfirmedUntouched
=============================================================================
