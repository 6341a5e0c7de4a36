----------------------------- MODULE Migration -----------------------------
(***************************************************************************)
(* The guarded move to the UniFi-managed WAN (integration.py): activate    *)
(* writes a migration record, arms a ten-minute recovery timer and changes *)
(* over; confirm keeps the result; recover, run by hand, by the timer or   *)
(* by an activation that failed, goes back to standalone.  A reconcile run *)
(* is one step here: commit or leave alone, as Transaction shows.          *)
(*                                                                         *)
(* What the WAN carries is named relative to the record: "original" and    *)
(* "desired" are the field values it holds, a "recorded" outer rule is for *)
(* the endpoint it knows.                                                  *)
(***************************************************************************)
EXTENDS Integers

CONSTANTS
    Shells,      \* operator's shells, each runs one command at a time
    Alarms,      \* the services that recovery timers start
    Service,     \* the reconcile services
    Orderly,     \* only the commands of the guide
    Lossy,       \* may power be lost?
    MaxTrials,   \* bound on activations
    MaxFaults    \* bound on deaths, failed commands, controller and prefix changes

ASSUME MigrationAssumption ==
    /\ {Orderly, Lossy} \subseteq BOOLEAN /\ MaxTrials \in Nat /\ MaxFaults \in Nat
    /\ Shells \cap Alarms = {} /\ Service \notin Shells \cup Alarms

VARIABLES
    disk,     \* managed-migration.json: status, trial; modes in config-v2.json and
              \* runtime.json; whether managed-wan.json exists
    sys,      \* native WAN fields, monitor flags, project route and rules, endpoint of
              \* the outer rule and of the prefix, units active, trials with an armed timer
    run,      \* per process: command, next line, configuration and record in memory
    hist      \* history: counts towards MaxFaults and MaxTrials; whether an activation
              \* changed over behind a recovery
vars == <<disk, sys, run, hist>>

Procs   == Shells \cup Alarms \cup {Service}
Modes   == {"standalone", "managed"}
Decided == {"none", "confirmed", "recovered"}
Status  == Decided \cup {"pending", "awaiting"}
Idle    == [op |-> "none", at |-> "idle", mode |-> "standalone", status |-> "none", trial |-> 0]

\* A healthy standalone gateway that never migrated.
Init ==
    /\ disk = [status |-> "none", trial |-> 0,
               mode |-> "standalone", runtime |-> "standalone", enrolled |-> FALSE]
    /\ sys = [native |-> "original", flags |-> "standalone", path |-> "standalone",
              rules |-> "standalone", outer |-> "recorded", endpoint |-> "recorded",
              units |-> TRUE, timers |-> {}]
    /\ run = [p \in Procs |-> Idle] /\ hist = [faults |-> 0, trials |-> 0, overtaken |-> FALSE]

\* The lines at which a process holds operation.lock.
Locked == {"repair", "clear", "drop", "restore", "flags", "route", "config", "runtime", "unenrol"}
Free == \A p \in Procs : run[p].at \notin Locked

At(p, l)    == run[p].at = l
By(p, op)   == run[p].op = op
Go(p, l)    == run' = [run EXCEPT ![p].at = l]
End(p)      == run' = [run EXCEPT ![p] = Idle]
Begin(p, op, l) == run' = [run EXCEPT ![p] = [op |-> op, at |-> l, mode |-> disk.mode,
                                              status |-> disk.status, trial |-> disk.trial]]
\* An exception: activate has a handler, the other commands end.
Raise(p)    == IF By(p, "activate") THEN Go(p, "failed") ELSE End(p)
Disturbance == hist.faults < MaxFaults /\ hist' = [hist EXCEPT !.faults = @ + 1]

(* Reconcile, as each of the commands calls it ****************************)

\* activate and confirm build the managed adapter whatever the configuration
\* says, recover the standalone one.
Adapter(p) == CASE By(p, "activate") \/ By(p, "confirm") -> "managed"
                [] By(p, "recover") -> "standalone"
                [] OTHER -> run[p].mode
\* A route or a tagged rule of the other mode is foreign; so is a native WAN
\* somebody edited, and a configuration of the other mode.
Buildable(p) ==
    /\ Adapter(p) = run[p].mode /\ {sys.path, sys.rules} \subseteq {"none", run[p].mode}
    /\ run[p].mode = "managed" => sys.native # "edited"

\* The services while their units are active, and a command by hand.
Reconcile(p) ==
    /\ At(p, "idle") /\ p \notin Alarms
    /\ IF p = Service THEN sys.units /\ UNCHANGED hist ELSE ~Orderly /\ Disturbance
    /\ Begin(p, "reconcile", "reconcile") /\ UNCHANGED <<disk, sys>>

\* Fault: the result of flock is not looked at.
ReconcileLocks_Unlocked(p) ==
    /\ At(p, "reconcile") /\ Go(p, "repair") /\ UNCHANGED <<disk, sys, hist>>

ReconcileLocks(p) ==
    /\ At(p, "reconcile") /\ (IF Free THEN Go(p, "repair") ELSE Raise(p))
    /\ UNCHANGED <<disk, sys, hist>>

Repairs(p) ==
    /\ At(p, "repair") /\ Buildable(p)
    /\ LET m == run[p].mode IN
       /\ sys' = [sys EXCEPT !.path = m, !.rules = m, !.flags = m, !.outer = sys.endpoint,
                             !.native = IF m = "managed" THEN "desired" ELSE @]
       /\ disk' = [disk EXCEPT !.runtime = m, !.enrolled = @ \/ m = "managed"]
    /\ CASE By(p, "activate") -> Go(p, "await")
         [] By(p, "recover")  -> Go(p, "mark")
         [] By(p, "confirm")  -> Go(p, "seal")
         [] OTHER             -> End(p)
    /\ UNCHANGED hist

\* Refused, or rolled back.
RepairFails(p) ==
    /\ At(p, "repair") /\ (IF Buildable(p) THEN Disturbance ELSE UNCHANGED hist)
    /\ Raise(p) /\ UNCHANGED <<disk, sys>>

(* activate ***************************************************************)

Activate(p) ==
    /\ At(p, "idle") /\ disk.mode = "standalone" /\ {sys.path, sys.rules} = {"standalone"}
    /\ disk.status \in {"none", "recovered"} /\ hist.trials < MaxTrials
    /\ Begin(p, "activate", "enrol") /\ UNCHANGED <<disk, sys, hist>>

\* The prior timer is stopped; a service it has started goes on.
Enrol(p) ==
    /\ At(p, "enrol") /\ hist.trials < MaxTrials
    /\ hist' = [hist EXCEPT !.trials = @ + 1]
    /\ disk' = [disk EXCEPT !.status = "pending", !.trial = hist'.trials]
    /\ sys' = [sys EXCEPT !.timers = @ \ {run[p].trial}, !.native = "original",
                          !.outer = "recorded", !.endpoint = "recorded"]
    /\ run' = [run EXCEPT ![p].at = "arm", ![p].status = "pending", ![p].trial = hist'.trials]

Arm(p) ==
    /\ At(p, "arm") /\ sys' = [sys EXCEPT !.timers = @ \cup {run[p].trial}]
    /\ Go(p, "halt") /\ UNCHANGED <<disk, hist>>

\* systemctl stop also ends a run of the services, which rolls back; activate
\* and recover both do it, before they take the lock.
Halt(p) ==
    /\ At(p, "halt") /\ sys' = [sys EXCEPT !.units = FALSE]
    /\ run' = [run EXCEPT ![Service] = Idle,
                          ![p].at = IF By(p, "activate") THEN "change" ELSE "claim"]
    /\ UNCHANGED <<disk, hist>>

\* A recovery that has let go of the lock has yet to repair, or to write its
\* record.
Unrecorded(q) == By(q, "recover") /\ (At(q, "reconcile") \/ At(q, "mark"))

\* Neither the record nor a recovery under way is looked at.
Change(p) ==
    /\ At(p, "change")
    /\ IF Free /\ {sys.path, sys.rules} = {"standalone"}
       THEN /\ disk' = [disk EXCEPT !.mode = "managed"] /\ Go(p, "clear")
            /\ hist' = [hist EXCEPT !.overtaken =
                           @ \/ disk.status # "pending" \/ sys.units \/ \E q \in Procs : Unrecorded(q)]
       ELSE Raise(p) /\ UNCHANGED <<disk, hist>>
    /\ UNCHANGED sys

\* clear_rules removes what the record allows; recover first refuses a native
\* WAN that is neither as before nor as wanted.
Clear(p) ==
    /\ At(p, "clear")
    /\ IF /\ sys.rules = "none" \/ sys.outer = "recorded"
          /\ By(p, "recover") => sys.native # "edited"
       THEN /\ sys' = [sys EXCEPT !.rules = "none"]
            /\ Go(p, IF By(p, "activate") THEN "drop" ELSE "restore")
       ELSE Raise(p) /\ UNCHANGED sys
    /\ UNCHANGED <<disk, hist>>

Drop(p) ==
    /\ At(p, "drop") /\ sys' = [sys EXCEPT !.path = "none"]
    /\ run' = [run EXCEPT ![p].at = "reconcile", ![p].mode = disk.mode]
    /\ UNCHANGED <<disk, hist>>

\* The handler of activate also meets a failure to stop or start the units, to
\* delete the tunnel, or to write a file; what was done stays, and the status in
\* memory is changed before the file is.
ActivateFails(p) ==
    /\ By(p, "activate") /\ Disturbance
    /\ run[p].at \in {"halt", "change", "clear", "drop", "reconcile", "await", "resume"}
    /\ run' = [run EXCEPT ![p].at = "failed", ![p].status = IF At(p, "await") THEN "awaiting" ELSE @]
    /\ sys' \in {sys, [sys EXCEPT !.units = @ \/ At(p, "resume")]}
    /\ UNCHANGED disk

\* The record is written from memory, without the lock.
WriteRecord(p, at, status, op, next) ==
    /\ At(p, at)
    /\ disk' = [disk EXCEPT !.status = status, !.trial = run[p].trial]
    /\ run' = [run EXCEPT ![p].status = status, ![p].op = op, ![p].at = next]
    /\ UNCHANGED <<sys, hist>>
Await(p)  == WriteRecord(p, "await", "awaiting", "activate", "resume")
Failed(p) == WriteRecord(p, "failed", run[p].status, "recover", "read")

(* recover ****************************************************************)

RecoverByHand(p) ==
    /\ At(p, "idle") /\ Begin(p, "recover", "read") /\ UNCHANGED <<disk, sys, hist>>

\* Ten minutes after it was armed, whatever runs by then.
TimerFires(p) ==
    /\ At(p, "idle")
    /\ \E t \in sys.timers : sys' = [sys EXCEPT !.timers = @ \ {t}]
    /\ Begin(p, "recover", "read") /\ UNCHANGED <<disk, hist>>

\* Fault: only a trial that waits for its confirmation is undone.
Read_Awaiting(p) ==
    /\ At(p, "read") /\ (IF disk.status # "awaiting" THEN End(p) ELSE Go(p, "halt"))
    /\ UNCHANGED <<disk, sys, hist>>

Read(p) ==
    /\ At(p, "read") /\ (IF disk.status \in Decided THEN End(p) ELSE Go(p, "halt"))
    /\ UNCHANGED <<disk, sys, hist>>

\* Fault: the record read before the lock was taken is good enough.
Claim_Stale(p) ==
    /\ At(p, "claim") /\ (IF Free THEN Go(p, "clear") ELSE End(p))
    /\ UNCHANGED <<disk, sys, hist>>

\* The lock is not waited for: when it is taken, recover ends with the units
\* stopped.
Claim(p) ==
    /\ At(p, "claim")
    /\ IF Free /\ disk.status \notin Decided
       THEN run' = [run EXCEPT ![p].at = "clear", ![p].status = disk.status, ![p].trial = disk.trial]
       ELSE End(p)
    /\ sys' = [sys EXCEPT !.units = @ \/ (Free /\ disk.status \in Decided)]
    /\ UNCHANGED <<disk, hist>>

\* put_interfaces compares again before it puts.
PutBack(p) ==
    /\ \/ At(p, "restore") /\ sys.native = "edited" /\ End(p) /\ UNCHANGED sys
       \/ At(p, "restore") /\ sys.native # "edited" /\ Go(p, "flags")
                           /\ sys' = [sys EXCEPT !.native = "original"]
       \/ At(p, "flags") /\ Go(p, "route") /\ sys' = [sys EXCEPT !.flags = "standalone"]
       \/ At(p, "route") /\ Go(p, "config")
                         /\ sys' = [sys EXCEPT !.path = IF @ = "managed" THEN "none" ELSE @]
    /\ UNCHANGED <<disk, hist>>

\* Three files, the configuration first; then the lock is let go.
WriteBack(p) ==
    /\ \/ At(p, "config") /\ disk' = [disk EXCEPT !.mode = "standalone"] /\ Go(p, "runtime")
       \/ At(p, "runtime") /\ disk' = [disk EXCEPT !.runtime = "standalone"] /\ Go(p, "unenrol")
       \/ At(p, "unenrol") /\ disk' = [disk EXCEPT !.enrolled = FALSE]
          /\ run' = [run EXCEPT ![p].at = "reconcile", ![p].mode = disk.mode]
    /\ UNCHANGED <<sys, hist>>

Mark(p) == WriteRecord(p, "mark", "recovered", "recover", "disarm")

\* Only recover starts the units again; confirm ends here.
Disarm(p) ==
    /\ At(p, "disarm") /\ sys' = [sys EXCEPT !.timers = @ \ {run[p].trial}]
    /\ (IF By(p, "recover") THEN Go(p, "resume") ELSE End(p))
    /\ UNCHANGED <<disk, hist>>

Resume(p) ==
    /\ At(p, "resume") /\ sys' = [sys EXCEPT !.units = TRUE]
    /\ End(p) /\ UNCHANGED <<disk, hist>>

(* confirm ****************************************************************)

Confirm(p) ==
    /\ At(p, "idle") /\ disk.status = "awaiting" /\ disk.mode = "managed"
    /\ Begin(p, "confirm", "reconcile") /\ UNCHANGED <<disk, sys, hist>>

\* Fault: the configuration is not looked at again.
Seal_Unchecked(p) ==
    /\ At(p, "seal")
    /\ IF Free /\ disk.status = "awaiting"
       THEN disk' = [disk EXCEPT !.status = "confirmed"] /\ Go(p, "disarm")
       ELSE End(p) /\ UNCHANGED disk
    /\ UNCHANGED <<sys, hist>>

Seal(p) ==
    /\ At(p, "seal")
    /\ IF Free /\ disk.status = "awaiting" /\ disk.mode = "managed"
       THEN disk' = [disk EXCEPT !.status = "confirmed"] /\ Go(p, "disarm")
       ELSE End(p) /\ UNCHANGED disk
    /\ UNCHANGED <<sys, hist>>

(* Surroundings ***********************************************************)

\* A command is killed, hangs up with its terminal, or meets an error that
\* this module does not name; the kernel frees its lock.
Dies(p) == ~At(p, "idle") /\ End(p) /\ Disturbance /\ UNCHANGED <<disk, sys>>

\* The controller provisions its own values, or an administrator other ones;
\* the delegated prefix moves and with it the endpoint of the outer rule.
Disturb ==
    /\ Disturbance /\ UNCHANGED <<disk, run>>
    /\ \/ \E v \in {"original", "edited"} \ {sys.native} : sys' = [sys EXCEPT !.native = v]
       \/ sys.endpoint = "recorded" /\ sys' = [sys EXCEPT !.endpoint = "moved"]

\* The recovery timer is a transient unit; the others are enabled.
PowerLoss ==
    /\ Lossy /\ Disturbance /\ UNCHANGED disk
    /\ sys' = [sys EXCEPT !.path = "none", !.rules = "none", !.units = TRUE, !.timers = {}]
    /\ run' = [p \in Procs |-> Idle]

Step(p) ==
    \/ ReconcileLocks(p) \/ Repairs(p) \/ RepairFails(p)
    \/ Enrol(p) \/ Arm(p) \/ Halt(p) \/ Change(p) \/ Clear(p) \/ Drop(p) \/ Await(p) \/ Failed(p)
    \/ Read(p) \/ Claim(p) \/ PutBack(p) \/ WriteBack(p) \/ Mark(p) \/ Disarm(p) \/ Resume(p) \/ Seal(p)

Next == \/ \E p \in Procs : Step(p) \/ Reconcile(p) \/ ActivateFails(p) \/ Dies(p)
        \/ \E p \in Shells : Activate(p) \/ Confirm(p) \/ RecoverByHand(p)
        \/ (\E p \in Alarms : TimerFires(p)) \/ Disturb \/ PowerLoss
Spec == Init /\ [][Next]_vars

\* Commands go on, an armed timer fires, and the operator answers a trial that
\* no timer will end any more.
Attend == /\ sys.timers = {} /\ disk.status \notin Decided
          /\ \E p \in Shells : RecoverByHand(p)
AttendedSpec == Spec /\ (\A p \in Procs : WF_vars(Step(p)))
                     /\ WF_vars(\E p \in Alarms : TimerFires(p)) /\ SF_vars(Attend)
-----------------------------------------------------------------------------
(* Properties *************************************************************)

\* operation.lock is held by one process at a time.
TypeOK ==
    /\ disk \in [status : Status, trial : Nat, mode : Modes, runtime : Modes, enrolled : BOOLEAN]
    /\ sys \in [native : {"original", "desired", "edited"}, flags : Modes,
                path : Modes \cup {"none"}, rules : Modes \cup {"none"},
                outer : {"recorded", "moved"}, endpoint : {"recorded", "moved"},
                units : BOOLEAN, timers : SUBSET Nat]
    /\ hist \in [faults : 0 .. MaxFaults, trials : 0 .. MaxTrials, overtaken : BOOLEAN]
    /\ \A p, q \in Procs : {run[p].at, run[q].at} \subseteq Locked => p = q

\* The record says which mode was decided for, and the configuration, the
\* runtime record, the enrolment and the network agree with it, whoever else is
\* half way through an activation, a recovery or a repair (integration.py
\* 105-110, 188-192) -- unless an activation changed over after a recovery had
\* decided its trial, or while one was still to write "recovered".
DecisionsAgree ==
    ~hist.overtaken =>
        /\ disk.status = "confirmed" => disk.mode = "managed" /\ disk.runtime = "managed" /\ disk.enrolled
        /\ disk.status = "recovered" => "managed" \notin {disk.mode, disk.runtime, sys.path, sys.rules}

\* A confirmed record "has nothing done to it, so a late timer does not revert
\* a working WAN" (guide.md 114): once confirmed, no step of a recovery changes
\* what the WAN carries, and no step at all the mode.
WAN == <<sys.native, sys.flags, sys.path, sys.rules>>
ConfirmedUntouched ==
    [][disk.status = "confirmed" /\ ~hist.overtaken =>
          /\ disk'.mode = disk.mode
          /\ \A p \in Procs : By(p, "recover") /\ Step(p) => WAN' = WAN]_vars

\* Whatever died half way, a trial ends confirmed or recovered, unless somebody
\* else changed the WAN or the prefix moved, which recover refuses.
TrialDecided ==
    disk.status \in {"pending", "awaiting"} ~>
        disk.status \in Decided \/ sys.native = "edited" \/ "moved" \in {sys.outer, sys.endpoint}

\* "A timer racing with cancellation will safely do nothing" (integration.py
\* 186): outside a trial the automation runs, once every command has ended.
AutomationReturns ==
    (\A p \in Procs : At(p, "idle")) /\ disk.status \in Decided => sys.units
=============================================================================
