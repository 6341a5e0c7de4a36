------------------------------ MODULE Release ------------------------------
(***************************************************************************)
(* Which release runs: the links current, verified and previous of         *)
(* release.py, the upgrade and rollback commands of cli.py, the source     *)
(* installer and the bootstrap script they all end in.  The bootstrap      *)
(* starts the reconcile service, waits for it, and either promotes the     *)
(* current release to verified or moves once to another release.           *)
(*                                                                         *)
(* One command runs at a time, as rollback.md and installation.md ask; the *)
(* monitoring units are the other actor, and a power loss may come at any  *)
(* point.  A release is never deleted and never changes (its manifest is   *)
(* checked), so a release is a name here.                                  *)
(***************************************************************************)
EXTENDS Integers, FiniteSets

CONSTANTS
    Releases,     \* names under releases/
    Sound,        \* those whose reconcile can pass its health check here
    Supporting,   \* those that know every feature config and runtime.json use
    None,         \* an absent link, an idle service
    MaxFaults     \* bound on power losses and scripts that stop early

ASSUME ReleaseAssumption ==
    /\ Sound \subseteq Supporting /\ Supporting \subseteq Releases
    /\ MaxFaults \in Nat /\ None \notin Releases

VARIABLES
    link,       \* the three symlinks of the root
    installed,  \* directories under releases/
    service,    \* the release whose code the reconcile service runs, or None
    job,        \* the command or boot in progress
    passed,     \* history: releases whose own reconcile passed
    excused,    \* history: a release was put in place by hand, or a script stopped
    joined,     \* history: a bootstrap was answered by a run it did not start
    faults      \* history: counts towards MaxFaults
vars == <<link, installed, service, job, passed, excused, joined, faults>>

\* A command that has ended shows in job.pc how it reported back.
Rest == {"idle", "verified", "restored", "failed"}
AtRest == job.pc \in Rest

\* Fault: the flag of the one move is set from the start.
Job_Retried(cmd, pc, target, then) ==
    [cmd |-> cmd, pc |-> pc, goal |-> target, origin |-> link.current,
     target |-> target, then |-> then, retried |-> TRUE, again |-> FALSE]

\* A command or a boot begins: the release it is about, the release that was
\* current, and whether the bootstrap has moved to another release already.
Job(cmd, pc, target, then) ==
    [cmd |-> cmd, pc |-> pc, goal |-> target, origin |-> link.current,
     target |-> target, then |-> then, retried |-> FALSE, again |-> FALSE]

\* An activated installation of one release.
Init ==
    \E r \in Sound :
        /\ link = [current |-> r, verified |-> r, previous |-> None]
        /\ installed = {r} /\ passed = {r}
        /\ service = None
        /\ job = [cmd |-> "none", pc |-> "idle", goal |-> r, origin |-> r, target |-> r,
                  then |-> "idle", retried |-> FALSE, again |-> FALSE]
        /\ excused = FALSE /\ joined = FALSE /\ faults = 0

Goto(pc) == job' = [job EXCEPT !.pc = pc]

(* Links ******************************************************************)

\* ReleaseManager.rollback: previous first, verified only when there is none;
\* the target must be another release and must know the features in use.
RollbackTarget == IF link.previous # None THEN link.previous ELSE link.verified
CanRollback == /\ RollbackTarget \notin {None, link.current}
               /\ RollbackTarget \in installed \cap Supporting

\* Fault: the link is switched before the release is in place.
Upgrade_Unplaced(r) ==
    /\ AtRest /\ r \notin installed
    /\ job' = Job("upgrade", "keep", r, "boot")
    /\ UNCHANGED <<link, installed, service, passed, excused, joined, faults>>

\* upgrade: the verified archive is unpacked and moved into place.
Upgrade(r) ==
    /\ AtRest /\ r \notin installed
    /\ installed' = installed \cup {r}
    /\ job' = Job("upgrade", "keep", r, "boot")
    /\ UNCHANGED <<link, service, passed, excused, joined, faults>>

\* install-v2.sh, with --activate or without; an existing release is kept.
Install(r) ==
    /\ AtRest
    /\ installed' = installed \cup {r}
    /\ \E then \in {"boot", "idle"} : job' = Job("install", "keep", r, then)
    /\ excused' = TRUE
    /\ UNCHANGED <<link, service, passed, joined, faults>>

\* The rollback command.
CommandRollback ==
    /\ AtRest /\ CanRollback
    /\ job' = Job("rollback", "switch", RollbackTarget, "boot")
    /\ UNCHANGED <<link, installed, service, passed, excused, joined, faults>>

\* _select and the installer: the current release becomes previous ...
KeepPrevious ==
    /\ job.pc = "keep"
    /\ link' = IF link.current = job.target THEN link
               ELSE [link EXCEPT !.previous = link.current]
    /\ Goto("switch")
    /\ UNCHANGED <<installed, service, passed, excused, joined, faults>>

\* ... and then the target current.
Switch ==
    /\ job.pc = "switch"
    /\ link' = [link EXCEPT !.current = job.target]
    /\ Goto(job.then)
    /\ UNCHANGED <<installed, service, passed, excused, joined, faults>>

(* Bootstrap **************************************************************)

\* systemctl start: a service that is running already is joined, whatever
\* release it runs; otherwise the unit runs the code current points to.
StartReconcile ==
    /\ job.pc = "boot"
    /\ service' = IF service = None THEN link.current ELSE service
    /\ joined' = (joined \/ service # None)
    /\ Goto("wait")
    /\ UNCHANGED <<link, installed, passed, excused, faults>>

\* A monitoring unit starts it.
MonitorFires ==
    /\ service = None
    /\ service' = link.current
    /\ UNCHANGED <<link, installed, job, passed, excused, joined, faults>>

ReconcilePasses ==
    /\ service \in Sound
    /\ service' = None
    /\ passed' = passed \cup {service}
    /\ IF job.pc = "wait" THEN Goto("mark") ELSE UNCHANGED job
    /\ UNCHANGED <<link, installed, excused, joined, faults>>

\* Fault: the exit status of the service is not looked at.
ReconcileFails_Ignored ==
    /\ service # None
    /\ service' = None
    /\ IF job.pc = "wait" THEN Goto("mark") ELSE UNCHANGED job
    /\ UNCHANGED <<link, installed, passed, excused, joined, faults>>

\* A sound release fails as well, when the provider or the gateway do.
ReconcileFails ==
    /\ service # None
    /\ service' = None
    /\ IF job.pc = "wait" THEN Goto("unhealthy") ELSE UNCHANGED job
    /\ UNCHANGED <<link, installed, passed, excused, joined, faults>>

\* Once only, the bootstrap goes on with the bootstrap of another release.
MoveBack ==
    /\ job.pc = "unhealthy" /\ ~job.retried /\ CanRollback
    /\ job' = [job EXCEPT !.pc = "switch", !.target = RollbackTarget,
                          !.then = "boot", !.retried = TRUE]
    /\ UNCHANGED <<link, installed, service, passed, excused, joined, faults>>

GiveUp ==
    /\ job.pc = "unhealthy" /\ (job.retried \/ ~CanRollback)
    /\ Goto("died")
    /\ UNCHANGED <<link, installed, service, passed, excused, joined, faults>>

\* mark_verified: the last verified release becomes previous ...
KeepVerified ==
    /\ job.pc = "mark"
    /\ link' = IF link.verified \in {None, link.current} THEN link
               ELSE [link EXCEPT !.previous = link.verified]
    /\ Goto("promote")
    /\ UNCHANGED <<installed, service, passed, excused, joined, faults>>

\* ... and the current one verified.
Promote ==
    /\ job.pc = "promote"
    /\ link' = [link EXCEPT !.verified = link.current]
    /\ Goto(IF job.again THEN "verified" ELSE "monitors")
    /\ UNCHANGED <<installed, service, passed, excused, joined, faults>>

StartMonitors ==
    /\ job.pc = "monitors"
    /\ Goto("ended")
    /\ UNCHANGED <<link, installed, service, passed, excused, joined, faults>>

(* The command that ran the bootstrap ***********************************)

\* Fault: success of the bootstrap is taken for success of the release.
Return_Unchecked ==
    /\ job.pc = "ended"
    /\ IF job.cmd # "upgrade" THEN Goto("idle")
       ELSE job' = [job EXCEPT !.pc = "mark", !.again = TRUE]
    /\ UNCHANGED <<link, installed, service, passed, excused, joined, faults>>

\* Exit status 0: upgrade still looks whether its own release is current.
Return ==
    /\ job.pc = "ended"
    /\ IF job.cmd # "upgrade" THEN Goto("idle")
       ELSE IF link.current = job.goal
            THEN job' = [job EXCEPT !.pc = "mark", !.again = TRUE]
            ELSE Goto("restored")
    /\ UNCHANGED <<link, installed, service, passed, excused, joined, faults>>

\* Any other status: upgrade moves the link back, without another bootstrap.
Abort ==
    /\ job.pc = "died"
    /\ IF job.cmd = "upgrade" /\ CanRollback
       THEN job' = [job EXCEPT !.pc = "switch", !.target = RollbackTarget, !.then = "restored"]
       ELSE Goto("failed")
    /\ UNCHANGED <<link, installed, service, passed, excused, joined, faults>>

(* Faults *****************************************************************)

\* The script runs under set -e: the manifest, daemon-reload, enable and the
\* start of the monitoring units can end it before and after the health check.
ScriptStops ==
    /\ job.pc \in {"boot", "monitors"} /\ faults < MaxFaults
    /\ Goto("died")
    /\ excused' = TRUE /\ faults' = faults + 1
    /\ UNCHANGED <<link, installed, service, passed, joined>>

\* Power loss and boot: the bootstrap unit starts on the current release.
PowerLoss ==
    /\ faults < MaxFaults
    /\ service' = None
    /\ job' = Job("boot", "boot", link.current, "boot")
    /\ faults' = faults + 1
    /\ UNCHANGED <<link, installed, passed, excused, joined>>

ScriptStep == \/ KeepPrevious \/ Switch \/ StartReconcile \/ MoveBack \/ GiveUp
              \/ KeepVerified \/ Promote \/ StartMonitors \/ Return \/ Abort
ServiceEnds == ReconcilePasses \/ ReconcileFails
Command == CommandRollback \/ \E r \in Releases : Upgrade(r) \/ Install(r)

Next == ScriptStep \/ ServiceEnds \/ Command \/ MonitorFires \/ ScriptStops \/ PowerLoss
Spec == Init /\ [][Next]_vars

\* Scripts run on, and TimeoutStartSec ends every run of the service.
FairSpec == Spec /\ WF_vars(ScriptStep) /\ WF_vars(ServiceEnds)
-----------------------------------------------------------------------------
(* Properties *************************************************************)

\* The links name installed releases: current and verified always exist, so
\* that a boot never finds nothing to start.
TypeOK ==
    /\ installed \subseteq Releases
    /\ link.current \in installed /\ link.verified \in installed
    /\ link.previous \in installed \cup {None}
    /\ service \in installed \cup {None}
    /\ job.pc \in Rest \cup {"keep", "switch", "boot", "wait", "unhealthy", "died",
                             "mark", "promote", "monitors", "ended"}
    /\ job.target \in installed
    /\ passed \subseteq installed /\ {excused, joined} \subseteq BOOLEAN /\ faults \in 0 .. MaxFaults

\* verified is a release whose own code has passed the health check (release.py
\* 120-127 behind bootstrap.sh 36-53).  A run that a monitoring unit started is the
\* one way around that: without one, power losses, stopped scripts, installations
\* by hand and the two attempts to move back promote nobody for another's success.
VerifiedUnlessJoined == joined \/ link.verified \in passed

\* What the upgrade command tells the operator is what the links say (cli.py
\* 123-137): "verified" is the release asked for, current and verified;
\* "previous release restored" leaves another release current, and the very one
\* from before when no script stopped half way and nothing was put in by hand.
UpgradeHonest ==
    /\ job.pc = "verified" => link.current = job.goal /\ link.verified = job.goal
    /\ job.pc = "restored" =>
          /\ link.current # job.goal
          /\ excused \/ link.verified = job.goal \/ link.current = job.origin

\* Whatever fails or loses power during upgrades and rollbacks, the gateway
\* comes to rest, again and again, on a release that can serve it -- as long as
\* nobody installed one by hand and no script stopped outside the health check
\* (the two cases rollback.md names as beyond the automatic way back), and no
\* bootstrap took a run of the monitoring units for its own.
Recovers == []<>(AtRest /\ (excused \/ joined \/ link.current \in Sound))
=============================================================================
