--------------------------- MODULE ReleaseProofs ---------------------------
(***************************************************************************)
(* Proofs about module Release, for any releases, any of them sound, and   *)
(* any number of faults: the links stay usable, only a joined run promotes *)
(* code that has not passed, and upgrade reports what the links say.       *)
(***************************************************************************)
EXTENDS Release, TLAPS

PCs == Rest \cup {"keep", "switch", "boot", "wait", "unhealthy", "died",
                  "mark", "promote", "monitors", "ended"}

(* The invariant **********************************************************)

\* TypeOK with the shapes of the records, and a target that a link may name.
Shape ==
    /\ link \in [current : installed, verified : installed, previous : installed \cup {None}]
    /\ job \in [cmd : {"none", "upgrade", "install", "rollback", "boot"}, pc : PCs,
                goal : Releases, origin : Releases, target : installed,
                then : {"boot", "idle", "restored"}, retried : BOOLEAN, again : BOOLEAN]
    /\ installed \subseteq Releases /\ passed \subseteq installed
    /\ service \in installed \cup {None}
    /\ excused \in BOOLEAN /\ joined \in BOOLEAN /\ faults \in 0 .. MaxFaults

\* From the start of the service to the promotion, without a joined run, the
\* service runs the current release, and what is promoted has passed.
Own == ~joined =>
    /\ link.verified \in passed
    /\ job.pc = "wait" => service = link.current
    /\ job.pc \in {"mark", "promote", "monitors", "ended"} => link.current \in passed

\* Until the health check is answered, an upgrade has left the verified link
\* alone, and current is its goal, or its origin once the bootstrap moved back.
Placed == IF job.retried THEN job.origin ELSE job.goal

\* A way back that does not lead to the goal again.
WayBack == link.previous \notin {None, job.goal}

\* What the links are at each point of an upgrade.
Underway ==
    /\ job.goal # job.origin
    /\ job.pc = "keep" =>
          /\ ~job.retried /\ job.target = job.goal /\ job.then = "boot"
          /\ link.current = job.origin /\ link.verified # job.goal
    /\ job.pc = "switch" /\ job.then = "boot" =>
          /\ link.previous = job.origin /\ link.verified # job.goal /\ job.target = Placed
    /\ job.pc = "switch" /\ job.then = "restored" => excused /\ job.target # job.goal
    /\ job.pc = "switch" => job.then # "idle"
    /\ job.pc \in {"boot", "wait", "unhealthy"} =>
          /\ link.previous = job.origin /\ link.verified # job.goal /\ link.current = Placed
    /\ job.pc \in {"mark", "promote"} /\ ~job.again =>
          WayBack /\ link.verified # job.goal /\ link.current = Placed
    /\ job.pc \in {"monitors", "ended"} =>
          WayBack /\ link.verified = link.current /\ link.current = Placed
    /\ job.pc = "died" => (excused \/ ~CanRollback) /\ WayBack
    /\ job.again => /\ job.pc \in {"mark", "promote", "verified"}
                    /\ link.current = job.goal /\ link.verified = job.goal

\* What the other commands never come to.
Plain == ~job.again /\ job.then # "restored" /\ job.pc \notin {"verified", "restored"}

Honest ==
    /\ IF job.cmd = "upgrade" THEN Underway ELSE Plain
    /\ job.pc = "verified" => job.again
    /\ UpgradeHonest

IInv == Shape /\ Own /\ Honest


(* Steps ******************************************************************)

\* Every step keeps the shape: a link only ever gets the name of an installed release.
LEMMA ShapeStep ==
    ASSUME Shape, [Next]_vars PROVE Shape'
<1> USE ReleaseAssumption DEF Shape, PCs, Rest, Goto, Job, RollbackTarget, CanRollback, AtRest
<1>1. CASE KeepPrevious
    BY <1>1 DEF KeepPrevious
<1>2. CASE Switch
    BY <1>2 DEF Switch
<1>3. CASE StartReconcile
    BY <1>3 DEF StartReconcile
<1>4. CASE MoveBack
    BY <1>4 DEF MoveBack
<1>5. CASE GiveUp
    BY <1>5 DEF GiveUp
<1>6. CASE KeepVerified
    BY <1>6 DEF KeepVerified
<1>7. CASE Promote
    BY <1>7 DEF Promote
<1>8. CASE StartMonitors
    BY <1>8 DEF StartMonitors
<1>9. CASE Return
    BY <1>9 DEF Return
<1>10. CASE Abort
    BY <1>10 DEF Abort
<1>11. CASE ReconcilePasses
    BY <1>11 DEF ReconcilePasses
<1>12. CASE ReconcileFails
    BY <1>12 DEF ReconcileFails
<1>13. CASE CommandRollback
    BY <1>13 DEF CommandRollback
<1>14. ASSUME NEW r \in Releases, Upgrade(r) PROVE Shape'
    BY <1>14 DEF Upgrade
<1>15. ASSUME NEW r \in Releases, Install(r) PROVE Shape'
    BY <1>15 DEF Install
<1>16. CASE MonitorFires
    BY <1>16 DEF MonitorFires
<1>17. CASE ScriptStops
    BY <1>17 DEF ScriptStops
<1>18. CASE PowerLoss
    BY <1>18 DEF PowerLoss
<1>19. CASE UNCHANGED vars
    BY <1>19 DEF vars
<1> QED
    BY <1>1, <1>2, <1>3, <1>4, <1>5, <1>6, <1>7, <1>8, <1>9, <1>10, <1>11, <1>12, <1>13, <1>14,
         <1>15, <1>16, <1>17, <1>18, <1>19 DEF Next, ScriptStep, ServiceEnds, Command

\* Every step keeps what runs and what is promoted together, unless a run was joined.
LEMMA OwnStep ==
    ASSUME Shape, Own, [Next]_vars PROVE Own'
<1> USE ReleaseAssumption DEF Shape, Own, PCs, Rest, Goto, Job, AtRest
<1>1. CASE KeepPrevious
    BY <1>1 DEF KeepPrevious
<1>2. CASE Switch
    BY <1>2 DEF Switch
<1>3. CASE StartReconcile
    BY <1>3 DEF StartReconcile
<1>4. CASE MoveBack
    BY <1>4 DEF MoveBack
<1>5. CASE GiveUp
    BY <1>5 DEF GiveUp
<1>6. CASE KeepVerified
    BY <1>6 DEF KeepVerified
<1>7. CASE Promote
    BY <1>7 DEF Promote
<1>8. CASE StartMonitors
    BY <1>8 DEF StartMonitors
<1>9. CASE Return
    BY <1>9 DEF Return
<1>10. CASE Abort
    BY <1>10 DEF Abort
<1>11. CASE ReconcilePasses
    BY <1>11 DEF ReconcilePasses
<1>12. CASE ReconcileFails
    BY <1>12 DEF ReconcileFails
<1>13. CASE CommandRollback
    BY <1>13 DEF CommandRollback
<1>14. ASSUME NEW r \in Releases, Upgrade(r) PROVE Own'
    BY <1>14 DEF Upgrade
<1>15. ASSUME NEW r \in Releases, Install(r) PROVE Own'
    BY <1>15 DEF Install
<1>16. CASE MonitorFires
    BY <1>16 DEF MonitorFires
<1>17. CASE ScriptStops
    BY <1>17 DEF ScriptStops
<1>18. CASE PowerLoss
    BY <1>18 DEF PowerLoss
<1>19. CASE UNCHANGED vars
    BY <1>19 DEF vars
<1> QED
    BY <1>1, <1>2, <1>3, <1>4, <1>5, <1>6, <1>7, <1>8, <1>9, <1>10, <1>11, <1>12, <1>13, <1>14,
         <1>15, <1>16, <1>17, <1>18, <1>19 DEF Next, ScriptStep, ServiceEnds, Command

\* Every step keeps what an upgrade knows of the links.
LEMMA HonestStep ==
    ASSUME Shape, Honest, [Next]_vars PROVE Honest'
<1> USE ReleaseAssumption DEF Shape, Honest, Underway, Plain, Placed, WayBack, UpgradeHonest, PCs,
        Rest, Goto, Job, RollbackTarget, CanRollback, AtRest
<1>1. CASE KeepPrevious
    BY <1>1 DEF KeepPrevious
<1>2. CASE Switch
    BY <1>2 DEF Switch
<1>3. CASE StartReconcile
    BY <1>3 DEF StartReconcile
<1>4. CASE MoveBack
    BY <1>4 DEF MoveBack
<1>5. CASE GiveUp
    BY <1>5 DEF GiveUp
<1>6. CASE KeepVerified
    BY <1>6 DEF KeepVerified
<1>7. CASE Promote
    BY <1>7 DEF Promote
<1>8. CASE StartMonitors
    BY <1>8 DEF StartMonitors
<1>9. CASE Return
    <2>1. CASE job.cmd # "upgrade"
        BY <1>9, <2>1 DEF Return
    <2>2. CASE job.cmd = "upgrade" /\ link.current = job.goal
        <3>1. /\ job.goal # job.origin /\ link.verified = job.goal
              /\ link' = link
              /\ job'.cmd = "upgrade" /\ job'.pc = "mark" /\ job'.again
              /\ job'.goal = job.goal /\ job'.origin = job.origin
            BY <1>9, <2>2 DEF Return
        <3>2. Underway'
            BY <2>2, <3>1
        <3> QED
            BY <3>1, <3>2
    <2>3. CASE job.cmd = "upgrade" /\ link.current # job.goal
        BY <1>9, <2>3 DEF Return
    <2> QED
        BY <2>1, <2>2, <2>3
<1>10. CASE Abort
    <2>1. CASE job.cmd # "upgrade"
        BY <1>10, <2>1 DEF Abort
    <2>2. CASE job.cmd = "upgrade" /\ CanRollback
        <3>1. /\ job.goal # job.origin /\ excused /\ excused' /\ ~job.again
              /\ link.previous \notin {None, job.goal}
              /\ job'.cmd = "upgrade" /\ job'.pc = "switch" /\ job'.then = "restored"
              /\ ~job'.again /\ job'.goal = job.goal /\ job'.origin = job.origin
              /\ job'.target = link.previous
            BY <1>10, <2>2 DEF Abort
        <3>2. Underway'
            BY <3>1
        <3> QED
            BY <3>1, <3>2
    <2>3. CASE job.cmd = "upgrade" /\ ~CanRollback
        BY <1>10, <2>3 DEF Abort
    <2> QED
        BY <2>1, <2>2, <2>3
<1>11. CASE ReconcilePasses
    BY <1>11 DEF ReconcilePasses
<1>12. CASE ReconcileFails
    BY <1>12 DEF ReconcileFails
<1>13. CASE CommandRollback
    BY <1>13 DEF CommandRollback
<1>14. ASSUME NEW r \in Releases, Upgrade(r) PROVE Honest'
    BY <1>14 DEF Upgrade
<1>15. ASSUME NEW r \in Releases, Install(r) PROVE Honest'
    BY <1>15 DEF Install
<1>16. CASE MonitorFires
    BY <1>16 DEF MonitorFires
<1>17. CASE ScriptStops
    BY <1>17 DEF ScriptStops
<1>18. CASE PowerLoss
    BY <1>18 DEF PowerLoss
<1>19. CASE UNCHANGED vars
    BY <1>19 DEF vars
<1> QED
    BY <1>1, <1>2, <1>3, <1>4, <1>5, <1>6, <1>7, <1>8, <1>9, <1>10, <1>11, <1>12, <1>13, <1>14,
         <1>15, <1>16, <1>17, <1>18, <1>19 DEF Next, ScriptStep, ServiceEnds, Command

(* Theorems ***************************************************************)

\* The invariant holds at the start.
LEMMA InitIInv == Init => IInv
<1> SUFFICES ASSUME Init PROVE IInv
    OBVIOUS
<1> USE ReleaseAssumption DEF Init
<1>1. Shape
    <2>1. PICK r \in Sound : /\ link = [current |-> r, verified |-> r, previous |-> None]
                            /\ installed = {r} /\ passed = {r}
                            /\ job = [cmd |-> "none", pc |-> "idle", goal |-> r, origin |-> r, target |-> r,
                                      then |-> "idle", retried |-> FALSE, again |-> FALSE]
                            /\ service = None /\ excused = FALSE
                            /\ joined = FALSE /\ faults = 0
        OBVIOUS
    <2>2. r \in Releases
        OBVIOUS
    <2>3. link \in [current : installed, verified : installed, previous : installed \cup {None}]
        BY <2>1
    <2>4. job \in [cmd : {"none", "upgrade", "install", "rollback", "boot"}, pc : PCs,
                   goal : Releases, origin : Releases, target : installed,
                   then : {"boot", "idle", "restored"}, retried : BOOLEAN, again : BOOLEAN]
        BY <2>1, <2>2 DEF PCs, Rest
    <2>5. installed \subseteq Releases /\ passed \subseteq installed /\ service \in installed \cup {None}
        BY <2>1, <2>2
    <2>6. excused \in BOOLEAN /\ joined \in BOOLEAN /\ faults \in 0 .. MaxFaults
        <3>1. faults \in 0 .. MaxFaults
            BY <2>1
        <3>2. excused \in BOOLEAN /\ joined \in BOOLEAN
            BY <2>1
        <3> QED
            BY <3>1, <3>2
    <2> QED
        BY <2>3, <2>4, <2>5, <2>6 DEF Shape
<1>2. Own
    BY DEF Own
<1>3. Honest
    BY DEF Honest, Plain, UpgradeHonest
<1> QED
    BY <1>1, <1>2, <1>3 DEF IInv

\* The invariant holds for good.
LEMMA Invariance == Spec => []IInv
<1>1. IInv /\ [Next]_vars => IInv'
    BY ShapeStep, OwnStep, HonestStep DEF IInv
<1> QED
    BY InitIInv, <1>1, PTL DEF Spec

\* The links name installed releases and every boot finds one to start
\* (release.py 76-84, 120-133, 213-227), whatever is installed, fails or loses power.
THEOREM TypeCorrect == Spec => []TypeOK
<1>1. IInv => TypeOK
    BY DEF IInv, Shape, TypeOK, PCs
<1> QED
    BY Invariance, <1>1, PTL

\* Unless a bootstrap was answered by a run of a monitoring unit, verified names a
\* release whose own code has passed the health check (bootstrap.sh 36-53).
THEOREM OnlyJoinedUnverified == Spec => []VerifiedUnlessJoined
<1>1. IInv => VerifiedUnlessJoined
    BY DEF IInv, Own, VerifiedUnlessJoined
<1> QED
    BY Invariance, <1>1, PTL

\* The upgrade command reports what the links say (cli.py 123-137), for any number
\* of releases, failures and commands.
THEOREM UpgradeReports == Spec => []UpgradeHonest
<1>1. IInv => UpgradeHonest
    BY DEF IInv, Honest
<1> QED
    BY Invariance, <1>1, PTL
=============================================================================
