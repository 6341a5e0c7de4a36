--------------------------- MODULE TriggersProofs ---------------------------
(***************************************************************************)
(* Proofs about module Triggers, for any number of attempts, drifts and    *)
(* faults: the two services never work at the same time, and the timer is  *)
(* never lost.                                                             *)
(***************************************************************************)
EXTENDS Triggers, TLAPS

(* The invariant **********************************************************)

Job == [at : {"off", "try", "apply", "check"}, left : 0 .. Attempts, acts : BOOLEAN]
Work == {"apply", "check"}

\* What TypeOK says of the parts, with the attempts a running service has left and
\* the subshell of a monitor that has ended.
MonitorOK(m) ==
    /\ m \in [up : BOOLEAN, dir : BOOLEAN, sub : {"none", "sleep", "started"}]
    /\ m.sub # "none" => m.dir /\ m.up
JobsOK(s) ==
    /\ s \in [Units -> Job]
    /\ \A u \in Units : s[u].at # "off" => s[u].left > 0
    /\ {s["reconcile"].at, s["udapi"].at} \subseteq Work => FALSE
ArmedOK(a, s) == a \in BOOLEAN /\ (a \/ s["reconcile"].at # "off")

IInv == /\ drift \in {"none", "new", "seen"} /\ outage \in BOOLEAN
        /\ MonitorOK(monitor) /\ JobsOK(service) /\ ArmedOK(armed, service)

(* Lemmas *****************************************************************)

\* One service gets another job, which is off, waits its turn, or is at work while
\* the other is not.
LEMMA NewJob ==
    ASSUME NEW s, JobsOK(s), NEW u \in Units, NEW j \in Job, j.at # "off" => j.left > 0,
           j.at \in Work => \A w \in Units \ {u} : s[w].at \notin Work
    PROVE  JobsOK([s EXCEPT ![u] = j])
<1> DEFINE t == [s EXCEPT ![u] = j]
<1> USE DEF Units, Work
<1>1. t \in [Units -> Job]
    BY DEF JobsOK
<1>2. t[u] = j /\ \A w \in Units \ {u} : t[w] = s[w]
    BY DEF JobsOK
<1>3. \A w \in Units : t[w].at # "off" => t[w].left > 0
    BY <1>2 DEF JobsOK
<1>4. ~({t["reconcile"].at, t["udapi"].at} \subseteq Work)
    <2>1. CASE u = "reconcile"
        BY <1>2, <2>1 DEF JobsOK
    <2>2. CASE u = "udapi"
        BY <1>2, <2>2 DEF JobsOK
    <2> QED
        BY <2>1, <2>2
<1> QED
    BY <1>1, <1>3, <1>4 DEF JobsOK

\* Only a job that is taken away disarms nothing else.
LEMMA OtherJob ==
    ASSUME NEW s, JobsOK(s), NEW u \in Units, NEW j \in Job, NEW a, ArmedOK(a, s),
           u = "reconcile" => a \/ j.at # "off"
    PROVE  ArmedOK(a, [s EXCEPT ![u] = j])
    BY DEF ArmedOK, JobsOK, Units

\* A start is merged or gives the service all its attempts.
LEMMA StartOK ==
    ASSUME NEW s, JobsOK(s), NEW u \in Units, NEW a, a \in BOOLEAN
    PROVE  /\ JobsOK(Start(s, u))
           /\ ArmedOK(a, s) => ArmedOK(a, Start(s, u))
           /\ u = "reconcile" => Start(s, u)["reconcile"].at # "off"
<1> DEFINE j == [at |-> "try", left |-> Attempts, acts |-> FALSE]
<1>1. j \in Job /\ j.at = "try" /\ j.left > 0
    BY TriggersAssumption DEF Job
<1>2. CASE s[u].at = "off"
    <2>1. Start(s, u) = [s EXCEPT ![u] = j]
        BY <1>2 DEF Start
    <2>2. JobsOK([s EXCEPT ![u] = j])
        BY <1>1, NewJob DEF Work
    <2>3. ArmedOK(a, s) => ArmedOK(a, [s EXCEPT ![u] = j])
        BY <1>1, OtherJob
    <2>4. u = "reconcile" => [s EXCEPT ![u] = j]["reconcile"].at # "off"
        BY <1>1 DEF JobsOK, Units
    <2> QED
        BY <2>1, <2>2, <2>3, <2>4
<1>3. CASE s[u].at # "off"
    BY <1>3 DEF Start
<1> QED
    BY <1>2, <1>3

\* Whatever is heard keeps monitor, services and timer in order.
LEMMA HeardOK ==
    ASSUME NEW S \in Signals, NEW s, JobsOK(s), MonitorOK(monitor), Heard(S, s)
    PROVE  /\ MonitorOK(monitor') /\ JobsOK(service')
           /\ \A a \in BOOLEAN : ArmedOK(a, s) => ArmedOK(a, service')
           /\ service'["reconcile"] = s["reconcile"]
<1>1. MonitorOK(monitor')
    BY DEF Heard, MonitorOK
<1>2. "udapi" \in Units
    BY DEF Units
<1>3. JobsOK(service') /\ \A a \in BOOLEAN : ArmedOK(a, s) => ArmedOK(a, service')
    BY <1>2, StartOK DEF Heard
<1>4. service'["reconcile"] = s["reconcile"]
    BY DEF Heard, Start, JobsOK, Units
<1> QED
    BY <1>1, <1>3, <1>4

\* The next attempt waits for its turn.
LEMMA AgainOK ==
    ASSUME IInv, NEW u \in Units, service[u].at # "off"
    PROVE  /\ JobsOK(Again(u))
           /\ \A w \in Units \ {u} : Again(u)[w] = service[w]
<1> DEFINE j == IF service[u].left = 1 THEN Off ELSE [Off EXCEPT !.at = "try", !.left = service[u].left - 1]
<1>1. Again(u) = [service EXCEPT ![u] = j]
    BY DEF Again, IInv, JobsOK
<1>2. service[u].left \in 1 .. Attempts
    BY TriggersAssumption DEF IInv, JobsOK, Job
<1>3. j \in Job /\ (j.at # "off" => j.left > 0) /\ j.at \notin Work
    <2>1. CASE service[u].left = 1
        BY <2>1, TriggersAssumption DEF Job, Off, Work
    <2>2. CASE service[u].left # 1
        <3>1. j = [at |-> "try", left |-> service[u].left - 1, acts |-> FALSE]
            BY <2>2 DEF Off
        <3>2. service[u].left - 1 \in 1 .. Attempts
            BY <1>2, <2>2, TriggersAssumption
        <3> HIDE DEF j
        <3>3. j.at = "try" /\ j.left \in 1 .. Attempts
            BY <3>1, <3>2
        <3>4. j \in Job
            BY <3>1, <3>2, TriggersAssumption DEF Job
        <3> QED
            BY <3>3, <3>4, TriggersAssumption DEF Work
    <2> QED
        BY <2>1, <2>2
<1>4. JobsOK([service EXCEPT ![u] = j])
    BY <1>3, NewJob DEF IInv
<1> HIDE DEF j
<1>5. \A w \in Units \ {u} : [service EXCEPT ![u] = j][w] = service[w]
    BY DEF IInv, JobsOK
<1> QED
    BY <1>1, <1>4, <1>5

\* A service that ends arms its timer, whichever it is.
LEMMA EndedOK ==
    ASSUME IInv, NEW u \in Units, Ended(u),
           \A w \in Units \ {u} : service'[w].at = service[w].at
    PROVE  ArmedOK(armed', service')
    BY DEF IInv, ArmedOK, Ended, Units

(* Steps ******************************************************************)

\* Every step keeps the invariant.
LEMMA InvStep == ASSUME IInv, [Next]_vars PROVE IInv'
<1>1. CASE Drift
    <2>1. PICK S \in Signals : Heard(S, service)
        BY <1>1 DEF Drift
    <2>2. MonitorOK(monitor') /\ JobsOK(service') /\ (ArmedOK(armed, service) => ArmedOK(armed, service'))
        BY <2>1, HeardOK DEF IInv, ArmedOK
    <2> QED
        BY <1>1, <2>2 DEF Drift, IInv
<1>2. CASE DebounceEnds
    <2>1. "reconcile" \in Units
        BY DEF Units
    <2>2. JobsOK(service') /\ (ArmedOK(armed, service) => ArmedOK(armed, service'))
        BY <1>2, <2>1, StartOK DEF DebounceEnds, IInv, ArmedOK
    <2>3. MonitorOK(monitor')
        BY <1>2 DEF DebounceEnds, IInv, MonitorOK
    <2> QED
        BY <1>2, <2>2, <2>3 DEF DebounceEnds, IInv
<1>3. CASE Rmdir \/ MonitorEnds \/ MonitorRestarts
    <2>1. MonitorOK(monitor')
        BY <1>3 DEF Rmdir, MonitorEnds, MonitorRestarts, IInv, MonitorOK
    <2> QED
        BY <1>3, <2>1 DEF Rmdir, MonitorEnds, MonitorRestarts, IInv
<1>4. CASE TimerElapses
    <2>1. "reconcile" \in Units
        BY DEF Units
    <2>2. JobsOK(service') /\ service'["reconcile"].at # "off"
        BY <1>4, <2>1, StartOK DEF TimerElapses, IInv, ArmedOK
    <2> QED
        BY <1>4, <2>2 DEF TimerElapses, IInv, ArmedOK
<1>5. ASSUME NEW u \in Units, Attempt(u) PROVE IInv'
    <2>1. drift' \in {"none", "new", "seen"} /\ monitor' = monitor /\ outage' = outage
        BY <1>5 DEF Attempt, IInv
    <2>2. JobsOK(service') /\ \A w \in Units \ {u} : service'[w] = service[w]
        <3>1. CASE Locked
            BY <1>5, <3>1, AgainOK DEF Attempt
        <3>2. CASE ~Locked
            <4> DEFINE j == [service[u] EXCEPT !.at = "apply", !.acts = (drift # "none")]
            <4>1. service' = [service EXCEPT ![u] = j]
                BY <1>5, <3>2 DEF Attempt, IInv, JobsOK
            <4>2. j \in Job /\ j.left > 0
                BY <1>5 DEF Attempt, IInv, JobsOK, Job
            <4>3. \A w \in Units : service[w].at \notin Work
                BY <3>2 DEF Locked, Work
            <4>4. JobsOK([service EXCEPT ![u] = j])
                BY <4>2, <4>3, NewJob DEF IInv
            <4> HIDE DEF j
            <4>5. \A w \in Units \ {u} : [service EXCEPT ![u] = j][w] = service[w]
                BY DEF IInv, JobsOK
            <4> QED
                BY <4>1, <4>4, <4>5
        <3> QED
            BY <3>1, <3>2
    <2>3. ArmedOK(armed', service')
        BY <1>5, <2>2, EndedOK DEF Attempt
    <2> QED
        BY <2>1, <2>2, <2>3 DEF IInv
<1>6. ASSUME NEW u \in Units, Apply(u) PROVE IInv'
    <2> DEFINE j == [service[u] EXCEPT !.at = "check"]
               s == [service EXCEPT ![u] = j]
    <2>1. s = [service EXCEPT ![u].at = "check"]
        BY DEF IInv, JobsOK
    <2>2. j \in Job /\ j.left > 0 /\ j.at # "off"
        BY <1>6 DEF Apply, IInv, JobsOK, Job
    <2>3. \A w \in Units \ {u} : service[w].at \notin Work
        BY <1>6 DEF Apply, IInv, JobsOK, Work, Units
    <2>4. JobsOK(s)
        BY <2>2, <2>3, NewJob DEF IInv
    <2>5. ArmedOK(armed, s)
        BY <2>2, OtherJob DEF IInv
    <2> HIDE DEF j, s
    <2>6. MonitorOK(monitor') /\ JobsOK(service') /\ ArmedOK(armed, service')
        <3>1. CASE service[u].acts
            BY <1>6, <2>1, <2>4, <2>5, <3>1, HeardOK DEF Apply, IInv, ArmedOK
        <3>2. CASE ~service[u].acts
            BY <1>6, <2>1, <2>4, <2>5, <3>2 DEF Apply, IInv
        <3> QED
            BY <3>1, <3>2
    <2> QED
        BY <1>6, <2>6 DEF Apply, IInv
<1>7. ASSUME NEW u \in Units, Commit(u) \/ Killed(u) PROVE IInv'
    <2>1. Off \in Job /\ Off.at = "off"
        BY TriggersAssumption DEF Off, Job
    <2>2. service' = [service EXCEPT ![u] = Off]
        BY <1>7 DEF Commit, Killed
    <2>3. JobsOK([service EXCEPT ![u] = Off])
        BY <2>1, NewJob DEF IInv, Work
    <2>4. \A w \in Units \ {u} : service'[w] = service[w]
        BY <2>2 DEF IInv, JobsOK
    <2>5. ArmedOK(armed', service')
        BY <1>7, <2>4, EndedOK DEF Commit, Killed
    <2>6. drift' \in {"none", "new", "seen"} /\ monitor' = monitor /\ outage' = outage
        BY <1>7 DEF Commit, Killed, IInv
    <2> QED
        BY <2>2, <2>3, <2>5, <2>6 DEF IInv
<1>8. ASSUME NEW u \in Units, Fails(u) \/ HealthFails(u) PROVE IInv'
    <2>1. RolledBack(u) /\ service[u].at # "off"
        BY <1>8 DEF Fails, HealthFails
    <2>2. JobsOK(Again(u)) /\ \A w \in Units \ {u} : Again(u)[w] = service[w]
        BY <2>1, AgainOK
    <2>3. MonitorOK(monitor') /\ JobsOK(service') /\ service'["reconcile"] = Again(u)["reconcile"]
        <3>1. CASE service[u].acts
            <4>1. PICK S \in Signals : Heard(S, Again(u))
                BY <2>1, <3>1 DEF RolledBack
            <4> QED
                BY <2>2, <4>1, HeardOK DEF IInv
        <3>2. CASE ~service[u].acts
            BY <2>1, <2>2, <3>2 DEF RolledBack, IInv
        <3> QED
            BY <3>1, <3>2
    <2>4. ArmedOK(armed', service')
        BY <2>1, <2>2, <2>3 DEF RolledBack, Ended, IInv, ArmedOK, Units
    <2>5. drift' \in {"none", "new", "seen"} /\ outage' = outage
        BY <2>1 DEF RolledBack, IInv
    <2> QED
        BY <2>3, <2>4, <2>5 DEF IInv
<1>9. CASE OutageBegins \/ OutageEnds
    BY <1>9 DEF OutageBegins, OutageEnds, IInv
<1>10. CASE UNCHANGED vars
    BY <1>10 DEF vars, IInv
<1> QED
    BY <1>1, <1>2, <1>3, <1>4, <1>5, <1>6, <1>7, <1>8, <1>9, <1>10 DEF Next, Script, Step

(* Theorem ****************************************************************)

\* At most one service applies or checks, and while the timer is not armed its
\* service runs, so that the end of the run arms it again (timer 6): whatever
\* fails or is killed, a run follows.
THEOREM TypeCorrect == Spec => []TypeOK
<1>1. Init => IInv
    <2> SUFFICES ASSUME Init PROVE IInv
        OBVIOUS
    <2>1. JobsOK(service)
        BY TriggersAssumption DEF Init, JobsOK, Units, Off, Job, Work
    <2>2. MonitorOK(monitor) /\ ArmedOK(armed, service)
        BY DEF Init, MonitorOK, ArmedOK
    <2> QED
        BY <2>1, <2>2 DEF Init, IInv
<1>2. IInv /\ [Next]_vars => IInv'
    BY InvStep
<1>3. IInv => TypeOK
    BY DEF IInv, MonitorOK, JobsOK, ArmedOK, TypeOK, Units, Job, Work
<1> QED
    BY <1>1, <1>2, <1>3, PTL DEF Spec
=============================================================================
