------------------------------ MODULE Triggers ------------------------------
(***************************************************************************)
(* What starts reconcile: the netlink event monitor with its debounce      *)
(* directory, the UDAPI path unit and the timer, over two oneshot services *)
(* that run the same command.  A start of a service that runs already      *)
(* joins that run, a debounced event leaves no trace, a monitor that ends  *)
(* takes its pending start with it, and a reconcile makes events itself.   *)
(***************************************************************************)
EXTENDS Integers

CONSTANTS
    Attempts,    \* of one reconcile --retry: 4 in cli.py
    MaxDrifts,   \* bound on drifts that others cause
    MaxFaults    \* bound on outages, on attempts that fail otherwise or are killed, and
                 \* on ends of the monitor

ASSUME TriggersAssumption == Attempts \in Nat \ {0} /\ MaxDrifts \in Nat /\ MaxFaults \in Nat

VARIABLES
    drift,      \* of the network: "none", "new", or "seen" by the plan of a run
    outage,     \* no health check passes: the probed hosts do not answer
    monitor,    \* the script runs; debounce directory; its background subshell
    service,    \* the two services: where reconcile is, attempts left, has it actions
    armed,      \* the timer will elapse
    count       \* history: drifts, faults
vars == <<drift, outage, monitor, service, armed, count>>

Units == {"reconcile", "udapi"}
Off == [at |-> "off", left |-> 0, acts |-> FALSE]

\* Booted and healthy; OnBootSec has armed the timer.
Init ==
    /\ drift = "none" /\ outage = FALSE /\ armed = TRUE
    /\ monitor = [up |-> TRUE, dir |-> FALSE, sub |-> "none"]
    /\ service = [u \in Units |-> Off]
    /\ count = [drifts |-> 0, faults |-> 0]

Fault == count.faults < MaxFaults /\ count' = [count EXCEPT !.faults = @ + 1]

(* Starts *****************************************************************)

\* systemctl start, or a unit that triggers: nothing new while it runs.
Start(s, u) == IF s[u].at = "off" THEN [s EXCEPT ![u] = [at |-> "try", left |-> Attempts, acts |-> FALSE]]
               ELSE s

\* What is heard of a change: a netlink event, a new UDAPI state, both or, for a
\* firewall rule, nothing.
Heard(S, s) ==
    /\ monitor' = IF "netlink" \in S /\ monitor.up /\ ~monitor.dir
                  THEN [monitor EXCEPT !.dir = TRUE, !.sub = "sleep"] ELSE monitor
    /\ service' = IF "state" \in S THEN Start(s, "udapi") ELSE s
Signals == SUBSET {"netlink", "state"}

Drift ==
    /\ count.drifts < MaxDrifts /\ count' = [count EXCEPT !.drifts = @ + 1]
    /\ drift' = "new"
    /\ \E S \in Signals : Heard(S, service)
    /\ UNCHANGED <<outage, armed>>

\* The subshell of the monitor: sleep, start, rmdir.
DebounceEnds ==
    /\ monitor.sub = "sleep" /\ monitor' = [monitor EXCEPT !.sub = "started"]
    /\ service' = Start(service, "reconcile") /\ UNCHANGED <<drift, outage, armed, count>>

Rmdir ==
    /\ monitor.sub = "started" /\ monitor' = [monitor EXCEPT !.sub = "none", !.dir = FALSE]
    /\ UNCHANGED <<drift, outage, service, armed, count>>

\* ip monitor ends and with it the script; systemd kills what is left of it.
MonitorEnds ==
    /\ monitor.up /\ Fault /\ monitor' = [monitor EXCEPT !.up = FALSE, !.sub = "none"]
    /\ UNCHANGED <<drift, outage, service, armed>>

\* Fault: the directory of the last time is left in place.
MonitorRestarts_Uncleaned ==
    /\ ~monitor.up /\ monitor' = [monitor EXCEPT !.up = TRUE]
    /\ UNCHANGED <<drift, outage, service, armed, count>>

MonitorRestarts ==
    /\ ~monitor.up /\ monitor' = [monitor EXCEPT !.up = TRUE, !.dir = FALSE]
    /\ UNCHANGED <<drift, outage, service, armed, count>>

\* Fault: while no run has failed there is nothing to do.
TimerElapses_Trusting ==
    /\ armed /\ service["reconcile"].at = "off"
    /\ IF count.faults = 0 THEN UNCHANGED <<service, armed>>
       ELSE service' = Start(service, "reconcile") /\ armed' = FALSE
    /\ UNCHANGED <<drift, outage, monitor, count>>

\* OnUnitInactiveSec: five minutes after the service has ended, however it did.
TimerElapses ==
    /\ armed /\ service["reconcile"].at = "off" /\ armed' = FALSE
    /\ service' = Start(service, "reconcile") /\ UNCHANGED <<drift, outage, monitor, count>>

(* reconcile --retry ******************************************************)

Locked == \E u \in Units : service[u].at \in {"apply", "check"}

\* Fault: the timer counts from the last success.
Ended_Success(u) ==
    armed' = (armed \/ (u = "reconcile" /\ service[u].at = "check" /\ service'[u].at = "off" /\ drift' # "new"))

Ended(u) == armed' = (armed \/ (u = "reconcile" /\ service'[u].at = "off"))

\* The next attempt after its delay, or the end.
Again(u) == [service EXCEPT ![u] = IF @.left = 1 THEN Off ELSE [Off EXCEPT !.at = "try", !.left = service[u].left - 1]]

\* Fault: the plan holds an action whether it is needed or not.
Attempt_Always(u) ==
    /\ service[u].at = "try"
    /\ IF Locked THEN service' = Again(u) /\ UNCHANGED drift
       ELSE /\ service' = [service EXCEPT ![u].at = "apply", ![u].acts = TRUE]
            /\ drift' = IF drift = "new" THEN "seen" ELSE drift
    /\ Ended(u) /\ UNCHANGED <<outage, monitor, count>>

\* The lock is not waited for; with it, the plan sees every drift there is.
Attempt(u) ==
    /\ service[u].at = "try"
    /\ IF Locked THEN service' = Again(u) /\ UNCHANGED drift
       ELSE /\ service' = [service EXCEPT ![u].at = "apply", ![u].acts = drift # "none"]
            /\ drift' = IF drift = "new" THEN "seen" ELSE drift
    /\ Ended(u) /\ UNCHANGED <<outage, monitor, count>>

Apply(u) ==
    /\ service[u].at = "apply"
    /\ LET s == [service EXCEPT ![u].at = "check"]
       IN  IF service[u].acts THEN \E S \in Signals : Heard(S, s)
           ELSE service' = s /\ UNCHANGED monitor
    /\ UNCHANGED <<drift, outage, armed, count>>

Commit(u) ==
    /\ service[u].at = "check" /\ ~outage /\ service' = [service EXCEPT ![u] = Off]
    /\ drift' = IF drift = "seen" THEN "none" ELSE drift
    /\ Ended(u) /\ UNCHANGED <<outage, monitor, count>>

\* What was applied is rolled back, which makes events again, and tried again.
RolledBack(u) ==
    /\ drift' = IF drift = "seen" THEN "new" ELSE drift
    /\ IF service[u].acts THEN \E S \in Signals : Heard(S, Again(u))
       ELSE service' = Again(u) /\ UNCHANGED monitor
    /\ Ended(u) /\ UNCHANGED outage

HealthFails(u) == service[u].at = "check" /\ outage /\ RolledBack(u) /\ UNCHANGED count

\* A refusal, another failure or the SIGTERM of TimeoutStartSec.
Fails(u) == service[u].at \in {"apply", "check"} /\ Fault /\ RolledBack(u)

\* SIGKILL, 90 seconds after the SIGTERM; the kernel frees the lock.
Killed(u) ==
    /\ service[u].at # "off" /\ Fault /\ service' = [service EXCEPT ![u] = Off]
    /\ drift' = IF service[u].at \in {"apply", "check"} /\ service[u].acts THEN "new" ELSE drift
    /\ Ended(u) /\ UNCHANGED <<outage, monitor>>

\* It may last.
OutageBegins ==
    /\ ~outage /\ Fault /\ outage' = TRUE /\ UNCHANGED <<drift, monitor, service, armed>>
OutageEnds ==
    /\ outage /\ outage' = FALSE /\ UNCHANGED <<drift, monitor, service, armed, count>>

Script == DebounceEnds \/ Rmdir \/ MonitorRestarts
Step(u) == Attempt(u) \/ Apply(u) \/ Commit(u) \/ HealthFails(u)
Next == \/ Drift \/ OutageBegins \/ OutageEnds \/ Script \/ MonitorEnds \/ TimerElapses
        \/ \E u \in Units : Step(u) \/ Fails(u) \/ Killed(u)
Spec == Init /\ [][Next]_vars

\* systemd and the commands go on.
FairSpec == Spec /\ WF_vars(Script) /\ WF_vars(TimerElapses) /\ \A u \in Units : WF_vars(Step(u))
-----------------------------------------------------------------------------
(* Properties *************************************************************)

\* One run at a time is at work; while the timer is not armed, the service runs.
TypeOK ==
    /\ drift \in {"none", "new", "seen"} /\ {outage, armed} \subseteq BOOLEAN
    /\ monitor \in [up : BOOLEAN, dir : BOOLEAN, sub : {"none", "sleep", "started"}]
    /\ service \in [Units -> [at : {"off", "try", "apply", "check"}, left : 0 .. Attempts, acts : BOOLEAN]]
    /\ \A u, w \in Units : {service[u].at, service[w].at} \subseteq {"apply", "check"} => u = w
    /\ armed \/ service["reconcile"].at # "off"
    /\ monitor.sub # "none" => monitor.dir

\* "Firewall drift and lost events are collected by the five-minute timer"
\* (guide.md 62): every drift, heard of or not, is repaired by a run that planned
\* after it, whichever run an event joined and whatever died, or an outage is
\* what keeps it.
DriftRepaired == drift = "new" ~> drift = "none" \/ outage

\* The directory that swallows events never stays, though the subshell that
\* should remove it may be killed (event-monitor.sh 12-13, 21-22).
EventsHeardAgain == []<>(monitor.up /\ ~monitor.dir)

\* Runs of which every attempt failed have started the next ones by the events of
\* their own rollbacks.  Once no outage lasts and the other failures are over, this
\* ends: only the timer starts runs.  (While drift meets an outage it goes on.)
SelfTriggeringEnds == []<>outage \/ <>[](monitor.sub = "none" /\ service["udapi"].at = "off")
=============================================================================
