---------------------------- MODULE AtomicRepair ----------------------------
(***************************************************************************)
(* What a reconcile promises to whoever does not look inside it: between   *)
(* its start and its end nothing has happened, and at its end either the   *)
(* whole repair has, or nothing, or it says that it could not undo, or it  *)
(* says nothing at all because it was killed.  Slots that others change    *)
(* during the run are nobody's promise.  There is no lock, no action, no   *)
(* inverse and no replan here.                                             *)
(***************************************************************************)
EXTENDS Planner

VARIABLES
    shown,      \* the network, the running repair hidden
    record,     \* the endpoint the repair starts from, as runtime.json has it
    status,     \* of the latest run, or "running"
    touched     \* what others have changed while it runs
avars == <<shown, record, status, touched>>

Ended == {"none", "healthy", "failed", "broken", "torn"}

AInit == shown = EmptyNet /\ record = None /\ status = "none" /\ touched = {}

Same(S) == \A s \in Slot \ S : shown'[s] = shown[s]

\* Drift; while a repair runs, it also changes what others have changed.
Others ==
    /\ touched' \in SUBSET Slot /\ touched \subseteq touched'
    /\ shown' \in Net /\ (status = "running" => Same(touched'))
    /\ UNCHANGED <<record, status>>

Begin == /\ status # "running" /\ status' = "running" /\ touched' = {}
         /\ UNCHANGED <<shown, record>>

\* Everything is as a plan for one endpoint wants it, from the record and from
\* the network as it was; a further copy of an old rule may be gone as well.
Repaired(e) ==
    \A s \in Slot \ touched :
        \/ Goal(e, record, shown)[s] \in {Keep, shown'[s]}
        \/ s = OuterRule(record) /\ shown'[s] <= Goal(e, record, shown)[s]

Commit ==
    /\ status = "running" /\ status' = "healthy" /\ touched' = {}
    /\ record' \in Endpoint /\ Repaired(record')

\* Nothing has happened, but that one firewall rule may be there once more, and
\* that the record can be the one of the attempt.
Abort ==
    /\ status = "running" /\ status' = "failed" /\ touched' = {}
    /\ \/ Same(touched)
       \/ \E s \in Firewall : Same(touched \cup {s}) /\ shown'[s] = shown[s] + 1
    /\ record' \in Endpoint \cup {record}

\* The only excuses for a network between the two.
Break ==
    /\ status = "running" /\ status' = "broken" /\ touched' = {}
    /\ shown' \in Net /\ record' \in Endpoint \cup {record}

Tear ==
    /\ status' = "torn" /\ touched' = {}
    /\ shown' \in Net /\ record' \in Endpoint \cup {record}

ANext == Others \/ Begin \/ Commit \/ Abort \/ Break \/ Tear
ASpec == AInit /\ [][ANext]_avars
=============================================================================
