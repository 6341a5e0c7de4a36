----------------------- MODULE TransactionRefinement -----------------------
(***************************************************************************)
(* Transaction implements AtomicRepair: while a process is between its     *)
(* plan and its last record, the network shown is the one its first plan   *)
(* saw, and the record the one its first plan read.                        *)
(***************************************************************************)
EXTENDS Transaction

\* Whoever holds the lock has made its plan, or was refused one.
InRun == lock # Nobody /\ pc[lock] \notin {"idle", "plan"}

Shown  == [s \in Slot |-> IF InRun /\ s \notin disturbed THEN before[s] ELSE net[s]]
Record == IF InRun /\ tx[lock].local # None THEN tx[lock].old ELSE runtime
Moved  == IF InRun THEN disturbed ELSE {}
Status == IF InRun THEN "running"
          ELSE IF torn THEN "torn"
          ELSE IF health \in {"none", "healthy"} THEN health
          ELSE IF health = "rollback-failed" THEN "broken" ELSE "failed"

Atomic == INSTANCE AtomicRepair
            WITH shown <- Shown, record <- Record, status <- Status, touched <- Moved

\* A reconcile is one step to whoever sees only its outcome: it repairs all,
\* or nothing has happened, or health.json says that the rollback failed, or
\* the run was cut short (core.py 791-888).
Implements == Atomic!ASpec
=============================================================================
