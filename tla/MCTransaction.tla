--------------------------- MODULE MCTransaction ---------------------------
(* Small instances of Transaction for TLC: two prefixes, one LAN, two      *)
(* processes.                                                              *)
EXTENDS TransactionRefinement, TLC

CONSTANTS e1, e2, n1

\* One slot of each nature: the device, a rule that is deduplicated, a rule
\* that names an endpoint, a priority that others can take, a UniFi flag.
FragileSlots == {Tunnel, Snat(n1), OuterRule(e1), PolicyRule(n1), Monitor}

\* Slots whose drift is always repairable.
Flags == {DefaultRoute, Link, Monitor}

\* Which faults an instance has.
OneOfEach    == [k \in Kind |-> 1]
Plain        == [k \in Kind |-> IF k \in {"drift", "move", "fail"} THEN 2
                                ELSE IF k = "keep" THEN 1 ELSE 0]
OneRaise     == [k \in Kind |-> IF k = "raise" THEN 1 ELSE 0]

ProcSymmetry == Permutations(Proc)
=============================================================================
