---------------------------- MODULE MCAllocation ----------------------------
(* Small instances of Allocation for TLC: one LAN, two tables, four        *)
(* priorities.                                                             *)
EXTENDS Allocation

CONSTANT Opened   \* stands for a resource left open

Pool == 20 .. 23
Open  == [table |-> Opened, base |-> Opened]
Named == [table |-> 100, base |-> 21]

\* A rule in the first window, the priority before a named window, a route.
Rivals == {Rule(20, Others, 0), Rule(22, Others, 0), Route(100, "other")}
NoRivals == {}

AnyConfig == {Open, Named}
OpenOnly == {Open}
=============================================================================
