----------------------------- MODULE MCTriggers -----------------------------
(* The constants are numbers: the configuration file gives them.           *)
EXTENDS Triggers
=============================================================================
