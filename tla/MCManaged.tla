----------------------------- MODULE MCManaged -----------------------------
(* The constants are numbers: the configuration file gives them.           *)
EXTENDS Managed
=============================================================================
