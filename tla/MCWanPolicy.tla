---------------------------- MODULE MCWanPolicy ----------------------------
(* The constants are numbers: the configuration file gives them.           *)
EXTENDS WanPolicy
=============================================================================
