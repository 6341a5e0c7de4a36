----------------------------- MODULE MCRelease -----------------------------
(* Two releases that serve this gateway, one that does not, one that lacks *)
(* a feature of its configuration.                                         *)
EXTENDS Release

CONSTANTS Good, Better, Broken, Old

AllReleases == {Good, Better, Broken, Old}
Serving     == {Good, Better}
Capable     == {Good, Better, Broken}
=============================================================================
