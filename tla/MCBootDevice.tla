---------------------------- MODULE MCBootDevice ----------------------------
(***************************************************************************)
(* The devices for model checking: all four builds together for the fault  *)
(* model, the one that commits as a whole for the refinement, and the one  *)
(* of the documented configuration for the window of the fallback.         *)
(***************************************************************************)
EXTENDS BootDevice

AllBuilds == Build
StagedBuild == {[direct |-> FALSE, bare |-> FALSE]}
DirectBuild == {[direct |-> TRUE, bare |-> FALSE]}
=============================================================================
