---------------------------- MODULE MCPauseResume ----------------------------
(* Instances of PauseResume for TLC.                                       *)
EXTENDS PauseResume, TLC

Symmetry == Permutations(Tasks)
=============================================================================
