---------------------------- MODULE MCDurableTasks ----------------------------
(* Instances of DurableTasks for TLC.                                        *)
EXTENDS DurableTasks, TLC

(* Runners are interchangeable: they are only quantified over.               *)
Symmetry == Permutations(RunnerWorkers)
=============================================================================
