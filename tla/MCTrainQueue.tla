---------------------------- MODULE MCTrainQueue ----------------------------
(* Constants for checking TrainQueue with TLC.                             *)
EXTENDS TrainQueue, TLC

\* Processes are compared for equality only; requests are ordered.
Symmetry == Permutations(Procs)
=============================================================================
