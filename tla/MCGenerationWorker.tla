------------------------- MODULE MCGenerationWorker -------------------------
(* Instances of GenerationWorker for TLC.                                   *)
EXTENDS GenerationWorker, TLC

(* Workers and tasks are interchangeable: no definition tells them apart.   *)
Symmetric == Permutations(Workers) \cup Permutations(Tasks)

=============================================================================
