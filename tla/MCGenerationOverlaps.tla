------------------------ MODULE MCGenerationOverlaps ------------------------
(* Instances of GenerationOverlaps for TLC.                                 *)
EXTENDS GenerationOverlaps, TLC

(* Workers and tasks are interchangeable: no definition tells them apart.   *)
Symmetric == Permutations(Workers) \cup Permutations(Tasks)

=============================================================================
