----------------------- MODULE MCCompetitorMonitors -----------------------
(* Instances of CompetitorMonitors for TLC.                                 *)
EXTENDS CompetitorMonitors, TLC

(* No definition tells requests, results or competitors apart.              *)
Symmetric ==
    Permutations(Requests) \cup Permutations(Results) \cup Permutations(Competitors)

=============================================================================
