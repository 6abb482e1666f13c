----------------------------- MODULE MCMarketing -----------------------------
(* Instances of Marketing for TLC.                                          *)
EXTENDS Marketing, TLC

(* No definition tells sessions, texts or visitors apart.                   *)
Symmetric == Permutations(Sessions) \cup Permutations(Contents) \cup Permutations(Visitors)

(* Clicks meet edits of links and the generation of recommendations, but    *)
(* they read and write nothing of a decided recommendation or of an         *)
(* experiment: behaviours with both are cut off.                            *)
ClicksApart ==
    (\E r \in Recommendations : recommendation[r].version_no > 1) =>
        \A l \in Links : clicks[l] = <<>>
=============================================================================
