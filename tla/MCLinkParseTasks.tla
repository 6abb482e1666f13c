--------------------------- MODULE MCLinkParseTasks ---------------------------
(* LinkParseTasks with what TLC needs to check it on a small instance.      *)
EXTENDS LinkParseTasks, TLC

(* Requests are interchangeable, and so are competitors.                    *)
Symmetric == Permutations(Requests) \cup Permutations(Competitors)

(* Two requests that run a task together may fetch without end.             *)
FewFetches == \A t \in Tasks : fetches[t] <= MaxAttempts + 1
=============================================================================
