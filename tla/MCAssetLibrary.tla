---------------------------- MODULE MCAssetLibrary ----------------------------
(* AssetLibrary with what TLC needs to check it on a small instance.        *)
EXTENDS AssetLibrary, TLC

(* Sessions, jobs and contents are interchangeable.                         *)
Symmetric == Permutations(Sessions) \cup Permutations(Jobs) \cup Permutations(Contents)

(* At most one file is lost or damaged at a time.                           *)
OneLoss == Cardinality(lost) <= 1

(* Behaviours have several jobs with results of one content, or results of  *)
(* several contents for one job.                                            *)
KeysInUse ==
    {k \in Keys : file[k] # "absent"}
    \cup {k \in Keys : Entered(k.job, k.index) /\ AssetKey(k.job, k.index) = k}
    \cup {PuttingKey(q) : q \in {p \in Sessions : session[p].at = "putting"}}

OneJobOrContent ==
    /\ OneLoss
    /\ \/ Cardinality({k.job : k \in KeysInUse}) <= 1
       \/ Cardinality({k.content : k \in KeysInUse}) <= 1
=============================================================================
