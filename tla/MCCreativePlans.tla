-------------------------- MODULE MCCreativePlans --------------------------
(* Instances of CreativePlans for TLC.                                      *)
EXTENDS CreativePlans, TLC

(* Users, plans, types, contents and jobs are interchangeable: no           *)
(* definition tells them apart.                                             *)
Symmetric ==
    Permutations(Users) \cup Permutations(Plans) \cup Permutations(Types)
        \cup Permutations(Contents) \cup Permutations(Jobs)

=============================================================================
