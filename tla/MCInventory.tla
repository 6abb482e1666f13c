---------------------------- MODULE MCInventory ----------------------------
(* Instances of Inventory for TLC.                                          *)
EXTENDS Inventory, TLC

(* Users, SKUs and batches are interchangeable: no definition tells them    *)
(* apart.                                                                   *)
Symmetric == Permutations(Users) \cup Permutations(Skus) \cup Permutations(Batches)

=============================================================================
