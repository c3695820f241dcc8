-------------------------------- MODULE MCCart --------------------------------
(***************************************************************************)
(* Instances of Cart for TLC.                                              *)
(***************************************************************************)
EXTENDS CartInv, TLC

CartSymmetry == Permutations(Users) \cup Permutations(Sessions) \cup
                Permutations(Skus) \cup Permutations(Adds) \cup Permutations(Merges)
===============================================================================
