------------------------------- MODULE MCOrders -------------------------------
(***************************************************************************)
(* Instances of Orders for TLC.                                            *)
(***************************************************************************)
EXTENDS OrdersInv, TLC

RequestSymmetry == Permutations(Checkouts) \cup Permutations(Buyers)
                     \cup Permutations(Keys)

CallerSymmetry == RequestSymmetry \cup Permutations(Cancels) \cup Permutations(Jobs)
===============================================================================
