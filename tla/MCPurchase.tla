------------------------------ MODULE MCPurchase ------------------------------
(***************************************************************************)
(* Instances of Purchase for TLC.                                          *)
(***************************************************************************)
EXTENDS Purchase, TLC

PurchaseSymmetry == Permutations(Checkouts) \cup Permutations(Keys)
                      \cup Permutations(Cancels)

===============================================================================
