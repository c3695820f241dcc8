-------------------------------- MODULE Carts ---------------------------------
(***************************************************************************)
(* What the cart endpoints promise: every request acts on the carts at one *)
(* instant, or not at all.                                                 *)
(***************************************************************************)
EXTENDS Naturals

CONSTANTS Users, Sessions, Skus, MaxQuantity

VARIABLE cart       \* how many of each sku each owner has

Larger(a, b) == IF a >= b THEN a ELSE b

CartsInit == cart \in [Users \cup Sessions -> [Skus -> 0..MaxQuantity]]

Add(o, s, q) ==
    /\ cart[o][s] + q <= MaxQuantity
    /\ cart' = [cart EXCEPT ![o][s] = @ + q]

Change(o, s, q) ==
    /\ cart[o][s] > 0
    /\ cart' = [cart EXCEPT ![o][s] = q]

\* Clearing takes what it sees at one moment, and what comes later stays.
Clear(o, seen) ==
    cart' = [cart EXCEPT ![o] = [s \in Skus |-> IF s \in seen THEN 0 ELSE @[s]]]

\* Of the skus in `seen' the user has afterwards what the larger of the two
\* carts had, and the guest has none of them nor of those in `late'.
Merge(u, g, seen, late) ==
    cart' = [cart EXCEPT
                ![u] = [s \in Skus |->
                           IF s \in seen THEN Larger(@[s], cart[g][s]) ELSE @[s]],
                ![g] = [s \in Skus |-> IF s \in seen \cup late THEN 0 ELSE @[s]]]

CartsNext ==
    \/ \E o \in Users \cup Sessions, s \in Skus :
         \/ \E q \in 1..MaxQuantity : Add(o, s, q)
         \/ \E q \in 0..MaxQuantity : Change(o, s, q)
    \/ \E o \in Users \cup Sessions, seen \in SUBSET Skus : Clear(o, seen)
    \/ \E u \in Users, g \in Sessions, seen, late \in SUBSET Skus : Merge(u, g, seen, late)

CartsSpec == CartsInit /\ [][CartsNext]_cart

===============================================================================
