------------------------------- MODULE MCOffers -------------------------------
(***************************************************************************)
(* Instances of Offers and Catalog for TLC: answers with every status,     *)
(* with each of the numbers given, null and left out, a discount below and *)
(* above the price, and stock below zero, at zero and around the quantity  *)
(* of an item.                                                             *)
(***************************************************************************)
EXTENDS Catalog, TLC

Priced(status, deleted, price, discount) ==
    [status |-> status, deleted |-> deleted, price |-> price, discount |-> discount]

Stocked(available, active, active2, all) ==
    [available_quantity |-> available, active_quantity |-> active,
     activeQuantity |-> active2, quantity |-> all]

MCAnswers ==
    {Priced(st, d, 2, 1) @@ Stocked(2, Absent, Absent, 3) :
        st \in Statuses \cup {None}, d \in BOOLEAN}
      \cup {Priced(None, FALSE, 2, 3) @@ Stocked(q, 2, Absent, Absent) :
              q \in {-1, 0, 1, 2, None, Absent}}
      \cup {Priced("ON_MODERATION", FALSE, 2, None) @@ Stocked(Absent, q, 2, Absent) :
              q \in {0, 1, None, Absent}}
      \cup {Priced("MODERATED", FALSE, p, Absent) @@ Stocked(Absent, Absent, q, 2) :
              p \in {None, 1}, q \in {0, 1, None, Absent}}

OffersSymmetry == Permutations(Skus)
===============================================================================
