-------------------------------- MODULE Offers --------------------------------
(***************************************************************************)
(* What B2B's answer for the skus in a cart means to the cart (CartService *)
(* and the validate endpoint) and to the checkout (CheckoutService): which *)
(* items can be bought and what they cost.  The two read the same answer   *)
(* with code of their own.                                                 *)
(***************************************************************************)
EXTENDS Integers, Functions

CONSTANTS
    Skus,
    MaxQuantity,    \* bound on the quantity of one item
    Answers,        \* what B2B may answer about one sku
    None,           \* a sku that is missing, a field that is null: Python's None
    Absent          \* a field that is not there at all

Statuses == {"MODERATED", "ON_MODERATION", "BLOCKED", "HARD_BLOCKED"}

\* The fields of a product and of its sku that decide whether it can be bought
\* and for how much.
AnswerFields(Number) ==
    [status : Statuses \cup {None}, deleted : BOOLEAN,
     price : Number, discount : Number,
     available_quantity : Number, active_quantity : Number, activeQuantity : Number,
     quantity : Number]

ASSUME OffersAssumption ==
    /\ MaxQuantity \in Nat
    /\ Answers \subseteq AnswerFields(Int \cup {None, Absent})
    /\ None \notin Answers

VARIABLES
    items,      \* the quantity of each sku in the cart, 0 without a row
    offer       \* what GET /products answers for each sku

offerVars == <<items, offer>>

-------------------------------------------------------------------------------
(* normalize_skus *)

Given(n) == n \notin {None, Absent}

Number(n) == IF Given(n) THEN n ELSE 0

\* Mutant: 0 is taken for no answer, as `or' does in Python.
QuantityByTruth(a) ==
    CASE Number(a.available_quantity) # 0 -> a.available_quantity
      [] Number(a.available_quantity) = 0 /\ Given(a.active_quantity) -> a.active_quantity
      [] OTHER -> a.activeQuantity

\* The first of three fields that B2B has filled in.
Quantity(a) ==
    CASE Given(a.available_quantity) -> a.available_quantity
      [] ~Given(a.available_quantity) /\ Given(a.active_quantity) -> a.active_quantity
      [] OTHER -> Number(a.activeQuantity)

Sku(a) ==
    [status |-> IF a.status = None THEN "MODERATED" ELSE a.status,
     deleted |-> a.deleted,
     price |-> Number(a.price),
     discount |-> Number(a.discount),
     available |-> Quantity(a)]

Known(s) == offer[s] # None

UnitPrice(s) ==
    LET sku == Sku(offer[s])
    IN  IF sku.price >= sku.discount THEN sku.price - sku.discount ELSE 0

InCart == {s \in Skus : items[s] > 0}

-------------------------------------------------------------------------------
(* The cart's reading *)

\* Mutant: only BLOCKED is looked for.
CartReasonOfBlocked(sku) ==
    CASE sku.deleted -> "PRODUCT_DELETED"
      [] ~sku.deleted /\ sku.status = "BLOCKED" -> "PRODUCT_BLOCKED"
      [] ~sku.deleted /\ sku.status = "ON_MODERATION" -> "ON_MODERATION"
      [] ~sku.deleted /\ sku.status \in {"MODERATED", "HARD_BLOCKED"} ->
            IF sku.available <= 0 THEN "OUT_OF_STOCK" ELSE "NONE"

\* CartService._unavailable_reason, "NONE" for None.
CartReason(sku) ==
    IF sku.deleted THEN "PRODUCT_DELETED"
    ELSE IF sku.status \in {"BLOCKED", "HARD_BLOCKED"} THEN "PRODUCT_BLOCKED"
    ELSE IF sku.status = "ON_MODERATION" THEN "ON_MODERATION"
    ELSE IF sku.available <= 0 THEN "OUT_OF_STOCK" ELSE "NONE"

IsAvailable(s) == Known(s) /\ CartReason(Sku(offer[s])) = "NONE"

AvailableQuantity(s) == IF Known(s) THEN Sku(offer[s]).available ELSE 0

Enough(s) == AvailableQuantity(s) >= items[s]

CartLines ==
    [s \in InCart |-> IF IsAvailable(s) THEN UnitPrice(s) * items[s] ELSE 0]

Subtotal == SumFunction(CartLines)

IsValid == \A s \in InCart : IsAvailable(s) /\ Enough(s)

CheckoutReady == IsValid /\ InCart # {}

CheckoutPayload == {s \in InCart : IsAvailable(s) /\ Enough(s)}

\* CartValidateController
Issues == {s \in InCart : ~IsAvailable(s) \/ ~Enough(s)}

-------------------------------------------------------------------------------
(* The checkout's reading *)

\* Mutant: any stock will do, however much is asked for.
CheckoutReasonOfAnyStock(sku, requested) ==
    IF sku.deleted THEN "PRODUCT_DELETED"
    ELSE IF sku.status \in {"BLOCKED", "HARD_BLOCKED"} THEN "PRODUCT_BLOCKED"
    ELSE IF sku.available <= 0 THEN "OUT_OF_STOCK" ELSE "NONE"

\* CheckoutService._unavailable_reason, "NONE" for None.
CheckoutReason(sku, requested) ==
    IF sku.deleted THEN "PRODUCT_DELETED"
    ELSE IF sku.status \in {"BLOCKED", "HARD_BLOCKED"} THEN "PRODUCT_BLOCKED"
    ELSE IF sku.available <= 0 THEN "OUT_OF_STOCK"
    ELSE IF sku.available < requested THEN "INSUFFICIENT_STOCK" ELSE "NONE"

FailedItems ==
    {s \in InCart : Known(s) => CheckoutReason(Sku(offer[s]), items[s]) # "NONE"}

OrderLines == [s \in InCart |-> UnitPrice(s) * items[s]]

TotalAmount == SumFunction(OrderLines)

-------------------------------------------------------------------------------
(* The cart's items change only past _validate_sku_for_quantity; B2B's offers *)
(* change at any time.                                                        *)

Addable(s, q) ==
    /\ IsAvailable(s)
    /\ AvailableQuantity(s) >= q

AddItem(s, q) ==
    /\ Addable(s, q)
    /\ items[s] + q <= MaxQuantity
    /\ items' = [items EXCEPT ![s] = @ + q]
    /\ UNCHANGED offer

UpdateItem(s, q) ==
    /\ Addable(s, q)
    /\ items[s] > 0
    /\ items' = [items EXCEPT ![s] = q]
    /\ UNCHANGED offer

RemoveItem(s) ==
    /\ items' = [items EXCEPT ![s] = 0]
    /\ UNCHANGED offer

OfferChanges(s) ==
    /\ \E a \in Answers \cup {None} : offer' = [offer EXCEPT ![s] = a]
    /\ UNCHANGED items

OffersInit ==
    /\ items = [s \in Skus |-> 0]
    /\ offer = [s \in Skus |-> None]

OffersNext ==
    \E s \in Skus :
        \/ \E q \in 1..MaxQuantity : AddItem(s, q) \/ UpdateItem(s, q)
        \/ RemoveItem(s)
        \/ OfferChanges(s)

OffersSpec == OffersInit /\ [][OffersNext]_offerVars

-------------------------------------------------------------------------------
(* Properties *)

OffersTypeOK ==
    /\ items \in [Skus -> 0..MaxQuantity]
    /\ offer \in [Skus -> Answers \cup {None}]
    /\ \A s \in Skus : Known(s) => Sku(offer[s]).available \in Int

\* The checkout keeps what the cart promised: with the same answer of B2B it
\* refuses no item that POST /cart/validate has no issue with, and a cart that
\* is checkout_ready is accepted for exactly the total it showed.
CheckoutKeepsPromise ==
    /\ FailedItems \subseteq Issues
    /\ CheckoutReady => FailedItems = {} /\ TotalAmount = Subtotal

\* The other way round: an add looks at the stock for its own quantity alone and
\* offers change, so that a cart may hold what cannot be had.  The checkout finds
\* every item that is short, and every other that POST /cart/validate has an issue
\* with or that GET /cart leaves out of its checkout payload, unless the cart's
\* only reason is a moderation.
OnlyModerationSlips ==
    /\ \A s \in InCart \ FailedItems : Enough(s)
    /\ \A s \in (Issues \cup (InCart \ CheckoutPayload)) \ FailedItems :
          CartReason(Sku(offer[s])) = "ON_MODERATION"

\* cart_service.py:40 tells the buyer that an item under moderation is not for
\* sale for now; the checkout sells only what the cart would sell.
SoldIsForSale ==
    FailedItems = {} => \A s \in InCart : IsAvailable(s)

===============================================================================
