----------------------------- MODULE OffersProofs -----------------------------
(***************************************************************************)
(* The cart's promise to the checkout, for any skus, any quantities and any *)
(* numbers that B2B answers with.                                          *)
(***************************************************************************)
EXTENDS Offers, TLAPS

\* normalize_skus gives every answer an available quantity, whichever of the
\* three fields it has.
LEMMA QuantityIsInt == \A a \in Answers : Quantity(a) \in Int
<1> SUFFICES ASSUME NEW a \in Answers
             PROVE  Quantity(a) \in Int
  OBVIOUS
<1>1. /\ a.available_quantity \in Int \cup {None, Absent}
      /\ a.active_quantity \in Int \cup {None, Absent}
      /\ a.activeQuantity \in Int \cup {None, Absent}
  BY OffersAssumption DEF AnswerFields
<1>2. CASE Given(a.available_quantity)
  BY <1>1, <1>2 DEF Quantity, Given
<1>3. CASE ~Given(a.available_quantity) /\ Given(a.active_quantity)
  BY <1>1, <1>3 DEF Quantity, Given
<1>4. CASE ~Given(a.available_quantity) /\ ~Given(a.active_quantity)
  BY <1>1, <1>4 DEF Quantity, Number, Given
<1> QED
  BY <1>2, <1>3, <1>4

\* Of an item that the cart finds available the checkout finds nothing wrong but
\* a quantity above the stock.
LEMMA ReadingsAgree ==
    ASSUME NEW sku, sku.available \in Int, NEW q \in Int,
           CartReason(sku) = "NONE", sku.available >= q
    PROVE  CheckoutReason(sku, q) = "NONE"
<1>1. /\ ~sku.deleted
      /\ sku.status \notin {"BLOCKED", "HARD_BLOCKED"}
      /\ ~(sku.available <= 0)
  BY DEF CartReason
<1>2. ~(sku.available < q)
  OBVIOUS
<1> QED
  BY <1>1, <1>2 DEF CheckoutReason

\* Every cart holds quantities within bounds, and every answer is one of B2B's.
THEOREM OffersTypeCorrect == OffersSpec => []OffersTypeOK
<1> DEFINE Inv == /\ items \in [Skus -> 0..MaxQuantity]
                  /\ offer \in [Skus -> Answers \cup {None}]
<1>1. OffersInit => Inv
  BY OffersAssumption DEF OffersInit
<1>2. Inv /\ [OffersNext]_offerVars => Inv'
  <2> SUFFICES ASSUME Inv, [OffersNext]_offerVars
               PROVE  Inv'
    OBVIOUS
  <2>1. ASSUME NEW s \in Skus, NEW q \in 1..MaxQuantity, AddItem(s, q)
        PROVE  Inv'
    BY <2>1, OffersAssumption DEF AddItem
  <2>2. ASSUME NEW s \in Skus, NEW q \in 1..MaxQuantity, UpdateItem(s, q)
        PROVE  Inv'
    BY <2>2, OffersAssumption DEF UpdateItem
  <2>3. ASSUME NEW s \in Skus, RemoveItem(s)
        PROVE  Inv'
    BY <2>3, OffersAssumption DEF RemoveItem
  <2>4. ASSUME NEW s \in Skus, OfferChanges(s)
        PROVE  Inv'
    BY <2>4 DEF OfferChanges
  <2>5. CASE UNCHANGED offerVars
    BY <2>5 DEF offerVars
  <2> QED
    BY <2>1, <2>2, <2>3, <2>4, <2>5 DEF OffersNext
<1>3. Inv => OffersTypeOK
  BY QuantityIsInt DEF OffersTypeOK, Known, Sku
<1> QED
  BY <1>1, <1>2, <1>3, PTL DEF OffersSpec

\* The checkout refuses nothing that the cart shows as fine, and charges what the
\* cart shows (CheckoutKeepsPromise).
THEOREM PromiseKept == OffersSpec => []CheckoutKeepsPromise
<1>1. OffersTypeOK => CheckoutKeepsPromise
  <2> SUFFICES ASSUME OffersTypeOK
               PROVE  CheckoutKeepsPromise
    OBVIOUS
  <2>1. ASSUME NEW s \in InCart, IsAvailable(s), Enough(s)
        PROVE  s \notin FailedItems
    <3>1. /\ Known(s)
          /\ CartReason(Sku(offer[s])) = "NONE"
          /\ Sku(offer[s]).available >= items[s]
      BY <2>1 DEF IsAvailable, Enough, AvailableQuantity
    <3>2. Sku(offer[s]).available \in Int /\ items[s] \in Int
      BY <3>1, OffersAssumption DEF OffersTypeOK, InCart
    <3>3. CheckoutReason(Sku(offer[s]), items[s]) = "NONE"
      BY <3>1, <3>2, ReadingsAgree
    <3> QED
      BY <3>1, <3>3 DEF FailedItems
  <2>2. FailedItems \subseteq InCart
    BY DEF FailedItems
  <2>3. FailedItems \subseteq Issues
    BY <2>1, <2>2 DEF Issues
  <2>4. ASSUME CheckoutReady
        PROVE  FailedItems = {} /\ TotalAmount = Subtotal
    <3>1. \A s \in InCart : IsAvailable(s) /\ Enough(s)
      BY <2>4 DEF CheckoutReady, IsValid
    <3>2. FailedItems = {}
      BY <2>1, <2>2, <3>1
    <3>3. OrderLines = CartLines
      BY <3>1 DEF OrderLines, CartLines
    <3> QED
      BY <3>2, <3>3 DEF TotalAmount, Subtotal
  <2> QED
    BY <2>3, <2>4 DEF CheckoutKeepsPromise
<1> QED
  BY <1>1, OffersTypeCorrect, PTL

\* What is short, and whatever else the cart would not hand on, the checkout refuses,
\* a moderation aside (OnlyModerationSlips).
THEOREM SlipsAreModerated == OffersSpec => []OnlyModerationSlips
<1>1. OffersTypeOK => OnlyModerationSlips
  <2> SUFFICES ASSUME OffersTypeOK, NEW s \in InCart, s \notin FailedItems
               PROVE  /\ Enough(s)
                      /\ \/ IsAvailable(s)
                         \/ CartReason(Sku(offer[s])) = "ON_MODERATION"
    BY DEF OnlyModerationSlips, Issues, CheckoutPayload
  <2>1. Known(s) /\ CheckoutReason(Sku(offer[s]), items[s]) = "NONE"
    BY DEF FailedItems
  <2>2. Sku(offer[s]).available \in Int /\ items[s] \in Int
    BY <2>1, OffersAssumption DEF OffersTypeOK, InCart
  <2>3. /\ ~Sku(offer[s]).deleted
        /\ Sku(offer[s]).status \notin {"BLOCKED", "HARD_BLOCKED"}
        /\ ~(Sku(offer[s]).available <= 0)
        /\ ~(Sku(offer[s]).available < items[s])
    BY <2>1 DEF CheckoutReason
  <2>4. Enough(s)
    BY <2>1, <2>2, <2>3 DEF Enough, AvailableQuantity
  <2>5. CartReason(Sku(offer[s])) \in {"NONE", "ON_MODERATION"}
    BY <2>3 DEF CartReason
  <2> QED
    BY <2>1, <2>4, <2>5 DEF IsAvailable
<1> QED
  BY <1>1, OffersTypeCorrect, PTL

===============================================================================
