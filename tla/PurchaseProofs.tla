---------------------------- MODULE PurchaseProofs ----------------------------
(***************************************************************************)
(* Purchase refines Orders, so that what is proved of Orders holds of it;  *)
(* and what B2B holds, what the lines say and what is charged agree.  The  *)
(* invariant ties all three to the items that the attempt has read, which  *)
(* never change once it has reserved.  B2B's stock is never exceeded, and  *)
(* so no more is sold than there is.                                       *)
(***************************************************************************)
EXTENDS Purchase, OrdersProofs, SumLemmas

-------------------------------------------------------------------------------
(* Refinement: forget the items *)

\* Every step on items is a step of Orders or leaves its variables alone.
LEMMA PurchaseStepIsOrdersStep ==
    ASSUME [PurchaseNext]_purchaseVars
    PROVE  [Next]_vars
<1>1. CASE \/ \E b \in Buyers : CartChanges(b)
           \/ \E s \in Skus : PriceChanges(s)
           \/ \E r \in Checkouts : ReadCart(r)
           \/ UNCHANGED purchaseVars
  BY <1>1 DEF CartChanges, PriceChanges, ReadCart, purchaseVars
<1>2. CASE \E r \in Checkouts : ItemsStep(r) /\ UNCHANGED cancellationVars
  BY <1>2 DEF ItemsStep, RejectEmptyCart, ItemsRefused, PriceItems, HoldItems,
       CreateOrder, OtherCheckoutStep, CheckoutStep, CheckoutNext, Next
<1>3. CASE ReleaseStep /\ UNCHANGED checkoutVars
  BY <1>3 DEF ReleaseStep, CancellationNext, Next
<1>4. CASE OtherCancellationStep /\ UNCHANGED <<checkoutVars, itemVars>>
  BY <1>4 DEF OtherCancellationStep, CancellationNext, Next
<1>5. CASE (\E o \in OrderIds : Fulfil(o))
            /\ UNCHANGED <<inventoryVars, checkoutVars, cancellationVars, itemVars>>
  BY <1>5 DEF Next
<1> QED
  BY <1>1, <1>2, <1>3, <1>4, <1>5 DEF PurchaseNext

\* The purchase with items and money is a behaviour of the orders without them:
\* the cart, B2B's prices and the scarcity of its stock enable nothing new in
\* CheckoutService and CancelOrderService.
THEOREM PurchaseImplementsOrders == PurchaseSpec => Spec
<1>1. PurchaseInit => Init
  BY DEF PurchaseInit
<1> QED
  BY <1>1, PurchaseStepIsOrdersStep, PTL DEF PurchaseSpec, Spec

-------------------------------------------------------------------------------
(* The invariant *)

ItemsTypeOK ==
    /\ basket \in [Buyers -> Quantities]
    /\ price \in PriceLists
    /\ asked \in [Checkouts -> Quantities]
    /\ quoted \in [Checkouts -> PriceLists \cup {Nothing}]
    /\ amount \in [OrderIds -> Quantities]
    /\ lines \in [OrderIds -> [Skus -> [quantity : 0..MaxQuantity, unit_price : Nat]]]
    /\ DOMAIN total = OrderIds

\* Whoever names items to B2B, or has, has read them from the cart.
AskedBeforeReserving ==
    \A r \in Checkouts :
        \/ stage[r] \in {"reserving", "reserved", "inserting"}
        \/ r \in reserveCalls
        \/ Placed(r)
        => HasItems(r)

HeldIsAsked ==
    \A o \in OrderIds :
        /\ amount[o] \in {Nothing, asked[o]}
        /\ o \in holds <=> amount[o] # Nothing

LinesAreAsked == \A o \in OrderIds : Placed(o) => Sold(o) = asked[o]

ItemsInv ==
    /\ ItemsTypeOK
    /\ AskedBeforeReserving
    /\ HeldIsAsked
    /\ LinesAreAsked
    /\ TotalOfLines

\* An empty cart is a cart.
LEMMA NothingType == Nothing \in Quantities
BY PurchaseAssumption DEF Nothing, Quantities

\* Nothing asked, held or placed.
LEMMA InitItemsInv == PurchaseInit => ItemsInv
<1> SUFFICES ASSUME PurchaseInit PROVE ItemsInv
  OBVIOUS
<1>1. \A o \in OrderIds : ~Placed(o)
  BY DEF PurchaseInit, Init, StoreInit, Placed
<1>2. NoLines \in [Skus -> [quantity : 0..MaxQuantity, unit_price : Nat]]
  BY PurchaseAssumption DEF NoLines
<1>3. ItemsTypeOK
  BY <1>2, NothingType DEF PurchaseInit, ItemsTypeOK
<1>4. AskedBeforeReserving
  BY <1>1 DEF PurchaseInit, Init, CheckoutInit, AskedBeforeReserving, OrderIds
<1>5. HeldIsAsked
  BY DEF PurchaseInit, Init, InventoryInit, HeldIsAsked
<1> QED
  BY <1>1, <1>3, <1>4, <1>5 DEF ItemsInv, LinesAreAsked, TotalOfLines

\* Steps that touch neither items nor holds, place no order and bring no attempt
\* nearer to B2B.
LEMMA ItemsAloneInv ==
    ASSUME ItemsInv, UNCHANGED <<asked, quoted, amount, lines, total, holds>>,
           basket' \in [Buyers -> Quantities], price' \in PriceLists,
           \A o \in OrderIds : Placed(o)' => Placed(o),
           reserveCalls' \subseteq reserveCalls,
           \A r \in Checkouts :
               stage'[r] \in {"reserving", "reserved", "inserting"} =>
                   stage[r] \in {"reserving", "reserved", "inserting"}
    PROVE  ItemsInv'
<1>1. ItemsTypeOK'
  BY DEF ItemsInv, ItemsTypeOK
<1>2. AskedBeforeReserving'
  BY DEF ItemsInv, AskedBeforeReserving, HasItems, OrderIds
<1>3. HeldIsAsked'
  BY DEF ItemsInv, HeldIsAsked
<1>4. LinesAreAsked' /\ TotalOfLines'
  BY DEF ItemsInv, LinesAreAsked, TotalOfLines, Sold
<1> QED
  BY <1>1, <1>2, <1>3, <1>4 DEF ItemsInv

\* Reading the cart comes before anything that depends on what was read.
LEMMA ReadCartInv ==
    ASSUME IInv, ItemsInv, NEW r \in Checkouts, ReadCart(r)
    PROVE  ItemsInv'
<1>1. /\ asked' = [asked EXCEPT ![r] = basket[request[r].buyer]]
      /\ basket[request[r].buyer] \in Quantities
      /\ UNCHANGED <<vars, basket, price, quoted, amount, lines, total>>
  BY DEF ReadCart, IInv, TypeOK, StoreTypeOK, ItemsInv, ItemsTypeOK
<1>2. ~Placed(r) /\ r \notin reserveCalls /\ r \notin holds
  BY DEF ReadCart, IInv, CheckoutInv, PlacedByReplied, ReserveCallsOpen, HoldsWereReserved
<1>3. asked[r] = Nothing /\ stage[r] = "pricing"
  BY DEF ReadCart, HasItems
<1>4. ItemsTypeOK'
  BY <1>1 DEF ItemsInv, ItemsTypeOK
<1>5. AskedBeforeReserving'
  BY <1>1, <1>2, <1>3 DEF ItemsInv, ItemsTypeOK, AskedBeforeReserving, HasItems, vars,
       storeVars, checkoutVars, Placed
<1>6. HeldIsAsked'
  BY <1>1, <1>2, <1>3 DEF ItemsInv, ItemsTypeOK, HeldIsAsked, vars, inventoryVars,
       OrderIds
<1>7. LinesAreAsked' /\ TotalOfLines'
  BY <1>1, <1>2 DEF ItemsInv, ItemsTypeOK, LinesAreAsked, TotalOfLines, Sold, vars,
       storeVars, Placed, OrderIds
<1> QED
  BY <1>4, <1>5, <1>6, <1>7 DEF ItemsInv

\* Only an attempt with items sends its reserve call.
LEMMA PriceItemsInv ==
    ASSUME IInv, ItemsInv, NEW r \in Checkouts, PriceItems(r)
    PROVE  ItemsInv'
<1>1. /\ HasItems(r)
      /\ stage' = [stage EXCEPT ![r] = "reserving"]
      /\ reserveCalls' = reserveCalls \cup {r}
      /\ quoted' = [quoted EXCEPT ![r] = price]
      /\ UNCHANGED <<orders, holds, basket, price, asked, amount, lines, total>>
  BY DEF PriceItems, SendReserve, Goto, storeVars, inventoryVars
<1>2. ItemsTypeOK'
  BY <1>1 DEF ItemsInv, ItemsTypeOK
<1>3. AskedBeforeReserving'
  BY <1>1 DEF ItemsInv, AskedBeforeReserving, HasItems, Placed, IInv, TypeOK,
       CheckoutTypeOK
<1>4. HeldIsAsked' /\ LinesAreAsked' /\ TotalOfLines'
  BY <1>1 DEF ItemsInv, HeldIsAsked, LinesAreAsked, TotalOfLines, Sold, Placed
<1> QED
  BY <1>2, <1>3, <1>4 DEF ItemsInv

\* B2B sets aside what the attempt has read, or nothing.
LEMMA HoldItemsInv ==
    ASSUME IInv, ItemsInv, NEW r \in Checkouts, HoldItems(r)
    PROVE  ItemsInv'
<1>1. /\ r \in reserveCalls
      /\ reserveCalls' = reserveCalls \ {r}
      /\ holds' \in {holds, holds \cup {r}}
      /\ \/ r \in holds' /\ amount' = [amount EXCEPT ![r] = asked[r]]
         \/ r \notin holds' /\ UNCHANGED amount
      /\ UNCHANGED <<orders, stage, basket, price, asked, quoted, lines, total>>
  BY DEF HoldItems, B2BReserve, Reserve, storeVars
<1>2. HasItems(r)
  BY <1>1 DEF ItemsInv, AskedBeforeReserving
<1>3. ItemsTypeOK'
  BY <1>1 DEF ItemsInv, ItemsTypeOK, OrderIds
<1>4. AskedBeforeReserving'
  BY <1>1 DEF ItemsInv, AskedBeforeReserving, HasItems, Placed
<1>5. HeldIsAsked'
  BY <1>1, <1>2 DEF ItemsInv, ItemsTypeOK, HeldIsAsked, HasItems, OrderIds
<1>6. LinesAreAsked' /\ TotalOfLines'
  BY <1>1 DEF ItemsInv, LinesAreAsked, TotalOfLines, Sold, Placed
<1> QED
  BY <1>3, <1>4, <1>5, <1>6 DEF ItemsInv

\* The lines say what was read, and multiply out to what is charged: _create_items
\* makes no line for a sku of which there is none, which costs nothing.
LEMMA LinesOfAsked ==
    ASSUME ItemsTypeOK, NEW r \in Checkouts
    PROVE  /\ LinesOf(r) \in [Skus -> [quantity : 0..MaxQuantity, unit_price : Nat]]
           /\ [s \in Skus |-> LinesOf(r)[s].quantity] = asked[r]
           /\ TotalAmount(r) = SumFunction([s \in Skus |->
                                  LinesOf(r)[s].quantity * LinesOf(r)[s].unit_price])
<1>1. ASSUME NEW s \in Skus
      PROVE  /\ asked[r][s] \in 0..MaxQuantity
             /\ quoted[r][s] \in Nat
             /\ LinesOf(r)[s] \in [quantity : 0..MaxQuantity, unit_price : Nat]
             /\ LinesOf(r)[s].quantity = asked[r][s]
             /\ LinesOf(r)[s].quantity * LinesOf(r)[s].unit_price = asked[r][s] * quoted[r][s]
  <2>1. asked[r][s] \in 0..MaxQuantity /\ quoted[r][s] \in Nat
    <3>1. asked[r] \in [Skus -> 0..MaxQuantity]
      BY DEF ItemsTypeOK, Quantities
    <3>2. quoted[r] \in [Skus -> Prices] \/ quoted[r] = [x \in Skus |-> 0]
      BY DEF ItemsTypeOK, PriceLists, Nothing
    <3>3. Prices \subseteq Nat
      BY PurchaseAssumption
    <3>4. CASE quoted[r] \in [Skus -> Prices]
      BY <3>1, <3>3, <3>4
    <3>5. CASE quoted[r] = [x \in Skus |-> 0]
      BY <3>1, <3>5
    <3> QED
      BY <3>2, <3>4, <3>5
  <2>2. CASE asked[r][s] = 0
    <3>1. LinesOf(r)[s] = [quantity |-> 0, unit_price |-> 0]
      BY <2>2 DEF LinesOf, NoLines
    <3>2. 0 * quoted[r][s] = 0
      BY <2>1
    <3> QED
      BY <2>1, <2>2, <3>1, <3>2, PurchaseAssumption
  <2>3. CASE asked[r][s] # 0
    <3>1. LinesOf(r)[s] = [quantity |-> asked[r][s], unit_price |-> quoted[r][s]]
      BY <2>3 DEF LinesOf
    <3> QED
      BY <2>1, <3>1
  <2> QED
    BY <2>2, <2>3
<1>2. LinesOf(r) \in [Skus -> [quantity : 0..MaxQuantity, unit_price : Nat]]
  BY <1>1 DEF LinesOf
<1>3. [s \in Skus |-> LinesOf(r)[s].quantity] = asked[r]
  BY <1>1 DEF ItemsTypeOK, Quantities
<1>4. [s \in Skus |-> LinesOf(r)[s].quantity * LinesOf(r)[s].unit_price]
        = [s \in Skus |-> asked[r][s] * quoted[r][s]]
  BY <1>1
<1> QED
  BY <1>2, <1>3, <1>4 DEF TotalAmount

\* The order is written with the items that B2B was asked to set aside.
LEMMA CreateOrderInv ==
    ASSUME IInv, ItemsInv, NEW r \in Checkouts, CreateOrder(r)
    PROVE  ItemsInv'
<1>1. /\ stage[r] = "inserting"
      /\ stage' = [stage EXCEPT ![r] = "replied"]
      /\ orders' = [orders EXCEPT ![r] = "PAID"]
      /\ lines' = [lines EXCEPT ![r] = LinesOf(r)]
      /\ total' = [total EXCEPT ![r] = TotalAmount(r)]
      /\ UNCHANGED <<holds, reserveCalls, basket, price, asked, quoted, amount>>
  BY DEF CreateOrder, InsertOrder, ReplyWith, Goto, Place, inventoryVars
<1>2. /\ LinesOf(r) \in [Skus -> [quantity : 0..MaxQuantity, unit_price : Nat]]
      /\ [s \in Skus |-> LinesOf(r)[s].quantity] = asked[r]
      /\ TotalAmount(r) = SumFunction([s \in Skus |->
                             LinesOf(r)[s].quantity * LinesOf(r)[s].unit_price])
  BY LinesOfAsked DEF ItemsInv
<1>3. \A o \in OrderIds : o # r => /\ Placed(o)' = Placed(o)
                                   /\ lines'[o] = lines[o]
                                   /\ total'[o] = total[o]
  BY <1>1 DEF Placed, IInv, TypeOK, StoreTypeOK, ItemsInv, ItemsTypeOK
<1>4. lines'[r] = LinesOf(r) /\ total'[r] = TotalAmount(r)
  BY <1>1 DEF ItemsInv, ItemsTypeOK, OrderIds
<1>5. ItemsTypeOK'
  BY <1>1, <1>2 DEF ItemsInv, ItemsTypeOK
<1>6. AskedBeforeReserving'
  <2>1. HasItems(r)
    BY <1>1 DEF ItemsInv, AskedBeforeReserving
  <2> QED
    BY <1>1, <1>3, <2>1 DEF ItemsInv, AskedBeforeReserving, HasItems, OrderIds, IInv,
         TypeOK, CheckoutTypeOK
<1>7. HeldIsAsked'
  BY <1>1 DEF ItemsInv, HeldIsAsked
<1>8. LinesAreAsked'
  BY <1>1, <1>2, <1>3, <1>4 DEF ItemsInv, LinesAreAsked, Sold
<1>9. TotalOfLines'
  BY <1>2, <1>3, <1>4 DEF ItemsInv, TotalOfLines
<1> QED
  BY <1>5, <1>6, <1>7, <1>8, <1>9 DEF ItemsInv

\* What is held for an order is given back as a whole: the lines name all of it.
LEMMA GivenBackWhole ==
    ASSUME ItemsInv, NEW o \in OrderIds, Placed(o), GiveBack(o)
    PROVE  amount' = [amount EXCEPT ![o] = Nothing]
<1>1. \A s \in Skus : amount[o][s] \in Nat /\ amount[o][s] \in {0, lines[o][s].quantity}
  <2>1. amount[o] = Nothing \/ amount[o] = Sold(o)
    BY DEF ItemsInv, HeldIsAsked, LinesAreAsked
  <2>2. amount[o] \in [Skus -> Nat]
    BY PurchaseAssumption DEF ItemsInv, ItemsTypeOK, Quantities
  <2> QED
    BY <2>1, <2>2 DEF Nothing, Sold
<1>2. \A s \in Skus : Less(amount[o][s], lines[o][s].quantity) = 0
  <2>1. \A s \in Skus : lines[o][s].quantity \in Nat
    BY PurchaseAssumption DEF ItemsInv, ItemsTypeOK
  <2> QED
    BY <1>1, <2>1 DEF Less
<1> QED
  BY <1>2 DEF GiveBack, Nothing, ItemsInv, ItemsTypeOK

\* A release leaves nothing of the order held, and touches no row.
LEMMA GiveBackInv ==
    ASSUME ItemsInv, NEW o \in OrderIds, Placed(o), GiveBack(o),
           holds' = holds \ {o}, UNCHANGED <<orders, stage, reserveCalls>>
    PROVE  ItemsInv'
<1>1. amount' = [amount EXCEPT ![o] = Nothing]
  BY GivenBackWhole
<1>2. UNCHANGED <<basket, price, asked, quoted, lines, total>>
  BY DEF GiveBack
<1>3. ItemsTypeOK'
  BY <1>1, <1>2, NothingType DEF ItemsInv, ItemsTypeOK
<1>4. HeldIsAsked'
  BY <1>1, <1>2 DEF ItemsInv, ItemsTypeOK, HeldIsAsked
<1>5. AskedBeforeReserving' /\ LinesAreAsked' /\ TotalOfLines'
  BY <1>2 DEF ItemsInv, AskedBeforeReserving, HasItems, LinesAreAsked, TotalOfLines,
       Sold, Placed
<1> QED
  BY <1>3, <1>4, <1>5 DEF ItemsInv

\* A release that somebody waits for is of a placed order.
LEMMA CallsNamePlaced ==
    ASSUME IInv, NEW caller \in Cancels \cup Jobs, B2BUnreserve(caller)
    PROVE  CallOrder(caller) \in OrderIds /\ Placed(CallOrder(caller))
<1>1. CASE caller \in Jobs
  BY <1>1 DEF B2BUnreserve, CallOrder, IInv, TypeOK, CancellationTypeOK,
       CancelInv, UnreserveCallsOpen, JobInv, JobsAfterCancel, Placed,
       CancelAccepted, Unplaced
<1>2. CASE caller \notin Jobs
  BY <1>2 DEF B2BUnreserve, CallOrder, IInv, TypeOK, CancellationTypeOK,
       CancelInv, UnreserveCallsOpen, OpenCancelSound, Owns
<1> QED
  BY <1>1, <1>2

\* B2B is told to release placed orders only, in time or late.
LEMMA ReleaseStepInv ==
    ASSUME IInv, ItemsInv, ReleaseStep, UNCHANGED checkoutVars
    PROVE  ItemsInv'
<1>1. ASSUME NEW caller \in Cancels \cup Jobs, B2BUnreserve(caller),
             GiveBack(CallOrder(caller))
      PROVE  ItemsInv'
  <2>1. CallOrder(caller) \in OrderIds /\ Placed(CallOrder(caller))
    BY <1>1, CallsNamePlaced
  <2> QED
    BY <1>1, <2>1, GiveBackInv DEF B2BUnreserve, Unreserve, storeVars, checkoutVars
<1>2. ASSUME NEW o \in OrderIds, B2BUnreserveLate(o), GiveBack(o)
      PROVE  ItemsInv'
  <2>1. Placed(o)
    BY <1>2 DEF B2BUnreserveLate, IInv, StockInv, StragglersExplained
  <2> QED
    BY <1>2, <2>1, GiveBackInv DEF B2BUnreserveLate, Unreserve, storeVars, checkoutVars
<1> QED
  BY <1>1, <1>2 DEF ReleaseStep

\* No attempt comes nearer to its reserve call, or past it out of the blue.
LEMMA NoneNearer ==
    ASSUME IInv, NEW r \in Checkouts, OtherCheckoutStep(r)
    PROVE  \A q \in Checkouts :
               stage'[q] \in {"reserving", "reserved", "inserting"} =>
                   stage[q] \in {"reserving", "reserved", "inserting"}
<1>1. \E s \in Stages :
         /\ stage' = [stage EXCEPT ![r] = s]
         /\ s \in {"reserving", "reserved", "inserting"} =>
                stage[r] \in {"reserving", "reserved", "inserting"}
  BY DEF OtherCheckoutStep, RejectRequest, ReplyExisting, FindNoOrder, B2BRefuse,
       ReserveAnswered, ReserveUnavailable, ReplyRaced, FindNoneAgain, KeyConflict,
       CrashCheckout, ReplyWith, Goto, Stages, OpenStages, IInv, TypeOK, CheckoutTypeOK
<1> QED
  BY <1>1 DEF IInv, TypeOK, CheckoutTypeOK

\* Looks, answers and crashes of a checkout.
LEMMA OtherCheckoutStepInv ==
    ASSUME IInv, ItemsInv, NEW r \in Checkouts, OtherCheckoutStep(r), UNCHANGED itemVars
    PROVE  ItemsInv'
<1>1. UNCHANGED <<orders, holds>> /\ reserveCalls' \subseteq reserveCalls
  BY DEF OtherCheckoutStep, RejectRequest, ReplyExisting, FindNoOrder, B2BRefuse,
       ReserveAnswered, ReserveUnavailable, ReplyRaced, FindNoneAgain, KeyConflict,
       CrashCheckout, storeVars, inventoryVars
<1>2. \A q \in Checkouts :
         stage'[q] \in {"reserving", "reserved", "inserting"} =>
             stage[q] \in {"reserving", "reserved", "inserting"}
  BY NoneNearer
<1> QED
  BY <1>1, <1>2, ItemsAloneInv DEF itemVars, Placed, ItemsInv, ItemsTypeOK

\* An attempt that ends before its reserve call.
LEMMA GiveUpPricingInv ==
    ASSUME IInv, ItemsInv, NEW r \in Checkouts, GiveUpPricing(r), UNCHANGED itemVars
    PROVE  ItemsInv'
<1>1. UNCHANGED <<orders, holds, reserveCalls>>
  BY DEF GiveUpPricing, storeVars, inventoryVars
<1>2. \A q \in Checkouts :
         stage'[q] \in {"reserving", "reserved", "inserting"} =>
             stage[q] \in {"reserving", "reserved", "inserting"}
  BY DEF GiveUpPricing, Goto, IInv, TypeOK, CheckoutTypeOK
<1> QED
  BY <1>1, <1>2, ItemsAloneInv DEF itemVars, Placed, ItemsInv, ItemsTypeOK

\* Nothing but a checkout's insert makes an order.
LEMMA NothingPlaced ==
    ASSUME IInv, [Next]_vars, UNCHANGED checkoutVars
    PROVE  \A o \in OrderIds : Placed(o)' => Placed(o)
<1>1. CASE UNCHANGED <<orders, reply>>
  BY <1>1 DEF Placed
<1>2. CASE \E r \in Checkouts, o \in OrderIds : Returns(r, o)
  BY <1>2 DEF Returns, Placed
<1>3. CASE \E r \in Checkouts : InsertOrder(r)
  BY <1>3 DEF InsertOrder, ReplyWith, Goto, checkoutVars, IInv, TypeOK, CheckoutTypeOK
<1>4. CASE \E o \in OrderIds, new \in OrderStatus : Writes(o, new)
  BY <1>4 DEF Writes, Placed, IInv, TypeOK, StoreTypeOK
<1> QED
  BY <1>1, <1>2, <1>3, <1>4, StepShape

\* Steps of cancellations and jobs other than B2B's release.
LEMMA OtherCancellationStepInv ==
    ASSUME IInv, ItemsInv, OtherCancellationStep, UNCHANGED <<checkoutVars, itemVars>>
    PROVE  ItemsInv'
<1>1. UNCHANGED holds
  BY DEF OtherCancellationStep, CancelStep, JobStep, RejectCancel, OrderNotFound,
       CancelNotAllowed, BeginCancel, FinishCancel, PostponeCancel, CrashCancel,
       StartRetry, RetryOrder, RetryAnswered, RetryUnavailable, SettleRetry, EndRetry,
       CrashRetry, inventoryVars
<1>2. [Next]_vars
  BY DEF OtherCancellationStep, CancellationNext, Next
<1> QED
  BY <1>1, <1>2, NothingPlaced, ItemsAloneInv
     DEF itemVars, checkoutVars, ItemsInv, ItemsTypeOK

\* ItemsInv is inductive relative to IInv.
LEMMA PurchaseStepInv ==
    ASSUME IInv, ItemsInv, [PurchaseNext]_purchaseVars
    PROVE  ItemsInv'
<1>0. [Next]_vars
  BY PurchaseStepIsOrdersStep
<1>1. ASSUME NEW b \in Buyers, CartChanges(b) PROVE ItemsInv'
  <2>1. basket' \in [Buyers -> Quantities]
    <3>1. basket \in [Buyers -> [Skus -> 0..MaxQuantity]]
      BY DEF ItemsInv, ItemsTypeOK, Quantities
    <3>2. ASSUME NEW s \in Skus, NEW q \in 0..MaxQuantity,
                 \/ basket' = [basket EXCEPT ![b][s] = @ + q] /\ basket[b][s] + q <= MaxQuantity
                 \/ basket' = [basket EXCEPT ![b][s] = q]
          PROVE  basket' \in [Buyers -> [Skus -> 0..MaxQuantity]]
      <4>1. basket[b][s] \in 0..MaxQuantity /\ MaxQuantity \in Nat
        BY <3>1, PurchaseAssumption
      <4>2. PICK n \in 0..MaxQuantity : basket' = [basket EXCEPT ![b][s] = n]
        BY <3>2, <4>1
      <4> QED
        BY <3>1, <4>2
    <3>3. ASSUME NEW gone \in SUBSET Skus, Basket!Clear(b, gone)
          PROVE  basket' \in [Buyers -> [Skus -> 0..MaxQuantity]]
      <4> DEFINE left == [s \in Skus |-> IF s \in gone THEN 0 ELSE basket[b][s]]
      <4>1. left \in [Skus -> 0..MaxQuantity]
        BY <3>1, PurchaseAssumption
      <4>2. basket' = [basket EXCEPT ![b] = left]
        BY <3>1, <3>3 DEF Basket!Clear
      <4> HIDE DEF left
      <4> QED
        BY <3>1, <4>1, <4>2
    <3>4. ASSUME NEW s \in Skus, NEW q \in 1..MaxQuantity, Basket!Add(b, s, q)
          PROVE  basket' \in [Buyers -> [Skus -> 0..MaxQuantity]]
      <4>1. q \in 0..MaxQuantity
        BY PurchaseAssumption
      <4>2. /\ basket' = [basket EXCEPT ![b][s] = @ + q]
            /\ basket[b][s] + q <= MaxQuantity
        BY <3>4 DEF Basket!Add
      <4> QED
        BY <3>2, <4>1, <4>2
    <3>5. ASSUME NEW s \in Skus, NEW q \in 0..MaxQuantity, Basket!Change(b, s, q)
          PROVE  basket' \in [Buyers -> [Skus -> 0..MaxQuantity]]
      BY <3>2, <3>5 DEF Basket!Change
    <3> QED
      BY <1>1, <3>3, <3>4, <3>5 DEF CartChanges, Quantities
  <2> QED
    BY <1>1, <2>1, ItemsAloneInv DEF CartChanges, vars, storeVars, inventoryVars,
         checkoutVars, Placed, ItemsInv, ItemsTypeOK
<1>2. ASSUME NEW s \in Skus, PriceChanges(s) PROVE ItemsInv'
  <2>1. price' \in PriceLists
    BY <1>2 DEF PriceChanges, ItemsInv, ItemsTypeOK, PriceLists
  <2> QED
    BY <1>2, <2>1, ItemsAloneInv DEF PriceChanges, vars, storeVars, inventoryVars,
         checkoutVars, Placed, ItemsInv, ItemsTypeOK
<1>3. ASSUME NEW r \in Checkouts, ItemsStep(r) PROVE ItemsInv'
  BY <1>3, GiveUpPricingInv, PriceItemsInv, HoldItemsInv, CreateOrderInv,
     OtherCheckoutStepInv DEF ItemsStep, RejectEmptyCart, ItemsRefused
<1>4. CASE (\E o \in OrderIds : Fulfil(o))
            /\ UNCHANGED <<inventoryVars, checkoutVars, cancellationVars, itemVars>>
  BY <1>0, <1>4, NothingPlaced, ItemsAloneInv
     DEF inventoryVars, itemVars, checkoutVars, ItemsInv, ItemsTypeOK
<1>5. CASE UNCHANGED purchaseVars
  BY <1>5, ItemsAloneInv DEF purchaseVars, itemVars, vars, storeVars, inventoryVars,
     checkoutVars, Placed, ItemsInv, ItemsTypeOK
<1> QED
  BY <1>1, <1>2, <1>3, <1>4, <1>5, ReadCartInv, ReleaseStepInv, OtherCancellationStepInv
     DEF PurchaseNext

\* What B2B was asked for, what it holds, the order's lines and its total agree in
\* every state, for any attempts and skus (ItemsInv).
THEOREM ItemsInvariance == PurchaseSpec => [](IInv /\ ItemsInv)
BY PurchaseImplementsOrders, Invariance, InitItemsInv, PurchaseStepInv, PTL
   DEF PurchaseSpec

-------------------------------------------------------------------------------
(* What follows *)

\* B2B holds all of an order or nothing of it, for any number of attempts, skus and
\* items, whatever becomes of the cart (HoldMatchesOrder).
THEOREM HoldSafety == PurchaseSpec => []HoldMatchesOrder
<1>1. ItemsInv => HoldMatchesOrder
  BY DEF ItemsInv, AskedBeforeReserving, HeldIsAsked, LinesAreAsked, HoldMatchesOrder,
       HasItems, OrderIds
<1> QED
  BY <1>1, ItemsInvariance, PTL

\* What the buyer is charged is the sum of the order's lines, however the prices
\* move (TotalOfLines).
THEOREM TotalSafety == PurchaseSpec => []TotalOfLines
<1>1. ItemsInv => TotalOfLines
  BY DEF ItemsInv
<1> QED
  BY <1>1, ItemsInvariance, PTL

-------------------------------------------------------------------------------
(* What B2B holds in all *)

HoldsFitStock == \A s \in Skus : HeldOf(s) <= Stock

TotalsTyped == total \in [OrderIds -> Nat]

\* What is held of a sku is a sum of naturals over the order ids.
LEMMA SumOfAmounts ==
    ASSUME NEW a \in [OrderIds -> Quantities], NEW s \in Skus
    PROVE  /\ IsFiniteSet(OrderIds)
           /\ \A o \in OrderIds : a[o][s] \in Nat
           /\ SumFunction([o \in OrderIds |-> a[o][s]])
                = SumFunctionOnSet([o \in OrderIds |-> a[o][s]], OrderIds)
           /\ SumFunction([o \in OrderIds |-> a[o][s]]) \in Nat
<1>1. IsFiniteSet(OrderIds)
  BY PurchaseAssumption DEF OrderIds
<1>2. \A o \in OrderIds : a[o][s] \in Nat
  BY PurchaseAssumption DEF Quantities
<1>3. SumFunction([o \in OrderIds |-> a[o][s]])
        = SumFunctionOnSet([o \in OrderIds |-> a[o][s]], OrderIds)
  BY DEF SumFunction
<1> QED
  BY <1>1, <1>2, <1>3, SumIsNatural

\* The same of what B2B holds now.
LEMMA HeldTyped ==
    ASSUME ItemsTypeOK, NEW s \in Skus
    PROVE  /\ IsFiniteSet(OrderIds)
           /\ \A o \in OrderIds : amount[o][s] \in Nat
           /\ HeldOf(s) = SumFunctionOnSet([o \in OrderIds |-> amount[o][s]], OrderIds)
           /\ HeldOf(s) \in Nat
BY SumOfAmounts DEF ItemsTypeOK, HeldOf

\* Nothing is held or charged at first.
LEMMA InitHoldsFit == PurchaseInit => HoldsFitStock /\ TotalsTyped
<1> SUFFICES ASSUME PurchaseInit PROVE HoldsFitStock /\ TotalsTyped
  OBVIOUS
<1>1. ASSUME NEW s \in Skus PROVE HeldOf(s) <= Stock
  <2>1. \A o \in OrderIds : [p \in OrderIds |-> amount[p][s]][o] = 0
    BY DEF PurchaseInit, Nothing
  <2>2. HeldOf(s) = 0
    BY <2>1, SumOfZeros, PurchaseAssumption DEF HeldOf, SumFunction, OrderIds
  <2> QED
    BY <2>2, PurchaseAssumption
<1>2. TotalsTyped
  BY DEF PurchaseInit, TotalsTyped
<1> QED
  BY <1>1, <1>2 DEF HoldsFitStock

\* B2B sets aside no more than it has left.
LEMMA HoldItemsFits ==
    ASSUME IInv, ItemsInv, ItemsInv', HoldsFitStock, NEW r \in Checkouts, HoldItems(r)
    PROVE  HoldsFitStock'
<1>1. CASE UNCHANGED amount
  BY <1>1 DEF HoldsFitStock, HeldOf
<1>2. CASE /\ \A s \in Skus : HeldOf(s) + asked[r][s] <= Stock
           /\ amount' = [amount EXCEPT ![r] = asked[r]]
  <2> SUFFICES ASSUME NEW s \in Skus PROVE HeldOf(s)' <= Stock
    BY DEF HoldsFitStock
  <2> DEFINE f == [o \in OrderIds |-> amount[o][s]]
             g == [o \in OrderIds |-> amount'[o][s]]
  <2>1. /\ IsFiniteSet(OrderIds) /\ r \in OrderIds
        /\ \A o \in OrderIds : f[o] \in Nat
        /\ HeldOf(s) = SumFunctionOnSet(f, OrderIds) /\ HeldOf(s) \in Nat
    BY HeldTyped DEF ItemsInv, OrderIds
  <2>2. /\ \A o \in OrderIds : g[o] \in Nat
        /\ HeldOf(s)' = SumFunctionOnSet(g, OrderIds) /\ HeldOf(s)' \in Nat
    <3>1. amount' \in [OrderIds -> Quantities]
      BY DEF ItemsInv, ItemsTypeOK
    <3> QED
      BY <3>1, SumOfAmounts DEF HeldOf
  <2>3. g[r] = asked[r][s] /\ \A o \in OrderIds \ {r} : g[o] = f[o]
    BY <1>2, <2>1 DEF ItemsInv, ItemsTypeOK
  <2> HIDE DEF f, g
  <2>4. HeldOf(s)' + f[r] = HeldOf(s) + g[r]
    BY <2>1, <2>2, <2>3, SumOfChanged
  <2>5. HeldOf(s) + g[r] <= Stock
    BY <1>2, <2>3
  <2> QED
    BY <2>1, <2>2, <2>4, <2>5, PurchaseAssumption
<1> QED
  BY <1>1, <1>2 DEF HoldItems

\* A release never adds to what is held.
LEMMA GiveBackFits ==
    ASSUME ItemsInv, ItemsInv', HoldsFitStock, NEW o \in OrderIds, GiveBack(o)
    PROVE  HoldsFitStock'
<1> SUFFICES ASSUME NEW s \in Skus PROVE HeldOf(s)' <= Stock
  BY DEF HoldsFitStock
<1> DEFINE f == [p \in OrderIds |-> amount[p][s]]
           g == [p \in OrderIds |-> amount'[p][s]]
<1>1. /\ IsFiniteSet(OrderIds)
      /\ \A p \in OrderIds : f[p] \in Nat
      /\ HeldOf(s) = SumFunctionOnSet(f, OrderIds) /\ HeldOf(s) \in Nat
  BY HeldTyped DEF ItemsInv
<1>2. /\ \A p \in OrderIds : g[p] \in Nat
      /\ HeldOf(s)' = SumFunctionOnSet(g, OrderIds) /\ HeldOf(s)' \in Nat
  <2>1. amount' \in [OrderIds -> Quantities]
    BY DEF ItemsInv, ItemsTypeOK
  <2> QED
    BY <2>1, SumOfAmounts DEF HeldOf
<1>3. \A p \in OrderIds : g[p] <= f[p]
  <2>1. g[o] = Less(amount[o][s], lines[o][s].quantity)
    BY DEF GiveBack, ItemsInv, ItemsTypeOK
  <2>2. lines[o][s].quantity \in Nat
    BY PurchaseAssumption DEF ItemsInv, ItemsTypeOK
  <2>3. g[o] <= f[o]
    BY <1>1, <2>1, <2>2 DEF Less
  <2>4. \A p \in OrderIds \ {o} : g[p] = f[p]
    BY DEF GiveBack, ItemsInv, ItemsTypeOK
  <2> QED
    BY <1>1, <2>3, <2>4
<1> HIDE DEF f, g
<1>4. HeldOf(s)' <= HeldOf(s)
  BY <1>1, <1>2, <1>3, SumMonotone
<1> QED
  BY <1>1, <1>2, <1>4, PurchaseAssumption DEF HoldsFitStock

\* A total is a sum of naturals.
LEMMA TotalTyped ==
    ASSUME ItemsTypeOK, NEW r \in Checkouts
    PROVE  TotalAmount(r) \in Nat
<1> DEFINE f == [s \in Skus |-> LinesOf(r)[s].quantity * LinesOf(r)[s].unit_price]
<1>1. TotalAmount(r) = SumFunctionOnSet(f, Skus)
  BY LinesOfAsked DEF SumFunction
<1>2. ASSUME NEW s \in Skus PROVE f[s] \in Nat
  <2>1. LinesOf(r)[s].quantity \in Nat /\ LinesOf(r)[s].unit_price \in Nat
    <3>1. LinesOf(r) \in [Skus -> [quantity : 0..MaxQuantity, unit_price : Nat]]
      BY LinesOfAsked
    <3>2. LinesOf(r)[s] \in [quantity : 0..MaxQuantity, unit_price : Nat]
      BY <3>1
    <3> QED
      BY <3>2, PurchaseAssumption
  <2>2. \A m, n \in Nat : m * n \in Nat
    OBVIOUS
  <2> QED
    BY <2>1, <2>2
<1> HIDE DEF f
<1> QED
  BY <1>1, <1>2, SumIsNatural, PurchaseAssumption

\* No step holds more than the stock or makes a total of anything but naturals.
LEMMA PurchaseStepFits ==
    ASSUME IInv, ItemsInv, ItemsInv', HoldsFitStock, TotalsTyped,
           [PurchaseNext]_purchaseVars
    PROVE  HoldsFitStock' /\ TotalsTyped'
<1>1. ASSUME UNCHANGED amount PROVE HoldsFitStock'
  BY <1>1 DEF HoldsFitStock, HeldOf
<1>2. ASSUME UNCHANGED total PROVE TotalsTyped'
  BY <1>2 DEF TotalsTyped
<1>3. CASE \E r \in Checkouts : HoldItems(r)
  BY <1>2, <1>3, HoldItemsFits DEF HoldItems
<1>4. CASE \E r \in Checkouts : CreateOrder(r)
  <2>1. PICK r \in Checkouts : CreateOrder(r)
    BY <1>4
  <2>2. TotalsTyped'
    BY <2>1, TotalTyped DEF CreateOrder, TotalsTyped, ItemsInv
  <2> QED
    BY <1>1, <2>1, <2>2 DEF CreateOrder
<1>5. CASE \E o \in OrderIds : GiveBack(o)
  BY <1>2, <1>5, GiveBackFits DEF GiveBack
<1>6. CASE UNCHANGED <<amount, total>>
  BY <1>1, <1>2, <1>6
<1>7. CASE \E r \in Checkouts : ItemsStep(r)
  BY <1>3, <1>4, <1>6, <1>7 DEF ItemsStep, RejectEmptyCart, ItemsRefused, PriceItems,
     itemVars
<1>8. CASE ReleaseStep
  <2>1. \A caller \in Cancels \cup Jobs :
           B2BUnreserve(caller) => CallOrder(caller) \in OrderIds
    BY CallsNamePlaced
  <2> QED
    BY <1>5, <1>8, <2>1 DEF ReleaseStep
<1> QED
  BY <1>6, <1>7, <1>8 DEF PurchaseNext, CartChanges, PriceChanges, ReadCart, itemVars,
     purchaseVars

\* The invariants of items, stock and totals together.
LEMMA FitInvariance == PurchaseSpec => [](IInv /\ ItemsInv /\ HoldsFitStock /\ TotalsTyped)
<1>1. PurchaseInit => HoldsFitStock /\ TotalsTyped
  BY InitHoldsFit
<1> QED
  BY <1>1, ItemsInvariance, PurchaseStepFits, PTL DEF PurchaseSpec

\* Carts, prices, lines and totals are what their columns hold, the totals for any
\* number of items and any prices (PurchaseTypeOK).
THEOREM PurchaseTypeCorrectness == PurchaseSpec => []PurchaseTypeOK
<1>1. IInv /\ ItemsInv /\ TotalsTyped => PurchaseTypeOK
  BY DEF IInv, ItemsInv, ItemsTypeOK, TotalsTyped, PurchaseTypeOK
<1> QED
  BY <1>1, FitInvariance, PTL

\* What is promised to buyers is among what B2B holds, sku by sku.
LEMMA PromisedIsHeld ==
    ASSUME IInv, ItemsInv, ~ReplayByKey, NEW s \in Skus
    PROVE  SumFunction([o \in Promised |-> Sold(o)[s]]) <= HeldOf(s)
<1> DEFINE f == [o \in Promised |-> Sold(o)[s]]
           g == [o \in OrderIds |-> amount[o][s]]
<1>1. Promised \in SUBSET OrderIds
  BY DEF Promised
<1>2. /\ IsFiniteSet(OrderIds)
      /\ \A o \in OrderIds : g[o] \in Nat
      /\ HeldOf(s) = SumFunctionOnSet(g, OrderIds)
  BY HeldTyped DEF ItemsInv
<1>3. ASSUME NEW o \in Promised PROVE f[o] \in Nat /\ f[o] <= g[o]
  <2>1. o \in OrderIds /\ Placed(o)
    BY DEF Promised, Placed
  <2>2. o \in holds
    BY <2>1 DEF Promised, IInv, StockInv, StockBehindOrder
  <2>3. amount[o] = Sold(o)
    BY <2>1, <2>2 DEF ItemsInv, HeldIsAsked, LinesAreAsked
  <2> QED
    BY <1>2, <2>1, <2>3
<1>4. SumFunction(f) = SumFunctionOnSet(f, Promised)
  BY DEF SumFunction
<1>5. SumFunction(f) <= HeldOf(s)
  <2> HIDE DEF f, g
  <2> QED
    BY <1>1, <1>2, <1>3, <1>4, SumMonotone
<1> QED
  BY <1>5

\* Nothing is sold twice, for any number of buyers, attempts and skus, whatever calls
\* are lost, late or repeated (NoOversell).
THEOREM NothingOversold == PurchaseSpec => []NoOversell
<1>1. IInv /\ ItemsInv /\ HoldsFitStock => NoOversell
  <2> SUFFICES ASSUME IInv, ItemsInv, HoldsFitStock, ~ReplayByKey, NEW s \in Skus
               PROVE  SumFunction([o \in Promised |-> Sold(o)[s]]) <= Stock
    BY DEF NoOversell
  <2>1. SumFunction([o \in Promised |-> Sold(o)[s]]) \in Nat
    <3> DEFINE f == [o \in Promised |-> Sold(o)[s]]
    <3>1. Promised \in SUBSET OrderIds /\ IsFiniteSet(OrderIds)
      BY HeldTyped DEF Promised, ItemsInv
    <3>2. IsFiniteSet(Promised)
      BY <3>1, FS_Subset
    <3>3. \A o \in Promised : f[o] \in Nat
      BY <3>1, PurchaseAssumption DEF ItemsInv, ItemsTypeOK, Sold
    <3>4. SumFunction(f) = SumFunctionOnSet(f, Promised)
      BY DEF SumFunction
    <3> HIDE DEF f
    <3>5. SumFunction(f) \in Nat
      BY <3>2, <3>3, <3>4, SumIsNatural
    <3> QED
      BY <3>5 DEF f
  <2>2. HeldOf(s) \in Nat /\ HeldOf(s) <= Stock
    BY HeldTyped DEF ItemsInv, HoldsFitStock
  <2> QED
    BY <2>1, <2>2, PromisedIsHeld, PurchaseAssumption
<1> QED
  BY <1>1, FitInvariance, PTL

===============================================================================
