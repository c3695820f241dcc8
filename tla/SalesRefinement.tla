---------------------------- MODULE SalesRefinement ----------------------------
(***************************************************************************)
(* Purchase implements Sales: seen through B2B's stock and the committed   *)
(* rows, every step sets stock aside, sells it, takes it back, cancels, or *)
(* changes nothing.                                                        *)
(***************************************************************************)
EXTENDS PurchaseProofs

\* Whoever has sent its reserve call has B2B's prices for the order.
PricesQuoted ==
    \A r \in Checkouts :
        stage[r] \in {"reserving", "reserved", "inserting"} => quoted[r] \in PriceLists

SalesInv == IInv /\ ItemsInv /\ HoldsFitStock /\ TotalsTyped /\ PricesQuoted

\* Only PriceItems sends an attempt to reserve, with the prices it was given.
LEMMA StepQuoted ==
    ASSUME IInv, ItemsInv, PricesQuoted, [PurchaseNext]_purchaseVars
    PROVE  PricesQuoted'
<1>1. ASSUME UNCHANGED quoted,
             \A q \in Checkouts :
                 stage'[q] \in {"reserving", "reserved", "inserting"} =>
                     stage[q] \in {"reserving", "reserved", "inserting"}
      PROVE  PricesQuoted'
  BY <1>1 DEF PricesQuoted
<1>2. ASSUME NEW r \in Checkouts, PriceItems(r) PROVE PricesQuoted'
  BY <1>2 DEF PriceItems, SendReserve, Goto, PricesQuoted, ItemsInv, ItemsTypeOK, IInv,
     TypeOK, CheckoutTypeOK
<1>3. ASSUME NEW r \in Checkouts, ItemsStep(r) PROVE PricesQuoted'
  <2>1. CASE OtherCheckoutStep(r) /\ UNCHANGED itemVars
    BY <1>1, <2>1, NoneNearer DEF itemVars
  <2>2. CASE RejectEmptyCart(r) \/ ItemsRefused(r)
    BY <1>1, <2>2 DEF RejectEmptyCart, ItemsRefused, GiveUpPricing, Goto, itemVars, IInv,
       TypeOK, CheckoutTypeOK
  <2>3. CASE HoldItems(r)
    BY <1>1, <2>3 DEF HoldItems, B2BReserve
  <2>4. CASE CreateOrder(r)
    BY <1>1, <2>4 DEF CreateOrder, InsertOrder, ReplyWith, Goto, IInv, TypeOK,
       CheckoutTypeOK
  <2> QED
    BY <1>2, <1>3, <2>1, <2>2, <2>3, <2>4 DEF ItemsStep
<1>4. CASE UNCHANGED <<stage, quoted>>
  BY <1>1, <1>4
<1> QED
  BY <1>3, <1>4 DEF PurchaseNext, CartChanges, PriceChanges, ReadCart, ReleaseStep,
     GiveBack, vars, checkoutVars, itemVars, purchaseVars

\* What is known of the purchase in every state.
LEMMA SalesInvariance == PurchaseSpec => []SalesInv
<1>1. PurchaseInit => PricesQuoted
  BY DEF PurchaseInit, Init, CheckoutInit, PricesQuoted
<1>2. IInv /\ ItemsInv /\ HoldsFitStock /\ TotalsTyped /\ PricesQuoted
        /\ [PurchaseNext]_purchaseVars => PricesQuoted'
  BY StepQuoted
<1> QED
  BY <1>1, <1>2, FitInvariance, PTL DEF PurchaseSpec, SalesInv

-------------------------------------------------------------------------------
(* The steps of the sales *)

\* Nothing held, no rows: no bills.
LEMMA SalesInitRefined == PurchaseInit => Shop!SalesInit
<1> SUFFICES ASSUME PurchaseInit PROVE Shop!SalesInit
  OBVIOUS
<1>1. SaleStatuses = [o \in OrderIds |-> "OPEN"]
  <2>1. \A o \in OrderIds : orders[o] = Unplaced
    BY DEF PurchaseInit, Init, StoreInit
  <2>2. SaleStatus(Unplaced) = "OPEN"
    BY DEF SaleStatus, Unplaced
  <2> QED
    BY <2>1, <2>2 DEF SaleStatuses
<1>2. amount = [o \in OrderIds |-> Shop!Nothing]
  BY DEF PurchaseInit, Nothing, Shop!Nothing
<1>3. lines = [o \in OrderIds |-> Shop!Bill(Shop!Nothing, Shop!Nothing)]
  <2>1. NoLines = Shop!Bill(Shop!Nothing, Shop!Nothing)
    BY DEF NoLines, Shop!Bill, Shop!Line, Shop!Nothing
  <2>2. lines = [o \in OrderIds |-> NoLines]
    BY DEF PurchaseInit
  <2> QED
    BY <2>1, <2>2
<1>4. total = [o \in OrderIds |-> 0]
  BY DEF PurchaseInit
<1> QED
  BY <1>1, <1>2, <1>3, <1>4 DEF Shop!SalesInit

\* An id is open until it has a row.
LEMMA OpenIsUnplaced == \A o \in OrderIds : SaleStatuses[o] = "OPEN" <=> ~Placed(o)
BY DEF SaleStatuses, SaleStatus, Placed, Unplaced

\* The sales add up as the purchases do.
LEMMA SumsAgree == \A f : Shop!SumFunction(f) = SumFunction(f)
BY DEF SumFunction, SumFunctionOnSet, FoldFunctionOnSet, MapThenFoldSet,
   Shop!SumFunction, Shop!SumFunctionOnSet, Shop!FoldFunctionOnSet, Shop!MapThenFoldSet

\* A reserve call that B2B performs sets stock aside, or nothing.
LEMMA HoldItemsRefined ==
    ASSUME SalesInv, SalesInv', NEW r \in Checkouts, HoldItems(r)
    PROVE  Shop!SalesNext \/ UNCHANGED <<amount, SaleStatuses, lines, total>>
<1>1. UNCHANGED <<SaleStatuses, lines, total>>
  BY DEF HoldItems, B2BReserve, storeVars, SaleStatuses
<1>2. CASE UNCHANGED amount
  BY <1>1, <1>2
<1>3. CASE amount' = [amount EXCEPT ![r] = asked[r]]
  <2>1. r \in OrderIds /\ SaleStatuses[r] = "OPEN"
    BY OpenIsUnplaced DEF HoldItems, B2BReserve, SalesInv, IInv, CheckoutInv,
       ReserveCallsOpen, PlacedByReplied, OrderIds
  <2>2. amount[r] = Nothing
    BY <2>1 DEF HoldItems, B2BReserve, SalesInv, IInv, CheckoutInv, ReserveCallsOpen,
       ItemsInv, HeldIsAsked
  <2>3. asked[r] # Nothing /\ asked[r] \in Quantities
    BY DEF HoldItems, B2BReserve, SalesInv, ItemsInv, AskedBeforeReserving, HasItems,
       ItemsTypeOK
  <2>4. \A s \in Skus : Shop!SetAsideOf(s)' <= Stock
    BY SumsAgree DEF SalesInv, HoldsFitStock, HeldOf, Shop!SetAsideOf
  <2>5. Shop!SetAside(r)
    BY <1>1, <1>3, <2>1, <2>2, <2>3, <2>4 DEF Shop!SetAside, Nothing, Shop!Nothing,
       Quantities, Shop!Quantities
  <2> QED
    BY <2>1, <2>5 DEF Shop!SalesNext
<1> QED
  BY <1>2, <1>3 DEF HoldItems

\* An order is written with the bill for what its attempt asked, at B2B's prices.
LEMMA BillOfAsked ==
    ASSUME SalesInv, NEW r \in Checkouts
    PROVE  /\ Shop!Bill(asked[r], quoted[r]) = LinesOf(r)
           /\ Shop!AmountOf(LinesOf(r)) = TotalAmount(r)
<1>1. ASSUME NEW s \in Skus PROVE Shop!Line(asked[r][s], quoted[r][s]) = LinesOf(r)[s]
  BY DEF Shop!Line, LinesOf, NoLines
<1>2. [s \in Skus |-> Shop!Line(asked[r][s], quoted[r][s])] = LinesOf(r)
  BY <1>1 DEF LinesOf
<1>3. Shop!AmountOf(LinesOf(r)) = TotalAmount(r)
  BY LinesOfAsked, SumsAgree DEF Shop!AmountOf, SalesInv, ItemsInv
<1> QED
  BY <1>2, <1>3 DEF Shop!Bill

\* What the attempt asked is what may be sold under its id.
LEMMA AskedIsSellable ==
    ASSUME SalesInv, NEW r \in Checkouts, stage[r] = "inserting"
    PROVE  /\ asked[r] \in Shop!Sellable(r) \ {Shop!Nothing}
           /\ quoted[r] \in [Skus -> Prices]
<1>1. asked[r] # Nothing /\ asked[r] \in Quantities
  BY DEF SalesInv, ItemsInv, ItemsTypeOK, AskedBeforeReserving, HasItems
<1>2. amount[r] \in {Nothing, asked[r]} /\ (~ReplayByKey => amount[r] = asked[r])
  BY DEF SalesInv, IInv, StockInv, ReservedHolds, ItemsInv, HeldIsAsked, OrderIds
<1>3. quoted[r] \in [Skus -> Prices]
  BY DEF SalesInv, PricesQuoted, PriceLists
<1> QED
  BY <1>1, <1>2, <1>3 DEF Shop!Sellable, Nothing, Shop!Nothing, Quantities, Shop!Quantities

\* The commit of a new order writes its bill, for what was set aside.
LEMMA CreateOrderRefined ==
    ASSUME SalesInv, NEW r \in Checkouts, CreateOrder(r)
    PROVE  Shop!SalesNext
<1>0. /\ r \in OrderIds
      /\ stage[r] = "inserting"
      /\ orders \in [OrderIds -> OrderStatus \cup {Unplaced}]
      /\ DOMAIN lines = OrderIds
  BY DEF CreateOrder, InsertOrder, SalesInv, IInv, TypeOK, StoreTypeOK, ItemsInv,
     ItemsTypeOK, OrderIds
<1>1. /\ orders' = [orders EXCEPT ![r] = "PAID"]
      /\ lines' = [lines EXCEPT ![r] = LinesOf(r)]
      /\ total' = [total EXCEPT ![r] = TotalAmount(r)]
      /\ UNCHANGED amount
  BY DEF CreateOrder, InsertOrder, Place
<1>2. SaleStatuses[r] = "OPEN"
  BY <1>0, OpenIsUnplaced DEF SalesInv, IInv, CheckoutInv, PlacedByReplied
<1>3. SaleStatuses' = [SaleStatuses EXCEPT ![r] = "SOLD"]
  BY <1>0, <1>1 DEF SaleStatuses, SaleStatus, Unplaced
<1>4. /\ asked[r] \in Shop!Sellable(r) \ {Shop!Nothing}
      /\ quoted[r] \in [Skus -> Prices]
  BY <1>0, AskedIsSellable
<1>5. lines' = [lines EXCEPT ![r] = Shop!Bill(asked[r], quoted[r])]
  BY <1>1, BillOfAsked
<1>6. total' = [total EXCEPT ![r] = Shop!AmountOf(lines'[r])]
  <2>1. lines'[r] = LinesOf(r)
    BY <1>0, <1>1
  <2> QED
    BY <1>1, <2>1, BillOfAsked
<1>7. Shop!Sell(r)
  BY <1>1, <1>2, <1>3, <1>4, <1>5, <1>6 DEF Shop!Sell
<1> QED
  BY <1>0, <1>7 DEF Shop!SalesNext

\* A release takes back what is held for a placed order.
LEMMA ReleaseRefined ==
    ASSUME SalesInv, NEW o \in OrderIds, Placed(o), GiveBack(o), UNCHANGED orders
    PROVE  Shop!SalesNext
<1>1. amount' = [amount EXCEPT ![o] = Shop!Nothing]
  BY GivenBackWhole DEF SalesInv, Nothing, Shop!Nothing
<1>2. UNCHANGED <<SaleStatuses, lines, total>>
  BY DEF GiveBack, SaleStatuses
<1>3. Shop!TakeBack(o)
  BY <1>1, <1>2, OpenIsUnplaced DEF Shop!TakeBack
<1> QED
  BY <1>3 DEF Shop!SalesNext

\* A status is written over another: a cancellation, with the stock back, or
\* something that the sales do not see.
LEMMA WriteRefined ==
    ASSUME SalesInv, SalesInv', NEW o \in OrderIds, NEW new \in OrderStatus,
           Writes(o, new), UNCHANGED itemVars
    PROVE  Shop!SalesNext \/ UNCHANGED <<amount, SaleStatuses, lines, total>>
<1>0. orders \in [OrderIds -> OrderStatus \cup {Unplaced}]
  BY DEF SalesInv, IInv, TypeOK, StoreTypeOK
<1>1. /\ Placed(o)
      /\ new \in Successors[orders[o]]
      /\ orders' = [orders EXCEPT ![o] = new]
      /\ UNCHANGED <<amount, lines, total>>
  BY DEF Writes, itemVars
<1>2. SaleStatuses' = [SaleStatuses EXCEPT ![o] = SaleStatus(new)]
  BY <1>0, <1>1 DEF SaleStatuses
<1>3. SaleStatuses[o] = "SOLD"
  BY <1>0, <1>1 DEF SaleStatuses, SaleStatus, Placed, Successors, OrderStatus, Unplaced
<1>4. CASE new = "CANCELLED"
  <2>1. SaleStatus(new) = "CANCELLED"
    BY <1>4 DEF SaleStatus, Unplaced
  <2>2. amount[o] = Shop!Nothing
    <3>1. orders'[o] = "CANCELLED"
      BY <1>0, <1>1, <1>4
    <3>2. o \notin holds'
      BY <3>1 DEF SalesInv, IInv, JobInv, CancelledReleased
    <3>3. amount'[o] = Nothing
      BY <3>2 DEF SalesInv, ItemsInv, HeldIsAsked
    <3> QED
      BY <1>1, <3>3 DEF Nothing, Shop!Nothing
  <2>3. Shop!Cancel(o)
    BY <1>1, <1>2, <1>3, <2>1, <2>2 DEF Shop!Cancel
  <2> QED
    BY <2>3 DEF Shop!SalesNext
<1>5. CASE new # "CANCELLED"
  <2>1. SaleStatus(new) = "SOLD"
    BY <1>5 DEF SaleStatus, OrderStatus, Unplaced
  <2> QED
    BY <1>1, <1>2, <1>3, <2>1 DEF SaleStatuses
<1> QED
  BY <1>4, <1>5

\* Cancellations, jobs and fulfilment, where they leave the items alone, see to
\* statuses only.
LEMMA StatusStepRefined ==
    ASSUME SalesInv, SalesInv', [Next]_vars, UNCHANGED <<checkoutVars, itemVars>>
    PROVE  Shop!SalesNext \/ UNCHANGED <<amount, SaleStatuses, lines, total>>
<1>1. CASE UNCHANGED orders
  BY <1>1 DEF itemVars, SaleStatuses
<1>2. CASE \E o \in OrderIds, new \in OrderStatus : Writes(o, new)
  BY <1>2, WriteRefined
<1>3. CASE \E r \in Checkouts : InsertOrder(r) /\ ~Placed(r)
  BY <1>3, NothingPlaced DEF InsertOrder, Place, Placed, Unplaced, OrderIds, SalesInv,
     IInv, TypeOK, StoreTypeOK
<1> QED
  BY <1>1, <1>2, <1>3, StepShape DEF SalesInv, Returns

\* Every step of the purchase is a step of the sales or none.
LEMMA SalesStepRefined ==
    ASSUME SalesInv, SalesInv', [PurchaseNext]_purchaseVars
    PROVE  [Shop!SalesNext]_<<amount, SaleStatuses, lines, total>>
<1> DEFINE Goal == Shop!SalesNext \/ UNCHANGED <<amount, SaleStatuses, lines, total>>
<1>1. CASE UNCHANGED <<orders, amount, lines, total>>
  BY <1>1 DEF SaleStatuses
<1>2. ASSUME NEW r \in Checkouts, ItemsStep(r) PROVE Goal
  <2>1. CASE HoldItems(r)
    BY <2>1, HoldItemsRefined
  <2>2. CASE CreateOrder(r)
    BY <2>2, CreateOrderRefined
  <2>3. CASE \/ RejectEmptyCart(r)
             \/ ItemsRefused(r)
             \/ PriceItems(r)
             \/ OtherCheckoutStep(r) /\ UNCHANGED itemVars
    BY <1>1, <2>3 DEF RejectEmptyCart, ItemsRefused, GiveUpPricing, PriceItems,
       SendReserve, OtherCheckoutStep, RejectRequest, ReplyExisting, FindNoOrder,
       B2BRefuse, ReserveAnswered, ReserveUnavailable, ReplyRaced, FindNoneAgain,
       KeyConflict, CrashCheckout, storeVars, itemVars
  <2> QED
    BY <1>2, <2>1, <2>2, <2>3 DEF ItemsStep
<1>3. CASE ReleaseStep
  <2>1. ASSUME NEW caller \in Cancels \cup Jobs, B2BUnreserve(caller),
               GiveBack(CallOrder(caller))
        PROVE  Goal
    <3>1. CallOrder(caller) \in OrderIds /\ Placed(CallOrder(caller))
      BY <2>1, CallsNamePlaced DEF SalesInv
    <3> QED
      BY <2>1, <3>1, ReleaseRefined DEF B2BUnreserve, storeVars
  <2>2. ASSUME NEW o \in OrderIds, B2BUnreserveLate(o), GiveBack(o)
        PROVE  Goal
    <3>1. Placed(o)
      BY <2>2 DEF B2BUnreserveLate, SalesInv, IInv, StockInv, StragglersExplained
    <3> QED
      BY <2>2, <3>1, ReleaseRefined DEF B2BUnreserveLate, storeVars
  <2> QED
    BY <1>3, <2>1, <2>2 DEF ReleaseStep
<1>4. CASE OtherCancellationStep /\ UNCHANGED <<checkoutVars, itemVars>>
  BY <1>4, PurchaseStepIsOrdersStep, StatusStepRefined
<1>5. CASE (\E o \in OrderIds : Fulfil(o))
            /\ UNCHANGED <<inventoryVars, checkoutVars, cancellationVars, itemVars>>
  BY <1>5, PurchaseStepIsOrdersStep, StatusStepRefined
<1>6. CASE \/ \E b \in Buyers : CartChanges(b)
           \/ \E s \in Skus : PriceChanges(s)
           \/ \E r \in Checkouts : ReadCart(r)
           \/ UNCHANGED purchaseVars
  BY <1>1, <1>6 DEF CartChanges, PriceChanges, ReadCart, vars, storeVars, itemVars,
     purchaseVars
<1> QED
  BY <1>2, <1>3, <1>4, <1>5, <1>6 DEF PurchaseNext

\* Stock is set aside before it is sold, sold once at B2B's prices for what was set
\* aside, and comes back as a whole before an order is cancelled, for any number
\* of attempts, cancellations, jobs and skus (ImplementsSales).
THEOREM SalesRefined == PurchaseSpec => ImplementsSales
BY SalesInitRefined, SalesStepRefined, SalesInvariance, PTL
   DEF PurchaseSpec, ImplementsSales, Shop!SalesSpec, Shop!salesVars

===============================================================================
