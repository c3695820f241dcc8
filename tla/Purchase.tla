------------------------------- MODULE Purchase -------------------------------
(***************************************************************************)
(* What is bought: Orders with the items of each order and their prices.   *)
(* A checkout reads the buyer's cart without a lock and B2B's prices in    *)
(* its answer, keeps both in local variables over the reserve call, and    *)
(* writes them into the order; the cart and the prices move on meanwhile.  *)
(* B2B sets aside and gives back the items that the calls name.            *)
(*                                                                         *)
(* Every step is a step of Orders together with what it does to items, or  *)
(* a step of the cart or of the prices alone.                              *)
(***************************************************************************)
EXTENDS Orders, FiniteSets, Functions

CONSTANTS
    Skus,
    MaxQuantity,    \* bound on the quantity of an item in a cart
    Prices,         \* what B2B may ask for a unit, discount taken off
    Stock           \* how many of each sku B2B has

ASSUME PurchaseAssumption ==
    /\ MaxQuantity \in Nat
    /\ Stock \in Nat
    /\ Prices # {}
    /\ Prices \subseteq Nat
    /\ IsFiniteSet(Skus)
    /\ IsFiniteSet(Checkouts)

VARIABLES
    basket,     \* CartItem.quantity of each buyer's cart, 0 without a row
    price,      \* what B2B asks for each sku now
    asked,      \* the items each attempt has read from the cart
    quoted,     \* the prices in the answer each attempt has validated
    amount,     \* how many of each sku B2B holds for each order id
    lines,      \* committed OrderItem rows of each order
    total       \* committed Order.total_amount

itemVars == <<basket, price, asked, quoted, amount, lines, total>>

purchaseVars == <<vars, itemVars>>

-------------------------------------------------------------------------------
Quantities == [Skus -> 0..MaxQuantity]

Nothing == [s \in Skus |-> 0]

PriceLists == [Skus -> Prices]

NoLines == [s \in Skus |-> [quantity |-> 0, unit_price |-> 0]]

PurchaseTypeOK ==
    /\ TypeOK
    /\ basket \in [Buyers -> Quantities]
    /\ price \in PriceLists
    /\ asked \in [Checkouts -> Quantities]
    /\ quoted \in [Checkouts -> PriceLists \cup {Nothing}]
    /\ amount \in [OrderIds -> Quantities]
    /\ lines \in [OrderIds -> [Skus -> [quantity : 0..MaxQuantity, unit_price : Nat]]]
    /\ total \in [OrderIds -> Nat]

PurchaseInit ==
    /\ Init
    /\ basket \in [Buyers -> Quantities]
    /\ price \in PriceLists
    /\ asked = [r \in Checkouts |-> Nothing]
    /\ quoted = [r \in Checkouts |-> Nothing]
    /\ amount = [o \in OrderIds |-> Nothing]
    /\ lines = [o \in OrderIds |-> NoLines]
    /\ total = [o \in OrderIds |-> 0]

-------------------------------------------------------------------------------
(* The cart and B2B's prices move on *)

Basket == INSTANCE Carts WITH
              cart <- basket, Users <- Buyers, Sessions <- {}

\* An add, a change or deletion, a clear; a merge acts on each sku like a change
\* or an add.
CartChanges(b) ==
    /\ \/ \E s \in Skus, q \in 1..MaxQuantity : Basket!Add(b, s, q)
       \/ \E s \in Skus, q \in 0..MaxQuantity : Basket!Change(b, s, q)
       \/ \E gone \in SUBSET Skus : Basket!Clear(b, gone)
    /\ UNCHANGED <<vars, price, asked, quoted, amount, lines, total>>

PriceChanges(s) ==
    /\ \E p \in Prices \ {price[s]} : price' = [price EXCEPT ![s] = p]
    /\ UNCHANGED <<vars, basket, asked, quoted, amount, lines, total>>

-------------------------------------------------------------------------------
(* CheckoutService: cart, prices, reserve *)

\* The attempt holds the items of the cart in a local variable.
HasItems(r) == asked[r] # Nothing

ReadCart(r) ==
    /\ stage[r] = "pricing"
    /\ ~HasItems(r)
    /\ basket[request[r].buyer] # Nothing
    /\ asked' = [asked EXCEPT ![r] = basket[request[r].buyer]]
    /\ UNCHANGED <<vars, basket, price, quoted, amount, lines, total>>

\* EmptyCartError: 400.
RejectEmptyCart(r) ==
    /\ ~HasItems(r)
    /\ basket[request[r].buyer] = Nothing
    /\ GiveUpPricing(r)
    /\ stage'[r] = "rejected"
    /\ UNCHANGED itemVars

\* B2B's answer refuses an item, or does not come.
ItemsRefused(r) ==
    /\ HasItems(r)
    /\ GiveUpPricing(r)
    /\ stage'[r] \in {"refused", "unavailable"}
    /\ UNCHANGED itemVars

PriceItems(r) ==
    /\ HasItems(r)
    /\ SendReserve(r)
    /\ quoted' = [quoted EXCEPT ![r] = price]
    /\ UNCHANGED <<basket, price, asked, amount, lines, total>>

\* Everything B2B holds of a sku.
HeldOf(s) == SumFunction([o \in OrderIds |-> amount[o][s]])

\* B2B sets aside what the call names, if it has that much left; a repeated call
\* that it answers from the first result sets nothing aside.
HoldItems(r) ==
    /\ B2BReserve(r)
    /\ \/ /\ r \in holds'
          /\ \A s \in Skus : HeldOf(s) + asked[r][s] <= Stock
          /\ amount' = [amount EXCEPT ![r] = asked[r]]
       \/ /\ r \notin holds'
          /\ UNCHANGED amount
    /\ UNCHANGED <<basket, price, asked, quoted, lines, total>>

-------------------------------------------------------------------------------
(* CheckoutService: the order's rows *)

\* Mutant: the total is worked out from an answer of its own.
TotalAtCurrentPrices(r) == SumFunction([s \in Skus |-> asked[r][s] * price[s]])

TotalAmount(r) == SumFunction([s \in Skus |-> asked[r][s] * quoted[r][s]])

\* Mutant: the lines are made from the cart as it is now.
LinesOfCart(r) ==
    [s \in Skus |-> [quantity |-> basket[request[r].buyer][s], unit_price |-> quoted[r][s]]]

\* The lines that _create_items makes.
LinesOf(r) ==
    [s \in Skus |-> IF asked[r][s] = 0 THEN NoLines[s]
                    ELSE [quantity |-> asked[r][s], unit_price |-> quoted[r][s]]]

CreateOrder(r) ==
    /\ InsertOrder(r)
    /\ lines' = [lines EXCEPT ![r] = LinesOf(r)]
    /\ total' = [total EXCEPT ![r] = TotalAmount(r)]
    /\ UNCHANGED <<basket, price, asked, quoted, amount>>

-------------------------------------------------------------------------------
(* CancelOrderService and retry_pending_cancellations: _unreserve_items *)

\* Mutant: B2B gives back what the call names, held or not.
Minus(a, b) == a - b

Less(a, b) == IF a >= b THEN a - b ELSE 0

\* B2B gives back the items of the order's lines, of what it holds for the order.
GiveBack(o) ==
    /\ amount' = [amount EXCEPT ![o] = [s \in Skus |-> Less(@[s], lines[o][s].quantity)]]
    /\ UNCHANGED <<basket, price, asked, quoted, lines, total>>

-------------------------------------------------------------------------------
\* Steps of Checkout that leave items alone.
OtherCheckoutStep(r) ==
    \/ RejectRequest(r)
    \/ ReplyExisting(r)
    \/ FindNoOrder(r)
    \/ B2BRefuse(r)
    \/ ReserveAnswered(r)
    \/ ReserveUnavailable(r)
    \/ ReplyRaced(r)
    \/ FindNoneAgain(r)
    \/ KeyConflict(r)
    \/ CrashCheckout(r)

ItemsStep(r) ==
    \/ RejectEmptyCart(r)
    \/ ItemsRefused(r)
    \/ PriceItems(r)
    \/ HoldItems(r)
    \/ CreateOrder(r)
    \/ OtherCheckoutStep(r) /\ UNCHANGED itemVars

ReleaseStep ==
    \/ \E caller \in Cancels \cup Jobs :
         B2BUnreserve(caller) /\ GiveBack(CallOrder(caller))
    \/ \E o \in OrderIds : B2BUnreserveLate(o) /\ GiveBack(o)

OtherCancellationStep ==
    \/ \E c \in Cancels : CancelStep(c) \/ CrashCancel(c)
    \/ \E j \in Jobs : JobStep(j) \/ CrashRetry(j)

PurchaseNext ==
    \/ \E b \in Buyers : CartChanges(b)
    \/ \E s \in Skus : PriceChanges(s)
    \/ \E r \in Checkouts : ReadCart(r)
    \/ \E r \in Checkouts : ItemsStep(r) /\ UNCHANGED cancellationVars
    \/ ReleaseStep /\ UNCHANGED checkoutVars
    \/ OtherCancellationStep /\ UNCHANGED <<checkoutVars, itemVars>>
    \/ (\E o \in OrderIds : Fulfil(o))
        /\ UNCHANGED <<inventoryVars, checkoutVars, cancellationVars, itemVars>>

PurchaseSpec == PurchaseInit /\ [][PurchaseNext]_purchaseVars

-------------------------------------------------------------------------------
(* Safety *)

Sold(o) == [s \in Skus |-> lines[o][s].quantity]

\* What B2B holds for an order is the whole order or nothing of it, whatever
\* became of the cart since the checkout read it; and once B2B has been told to
\* release the order nothing of it is left behind.
HoldMatchesOrder ==
    \A o \in OrderIds :
        /\ Placed(o) => Sold(o) # Nothing /\ amount[o] \in {Nothing, Sold(o)}
        /\ o \in holds <=> amount[o] # Nothing

\* The total that a buyer is charged is what the lines of the order add up to,
\* although B2B's prices move while the checkout is waiting for the reserve.
TotalOfLines ==
    \A o \in OrderIds :
        Placed(o) =>
            total[o] = SumFunction([s \in Skus |->
                                       lines[o][s].quantity * lines[o][s].unit_price])

\* Orders whose items the buyer has been promised: not cancelled, and not the
\* object of a cancellation that is under way or has died after its call.
Promised ==
    {o \in OrderIds :
        /\ orders[o] \notin {Unplaced, "CANCEL_PENDING", "CANCELLED"}
        /\ ~\E c \in Cancels : /\ target[c].order = o
                               /\ \/ cstage[c] = "unreserving"
                                  \/ cstage[c] = "crashed" /\ seen[c] # Unplaced}

\* Nothing is sold twice: where B2B holds stock for every order id it is given,
\* the orders to be delivered name no more of a sku between them than B2B has.
NoOversell ==
    ~ReplayByKey =>
        \A s \in Skus : SumFunction([o \in Promised |-> Sold(o)[s]]) <= Stock

-------------------------------------------------------------------------------
(* Implementation of the abstract sales *)

SaleStatus(s) ==
    CASE s = Unplaced -> "OPEN"
      [] s = "CANCELLED" -> "CANCELLED"
      [] OTHER -> "SOLD"

SaleStatuses == [o \in OrderIds |-> SaleStatus(orders[o])]

Shop == INSTANCE Sales WITH
            Ids <- OrderIds, HeldFirst <- ~ReplayByKey,
            held <- amount, status <- SaleStatuses

\* Seen through B2B's stock and the committed rows, checkouts, cancellations and
\* retries only ever set stock aside, sell what was set aside, take it back and
\* then cancel; races, lost and late calls, crashes and moving prices show up as
\* no step at all.
ImplementsSales == Shop!SalesSpec

===============================================================================
