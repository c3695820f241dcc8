-------------------------------- MODULE Sales ---------------------------------
(***************************************************************************)
(* What a purchase comes to, with no attempts, calls, locks or carts: the  *)
(* stock that B2B has set aside, and the bills of the orders.  Stock is    *)
(* set aside once for an order id, before there is a bill, and comes back  *)
(* only as a whole; a bill is written once, for what was set aside, and    *)
(* stays as it is; an order is cancelled once its stock has come back.     *)
(***************************************************************************)
EXTENDS Naturals, Functions

CONSTANTS
    Ids,
    Skus,
    MaxQuantity,
    Prices,
    Stock,
    HeldFirst       \* TRUE: nothing is sold under an id without stock of its own

VARIABLES
    held,           \* how many of each sku are set aside for each id
    status,         \* what has become of each id
    lines,          \* the bill of each id: its lines ...
    total           \* ... and what it comes to

salesVars == <<held, status, lines, total>>

Statuses == {"OPEN",        \* no order yet
             "SOLD",
             "CANCELLED"}

Quantities == [Skus -> 0..MaxQuantity]

Nothing == [s \in Skus |-> 0]

\* A line of nothing has no price.
Line(quantity, price) ==
    [quantity |-> quantity, unit_price |-> IF quantity = 0 THEN 0 ELSE price]

Bill(items, prices) == [s \in Skus |-> Line(items[s], prices[s])]

AmountOf(bill) == SumFunction([s \in Skus |-> bill[s].quantity * bill[s].unit_price])

SetAsideOf(s) == SumFunction([i \in Ids |-> held[i][s]])

SalesInit ==
    /\ held = [i \in Ids |-> Nothing]
    /\ status = [i \in Ids |-> "OPEN"]
    /\ lines = [i \in Ids |-> Bill(Nothing, Nothing)]
    /\ total = [i \in Ids |-> 0]

SetAside(i) ==
    /\ status[i] = "OPEN"
    /\ held[i] = Nothing
    /\ \E items \in Quantities \ {Nothing} : held' = [held EXCEPT ![i] = items]
    /\ \A s \in Skus : SetAsideOf(s)' <= Stock
    /\ UNCHANGED <<status, lines, total>>

\* What may be sold under an id: what is set aside for it.
Sellable(i) == IF HeldFirst \/ held[i] # Nothing THEN {held[i]} ELSE Quantities

Sell(i) ==
    /\ status[i] = "OPEN"
    /\ status' = [status EXCEPT ![i] = "SOLD"]
    /\ \E items \in Sellable(i) \ {Nothing}, prices \in [Skus -> Prices] :
         lines' = [lines EXCEPT ![i] = Bill(items, prices)]
    /\ total' = [total EXCEPT ![i] = AmountOf(lines'[i])]
    /\ UNCHANGED held

TakeBack(i) ==
    /\ status[i] # "OPEN"
    /\ held' = [held EXCEPT ![i] = Nothing]
    /\ UNCHANGED <<status, lines, total>>

Cancel(i) ==
    /\ status[i] = "SOLD"
    /\ held[i] = Nothing
    /\ status' = [status EXCEPT ![i] = "CANCELLED"]
    /\ UNCHANGED <<held, lines, total>>

SalesNext ==
    \E i \in Ids : SetAside(i) \/ Sell(i) \/ TakeBack(i) \/ Cancel(i)

SalesSpec == SalesInit /\ [][SalesNext]_salesVars

===============================================================================
