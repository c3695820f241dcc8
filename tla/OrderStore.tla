------------------------------ MODULE OrderStore ------------------------------
(***************************************************************************)
(* The order tables of B2C (app/orders/models) as the request handlers see *)
(* them at PostgreSQL's READ COMMITTED level: the committed Order rows,    *)
(* their OrderStatusHistory rows, and the row locks that an open           *)
(* transaction keeps while it talks to B2B.                                *)
(*                                                                         *)
(* Every checkout attempt mints a fresh uuid4 for the order it would       *)
(* create, so an order is identified with the attempt that made its uuid.  *)
(***************************************************************************)
EXTENDS Naturals, Sequences

CONSTANTS
    Checkouts,  \* checkout attempts (POST /orders); also the uuids they mint
    Buyers,     \* authenticated users
    Keys,       \* values of the Idempotency-Key header
    NoOrder     \* no order id: Python's None

ASSUME NoOrderAssumption == NoOrder \notin Checkouts

VARIABLES
    request,    \* what each attempt carries: its buyer and its key (never changes)
    orders,     \* committed Order.status of each uuid, Unplaced when there is no row
    history,    \* committed status history of each order, oldest first
    locked      \* orders whose row, and whose buyer's row, are locked FOR UPDATE

storeVars == <<request, orders, history, locked>>

-------------------------------------------------------------------------------
OrderIds == Checkouts

OrderStatus == {"CREATED", "PAID", "ASSEMBLING", "DELIVERING", "DELIVERED",
                "CANCELLED", "CANCEL_PENDING"}

Unplaced == "UNPLACED"

HistoryRow == [status_from : OrderStatus \cup {Unplaced}, status_to : OrderStatus]

\* A history row; status_from is Unplaced where the code writes NULL.
Change(old, new) == [status_from |-> old, status_to |-> new]

StoreTypeOK ==
    /\ request \in [Checkouts -> [buyer : Buyers, key : Keys]]
    /\ orders \in [OrderIds -> OrderStatus \cup {Unplaced}]
    /\ history \in [OrderIds -> Seq(HistoryRow)]
    /\ locked \subseteq OrderIds

StoreInit ==
    /\ request \in [Checkouts -> [buyer : Buyers, key : Keys]]
    /\ orders = [o \in OrderIds |-> Unplaced]
    /\ history = [o \in OrderIds |-> << >>]
    /\ locked = {}

-------------------------------------------------------------------------------
(* Queries *)

Placed(o) == orders[o] # Unplaced

Owns(b, o) == Placed(o) /\ request[o].buyer = b

\* Mutant: the lookup forgets filter(buyer=...).
OrdersOfAnyBuyer(r) ==
    {o \in OrderIds : Placed(o) /\ request[o].key = request[r].key}

\* The rows _existing_order finds for attempt r: same buyer and same key.
ExistingOrders(r) ==
    {o \in OrderIds : Owns(request[r].buyer, o) /\ request[o].key = request[r].key}

\* The unique index on Order.idempotency_key: taken by a row of any buyer.
KeyTaken(k) == \E o \in OrderIds : Placed(o) /\ request[o].key = k

\* An open cancellation also locks the buyer's row (select_related("buyer")).
BuyerLocked(b) == \E o \in locked : request[o].buyer = b

-------------------------------------------------------------------------------
(* Updates, each committed by the action that uses it *)

\* Order.objects.create followed by _mark_paid, in one transaction.
Place(o) ==
    /\ orders' = [orders EXCEPT ![o] = "PAID"]
    /\ history' = [history EXCEPT ![o] =
                      << Change(Unplaced, "CREATED"), Change("CREATED", "PAID") >>]

\* Writes a new status over the status `old' the transaction read.
Transition(o, old, new) ==
    /\ orders' = [orders EXCEPT ![o] = new]
    /\ history' = [history EXCEPT ![o] = Append(@, Change(old, new))]

\* Fulfilment, which is outside this repository, moves a paid order on.  Its
\* UPDATE waits for the row lock of an open cancellation.
NextStage == [s \in {"PAID", "ASSEMBLING", "DELIVERING"} |->
                 CASE s = "PAID" -> "ASSEMBLING"
                   [] s = "ASSEMBLING" -> "DELIVERING"
                   [] s = "DELIVERING" -> "DELIVERED"]

Fulfil(o) ==
    /\ o \notin locked
    /\ orders[o] \in DOMAIN NextStage
    /\ Transition(o, orders[o], NextStage[orders[o]])
    /\ UNCHANGED <<request, locked>>

===============================================================================
