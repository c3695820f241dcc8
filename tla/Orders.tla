-------------------------------- MODULE Orders --------------------------------
(***************************************************************************)
(* The order subsystem of B2C: checkout attempts, cancellations, the retry *)
(* job and fulfilment, running concurrently over the order tables and the  *)
(* inventory of B2B.                                                       *)
(***************************************************************************)
EXTENDS Checkout, Cancellation

cancellationVars == <<cancelVars, jobVars, callVars>>

vars == <<storeVars, inventoryVars, checkoutVars, cancellationVars>>

TypeOK ==
    /\ StoreTypeOK
    /\ InventoryTypeOK
    /\ CheckoutTypeOK
    /\ CancellationTypeOK

Init ==
    /\ StoreInit
    /\ InventoryInit
    /\ CheckoutInit
    /\ CancellationInit

Next ==
    \/ CheckoutNext /\ UNCHANGED cancellationVars
    \/ CancellationNext /\ UNCHANGED checkoutVars
    \/ (\E o \in OrderIds : Fulfil(o))
        /\ UNCHANGED <<inventoryVars, checkoutVars, cancellationVars>>

Spec == Init /\ [][Next]_vars

-------------------------------------------------------------------------------
(* Safety *)

\* A key buys once: no two orders carry one idempotency key, whoever sent it.
\* orders.py:27 declares the column unique; the checkout only looks before it
\* calls B2B and again under a lock that locks nothing when there is no row.
OneOrderPerKey ==
    \A o, p \in OrderIds :
        Placed(o) /\ Placed(p) /\ request[o].key = request[p].key => o = p

\* A 201 names an existing order of this very buyer and key, so two attempts
\* that carry the same buyer and key are told about the same order.
IdempotentReplies ==
    \A r \in Checkouts : reply[r] # NoOrder => reply[r] \in ExistingOrders(r)

\* An attempt that was answered 400 or 409 left nothing reserved in its name,
\* and none of its calls can reserve anything later.
RefusedHoldsNothing ==
    \A r \in Checkouts :
        stage[r] \in {"rejected", "refused"} =>
            r \notin holds /\ r \notin reserveCalls

\* The one way for an attempt to lose the race and find no order to return is
\* that another buyer used the same key.
FailedByForeignKey ==
    \A r \in Checkouts :
        stage[r] = "failed" =>
            \E o \in OrderIds : /\ Placed(o)
                               /\ request[o].key = request[r].key
                               /\ request[o].buyer # request[r].buyer

\* When a buyer is told an order is CANCELLED its stock is no longer held, no
\* matter which of cancel and retry got there, what was lost on the way and
\* which calls still straggle.
CancelledReleased ==
    \A o \in OrderIds : orders[o] = "CANCELLED" => o \notin holds

\* An order that is still to be delivered has its stock, held under its own id,
\* unless a cancellation of it is under way or died once it had called B2B.
StockBehindOrder ==
    \A o \in OrderIds :
        \/ o \in holds
        \/ orders[o] \in {Unplaced, "CANCEL_PENDING", "CANCELLED"}
        \/ \E c \in Cancels : /\ target[c].order = o
                              /\ \/ cstage[c] = "unreserving"
                                 \/ cstage[c] = "crashed" /\ seen[c] # Unplaced

\* All attempts with one buyer and one key hold stock once between them.
OneHoldPerRequest ==
    \A o, p \in holds : request[o] = request[p] => o = p

\* B2B is asked to release an order's stock by a retry job only for an order
\* whose cancellation was accepted, however old the job's list is.
RetryOnlyCancelled ==
    \A j \in Jobs :
        current[j] # NoOrder =>
            orders[current[j]] \in {"CANCEL_PENDING", "CANCELLED"}

\* What each status may follow: the history of an order reads as a walk along
\* this relation from the first row to the current status.
Successors ==
    [s \in OrderStatus \cup {Unplaced} |->
        CASE s = Unplaced -> {"CREATED"}
          [] s = "CREATED" -> {"PAID", "CANCEL_PENDING", "CANCELLED"}
          [] s = "PAID" -> {"ASSEMBLING", "CANCEL_PENDING", "CANCELLED"}
          [] s = "ASSEMBLING" -> {"DELIVERING", "CANCEL_PENDING", "CANCELLED"}
          [] s = "DELIVERING" -> {"DELIVERED", "CANCEL_PENDING", "CANCELLED"}
          [] s = "CANCEL_PENDING" -> {"CANCELLED"}
          [] OTHER -> {}]

\* The status an order had after the first i rows of its history h.
StatusAfter(h, i) == IF i = 0 THEN Unplaced ELSE h[i].status_to

\* h starts at NULL, each row starts where the one before ended, every step is a
\* legal one, and the last row is the status s.
LeadsTo(h, s) ==
    /\ s = StatusAfter(h, Len(h))
    /\ \A i \in 1..Len(h) :
         /\ h[i].status_from = StatusAfter(h, i - 1)
         /\ h[i].status_to \in Successors[StatusAfter(h, i - 1)]

\* The audit trail is exact: the history rows of every order lead, by legal
\* steps and without a gap, to its Order.status.
HistoryFaithful == \A o \in OrderIds : LeadsTo(history[o], orders[o])

\* An order that is DELIVERED or CANCELLED stays so, one whose cancellation is
\* pending can only become CANCELLED, and no row ever disappears.
StatusFinal ==
    [][\A o \in OrderIds :
         /\ orders[o] \in {"DELIVERED", "CANCELLED"} => orders'[o] = orders[o]
         /\ orders[o] = "CANCEL_PENDING" =>
                orders'[o] \in {"CANCEL_PENDING", "CANCELLED"}
         /\ Placed(o) => orders'[o] # Unplaced]_vars

-------------------------------------------------------------------------------
(* Liveness *)

\* Workers keep running, and a worker waits at most client.timeout for B2B;
\* nothing is asked of B2B.
Fairness ==
    /\ \A r \in Checkouts : WF_vars(CheckoutStep(r) /\ UNCHANGED cancellationVars)
    /\ \A c \in Cancels : WF_vars(CancelStep(c) /\ UNCHANGED checkoutVars)

FairSpec == Spec /\ Fairness

\* Every request ends in an answer or with its worker, B2B or no B2B: nobody
\* waits for ever for a lock that a cancellation holds while it waits for B2B.
RequestsAnswered ==
    /\ \A r \in Checkouts : stage[r] \in OpenStages ~> stage[r] \notin OpenStages
    /\ \A c \in Cancels :
         cstage[c] \in OpenCancelStages ~> cstage[c] \notin OpenCancelStages

\* The operator runs the command again and again, and among the unreserve calls
\* for one order that are retried again and again one is performed and answered.
RetryFairness ==
    \A j \in Jobs :
        /\ WF_vars(JobStep(j) /\ UNCHANGED checkoutVars)
        /\ \A o \in OrderIds :
             /\ SF_vars(RetryOrder(j, o) /\ UNCHANGED checkoutVars)
             /\ SF_vars(current[j] = o /\ B2BUnreserve(j) /\ UNCHANGED checkoutVars)
             /\ SF_vars(current[j] = o /\ RetryAnswered(j) /\ UNCHANGED checkoutVars)
             /\ SF_vars(current[j] = o /\ SettleRetry(j) /\ UNCHANGED checkoutVars)

RetrySpec == FairSpec /\ RetryFairness

\* A pending cancellation is settled in the end, whatever calls and jobs are
\* lost on the way.
PendingSettles ==
    \A o \in OrderIds : orders[o] = "CANCEL_PENDING" ~> orders[o] = "CANCELLED"

-------------------------------------------------------------------------------
(* Implementation of the abstract order book *)

BookStatus(s) == IF s \in CancellableStatuses THEN "ACTIVE" ELSE s

BookEntry(o) ==
    [buyer |-> request[o].buyer, order |-> o, status |-> BookStatus(orders[o])]

BookEntries ==
    [k \in Keys |->
        {BookEntry(o) : o \in {p \in OrderIds : Placed(p) /\ request[p].key = k}}]

BookAnswers ==
    {<<request[r].buyer, request[r].key, reply[r]>> :
        r \in {r \in Checkouts : reply[r] # NoOrder}}

Book == INSTANCE OrderBook WITH
            Ids <- OrderIds, book <- BookEntries, answered <- BookAnswers

\* Seen through its answers and the committed rows, the service is the order
\* book: races, crashes and lost calls show up as no step of it at all.
ImplementsOrderBook == Book!BookSpec

===============================================================================
