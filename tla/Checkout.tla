------------------------------- MODULE Checkout -------------------------------
(***************************************************************************)
(* POST /orders: OrdersController.post and CheckoutService.checkout.       *)
(* Each attempt is a worker that alternates between local transactions and *)
(* calls to B2B; between two of its steps every other worker may run, and  *)
(* the worker may die.                                                     *)
(*                                                                         *)
(*   received -> pricing -> reserving -> reserved -> inserting -> replied  *)
(*                                                                         *)
(* A reserve call stays in reserveCalls until B2B performs it, whether or  *)
(* not the worker still waits for it (the client gives up after 5 s).      *)
(***************************************************************************)
EXTENDS Inventory

VARIABLES
    stage,          \* where each attempt is in the handler
    reply,          \* the order each attempt returned with 201, or NoOrder
    reserveCalls    \* attempts whose reserve call B2B has yet to perform

checkoutVars == <<stage, reply, reserveCalls>>

-------------------------------------------------------------------------------
Stages == {"received",      \* request accepted, nothing read yet
           "pricing",       \* no order under the key; cart and skus are read
           "reserving",     \* reserve sent to B2B
           "reserved",      \* B2B answered that the stock is reserved
           "inserting",     \* no order under the key, second look
           "replied",       \* 201
           "rejected",      \* 400
           "refused",       \* 409 RESERVE_FAILED
           "unavailable",   \* 503
           "failed",        \* 500: there is no order to return
           "crashed"}       \* the worker died

OpenStages == {"received", "pricing", "reserving", "reserved", "inserting"}

CheckoutTypeOK ==
    /\ stage \in [Checkouts -> Stages]
    /\ reply \in [Checkouts -> OrderIds \cup {NoOrder}]
    /\ reserveCalls \subseteq Checkouts

CheckoutInit ==
    /\ stage = [r \in Checkouts |-> "received"]
    /\ reply = [r \in Checkouts |-> NoOrder]
    /\ reserveCalls = {}

-------------------------------------------------------------------------------
Goto(r, s) == stage' = [stage EXCEPT ![r] = s]

ReplyWith(r, o) ==
    /\ Goto(r, "replied")
    /\ reply' = [reply EXCEPT ![r] = o]

\* No key, a key that is no UUID, or a body the serializer refuses.
RejectRequest(r) ==
    /\ stage[r] = "received"
    /\ Goto(r, "rejected")
    /\ UNCHANGED <<storeVars, inventoryVars, reply, reserveCalls>>

\* The first look for an order of this buyer and key, outside any transaction.
ReplyExisting(r) ==
    /\ stage[r] = "received"
    /\ \E o \in ExistingOrders(r) : ReplyWith(r, o)
    /\ UNCHANGED <<storeVars, inventoryVars, reserveCalls>>

FindNoOrder(r) ==
    /\ stage[r] = "received"
    /\ ExistingOrders(r) = {}
    /\ Goto(r, "pricing")
    /\ UNCHANGED <<storeVars, inventoryVars, reply, reserveCalls>>

\* What the cart and B2B's answer for its skus lead to: an empty cart, an
\* item that fails _validate_items, a B2B that does not answer ...
GiveUpPricing(r) ==
    /\ stage[r] = "pricing"
    /\ \E s \in {"rejected", "refused", "unavailable"} : Goto(r, s)
    /\ UNCHANGED <<storeVars, inventoryVars, reply, reserveCalls>>

\* ... or a reservation, under the buyer's key and a fresh order id.
SendReserve(r) ==
    /\ stage[r] = "pricing"
    /\ Goto(r, "reserving")
    /\ reserveCalls' = reserveCalls \cup {r}
    /\ UNCHANGED <<storeVars, inventoryVars, reply>>

-------------------------------------------------------------------------------
(* B2B's side of the call *)

B2BReserve(r) ==
    /\ r \in reserveCalls
    /\ Reserve(request[r].key, r)
    /\ reserveCalls' = reserveCalls \ {r}
    /\ UNCHANGED <<storeVars, stage, reply>>

\* 409, or 200 with "reserved": false; nobody hears it once the worker left.
B2BRefuse(r) ==
    /\ r \in reserveCalls
    /\ reserveCalls' = reserveCalls \ {r}
    /\ Goto(r, IF stage[r] = "reserving" THEN "refused" ELSE stage[r])
    /\ UNCHANGED <<storeVars, inventoryVars, reply>>

ReserveAnswered(r) ==
    /\ stage[r] = "reserving"
    /\ r \notin reserveCalls
    /\ Goto(r, "reserved")
    /\ UNCHANGED <<storeVars, inventoryVars, reply, reserveCalls>>

\* Mutant: a call without an answer is reported as a refusal.
UnavailableAsRefused(r) ==
    /\ stage[r] = "reserving"
    /\ Goto(r, "refused")
    /\ UNCHANGED <<storeVars, inventoryVars, reply, reserveCalls>>

\* Mutant: a call without an answer is taken for a success.
TimeoutAsReserved(r) ==
    /\ stage[r] = "reserving"
    /\ Goto(r, "reserved")
    /\ UNCHANGED <<storeVars, inventoryVars, reply, reserveCalls>>

\* A timeout, a broken connection, another HTTP error, a body that is not JSON:
\* the call may have been performed, and may still be.
ReserveUnavailable(r) ==
    /\ stage[r] = "reserving"
    /\ Goto(r, "unavailable")
    /\ UNCHANGED <<storeVars, inventoryVars, reply, reserveCalls>>

-------------------------------------------------------------------------------
(* The transaction that creates the order *)

\* The second look, SELECT ... FOR UPDATE, waits for the row's lock.
ReplyRaced(r) ==
    /\ stage[r] = "reserved"
    /\ \E o \in ExistingOrders(r) \ locked : ReplyWith(r, o)
    /\ UNCHANGED <<storeVars, inventoryVars, reserveCalls>>

FindNoneAgain(r) ==
    /\ stage[r] = "reserved"
    /\ ExistingOrders(r) = {}
    /\ Goto(r, "inserting")
    /\ UNCHANGED <<storeVars, inventoryVars, reply, reserveCalls>>

\* Mutant: no unique index on Order.idempotency_key.
InsertWithoutIndex(r) ==
    /\ stage[r] = "inserting"
    /\ ~BuyerLocked(request[r].buyer)
    /\ Place(r)
    /\ ReplyWith(r, r)
    /\ UNCHANGED <<request, locked, inventoryVars, reserveCalls>>

\* The commit checks the deferred foreign key to the buyer's row, which waits
\* for a cancellation that has that row locked.
InsertOrder(r) ==
    /\ stage[r] = "inserting"
    /\ ~KeyTaken(request[r].key)
    /\ ~BuyerLocked(request[r].buyer)
    /\ Place(r)
    /\ ReplyWith(r, r)
    /\ UNCHANGED <<request, locked, inventoryVars, reserveCalls>>

\* Mutant: the conflict is answered with the order object that was not saved.
ConflictReturnsUnsaved(r) ==
    /\ stage[r] = "inserting"
    /\ KeyTaken(request[r].key)
    /\ ReplyWith(r, r)
    /\ UNCHANGED <<storeVars, inventoryVars, reserveCalls>>

\* Mutant: every conflict is an error, the order is not looked up again.
ConflictAlwaysFails(r) ==
    /\ stage[r] = "inserting"
    /\ KeyTaken(request[r].key)
    /\ Goto(r, "failed")
    /\ UNCHANGED <<storeVars, inventoryVars, reply, reserveCalls>>

\* The unique index refuses the row; what is returned is the order that this
\* buyer has under the key, and if it is another buyer's there is none.
KeyConflict(r) ==
    /\ stage[r] = "inserting"
    /\ KeyTaken(request[r].key)
    /\ \/ \E o \in ExistingOrders(r) : ReplyWith(r, o)
       \/ /\ ExistingOrders(r) = {}
          /\ Goto(r, "failed")
          /\ UNCHANGED reply
    /\ UNCHANGED <<storeVars, inventoryVars, reserveCalls>>

\* The worker dies, or raises what no handler catches; its open transaction is
\* rolled back.
CrashCheckout(r) ==
    /\ stage[r] \in OpenStages
    /\ Goto(r, "crashed")
    /\ UNCHANGED <<storeVars, inventoryVars, reply, reserveCalls>>

-------------------------------------------------------------------------------
\* The steps of the handler itself, which the server keeps running.
CheckoutStep(r) ==
    \/ RejectRequest(r)
    \/ ReplyExisting(r)
    \/ FindNoOrder(r)
    \/ GiveUpPricing(r)
    \/ SendReserve(r)
    \/ ReserveAnswered(r)
    \/ ReserveUnavailable(r)
    \/ ReplyRaced(r)
    \/ FindNoneAgain(r)
    \/ InsertOrder(r)
    \/ KeyConflict(r)

CheckoutNext ==
    \E r \in Checkouts :
        \/ CheckoutStep(r)
        \/ B2BReserve(r)
        \/ B2BRefuse(r)
        \/ CrashCheckout(r)

===============================================================================
