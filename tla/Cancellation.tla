----------------------------- MODULE Cancellation -----------------------------
(***************************************************************************)
(* POST /orders/<id>/cancel (CancelOrderService.cancel) and the management *)
(* command retry_pending_cancellations.                                    *)
(*                                                                         *)
(* A cancellation calls B2B inside its transaction: it keeps the order row *)
(* and the buyer row locked from its read to its commit.  The retry job    *)
(* calls B2B first, on the word of a list it read earlier, and only then   *)
(* locks the order and looks at its status again.                          *)
(*                                                                         *)
(* An unreserve call that outlives the worker that sent it is straggling:  *)
(* B2B may still perform it, at any later time, or never.                  *)
(***************************************************************************)
EXTENDS Inventory

CONSTANTS
    Cancels,        \* cancellation requests
    Jobs            \* processes that run retry_pending_cancellations

ASSUME CallersAssumption == Cancels \cap Jobs = {}

VARIABLES
    target,         \* the buyer and order each cancellation names, and if its reason fits
    cstage,         \* where each cancellation is in the handler
    seen,           \* Order.status as each cancellation read it under the lock
    jstage,         \* where each job is in its loop
    todo,           \* orders a job listed and has yet to come to
    current,        \* the order a job is at, or NoOrder
    unreserveCalls, \* callers whose unreserve call B2B has yet to perform
    straggling      \* orders with an unreserve call that nobody waits for

cancelVars == <<target, cstage, seen>>
jobVars == <<jstage, todo, current>>
callVars == <<unreserveCalls, straggling>>

-------------------------------------------------------------------------------
CancellableStatuses == {"CREATED", "PAID", "ASSEMBLING", "DELIVERING"}

CancelStages == {"received",
                 "unreserving",     \* transaction open, waiting for B2B
                 "cancelled",       \* 200, status CANCELLED
                 "pending",         \* 200, status CANCEL_PENDING
                 "rejected",        \* 400, reason too long
                 "notFound",        \* 404
                 "notAllowed",      \* 409 CANCEL_NOT_ALLOWED
                 "crashed"}

OpenCancelStages == {"received", "unreserving"}

JobStages == {"idle", "scanning", "unreserving", "released"}

CancellationTypeOK ==
    /\ target \in [Cancels -> [buyer : Buyers, order : OrderIds, reasonFits : BOOLEAN]]
    /\ cstage \in [Cancels -> CancelStages]
    /\ seen \in [Cancels -> OrderStatus \cup {Unplaced}]
    /\ jstage \in [Jobs -> JobStages]
    /\ todo \in [Jobs -> SUBSET OrderIds]
    /\ current \in [Jobs -> OrderIds \cup {NoOrder}]
    /\ unreserveCalls \subseteq Cancels \cup Jobs
    /\ straggling \subseteq OrderIds

CancellationInit ==
    /\ target \in [Cancels -> [buyer : Buyers, order : OrderIds, reasonFits : BOOLEAN]]
    /\ cstage = [c \in Cancels |-> "received"]
    /\ seen = [c \in Cancels |-> Unplaced]
    /\ jstage = [j \in Jobs |-> "idle"]
    /\ todo = [j \in Jobs |-> {}]
    /\ current = [j \in Jobs |-> NoOrder]
    /\ unreserveCalls = {}
    /\ straggling = {}

-------------------------------------------------------------------------------
(* Calls to B2B *)

Call(caller) ==
    /\ unreserveCalls' = unreserveCalls \cup {caller}
    /\ UNCHANGED straggling

\* The caller stops waiting; a call not yet performed is left to straggle.
Abandon(caller, o) ==
    /\ unreserveCalls' = unreserveCalls \ {caller}
    /\ straggling' = IF caller \in unreserveCalls
                       THEN straggling \cup {o} ELSE straggling

-------------------------------------------------------------------------------
(* CancelOrderService.cancel *)

CancelGoto(c, s) == cstage' = [cstage EXCEPT ![c] = s]

\* The reason is looked at before the order is asked for.
RejectCancel(c) ==
    /\ cstage[c] = "received"
    /\ ~target[c].reasonFits
    /\ CancelGoto(c, "rejected")
    /\ UNCHANGED <<storeVars, inventoryVars, target, seen, jobVars, callVars>>

OrderNotFound(c) ==
    /\ cstage[c] = "received"
    /\ target[c].reasonFits
    /\ ~Owns(target[c].buyer, target[c].order)
    /\ CancelGoto(c, "notFound")
    /\ UNCHANGED <<storeVars, inventoryVars, target, seen, jobVars, callVars>>

\* SELECT ... FOR UPDATE of the order and its buyer returns the committed rows
\* once no other transaction has either of them locked.
LockedRead(c) ==
    /\ cstage[c] = "received"
    /\ target[c].reasonFits
    /\ Owns(target[c].buyer, target[c].order)
    /\ ~BuyerLocked(target[c].buyer)
    /\ seen' = [seen EXCEPT ![c] = orders[target[c].order]]

\* Mutant: B2B is called before the status is looked at.
UnreserveThenCheck(c) ==
    /\ LockedRead(c)
    /\ orders[target[c].order] \notin CancellableStatuses
    /\ CancelGoto(c, "notAllowed")
    /\ straggling' = straggling \cup {target[c].order}
    /\ UNCHANGED <<storeVars, inventoryVars, target, jobVars, unreserveCalls>>

CancelNotAllowed(c) ==
    /\ LockedRead(c)
    /\ orders[target[c].order] \notin CancellableStatuses
    /\ CancelGoto(c, "notAllowed")
    /\ UNCHANGED <<storeVars, inventoryVars, target, jobVars, callVars>>

\* Mutant: the order is read without select_for_update.
BeginUnlocked(c) ==
    /\ LockedRead(c)
    /\ orders[target[c].order] \in CancellableStatuses
    /\ Call(c)
    /\ CancelGoto(c, "unreserving")
    /\ UNCHANGED <<storeVars, inventoryVars, target, jobVars>>

BeginCancel(c) ==
    /\ LockedRead(c)
    /\ orders[target[c].order] \in CancellableStatuses
    /\ locked' = locked \cup {target[c].order}
    /\ Call(c)
    /\ CancelGoto(c, "unreserving")
    /\ UNCHANGED <<request, orders, history, inventoryVars, target, jobVars>>

\* B2B answered: the order is CANCELLED and the transaction commits.
FinishCancel(c) ==
    /\ cstage[c] = "unreserving"
    /\ c \notin unreserveCalls
    /\ Transition(target[c].order, seen[c], "CANCELLED")
    /\ locked' = locked \ {target[c].order}
    /\ CancelGoto(c, "cancelled")
    /\ UNCHANGED <<request, inventoryVars, target, seen, jobVars, callVars>>

\* Mutant: the order is cancelled although B2B gave no answer.
CancelOnSilence(c) ==
    /\ cstage[c] = "unreserving"
    /\ Abandon(c, target[c].order)
    /\ Transition(target[c].order, seen[c], "CANCELLED")
    /\ locked' = locked \ {target[c].order}
    /\ CancelGoto(c, "cancelled")
    /\ UNCHANGED <<request, inventoryVars, target, seen, jobVars>>

\* Mutant: a status that is none of the model's choices.
PostponeMisspelt(c) ==
    /\ cstage[c] = "unreserving"
    /\ Abandon(c, target[c].order)
    /\ Transition(target[c].order, seen[c], "PENDING_CANCEL")
    /\ locked' = locked \ {target[c].order}
    /\ CancelGoto(c, "pending")
    /\ UNCHANGED <<request, inventoryVars, target, seen, jobVars>>

\* Mutant: urlopen without a timeout, an error only once B2B has answered.
PostponeWithoutTimeout(c) ==
    /\ cstage[c] = "unreserving"
    /\ c \notin unreserveCalls
    /\ Transition(target[c].order, seen[c], "CANCEL_PENDING")
    /\ locked' = locked \ {target[c].order}
    /\ CancelGoto(c, "pending")
    /\ UNCHANGED <<request, inventoryVars, target, seen, jobVars, callVars>>

\* B2BUnavailableError: the order is left to the retry job.
PostponeCancel(c) ==
    /\ cstage[c] = "unreserving"
    /\ Abandon(c, target[c].order)
    /\ Transition(target[c].order, seen[c], "CANCEL_PENDING")
    /\ locked' = locked \ {target[c].order}
    /\ CancelGoto(c, "pending")
    /\ UNCHANGED <<request, inventoryVars, target, seen, jobVars>>

\* The worker dies, or raises what no handler catches: rolled back, unlocked.
CrashCancel(c) ==
    /\ cstage[c] \in OpenCancelStages
    /\ Abandon(c, target[c].order)
    /\ locked' = IF cstage[c] = "unreserving"
                   THEN locked \ {target[c].order} ELSE locked
    /\ CancelGoto(c, "crashed")
    /\ UNCHANGED <<request, orders, history, inventoryVars, target, seen, jobVars>>

-------------------------------------------------------------------------------
(* retry_pending_cancellations *)

JobGoto(j, s) == jstage' = [jstage EXCEPT ![j] = s]

\* Mutant: the list is not filtered by status.
StartRetryOfAll(j) ==
    /\ jstage[j] = "idle"
    /\ todo' = [todo EXCEPT ![j] = {o \in OrderIds : Placed(o)}]
    /\ JobGoto(j, "scanning")
    /\ UNCHANGED <<storeVars, inventoryVars, cancelVars, current, callVars>>

\* The queryset is evaluated once, without locks.
StartRetry(j) ==
    /\ jstage[j] = "idle"
    /\ todo' = [todo EXCEPT ![j] = {o \in OrderIds : orders[o] = "CANCEL_PENDING"}]
    /\ JobGoto(j, "scanning")
    /\ UNCHANGED <<storeVars, inventoryVars, cancelVars, current, callVars>>

RetryOrder(j, o) ==
    /\ jstage[j] = "scanning"
    /\ o \in todo[j]
    /\ todo' = [todo EXCEPT ![j] = @ \ {o}]
    /\ current' = [current EXCEPT ![j] = o]
    /\ Call(j)
    /\ JobGoto(j, "unreserving")
    /\ UNCHANGED <<storeVars, inventoryVars, cancelVars>>

RetryAnswered(j) ==
    /\ jstage[j] = "unreserving"
    /\ j \notin unreserveCalls
    /\ JobGoto(j, "released")
    /\ UNCHANGED <<storeVars, inventoryVars, cancelVars, todo, current, callVars>>

\* B2BUnavailableError: on to the next order.
RetryUnavailable(j) ==
    /\ jstage[j] = "unreserving"
    /\ Abandon(j, current[j])
    /\ current' = [current EXCEPT ![j] = NoOrder]
    /\ JobGoto(j, "scanning")
    /\ UNCHANGED <<storeVars, inventoryVars, cancelVars, todo>>

\* Mutant: the status is not looked at again under the lock.
SettleUnchecked(j) ==
    /\ jstage[j] = "released"
    /\ current[j] \notin locked
    /\ Transition(current[j], "CANCEL_PENDING", "CANCELLED")
    /\ current' = [current EXCEPT ![j] = NoOrder]
    /\ JobGoto(j, "scanning")
    /\ UNCHANGED <<request, locked, inventoryVars, cancelVars, todo, callVars>>

\* Mutant: the second look skips the orders that are still pending.
SettleInverted(j) ==
    /\ jstage[j] = "released"
    /\ current[j] \notin locked
    /\ IF orders[current[j]] # "CANCEL_PENDING"
         THEN Transition(current[j], orders[current[j]], "CANCELLED")
         ELSE UNCHANGED <<orders, history>>
    /\ current' = [current EXCEPT ![j] = NoOrder]
    /\ JobGoto(j, "scanning")
    /\ UNCHANGED <<request, locked, inventoryVars, cancelVars, todo, callVars>>

\* Under the lock: still pending, so CANCELLED; otherwise someone else did it.
SettleRetry(j) ==
    /\ jstage[j] = "released"
    /\ current[j] \notin locked
    /\ IF orders[current[j]] = "CANCEL_PENDING"
         THEN Transition(current[j], "CANCEL_PENDING", "CANCELLED")
         ELSE UNCHANGED <<orders, history>>
    /\ current' = [current EXCEPT ![j] = NoOrder]
    /\ JobGoto(j, "scanning")
    /\ UNCHANGED <<request, locked, inventoryVars, cancelVars, todo, callVars>>

EndRetry(j) ==
    /\ jstage[j] = "scanning"
    /\ todo[j] = {}
    /\ JobGoto(j, "idle")
    /\ UNCHANGED <<storeVars, inventoryVars, cancelVars, todo, current, callVars>>

\* The process is killed, or one order raises what the loop does not catch; the
\* next run starts from a new list.
CrashRetry(j) ==
    /\ jstage[j] # "idle"
    /\ Abandon(j, current[j])
    /\ todo' = [todo EXCEPT ![j] = {}]
    /\ current' = [current EXCEPT ![j] = NoOrder]
    /\ JobGoto(j, "idle")
    /\ UNCHANGED <<storeVars, inventoryVars, cancelVars>>

-------------------------------------------------------------------------------
(* B2B's side of the calls *)

\* The order that a caller's open call is about.
CallOrder(caller) ==
    IF caller \in Jobs THEN current[caller] ELSE target[caller].order

B2BUnreserve(caller) ==
    /\ caller \in unreserveCalls
    /\ Unreserve(CallOrder(caller))
    /\ unreserveCalls' = unreserveCalls \ {caller}
    /\ UNCHANGED <<storeVars, cancelVars, jobVars, straggling>>

B2BUnreserveLate(o) ==
    /\ o \in straggling
    /\ Unreserve(o)
    /\ straggling' = straggling \ {o}
    /\ UNCHANGED <<storeVars, cancelVars, jobVars, unreserveCalls>>

-------------------------------------------------------------------------------
\* The steps of the handler itself, which the server keeps running.
CancelStep(c) ==
    \/ RejectCancel(c)
    \/ OrderNotFound(c)
    \/ CancelNotAllowed(c)
    \/ BeginCancel(c)
    \/ FinishCancel(c)
    \/ PostponeCancel(c)

JobStep(j) ==
    \/ StartRetry(j)
    \/ \E o \in OrderIds : RetryOrder(j, o)
    \/ RetryAnswered(j)
    \/ RetryUnavailable(j)
    \/ SettleRetry(j)
    \/ EndRetry(j)

CancellationNext ==
    \/ \E c \in Cancels : CancelStep(c) \/ CrashCancel(c)
    \/ \E j \in Jobs : JobStep(j) \/ CrashRetry(j)
    \/ \E caller \in Cancels \cup Jobs : B2BUnreserve(caller)
    \/ \E o \in OrderIds : B2BUnreserveLate(o)

===============================================================================
