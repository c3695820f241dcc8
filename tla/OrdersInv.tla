------------------------------ MODULE OrdersInv -------------------------------
(***************************************************************************)
(* The inductive invariant behind the safety properties of Orders: what    *)
(* holds between the steps of the handlers, when calls to B2B are open and *)
(* locks are held.                                                         *)
(***************************************************************************)
EXTENDS Orders

CancelAccepted == {"CANCEL_PENDING", "CANCELLED"}

\* A row is committed by the last step of the attempt that minted its id.
PlacedByReplied == \A r \in Checkouts : Placed(r) => stage[r] = "replied"

\* An attempt has returned an order only if it is done.
RepliesOnce == \A r \in Checkouts : reply[r] # NoOrder => stage[r] = "replied"

\* A reserve call is open only for an attempt that still waits or gave up
\* waiting, and has reserved nothing yet.
ReserveCallsOpen ==
    \A r \in reserveCalls : /\ stage[r] \in {"reserving", "unavailable", "crashed"}
                            /\ r \notin holds

\* Stock is held only for attempts that sent their reserve call.
HoldsWereReserved ==
    \A r \in holds : stage[r] \notin {"received", "pricing", "rejected", "refused"}

CheckoutInv ==
    /\ PlacedByReplied
    /\ RepliesOnce
    /\ ReserveCallsOpen
    /\ HoldsWereReserved
    /\ OneOrderPerKey
    /\ IdempotentReplies
    /\ FailedByForeignKey

-------------------------------------------------------------------------------
\* A lock belongs to a cancellation in its transaction ...
LocksOwned ==
    \A o \in locked :
        \E c \in Cancels : cstage[c] = "unreserving" /\ target[c].order = o

\* ... which owns it alone, and whose view of the status cannot go stale.
OpenCancelSound ==
    \A c \in Cancels :
        cstage[c] = "unreserving" =>
            /\ Owns(target[c].buyer, target[c].order)
            /\ target[c].order \in locked
            /\ seen[c] = orders[target[c].order]
            /\ seen[c] \in CancellableStatuses
            /\ \A d \in Cancels \ {c} :
                 cstage[d] = "unreserving" => target[d].order # target[c].order

\* The unreserve calls that somebody waits for.
UnreserveCallsOpen ==
    \A caller \in unreserveCalls :
        IF caller \in Jobs THEN jstage[caller] = "unreserving"
                           ELSE cstage[caller] = "unreserving"

\* A cancellation whose call was performed has released the stock.
AnsweredCancelReleased ==
    \A c \in Cancels :
        cstage[c] = "unreserving" /\ c \notin unreserveCalls =>
            target[c].order \notin holds

CancelInv ==
    /\ LocksOwned
    /\ OpenCancelSound
    /\ UnreserveCallsOpen
    /\ AnsweredCancelReleased

-------------------------------------------------------------------------------
\* However old a job's list is, it names orders whose cancellation was accepted.
JobsAfterCancel ==
    \A j \in Jobs :
        /\ \A o \in todo[j] : orders[o] \in CancelAccepted
        /\ current[j] # NoOrder => orders[current[j]] \in CancelAccepted
        /\ current[j] # NoOrder <=> jstage[j] \in {"unreserving", "released"}

\* A job whose call was performed has released the stock.
AnsweredJobReleased ==
    \A j \in Jobs :
        \/ jstage[j] = "released"
        \/ jstage[j] = "unreserving" /\ j \notin unreserveCalls
        => current[j] \notin holds

JobInv ==
    /\ JobsAfterCancel
    /\ AnsweredJobReleased
    /\ CancelledReleased

-------------------------------------------------------------------------------
\* A cancellation that died in its transaction.
DiedUnreserving(c) == cstage[c] = "crashed" /\ seen[c] # Unplaced

\* An unreserve call that nobody waits for is about an order whose cancellation
\* was accepted, or died.
StragglersExplained ==
    \A o \in straggling :
        /\ Placed(o)
        /\ \/ orders[o] \in CancelAccepted
           \/ \E c \in Cancels : target[c].order = o /\ DiedUnreserving(c)

\* Where B2B holds stock per order id, an attempt that got its answer has stock.
ReservedHolds ==
    \A r \in Checkouts :
        \/ stage[r] \in {"reserved", "inserting"}
        \/ stage[r] = "reserving" /\ r \notin reserveCalls
        => r \in holds

StockInv ==
    /\ StragglersExplained
    /\ ~ReplayByKey => ReservedHolds /\ StockBehindOrder

-------------------------------------------------------------------------------
(***************************************************************************)
(* All of it, as one invariant that every step preserves.                  *)
(***************************************************************************)
IInv ==
    /\ TypeOK
    /\ CheckoutInv
    /\ CancelInv
    /\ JobInv
    /\ StockInv
    /\ HistoryFaithful

===============================================================================
