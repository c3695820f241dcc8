----------------------------- MODULE OrdersProofs -----------------------------
(***************************************************************************)
(* IInv is an invariant of Orders, and what follows from it.  There is one *)
(* lemma for each action, or for each group of actions that differ only in *)
(* the stage they lead to, with one step for each part of IInv; then the   *)
(* theorems, and StepShape, on which StatusFinal and the refinement rest.  *)
(***************************************************************************)
EXTENDS OrdersInv, TLAPS

-------------------------------------------------------------------------------
(* Histories *)

\* The empty history leads to no row at all.
LEMMA EmptyTrail == LeadsTo(<< >>, Unplaced)
<1>1. Len(<< >>) = 0
  OBVIOUS
<1> QED
  BY <1>1 DEF LeadsTo, StatusAfter

\* The two rows that _mark_paid writes lead from nothing to PAID.
LEMMA PlaceTrail ==
    LeadsTo(<< Change(Unplaced, "CREATED"), Change("CREATED", "PAID") >>, "PAID")
<1> DEFINE h == << Change(Unplaced, "CREATED"), Change("CREATED", "PAID") >>
<1>1. /\ Len(h) = 2
      /\ h[1] = Change(Unplaced, "CREATED")
      /\ h[2] = Change("CREATED", "PAID")
  OBVIOUS
<1>2. "CREATED" \in Successors[Unplaced] /\ "PAID" \in Successors["CREATED"]
  BY DEF Successors, Unplaced, OrderStatus
<1> HIDE DEF h
<1>3. LeadsTo(h, "PAID")
  BY <1>1, <1>2 DEF LeadsTo, StatusAfter, Change
<1> QED
  BY <1>3 DEF h

\* A history that leads to s, extended by a legal change from s to t, leads to t.
LEMMA AppendTrail ==
    ASSUME NEW h \in Seq(HistoryRow), NEW old, NEW new \in OrderStatus,
           Change(old, new) \in HistoryRow, LeadsTo(h, old), new \in Successors[old]
    PROVE  LeadsTo(Append(h, Change(old, new)), new)
<1> DEFINE g == Append(h, Change(old, new))
<1>1. /\ Len(h) \in Nat
      /\ Len(g) = Len(h) + 1
      /\ \A i \in 1..Len(h) : g[i] = h[i]
      /\ g[Len(h) + 1] = Change(old, new)
  OBVIOUS
<1> HIDE DEF g
<1>2. \A i \in 0..Len(h) : StatusAfter(g, i) = StatusAfter(h, i)
  BY <1>1 DEF StatusAfter
<1>3. new = StatusAfter(g, Len(g))
  BY <1>1 DEF StatusAfter, Change
<1>4. ASSUME NEW i \in 1..Len(g)
      PROVE  /\ g[i].status_from = StatusAfter(g, i - 1)
             /\ g[i].status_to \in Successors[StatusAfter(g, i - 1)]
  <2>1. CASE i \in 1..Len(h)
    BY <2>1, <1>1, <1>2 DEF LeadsTo
  <2>2. CASE i = Len(h) + 1
    BY <2>2, <1>1, <1>2 DEF LeadsTo, Change
  <2> QED
    BY <2>1, <2>2, <1>1
<1>5. LeadsTo(g, new)
  BY <1>3, <1>4 DEF LeadsTo
<1> QED
  BY <1>5 DEF g

\* A write over the committed status by a status it allows keeps every
\* history faithful.
LEMMA TransitionFaithful ==
    ASSUME StoreTypeOK, HistoryFaithful, NEW o \in OrderIds, NEW new \in OrderStatus,
           new \in Successors[orders[o]], Transition(o, orders[o], new)
    PROVE  HistoryFaithful'
<1>1. /\ history[o] \in Seq(HistoryRow)
      /\ Change(orders[o], new) \in HistoryRow
      /\ LeadsTo(history[o], orders[o])
  BY DEF StoreTypeOK, Change, HistoryRow, HistoryFaithful
<1>2. LeadsTo(Append(history[o], Change(orders[o], new)), new)
  BY <1>1, AppendTrail
<1> QED
  BY <1>2 DEF Transition, StoreTypeOK, HistoryFaithful

\* The creation of an order, rows included, keeps every history faithful.
LEMMA PlaceFaithful ==
    ASSUME StoreTypeOK, HistoryFaithful, NEW o \in OrderIds, Place(o)
    PROVE  HistoryFaithful'
BY PlaceTrail DEF Place, StoreTypeOK, HistoryFaithful

-------------------------------------------------------------------------------
\* Empty tables and handlers that have read nothing satisfy the invariant.
LEMMA InitIInv == Init => IInv
<1> SUFFICES ASSUME Init PROVE IInv
  OBVIOUS
<1> USE DEF Init, StoreInit, InventoryInit, CheckoutInit, CancellationInit, OrderIds
<1>1. TypeOK
  BY DEF TypeOK, StoreTypeOK, InventoryTypeOK, CheckoutTypeOK,
       CancellationTypeOK,
         Stages, CancelStages, JobStages, Unplaced, HistoryRow
<1>2. CheckoutInv
  BY DEF CheckoutInv, PlacedByReplied, RepliesOnce, ReserveCallsOpen,
       HoldsWereReserved,
         OneOrderPerKey, IdempotentReplies, FailedByForeignKey, Placed
<1>3. CancelInv
  BY DEF CancelInv, LocksOwned, OpenCancelSound, UnreserveCallsOpen,
         AnsweredCancelReleased
<1>4. JobInv
  BY DEF JobInv, JobsAfterCancel, AnsweredJobReleased, CancelledReleased,
       Unplaced
<1>5. StockInv
  BY DEF StockInv, StragglersExplained, ReservedHolds, StockBehindOrder
<1>6. HistoryFaithful
  BY EmptyTrail DEF HistoryFaithful
<1> QED
  BY <1>1, <1>2, <1>3, <1>4, <1>5, <1>6 DEF IInv

-------------------------------------------------------------------------------
\* Attempt r goes on to stage s and changes nothing else.
AttemptMoves(r, s) ==
    /\ stage[r] \in OpenStages
    /\ Goto(r, s)
    /\ UNCHANGED <<storeVars, inventoryVars, reply, reserveCalls, cancellationVars>>

\* A checkout attempt that only moves on in its handler preserves the invariant.
LEMMA AttemptMovesInv ==
    ASSUME IInv, NEW r \in Checkouts, NEW s \in Stages,
           AttemptMoves(r, s),
           s \in {"rejected", "refused"} => stage[r] \in {"received", "pricing"},
           s = "pricing" => stage[r] = "received",
           s \notin {"received", "reserving", "replied", "failed"},
           r \in reserveCalls => s \in {"unavailable", "crashed"},
           s = "reserved" => stage[r] = "reserving",
           s = "inserting" => stage[r] = "reserved"
    PROVE  IInv'
<1> USE DEF AttemptMoves, Goto, storeVars, inventoryVars, cancellationVars, cancelVars, jobVars,
            callVars, IInv
<1>1. TypeOK'
  BY DEF TypeOK, StoreTypeOK, InventoryTypeOK, CheckoutTypeOK,
       CancellationTypeOK
<1>2. CheckoutInv'
  BY DEF TypeOK, CheckoutTypeOK, InventoryTypeOK, OrderIds, CheckoutInv,
       PlacedByReplied, RepliesOnce, ReserveCallsOpen, HoldsWereReserved,
         OneOrderPerKey, IdempotentReplies, FailedByForeignKey, Placed, OpenStages,
         ExistingOrders, Owns, Stages
<1>3. CancelInv'
  BY DEF CancelInv, LocksOwned, OpenCancelSound, UnreserveCallsOpen,
         AnsweredCancelReleased, Owns, Placed
<1>4. JobInv'
  BY DEF JobInv, JobsAfterCancel, AnsweredJobReleased, CancelledReleased
<1>5. StockInv'
  BY DEF TypeOK, CheckoutTypeOK, Stages, StockInv, StragglersExplained,
       ReservedHolds, StockBehindOrder, Placed, DiedUnreserving
<1>6. HistoryFaithful'
  BY DEF HistoryFaithful
<1> QED
  BY <1>1, <1>2, <1>3, <1>4, <1>5, <1>6 DEF IInv

\* Attempt r answers with the order o.
AttemptReturns(r, o) ==
    /\ stage[r] \in {"received", "reserved", "inserting"}
    /\ o \in ExistingOrders(r)
    /\ ReplyWith(r, o)
    /\ UNCHANGED <<storeVars, inventoryVars, reserveCalls, cancellationVars>>

\* Answering an attempt with an order that exists preserves the invariant.
LEMMA AttemptReturnsInv ==
    ASSUME IInv, NEW r \in Checkouts, NEW o \in OrderIds, AttemptReturns(r, o)
    PROVE  IInv'
<1> USE DEF AttemptReturns, ReplyWith, Goto, storeVars, inventoryVars, cancellationVars,
            cancelVars, jobVars, callVars, IInv
<1>1. TypeOK'
  BY DEF TypeOK, StoreTypeOK, InventoryTypeOK, CheckoutTypeOK,
       CancellationTypeOK, Stages
<1>2. CheckoutInv'
  BY DEF TypeOK, CheckoutTypeOK, InventoryTypeOK, OrderIds, CheckoutInv,
       PlacedByReplied, RepliesOnce,
         ReserveCallsOpen, HoldsWereReserved, OneOrderPerKey, IdempotentReplies,
         FailedByForeignKey, Placed, ExistingOrders, Owns, Stages
<1>3. CancelInv'
  BY DEF CancelInv, LocksOwned, OpenCancelSound, UnreserveCallsOpen,
         AnsweredCancelReleased, Owns, Placed
<1>4. JobInv'
  BY DEF JobInv, JobsAfterCancel, AnsweredJobReleased, CancelledReleased
<1>5. StockInv'
  BY DEF TypeOK, CheckoutTypeOK, Stages, StockInv, StragglersExplained,
       ReservedHolds,
         StockBehindOrder, Placed, DiedUnreserving
<1>6. HistoryFaithful'
  BY DEF HistoryFaithful
<1> QED
  BY <1>1, <1>2, <1>3, <1>4, <1>5, <1>6 DEF IInv

\* The half of KeyConflict that finds no order to return.
ConflictFails(r) ==
    /\ stage[r] = "inserting"
    /\ KeyTaken(request[r].key)
    /\ ExistingOrders(r) = {}
    /\ Goto(r, "failed")
    /\ UNCHANGED <<storeVars, inventoryVars, reply, reserveCalls, cancellationVars>>

\* An attempt that finds no order after the unique index refused its row
\* preserves the invariant: the key is another buyer's.
LEMMA ConflictFailsInv ==
    ASSUME IInv, NEW r \in Checkouts, ConflictFails(r)
    PROVE  IInv'
<1> USE DEF ConflictFails, Goto, storeVars, inventoryVars, cancellationVars,
            cancelVars, jobVars, callVars, IInv
<1>1. TypeOK'
  BY DEF TypeOK, StoreTypeOK, InventoryTypeOK, CheckoutTypeOK,
       CancellationTypeOK, Stages
<1>2. CheckoutInv'
  <2>1. PlacedByReplied' /\ RepliesOnce' /\ ReserveCallsOpen' /\ HoldsWereReserved'
    BY DEF TypeOK, CheckoutTypeOK, InventoryTypeOK, OrderIds, CheckoutInv,
         PlacedByReplied, RepliesOnce,
           ReserveCallsOpen, HoldsWereReserved, Placed
  <2>2. OneOrderPerKey' /\ IdempotentReplies'
    BY DEF CheckoutInv, OneOrderPerKey, IdempotentReplies, Placed,
         ExistingOrders, Owns
  <2>3. PICK o \in OrderIds : Placed(o) /\ request[o].key = request[r].key
    BY DEF KeyTaken
  <2>4. request[o].buyer # request[r].buyer
    BY <2>3 DEF ExistingOrders, Owns
  <2>5. FailedByForeignKey'
    BY <2>3, <2>4 DEF TypeOK, CheckoutTypeOK, CheckoutInv, FailedByForeignKey,
         Placed
  <2> QED
    BY <2>1, <2>2, <2>5 DEF CheckoutInv
<1>3. CancelInv'
  BY DEF CancelInv, LocksOwned, OpenCancelSound, UnreserveCallsOpen,
         AnsweredCancelReleased, Owns, Placed
<1>4. JobInv'
  BY DEF JobInv, JobsAfterCancel, AnsweredJobReleased, CancelledReleased
<1>5. StockInv'
  BY DEF TypeOK, CheckoutTypeOK, Stages, StockInv, StragglersExplained,
       ReservedHolds,
         StockBehindOrder, Placed, DiedUnreserving
<1>6. HistoryFaithful'
  BY DEF HistoryFaithful
<1> QED
  BY <1>1, <1>2, <1>3, <1>4, <1>5, <1>6 DEF IInv

\* Sending the reserve call preserves the invariant.
LEMMA SendReserveInv ==
    ASSUME IInv, NEW r \in Checkouts, SendReserve(r), UNCHANGED cancellationVars
    PROVE  IInv'
<1> USE DEF SendReserve, Goto, storeVars, inventoryVars, cancellationVars,
            cancelVars, jobVars, callVars, IInv
<1>1. TypeOK'
  BY DEF TypeOK, StoreTypeOK, InventoryTypeOK, CheckoutTypeOK,
       CancellationTypeOK, Stages
<1>2. CheckoutInv'
  BY DEF TypeOK, CheckoutTypeOK, InventoryTypeOK, OrderIds, CheckoutInv,
       PlacedByReplied, RepliesOnce,
         ReserveCallsOpen, HoldsWereReserved, OneOrderPerKey, IdempotentReplies,
         FailedByForeignKey, Placed, ExistingOrders, Owns, Stages
<1>3. CancelInv'
  BY DEF CancelInv, LocksOwned, OpenCancelSound, UnreserveCallsOpen,
         AnsweredCancelReleased, Owns, Placed
<1>4. JobInv'
  BY DEF JobInv, JobsAfterCancel, AnsweredJobReleased, CancelledReleased
<1>5. StockInv'
  BY DEF TypeOK, CheckoutTypeOK, Stages, StockInv, StragglersExplained,
       ReservedHolds,
         StockBehindOrder, Placed, DiedUnreserving
<1>6. HistoryFaithful'
  BY DEF HistoryFaithful
<1> QED
  BY <1>1, <1>2, <1>3, <1>4, <1>5, <1>6 DEF IInv

\* B2B performing a reserve call, in time or late, preserves the invariant.
LEMMA B2BReserveInv ==
    ASSUME IInv, NEW r \in Checkouts, B2BReserve(r), UNCHANGED cancellationVars
    PROVE  IInv'
<1> USE DEF B2BReserve, Reserve, storeVars, cancellationVars, cancelVars, jobVars,
            callVars, IInv
<1>0. ~Placed(r) /\ stage[r] \in {"reserving", "unavailable", "crashed"} /\ r \notin holds
  BY DEF CheckoutInv, PlacedByReplied, RepliesOnce, ReserveCallsOpen
<1>h. holds' \subseteq holds \cup {r} /\ holds \subseteq holds'
  OBVIOUS
<1>1. TypeOK'
  BY DEF TypeOK, StoreTypeOK, InventoryTypeOK, CheckoutTypeOK,
       CancellationTypeOK, OrderIds
<1>2. CheckoutInv'
  BY <1>0, <1>h DEF CheckoutInv, PlacedByReplied, RepliesOnce,
       ReserveCallsOpen, HoldsWereReserved,
         OneOrderPerKey, IdempotentReplies, FailedByForeignKey, Placed, ExistingOrders, Owns
<1>3. CancelInv'
  BY <1>0, <1>h DEF CancelInv, LocksOwned, OpenCancelSound, UnreserveCallsOpen,
         AnsweredCancelReleased, Owns, Placed
<1>4. JobInv'
  BY <1>0, <1>h DEF JobInv, JobsAfterCancel, AnsweredJobReleased,
       CancelledReleased, Placed,
         CancelAccepted, Unplaced
<1>5. StockInv'
  BY <1>0, <1>h DEF TypeOK, CheckoutTypeOK, StockInv, StragglersExplained,
       ReservedHolds,
         StockBehindOrder, Placed, DiedUnreserving
<1>6. HistoryFaithful'
  BY DEF HistoryFaithful
<1> QED
  BY <1>1, <1>2, <1>3, <1>4, <1>5, <1>6 DEF IInv

\* B2B refusing a reserve call preserves the invariant: nothing was held for it.
LEMMA B2BRefuseInv ==
    ASSUME IInv, NEW r \in Checkouts, B2BRefuse(r), UNCHANGED cancellationVars
    PROVE  IInv'
<1> USE DEF B2BRefuse, Goto, storeVars, inventoryVars, cancellationVars, cancelVars,
            jobVars, callVars, IInv
<1>0. ~Placed(r) /\ stage[r] \in {"reserving", "unavailable", "crashed"} /\ r \notin holds
  BY DEF CheckoutInv, PlacedByReplied, RepliesOnce, ReserveCallsOpen
<1>1. TypeOK'
  BY <1>0 DEF TypeOK, StoreTypeOK, InventoryTypeOK, CheckoutTypeOK,
       CancellationTypeOK, Stages
<1>2. CheckoutInv'
  BY <1>0 DEF TypeOK, CheckoutTypeOK, CheckoutInv, PlacedByReplied,
       RepliesOnce, ReserveCallsOpen,
         HoldsWereReserved, OneOrderPerKey, IdempotentReplies, FailedByForeignKey, Placed,
         ExistingOrders, Owns
<1>3. CancelInv'
  BY DEF CancelInv, LocksOwned, OpenCancelSound, UnreserveCallsOpen,
         AnsweredCancelReleased, Owns, Placed
<1>4. JobInv'
  BY DEF JobInv, JobsAfterCancel, AnsweredJobReleased, CancelledReleased
<1>5. StockInv'
  BY <1>0 DEF TypeOK, CheckoutTypeOK, StockInv, StragglersExplained,
       ReservedHolds,
         StockBehindOrder, Placed, DiedUnreserving
<1>6. HistoryFaithful'
  BY DEF HistoryFaithful
<1> QED
  BY <1>1, <1>2, <1>3, <1>4, <1>5, <1>6 DEF IInv

\* The commit of a new order preserves the invariant: the key was free, and no
\* other attempt has an order under it.
LEMMA InsertOrderInv ==
    ASSUME IInv, NEW r \in Checkouts, InsertOrder(r), UNCHANGED cancellationVars
    PROVE  IInv'
<1> USE DEF InsertOrder, Place, ReplyWith, Goto, storeVars, inventoryVars, cancellationVars,
            cancelVars, jobVars, callVars, IInv, OrderIds
<1>0. ~Placed(r) /\ r \notin reserveCalls
  BY DEF CheckoutInv, PlacedByReplied, RepliesOnce, ReserveCallsOpen
<1>1. TypeOK'
  BY DEF TypeOK, StoreTypeOK, InventoryTypeOK, CheckoutTypeOK,
       CancellationTypeOK, Stages,
         OrderStatus, HistoryRow, Change, Unplaced
<1>2. CheckoutInv'
  <2>1. PlacedByReplied' /\ RepliesOnce' /\ ReserveCallsOpen' /\ HoldsWereReserved'
    BY <1>0 DEF TypeOK, CheckoutTypeOK, StoreTypeOK, CheckoutInv,
         PlacedByReplied, RepliesOnce,
                ReserveCallsOpen, HoldsWereReserved, Placed
  <2>2. OneOrderPerKey'
    BY <1>0 DEF TypeOK, StoreTypeOK, CheckoutInv, OneOrderPerKey, Placed,
         KeyTaken, Unplaced
  <2>3. IdempotentReplies'
    BY DEF TypeOK, CheckoutTypeOK, StoreTypeOK, CheckoutInv, IdempotentReplies,
         Placed,
           ExistingOrders, Owns, Unplaced
  <2>4. FailedByForeignKey'
    BY DEF TypeOK, CheckoutTypeOK, StoreTypeOK, CheckoutInv,
         FailedByForeignKey, Placed, Unplaced
  <2> QED
    BY <2>1, <2>2, <2>3, <2>4 DEF CheckoutInv
<1>3. CancelInv'
  BY <1>0 DEF TypeOK, StoreTypeOK, CancelInv, LocksOwned, OpenCancelSound,
       UnreserveCallsOpen,
         AnsweredCancelReleased, Owns, Placed
<1>4. JobInv'
  BY <1>0 DEF TypeOK, StoreTypeOK, JobInv, JobsAfterCancel, AnsweredJobReleased,
         CancelledReleased, Placed, CancelAccepted, Unplaced
<1>5. StockInv'
  BY <1>0 DEF TypeOK, CheckoutTypeOK, StoreTypeOK, StockInv,
       StragglersExplained, ReservedHolds,
         StockBehindOrder, Placed, DiedUnreserving, Unplaced
<1>6. HistoryFaithful'
  BY PlaceFaithful DEF TypeOK
<1> QED
  BY <1>1, <1>2, <1>3, <1>4, <1>5, <1>6 DEF IInv

-------------------------------------------------------------------------------
\* Cancellation c ends in stage s before its transaction did anything.
CancelEnds(c, s) ==
    /\ cstage[c] = "received"
    /\ CancelGoto(c, s)
    /\ UNCHANGED <<storeVars, inventoryVars, target, jobVars, callVars, checkoutVars>>

\* A cancellation that ends before it wrote or locked anything preserves the
\* invariant.
LEMMA CancelEndsInv ==
    ASSUME IInv, NEW c \in Cancels, NEW s \in CancelStages \ {"unreserving"}, CancelEnds(c, s),
           \A d \in Cancels \ {c} : seen'[d] = seen[d],
           seen' \in [Cancels -> OrderStatus \cup {Unplaced}]
    PROVE  IInv'
<1> USE DEF CancelEnds, CancelGoto, storeVars, inventoryVars, jobVars, callVars, checkoutVars, IInv
<1>1. TypeOK'
  BY DEF TypeOK, StoreTypeOK, InventoryTypeOK, CheckoutTypeOK,
       CancellationTypeOK
<1>2. CheckoutInv'
  BY DEF CheckoutInv, PlacedByReplied, RepliesOnce, ReserveCallsOpen,
       HoldsWereReserved, OneOrderPerKey,
         IdempotentReplies, FailedByForeignKey, Placed, ExistingOrders, Owns
<1>3. CancelInv'
  BY DEF TypeOK, CancellationTypeOK, CancelInv, LocksOwned, OpenCancelSound,
         UnreserveCallsOpen, AnsweredCancelReleased, Owns, Placed
<1>4. JobInv'
  BY DEF JobInv, JobsAfterCancel, AnsweredJobReleased, CancelledReleased
<1>5. StockInv'
  <2>1. \A d \in Cancels : DiedUnreserving(d) => DiedUnreserving(d)'
    BY DEF TypeOK, CancellationTypeOK, DiedUnreserving
  <2>2. StragglersExplained'
    BY <2>1 DEF StockInv, StragglersExplained, Placed
  <2>3. \A d \in Cancels : cstage[d] = "unreserving" => cstage'[d] = "unreserving"
    BY DEF TypeOK, CancellationTypeOK
  <2>4. ~ReplayByKey => ReservedHolds' /\ StockBehindOrder'
    BY <2>1, <2>3 DEF StockInv, ReservedHolds, StockBehindOrder, DiedUnreserving
  <2> QED
    BY <2>2, <2>4 DEF StockInv
<1>6. HistoryFaithful'
  BY DEF HistoryFaithful
<1> QED
  BY <1>1, <1>2, <1>3, <1>4, <1>5, <1>6 DEF IInv

\* Taking the lock and calling B2B preserves the invariant: no other open
\* cancellation has this order.
LEMMA BeginCancelInv ==
    ASSUME IInv, NEW c \in Cancels, BeginCancel(c), UNCHANGED checkoutVars
    PROVE  IInv'
<1> USE DEF BeginCancel, LockedRead, Call, CancelGoto, storeVars, inventoryVars, jobVars,
            checkoutVars, IInv
<1> DEFINE o == target[c].order
<1>0. o \in OrderIds /\ o \notin locked
  BY DEF TypeOK, CancellationTypeOK, StoreTypeOK, Owns, BuyerLocked
<1>1. TypeOK'
  BY <1>0 DEF TypeOK, StoreTypeOK, InventoryTypeOK, CheckoutTypeOK,
       CancellationTypeOK,
              CancelStages
<1>2. CheckoutInv'
  BY DEF CheckoutInv, PlacedByReplied, RepliesOnce, ReserveCallsOpen,
       HoldsWereReserved, OneOrderPerKey,
         IdempotentReplies, FailedByForeignKey, Placed, ExistingOrders, Owns
<1>3. CancelInv'
  <2>1. LocksOwned' /\ UnreserveCallsOpen' /\ AnsweredCancelReleased'
    BY CallersAssumption DEF TypeOK, CancellationTypeOK, CancelInv, LocksOwned,
       UnreserveCallsOpen, AnsweredCancelReleased
  <2>2. OpenCancelSound'
    BY <1>0 DEF TypeOK, CancellationTypeOK, CancelInv, OpenCancelSound, Owns,
         Placed
  <2> QED
    BY <2>1, <2>2 DEF CancelInv
<1>4. JobInv'
  BY CallersAssumption DEF JobInv, JobsAfterCancel, AnsweredJobReleased,
       CancelledReleased
<1>5. StockInv'
  <2>1. \A d \in Cancels : DiedUnreserving(d) => d # c /\ DiedUnreserving(d)'
    BY DEF TypeOK, CancellationTypeOK, DiedUnreserving
  <2>2. StragglersExplained'
    BY <2>1 DEF StockInv, StragglersExplained, Placed
  <2>3. ~ReplayByKey => ReservedHolds' /\ StockBehindOrder'
    BY DEF TypeOK, CancellationTypeOK, StockInv, ReservedHolds, StockBehindOrder
  <2> QED
    BY <2>2, <2>3 DEF StockInv
<1>6. HistoryFaithful'
  BY DEF HistoryFaithful
<1> QED
  BY <1>1, <1>2, <1>3, <1>4, <1>5, <1>6 DEF IInv

\* FinishCancel and PostponeCancel: cancellation c commits the status new.
CancelWrites(c, new) ==
    /\ cstage[c] = "unreserving"
    /\ Transition(target[c].order, seen[c], new)
    /\ locked' = locked \ {target[c].order}
    /\ new = "CANCELLED" => c \notin unreserveCalls
    /\ CancelGoto(c, IF new = "CANCELLED" THEN "cancelled" ELSE "pending")
    /\ Abandon(c, target[c].order)
    /\ UNCHANGED <<request, inventoryVars, target, seen, jobVars, checkoutVars>>

\* The commit of a cancellation, as CANCELLED after an answer or as
\* CANCEL_PENDING without one, preserves the invariant.
LEMMA CancelWritesInv ==
    ASSUME IInv, NEW c \in Cancels, NEW new \in CancelAccepted, CancelWrites(c, new)
    PROVE  IInv'
<1> DEFINE o == target[c].order
<1> USE DEF IInv
<1>0. /\ o \in OrderIds
      /\ Placed(o)
      /\ seen[c] = orders[o]
      /\ orders[o] \in CancellableStatuses
      /\ new \in OrderStatus
  BY DEF CancelWrites, TypeOK, CancellationTypeOK, CancelInv, OpenCancelSound,
       CancelAccepted,
         OrderStatus, Owns
<1>t. Transition(o, orders[o], new)
  BY <1>0 DEF CancelWrites
<1>a. /\ orders' = [orders EXCEPT ![o] = new]
      /\ history' = [history EXCEPT ![o] = Append(@, Change(orders[o], new))]
  BY <1>t DEF Transition
<1>b. /\ cstage' = [cstage EXCEPT ![c] = IF new = "CANCELLED" THEN "cancelled" ELSE "pending"]
      /\ cstage[c] = "unreserving"
      /\ locked' = locked \ {o}
      /\ new = "CANCELLED" => c \notin unreserveCalls
      /\ unreserveCalls' = unreserveCalls \ {c}
      /\ straggling' = IF c \in unreserveCalls THEN straggling \cup {o} ELSE straggling
      /\ UNCHANGED <<request, holds, granted, target, seen, jstage, todo, current,
                     stage, reply, reserveCalls>>
  BY DEF CancelWrites, CancelGoto, Abandon, inventoryVars, jobVars, checkoutVars
<1>c. \A p \in OrderIds : Placed(p)' <=> Placed(p)
  BY <1>0, <1>a DEF TypeOK, StoreTypeOK, Placed, CancelAccepted, Unplaced
<1>1. TypeOK'
  <2>1. Change(orders[o], new) \in HistoryRow
    BY <1>0 DEF TypeOK, StoreTypeOK, Change, HistoryRow
  <2>2. StoreTypeOK'
    BY <2>1, <1>0, <1>a, <1>b DEF TypeOK, StoreTypeOK
  <2>3. InventoryTypeOK' /\ CheckoutTypeOK' /\ CancellationTypeOK'
    BY <1>0, <1>b DEF TypeOK, InventoryTypeOK, CheckoutTypeOK,
         CancellationTypeOK, CancelStages
  <2> QED
    BY <2>2, <2>3 DEF TypeOK
<1>2. CheckoutInv'
  <2>1. PlacedByReplied' /\ RepliesOnce' /\ ReserveCallsOpen' /\ HoldsWereReserved'
    BY <1>b, <1>c DEF CheckoutInv, PlacedByReplied, RepliesOnce,
         ReserveCallsOpen, HoldsWereReserved, OrderIds
  <2>2. OneOrderPerKey' /\ FailedByForeignKey'
    BY <1>b, <1>c DEF CheckoutInv, OneOrderPerKey, FailedByForeignKey
  <2>3. IdempotentReplies'
    BY <1>b, <1>c DEF CheckoutInv, IdempotentReplies, ExistingOrders, Owns
  <2> QED
    BY <2>1, <2>2, <2>3 DEF CheckoutInv
<1>3. CancelInv'
  <2>1. LocksOwned' /\ UnreserveCallsOpen' /\ AnsweredCancelReleased'
    BY <1>0, <1>b, CallersAssumption DEF TypeOK, CancellationTypeOK, CancelInv,
         LocksOwned,
       OpenCancelSound, UnreserveCallsOpen, AnsweredCancelReleased
  <2>2. OpenCancelSound'
    BY <1>0, <1>a, <1>b DEF TypeOK, CancellationTypeOK, StoreTypeOK, CancelInv,
       OpenCancelSound, Owns, Placed
  <2> QED
    BY <2>1, <2>2 DEF CancelInv
<1>4. JobInv'
  <2>1. JobsAfterCancel'
    BY <1>0, <1>a, <1>b DEF TypeOK, StoreTypeOK, CancellationTypeOK, JobInv,
         JobsAfterCancel
  <2>2. AnsweredJobReleased'
    BY <1>b, CallersAssumption DEF JobInv, AnsweredJobReleased
  <2>3. CancelledReleased'
    BY <1>0, <1>a, <1>b DEF TypeOK, StoreTypeOK, JobInv, CancelledReleased,
         CancelInv,
       AnsweredCancelReleased
  <2> QED
    BY <2>1, <2>2, <2>3 DEF JobInv
<1>5. StockInv'
  <2>1. \A d \in Cancels : DiedUnreserving(d) => DiedUnreserving(d)'
    BY <1>b DEF TypeOK, CancellationTypeOK, DiedUnreserving
  <2>2. \A p \in OrderIds : orders[p] \in CancelAccepted => orders'[p] \in CancelAccepted
    BY <1>0, <1>a DEF TypeOK, StoreTypeOK
  <2>3. orders'[o] \in CancelAccepted
    BY <1>0, <1>a DEF TypeOK, StoreTypeOK
  <2>4. StragglersExplained'
    BY <1>0, <1>b, <1>c, <2>1, <2>2, <2>3 DEF TypeOK, CancellationTypeOK,
         StockInv, StragglersExplained
  <2>5. ~ReplayByKey => ReservedHolds'
    BY <1>b DEF StockInv, ReservedHolds
  <2>6. ASSUME ~ReplayByKey PROVE StockBehindOrder'
    <3>1. ASSUME NEW p \in OrderIds, p # o
          PROVE  \/ p \in holds
                 \/ orders'[p] \in {Unplaced, "CANCEL_PENDING", "CANCELLED"}
                 \/ \E d \in Cancels : /\ target[d].order = p
                                       /\ \/ cstage'[d] = "unreserving"
                                          \/ cstage'[d] = "crashed" /\ seen[d] # Unplaced
      <4>1. \A d \in Cancels : target[d].order = p => cstage'[d] = cstage[d]
        BY <1>b, <3>1 DEF TypeOK, CancellationTypeOK
      <4>2. orders'[p] = orders[p]
        BY <1>a, <3>1 DEF TypeOK, StoreTypeOK
      <4> QED
        BY <2>6, <4>1, <4>2 DEF StockInv, StockBehindOrder
    <3> QED
      BY <1>b, <2>3, <3>1 DEF StockBehindOrder, CancelAccepted
  <2> QED
    BY <2>4, <2>5, <2>6 DEF StockInv
<1>6. HistoryFaithful'
  <2>1. new \in Successors[orders[o]]
    BY <1>0 DEF CancellableStatuses, CancelAccepted, Successors, OrderStatus,
         Unplaced
  <2> QED
    BY <2>1, <1>0, <1>t, TransitionFaithful DEF TypeOK
<1> QED
  BY <1>1, <1>2, <1>3, <1>4, <1>5, <1>6 DEF IInv

\* CrashCancel inside the transaction.
CancelDies(c) ==
    /\ cstage[c] = "unreserving"
    /\ CrashCancel(c)
    /\ UNCHANGED checkoutVars

\* A cancellation that is rolled back in its transaction preserves the invariant.
LEMMA CancelDiesInv ==
    ASSUME IInv, NEW c \in Cancels, CancelDies(c)
    PROVE  IInv'
<1> DEFINE o == target[c].order
<1> USE DEF IInv
<1>0. /\ o \in OrderIds
      /\ Placed(o)
      /\ seen[c] # Unplaced
  BY DEF CancelDies, TypeOK, CancellationTypeOK, CancelInv, OpenCancelSound,
       Owns, Placed
<1>b. /\ cstage' = [cstage EXCEPT ![c] = "crashed"]
      /\ cstage[c] = "unreserving"
      /\ locked' = locked \ {o}
      /\ unreserveCalls' = unreserveCalls \ {c}
      /\ straggling' = IF c \in unreserveCalls THEN straggling \cup {o} ELSE straggling
      /\ UNCHANGED <<request, orders, history, holds, granted, target, seen, jstage, todo,
                     current, stage, reply, reserveCalls>>
  BY DEF CancelDies, CrashCancel, CancelGoto, Abandon, inventoryVars, jobVars,
       checkoutVars
<1>1. TypeOK'
  BY <1>0, <1>b DEF TypeOK, StoreTypeOK, InventoryTypeOK, CheckoutTypeOK,
       CancellationTypeOK,
     CancelStages
<1>2. CheckoutInv'
  BY <1>b DEF CheckoutInv, PlacedByReplied, RepliesOnce, ReserveCallsOpen,
       HoldsWereReserved,
     OneOrderPerKey, IdempotentReplies, FailedByForeignKey, Placed, ExistingOrders, Owns
<1>3. CancelInv'
  BY <1>b, CallersAssumption DEF TypeOK, CancellationTypeOK, CancelInv,
       LocksOwned,
     OpenCancelSound, UnreserveCallsOpen, AnsweredCancelReleased, Owns, Placed
<1>4. JobInv'
  BY <1>b, CallersAssumption DEF JobInv, JobsAfterCancel, AnsweredJobReleased,
     CancelledReleased
<1>5. StockInv'
  BY <1>0, <1>b DEF TypeOK, CancellationTypeOK, StockInv, StragglersExplained,
       ReservedHolds,
     StockBehindOrder, Placed, DiedUnreserving
<1>6. HistoryFaithful'
  BY <1>b DEF HistoryFaithful
<1> QED
  BY <1>1, <1>2, <1>3, <1>4, <1>5, <1>6 DEF IInv

-------------------------------------------------------------------------------
\* Listing the pending orders preserves the invariant.
LEMMA StartRetryInv ==
    ASSUME IInv, NEW j \in Jobs, StartRetry(j), UNCHANGED checkoutVars
    PROVE  IInv'
<1> USE DEF StartRetry, JobGoto, storeVars, inventoryVars, cancelVars,
           jobVars, callVars,
            checkoutVars, IInv
<1>1. TypeOK'
  BY DEF TypeOK, StoreTypeOK, InventoryTypeOK, CheckoutTypeOK,
       CancellationTypeOK, JobStages
<1>2. CheckoutInv'
  BY DEF CheckoutInv, PlacedByReplied, RepliesOnce, ReserveCallsOpen,
       HoldsWereReserved, OneOrderPerKey,
         IdempotentReplies, FailedByForeignKey, Placed, ExistingOrders, Owns
<1>3. CancelInv'
  BY CallersAssumption DEF CancelInv, LocksOwned, OpenCancelSound,
       UnreserveCallsOpen,
     AnsweredCancelReleased, Owns, Placed
<1>4. JobInv'
  BY DEF TypeOK, CancellationTypeOK, JobInv, JobsAfterCancel,
       AnsweredJobReleased,
         CancelledReleased, CancelAccepted
<1>5. StockInv'
  BY DEF StockInv, StragglersExplained, ReservedHolds, StockBehindOrder,
       Placed, DiedUnreserving
<1>6. HistoryFaithful'
  BY DEF HistoryFaithful
<1> QED
  BY <1>1, <1>2, <1>3, <1>4, <1>5, <1>6 DEF IInv

\* Taking the next order of the list and calling B2B preserves the invariant.
LEMMA RetryOrderInv ==
    ASSUME IInv, NEW j \in Jobs, NEW o \in OrderIds, RetryOrder(j, o), UNCHANGED checkoutVars
    PROVE  IInv'
<1> USE DEF RetryOrder, JobGoto, Call, storeVars, inventoryVars, cancelVars,
           jobVars, callVars,
            checkoutVars, IInv
<1>0. o # NoOrder
  BY NoOrderAssumption DEF OrderIds
<1>1. TypeOK'
  BY DEF TypeOK, StoreTypeOK, InventoryTypeOK, CheckoutTypeOK,
       CancellationTypeOK, JobStages
<1>2. CheckoutInv'
  BY DEF CheckoutInv, PlacedByReplied, RepliesOnce, ReserveCallsOpen,
       HoldsWereReserved, OneOrderPerKey,
         IdempotentReplies, FailedByForeignKey, Placed, ExistingOrders, Owns
<1>3. CancelInv'
  <2>1. LocksOwned' /\ OpenCancelSound' /\ AnsweredCancelReleased'
    BY CallersAssumption DEF CancelInv, LocksOwned, OpenCancelSound,
         AnsweredCancelReleased,
       Owns, Placed
  <2>2. UnreserveCallsOpen'
    BY CallersAssumption DEF TypeOK, CancellationTypeOK, CancelInv,
         UnreserveCallsOpen
  <2> QED
    BY <2>1, <2>2 DEF CancelInv
<1>4. JobInv'
  BY <1>0 DEF TypeOK, CancellationTypeOK, JobInv, JobsAfterCancel,
       AnsweredJobReleased,
     CancelledReleased
<1>5. StockInv'
  BY DEF StockInv, StragglersExplained, ReservedHolds, StockBehindOrder,
       Placed, DiedUnreserving
<1>6. HistoryFaithful'
  BY DEF HistoryFaithful
<1> QED
  BY <1>1, <1>2, <1>3, <1>4, <1>5, <1>6 DEF IInv

\* A retry job hearing that the stock is released preserves the invariant.
LEMMA RetryAnsweredInv ==
    ASSUME IInv, NEW j \in Jobs, RetryAnswered(j), UNCHANGED checkoutVars
    PROVE  IInv'
<1> USE DEF RetryAnswered, JobGoto, storeVars, inventoryVars, cancelVars,
           jobVars, callVars,
            checkoutVars, IInv
<1>1. TypeOK'
  BY DEF TypeOK, StoreTypeOK, InventoryTypeOK, CheckoutTypeOK,
       CancellationTypeOK, JobStages
<1>2. CheckoutInv'
  BY DEF CheckoutInv, PlacedByReplied, RepliesOnce, ReserveCallsOpen,
       HoldsWereReserved, OneOrderPerKey,
         IdempotentReplies, FailedByForeignKey, Placed, ExistingOrders, Owns
<1>3. CancelInv'
  BY CallersAssumption DEF CancelInv, LocksOwned, OpenCancelSound,
       UnreserveCallsOpen,
     AnsweredCancelReleased, Owns, Placed
<1>4. JobInv'
  BY DEF TypeOK, CancellationTypeOK, JobInv, JobsAfterCancel,
       AnsweredJobReleased,
         CancelledReleased, CancelAccepted
<1>5. StockInv'
  BY DEF StockInv, StragglersExplained, ReservedHolds, StockBehindOrder,
       Placed, DiedUnreserving
<1>6. HistoryFaithful'
  BY DEF HistoryFaithful
<1> QED
  BY <1>1, <1>2, <1>3, <1>4, <1>5, <1>6 DEF IInv

\* The end of a run of the retry job preserves the invariant.
LEMMA EndRetryInv ==
    ASSUME IInv, NEW j \in Jobs, EndRetry(j), UNCHANGED checkoutVars
    PROVE  IInv'
<1> USE DEF EndRetry, JobGoto, storeVars, inventoryVars, cancelVars,
           jobVars, callVars,
            checkoutVars, IInv
<1>1. TypeOK'
  BY DEF TypeOK, StoreTypeOK, InventoryTypeOK, CheckoutTypeOK,
       CancellationTypeOK, JobStages
<1>2. CheckoutInv'
  BY DEF CheckoutInv, PlacedByReplied, RepliesOnce, ReserveCallsOpen,
       HoldsWereReserved, OneOrderPerKey,
         IdempotentReplies, FailedByForeignKey, Placed, ExistingOrders, Owns
<1>3. CancelInv'
  BY CallersAssumption DEF CancelInv, LocksOwned, OpenCancelSound,
       UnreserveCallsOpen,
     AnsweredCancelReleased, Owns, Placed
<1>4. JobInv'
  BY DEF TypeOK, CancellationTypeOK, JobInv, JobsAfterCancel,
       AnsweredJobReleased,
         CancelledReleased, CancelAccepted
<1>5. StockInv'
  BY DEF StockInv, StragglersExplained, ReservedHolds, StockBehindOrder,
       Placed, DiedUnreserving
<1>6. HistoryFaithful'
  BY DEF HistoryFaithful
<1> QED
  BY <1>1, <1>2, <1>3, <1>4, <1>5, <1>6 DEF IInv

\* A retry job giving up on one order preserves the invariant.
LEMMA RetryUnavailableInv ==
    ASSUME IInv, NEW j \in Jobs, RetryUnavailable(j), UNCHANGED checkoutVars
    PROVE  IInv'
<1> USE DEF RetryUnavailable, JobGoto, Abandon, storeVars, inventoryVars, cancelVars,
           jobVars, callVars,
            checkoutVars, IInv
<1>0. j \in unreserveCalls => current[j] \in OrderIds /\ orders[current[j]] \in CancelAccepted
  BY DEF TypeOK, CancellationTypeOK, CancelInv, UnreserveCallsOpen, JobInv,
       JobsAfterCancel
<1>1. TypeOK'
  BY <1>0 DEF TypeOK, StoreTypeOK, InventoryTypeOK, CheckoutTypeOK,
       CancellationTypeOK, JobStages
<1>2. CheckoutInv'
  BY DEF CheckoutInv, PlacedByReplied, RepliesOnce, ReserveCallsOpen,
       HoldsWereReserved, OneOrderPerKey,
         IdempotentReplies, FailedByForeignKey, Placed, ExistingOrders, Owns
<1>3. CancelInv'
  BY CallersAssumption DEF CancelInv, LocksOwned, OpenCancelSound,
       UnreserveCallsOpen,
     AnsweredCancelReleased, Owns, Placed
<1>4. JobInv'
  BY DEF TypeOK, CancellationTypeOK, JobInv, JobsAfterCancel,
       AnsweredJobReleased,
         CancelledReleased, CancelAccepted
<1>5. StockInv'
  BY <1>0 DEF StockInv, StragglersExplained, ReservedHolds, StockBehindOrder,
       Placed,
     DiedUnreserving, CancelAccepted, Unplaced
<1>6. HistoryFaithful'
  BY DEF HistoryFaithful
<1> QED
  BY <1>1, <1>2, <1>3, <1>4, <1>5, <1>6 DEF IInv

\* The death of a retry job, with its call still open, preserves the invariant.
LEMMA CrashRetryInv ==
    ASSUME IInv, NEW j \in Jobs, CrashRetry(j), UNCHANGED checkoutVars
    PROVE  IInv'
<1> USE DEF CrashRetry, JobGoto, Abandon, storeVars, inventoryVars, cancelVars,
           jobVars, callVars,
            checkoutVars, IInv
<1>0. j \in unreserveCalls => current[j] \in OrderIds /\ orders[current[j]] \in CancelAccepted
  BY DEF TypeOK, CancellationTypeOK, CancelInv, UnreserveCallsOpen, JobInv,
       JobsAfterCancel
<1>1. TypeOK'
  BY <1>0 DEF TypeOK, StoreTypeOK, InventoryTypeOK, CheckoutTypeOK,
       CancellationTypeOK, JobStages
<1>2. CheckoutInv'
  BY DEF CheckoutInv, PlacedByReplied, RepliesOnce, ReserveCallsOpen,
       HoldsWereReserved, OneOrderPerKey,
         IdempotentReplies, FailedByForeignKey, Placed, ExistingOrders, Owns
<1>3. CancelInv'
  BY CallersAssumption DEF CancelInv, LocksOwned, OpenCancelSound,
       UnreserveCallsOpen,
     AnsweredCancelReleased, Owns, Placed
<1>4. JobInv'
  BY DEF TypeOK, CancellationTypeOK, JobInv, JobsAfterCancel,
       AnsweredJobReleased,
         CancelledReleased, CancelAccepted
<1>5. StockInv'
  BY <1>0 DEF StockInv, StragglersExplained, ReservedHolds, StockBehindOrder,
       Placed,
     DiedUnreserving, CancelAccepted, Unplaced
<1>6. HistoryFaithful'
  BY DEF HistoryFaithful
<1> QED
  BY <1>1, <1>2, <1>3, <1>4, <1>5, <1>6 DEF IInv

\* The second look under the lock, whatever it finds, preserves the invariant.
LEMMA SettleRetryInv ==
    ASSUME IInv, NEW j \in Jobs, SettleRetry(j), UNCHANGED checkoutVars
    PROVE  IInv'
<1> DEFINE o == current[j]
<1> USE DEF IInv
<1>0. /\ o \in OrderIds
      /\ orders[o] \in CancelAccepted
      /\ o \notin holds
      /\ Placed(o)
  BY DEF SettleRetry, TypeOK, CancellationTypeOK, JobInv, JobsAfterCancel,
       AnsweredJobReleased,
         CancelAccepted, Placed, Unplaced
<1>t. \/ orders[o] = "CANCEL_PENDING" /\ Transition(o, orders[o], "CANCELLED")
      \/ orders[o] = "CANCELLED" /\ UNCHANGED <<orders, history>>
  BY <1>0 DEF SettleRetry, CancelAccepted
<1>a. /\ orders' = [orders EXCEPT ![o] = "CANCELLED"]
      /\ history' \in [OrderIds -> Seq(HistoryRow)]
  <2>1. CASE Transition(o, orders[o], "CANCELLED") /\ orders[o] = "CANCEL_PENDING"
    <3>1. Change("CANCEL_PENDING", "CANCELLED") \in HistoryRow
      BY DEF Change, HistoryRow, OrderStatus
    <3> QED
      BY <2>1, <3>1, <1>0 DEF Transition, TypeOK, StoreTypeOK
  <2>2. CASE orders[o] = "CANCELLED" /\ UNCHANGED <<orders, history>>
    BY <2>2, <1>0 DEF TypeOK, StoreTypeOK
  <2> QED
    BY <1>t, <2>1, <2>2
<1>b. /\ jstage' = [jstage EXCEPT ![j] = "scanning"]
      /\ current' = [current EXCEPT ![j] = NoOrder]
      /\ UNCHANGED <<request, locked, holds, granted, target, cstage, seen, todo,
                     unreserveCalls, straggling, stage, reply, reserveCalls>>
      /\ jstage[j] = "released"
  BY DEF SettleRetry, JobGoto, inventoryVars, cancelVars, callVars, checkoutVars
<1>c. /\ \A p \in OrderIds : Placed(p)' <=> Placed(p)
      /\ \A p \in OrderIds : orders[p] \notin CancelAccepted => orders'[p] = orders[p]
      /\ \A p \in OrderIds : orders[p] \in CancelAccepted <=> orders'[p] \in CancelAccepted
  BY <1>0, <1>a DEF TypeOK, StoreTypeOK, Placed, CancelAccepted, Unplaced
<1>1. TypeOK'
  BY <1>0, <1>a, <1>b DEF TypeOK, StoreTypeOK, InventoryTypeOK, CheckoutTypeOK,
     CancellationTypeOK, JobStages, OrderStatus
<1>2. CheckoutInv'
  <2>1. PlacedByReplied' /\ RepliesOnce' /\ ReserveCallsOpen' /\ HoldsWereReserved'
    BY <1>b, <1>c DEF CheckoutInv, PlacedByReplied, RepliesOnce,
         ReserveCallsOpen, HoldsWereReserved, OrderIds
  <2>2. OneOrderPerKey' /\ FailedByForeignKey'
    BY <1>b, <1>c DEF CheckoutInv, OneOrderPerKey, FailedByForeignKey
  <2>3. IdempotentReplies'
    BY <1>b, <1>c DEF CheckoutInv, IdempotentReplies, ExistingOrders, Owns
  <2> QED
    BY <2>1, <2>2, <2>3 DEF CheckoutInv
<1>3. CancelInv'
  <2>1. LocksOwned' /\ UnreserveCallsOpen' /\ AnsweredCancelReleased'
    BY <1>b, CallersAssumption DEF TypeOK, CancellationTypeOK, CancelInv,
         LocksOwned,
       UnreserveCallsOpen, AnsweredCancelReleased
  <2>2. OpenCancelSound'
    BY <1>b, <1>c DEF TypeOK, CancellationTypeOK, CancelInv, OpenCancelSound,
         Owns, Placed,
       CancellableStatuses, CancelAccepted
  <2> QED
    BY <2>1, <2>2 DEF CancelInv
<1>4. JobInv'
  <2>1. JobsAfterCancel'
    BY <1>b, <1>c DEF TypeOK, CancellationTypeOK, JobInv, JobsAfterCancel
  <2>2. AnsweredJobReleased'
    BY <1>b DEF TypeOK, CancellationTypeOK, JobInv, AnsweredJobReleased
  <2>3. CancelledReleased'
    BY <1>0, <1>a, <1>b DEF TypeOK, StoreTypeOK, JobInv, CancelledReleased
  <2> QED
    BY <2>1, <2>2, <2>3 DEF JobInv
<1>5. StockInv'
  <2>1. StragglersExplained'
    BY <1>b, <1>c DEF TypeOK, CancellationTypeOK, StockInv,
         StragglersExplained, DiedUnreserving
  <2>2. ~ReplayByKey => ReservedHolds' /\ StockBehindOrder'
    BY <1>b, <1>c DEF StockInv, ReservedHolds, StockBehindOrder, CancelAccepted
  <2> QED
    BY <2>1, <2>2 DEF StockInv
<1>6. HistoryFaithful'
  <2>1. CASE Transition(o, orders[o], "CANCELLED") /\ orders[o] = "CANCEL_PENDING"
    <3>1. "CANCELLED" \in Successors["CANCEL_PENDING"] /\ "CANCELLED" \in OrderStatus
      BY DEF Successors, OrderStatus, Unplaced
    <3> QED
      BY <2>1, <3>1, <1>0, TransitionFaithful DEF TypeOK
  <2>2. CASE UNCHANGED <<orders, history>>
    BY <2>2 DEF HistoryFaithful
  <2> QED
    BY <1>t, <2>1, <2>2
<1> QED
  BY <1>1, <1>2, <1>3, <1>4, <1>5, <1>6 DEF IInv

-------------------------------------------------------------------------------
\* B2B's part of both unreserve actions.
Releases(o) == holds' = holds \ {o} /\ UNCHANGED granted

\* B2B releasing the stock of an order whose cancellation was accepted, is under
\* way or died preserves the invariant.
LEMMA ReleaseInv ==
    ASSUME IInv, NEW o \in OrderIds, Releases(o),
           UNCHANGED <<storeVars, cancelVars, jobVars, checkoutVars>>,
           unreserveCalls' \subseteq unreserveCalls, straggling' \subseteq straggling,
           \A caller \in unreserveCalls : caller \in unreserveCalls' \/ CallOrder(caller) = o,
           Placed(o),
           \/ orders[o] \in CancelAccepted
           \/ \E c \in Cancels : /\ target[c].order = o
                                 /\ cstage[c] = "unreserving" \/ DiedUnreserving(c)
    PROVE  IInv'
<1> USE DEF Releases, storeVars, cancelVars, jobVars, checkoutVars, IInv
<1>1. TypeOK'
  BY DEF TypeOK, StoreTypeOK, InventoryTypeOK, CheckoutTypeOK,
       CancellationTypeOK
<1>2. CheckoutInv'
  BY DEF CheckoutInv, PlacedByReplied, RepliesOnce, ReserveCallsOpen,
       HoldsWereReserved, OneOrderPerKey,
         IdempotentReplies, FailedByForeignKey, Placed, ExistingOrders, Owns
<1>3. CancelInv'
  <2>1. LocksOwned' /\ OpenCancelSound' /\ UnreserveCallsOpen'
    BY DEF CancelInv, LocksOwned, OpenCancelSound, UnreserveCallsOpen, Owns,
         Placed
  <2>2. AnsweredCancelReleased'
    BY CallersAssumption DEF CancelInv, AnsweredCancelReleased, CallOrder
  <2> QED
    BY <2>1, <2>2 DEF CancelInv
<1>4. JobInv'
  BY DEF JobInv, JobsAfterCancel, AnsweredJobReleased, CancelledReleased,
       CallOrder
<1>5. StockInv'
  <2>1. StragglersExplained'
    BY DEF StockInv, StragglersExplained, Placed, DiedUnreserving
  <2>2. stage[o] = "replied"
    BY DEF CheckoutInv, PlacedByReplied, RepliesOnce, OrderIds
  <2>3. ~ReplayByKey => ReservedHolds'
    BY <2>2 DEF StockInv, ReservedHolds
  <2>4. ~ReplayByKey => StockBehindOrder'
    BY DEF StockInv, StockBehindOrder, CancelAccepted, DiedUnreserving
  <2> QED
    BY <2>1, <2>3, <2>4 DEF StockInv
<1>6. HistoryFaithful'
  BY DEF HistoryFaithful
<1> QED
  BY <1>1, <1>2, <1>3, <1>4, <1>5, <1>6 DEF IInv

\* B2B performing a call that somebody waits for preserves the invariant.
LEMMA B2BUnreserveInv ==
    ASSUME IInv, NEW caller \in Cancels \cup Jobs, B2BUnreserve(caller), UNCHANGED checkoutVars
    PROVE  IInv'
<1> DEFINE o == CallOrder(caller)
<1>1. CASE caller \in Jobs
  <2>1. o = current[caller] /\ o \in OrderIds /\ orders[o] \in CancelAccepted
    BY <1>1 DEF B2BUnreserve, CallOrder, IInv, TypeOK, CancellationTypeOK,
         CancelInv,
       UnreserveCallsOpen, JobInv, JobsAfterCancel
  <2>2. Placed(o)
    BY <2>1 DEF Placed, CancelAccepted, Unplaced
  <2> QED
    BY <2>1, <2>2, ReleaseInv DEF B2BUnreserve, Unreserve, Releases
<1>2. CASE caller \in Cancels
  <2>1. /\ o = target[caller].order
        /\ o \in OrderIds
        /\ Placed(o)
        /\ cstage[caller] = "unreserving"
    BY <1>2, CallersAssumption DEF B2BUnreserve, CallOrder, IInv, TypeOK,
         CancellationTypeOK,
       CancelInv, UnreserveCallsOpen, OpenCancelSound, Owns
  <2> QED
    BY <1>2, <2>1, ReleaseInv DEF B2BUnreserve, Unreserve, Releases
<1> QED
  BY <1>1, <1>2

\* B2B performing a call that nobody waits for preserves the invariant.
LEMMA B2BUnreserveLateInv ==
    ASSUME IInv, NEW o \in OrderIds, B2BUnreserveLate(o), UNCHANGED checkoutVars
    PROVE  IInv'
<1>1. /\ Placed(o)
      /\ \/ orders[o] \in CancelAccepted
         \/ \E c \in Cancels : target[c].order = o /\ DiedUnreserving(c)
  BY DEF B2BUnreserveLate, IInv, StockInv, StragglersExplained
<1> QED
  BY <1>1, ReleaseInv DEF B2BUnreserveLate, Unreserve, Releases

\* Fulfilment moving an unlocked order on preserves the invariant.
LEMMA FulfilInv ==
    ASSUME IInv, NEW o \in OrderIds, Fulfil(o),
           UNCHANGED <<inventoryVars, checkoutVars, cancellationVars>>
    PROVE  IInv'
<1> USE DEF IInv
<1> DEFINE new == NextStage[orders[o]]
<1>0. /\ orders[o] \in {"PAID", "ASSEMBLING", "DELIVERING"}
      /\ new \in {"ASSEMBLING", "DELIVERING", "DELIVERED"}
      /\ new \in Successors[orders[o]]
      /\ new \in OrderStatus
      /\ Transition(o, orders[o], new)
      /\ o \notin locked
  BY DEF Fulfil, NextStage, Successors, OrderStatus, Unplaced
<1> HIDE DEF new
<1>a. /\ orders' = [orders EXCEPT ![o] = new]
      /\ history' = [history EXCEPT ![o] = Append(@, Change(orders[o], new))]
  BY <1>0 DEF Transition
<1>b. UNCHANGED <<request, locked, holds, granted, stage, reply, reserveCalls, target, cstage,
                  seen, jstage, todo, current, unreserveCalls, straggling>>
  BY DEF Fulfil, inventoryVars, checkoutVars, cancellationVars, cancelVars,
       jobVars, callVars
<1>c. /\ \A p \in OrderIds : Placed(p)' <=> Placed(p)
      /\ \A p \in OrderIds : p # o => orders'[p] = orders[p]
      /\ \A p \in OrderIds : orders[p] \in CancelAccepted <=> orders'[p] \in CancelAccepted
      /\ orders'[o] # "CANCELLED"
  BY <1>0, <1>a DEF TypeOK, StoreTypeOK, Placed, CancelAccepted, Unplaced
<1>1. TypeOK'
  <2>1. Change(orders[o], new) \in HistoryRow
    BY <1>0 DEF TypeOK, StoreTypeOK, Change, HistoryRow
  <2>2. StoreTypeOK'
    BY <2>1, <1>0, <1>a, <1>b DEF TypeOK, StoreTypeOK
  <2>3. InventoryTypeOK' /\ CheckoutTypeOK' /\ CancellationTypeOK'
    BY <1>b DEF TypeOK, InventoryTypeOK, CheckoutTypeOK, CancellationTypeOK
  <2> QED
    BY <2>2, <2>3 DEF TypeOK
<1>2. CheckoutInv'
  <2>1. PlacedByReplied' /\ RepliesOnce' /\ ReserveCallsOpen' /\ HoldsWereReserved'
    BY <1>b, <1>c DEF CheckoutInv, PlacedByReplied, RepliesOnce,
         ReserveCallsOpen, HoldsWereReserved, OrderIds
  <2>2. OneOrderPerKey' /\ FailedByForeignKey'
    BY <1>b, <1>c DEF CheckoutInv, OneOrderPerKey, FailedByForeignKey
  <2>3. IdempotentReplies'
    BY <1>b, <1>c DEF CheckoutInv, IdempotentReplies, ExistingOrders, Owns
  <2> QED
    BY <2>1, <2>2, <2>3 DEF CheckoutInv
<1>3. CancelInv'
  <2>1. LocksOwned' /\ UnreserveCallsOpen' /\ AnsweredCancelReleased'
    BY <1>b DEF CancelInv, LocksOwned, UnreserveCallsOpen,
         AnsweredCancelReleased
  <2>2. OpenCancelSound'
    BY <1>0, <1>b, <1>c DEF TypeOK, CancellationTypeOK, CancelInv,
         OpenCancelSound, Owns, Placed
  <2> QED
    BY <2>1, <2>2 DEF CancelInv
<1>4. JobInv'
  <2>1. JobsAfterCancel'
    BY <1>b, <1>c DEF TypeOK, CancellationTypeOK, JobInv, JobsAfterCancel
  <2>2. AnsweredJobReleased'
    BY <1>b DEF JobInv, AnsweredJobReleased
  <2>3. CancelledReleased'
    BY <1>b, <1>c DEF JobInv, CancelledReleased
  <2> QED
    BY <2>1, <2>2, <2>3 DEF JobInv
<1>5. StockInv'
  <2>1. StragglersExplained'
    BY <1>b, <1>c DEF TypeOK, CancellationTypeOK, StockInv,
         StragglersExplained, DiedUnreserving
  <2>2. ~ReplayByKey => ReservedHolds'
    BY <1>b DEF StockInv, ReservedHolds
  <2>3. ~ReplayByKey => StockBehindOrder'
    BY <1>0, <1>b, <1>c DEF StockInv, StockBehindOrder, Unplaced
  <2> QED
    BY <2>1, <2>2, <2>3 DEF StockInv
<1>6. HistoryFaithful'
  BY <1>0, TransitionFaithful DEF TypeOK
<1> QED
  BY <1>1, <1>2, <1>3, <1>4, <1>5, <1>6 DEF IInv

-------------------------------------------------------------------------------
\* Every step of the checkout side preserves the invariant.
LEMMA CheckoutNextInv ==
    ASSUME IInv, CheckoutNext, UNCHANGED cancellationVars
    PROVE  IInv'
<1>1. PICK r \in Checkouts :
         CheckoutStep(r) \/ B2BReserve(r) \/ B2BRefuse(r) \/ CrashCheckout(r)
  BY DEF CheckoutNext
<1>2. r \in reserveCalls => stage[r] \in {"reserving", "unavailable", "crashed"}
  BY DEF IInv, CheckoutInv, ReserveCallsOpen
<1>3. CASE \/ RejectRequest(r) \/ FindNoOrder(r) \/ GiveUpPricing(r) \/ ReserveAnswered(r)
           \/ ReserveUnavailable(r) \/ FindNoneAgain(r) \/ CrashCheckout(r)
  <2>1. PICK s \in {"rejected", "pricing", "refused", "unavailable", "reserved", "inserting",
                    "crashed"} :
          /\ AttemptMoves(r, s)
          /\ s \in {"rejected", "refused"} => stage[r] \in {"received", "pricing"}
          /\ s = "pricing" => stage[r] = "received"
          /\ r \in reserveCalls => s \in {"unavailable", "crashed"}
          /\ s = "reserved" => stage[r] = "reserving"
          /\ s = "inserting" => stage[r] = "reserved"
    BY <1>2, <1>3 DEF AttemptMoves, OpenStages, RejectRequest, FindNoOrder,
         GiveUpPricing,
       ReserveAnswered, ReserveUnavailable, FindNoneAgain, CrashCheckout
  <2> QED
    BY <2>1, AttemptMovesInv DEF Stages
<1>4. CASE ReplyExisting(r) \/ ReplyRaced(r)
  <2>1. PICK o \in OrderIds : AttemptReturns(r, o)
    BY <1>4 DEF ReplyExisting, ReplyRaced, AttemptReturns, ExistingOrders
  <2> QED
    BY <2>1, AttemptReturnsInv
<1>5. CASE KeyConflict(r)
  <2>1. CASE \E o \in ExistingOrders(r) : ReplyWith(r, o)
    <3>1. PICK o \in OrderIds : AttemptReturns(r, o)
      BY <1>5, <2>1 DEF KeyConflict, AttemptReturns, ExistingOrders
    <3> QED
      BY <3>1, AttemptReturnsInv
  <2>2. CASE ExistingOrders(r) = {} /\ Goto(r, "failed") /\ UNCHANGED reply
    <3>1. ConflictFails(r)
      BY <1>5, <2>2 DEF KeyConflict, ConflictFails
    <3> QED
      BY <3>1, ConflictFailsInv
  <2> QED
    BY <1>5, <2>1, <2>2 DEF KeyConflict
<1>6. CASE SendReserve(r)
  BY <1>6, SendReserveInv
<1>7. CASE InsertOrder(r)
  BY <1>7, InsertOrderInv
<1>8. CASE B2BReserve(r)
  BY <1>8, B2BReserveInv
<1>9. CASE B2BRefuse(r)
  BY <1>9, B2BRefuseInv
<1> QED
  BY <1>1, <1>3, <1>4, <1>5, <1>6, <1>7, <1>8, <1>9 DEF CheckoutStep

\* Every step of a cancellation preserves the invariant.
LEMMA CancelNextInv ==
    ASSUME IInv, NEW c \in Cancels, CancelStep(c) \/ CrashCancel(c), UNCHANGED checkoutVars
    PROVE  IInv'
<1> USE DEF IInv
<1>1. target[c].order \in OrderIds /\ seen \in [Cancels -> OrderStatus \cup {Unplaced}]
  BY DEF TypeOK, CancellationTypeOK
<1>2. CASE \/ RejectCancel(c) \/ OrderNotFound(c) \/ CancelNotAllowed(c)
           \/ CrashCancel(c) /\ cstage[c] = "received"
  <2>1. c \in unreserveCalls => c \in Jobs \/ cstage[c] = "unreserving"
    BY DEF CancelInv, UnreserveCallsOpen
  <2>2. CrashCancel(c) /\ cstage[c] = "received" => UNCHANGED <<locked, callVars>>
    BY <2>1, CallersAssumption DEF CrashCancel, Abandon, callVars, TypeOK,
         CancellationTypeOK
  <2>3. PICK s \in {"rejected", "notFound", "notAllowed", "crashed"} : CancelEnds(c, s)
    BY <1>2, <2>2 DEF CancelEnds, RejectCancel, OrderNotFound,
         CancelNotAllowed, LockedRead,
       CrashCancel, storeVars, inventoryVars, jobVars, callVars
  <2>4. orders[target[c].order] \in OrderStatus \cup {Unplaced}
    BY <1>1 DEF TypeOK, StoreTypeOK
  <2>5. \/ seen' = seen
        \/ seen' = [seen EXCEPT ![c] = orders[target[c].order]]
    BY <1>2 DEF RejectCancel, OrderNotFound, CancelNotAllowed, LockedRead,
         CrashCancel
  <2>6. /\ \A d \in Cancels \ {c} : seen'[d] = seen[d]
        /\ seen' \in [Cancels -> OrderStatus \cup {Unplaced}]
    BY <1>1, <2>4, <2>5
  <2>7. s \in CancelStages \ {"unreserving"}
    BY DEF CancelStages
  <2> QED
    BY <2>3, <2>6, <2>7, CancelEndsInv
<1>3. CASE BeginCancel(c)
  BY <1>3, BeginCancelInv
<1>4. CASE FinishCancel(c)
  <2>1. CancelWrites(c, "CANCELLED")
    BY <1>4 DEF FinishCancel, CancelWrites, Abandon, callVars, TypeOK,
         CancellationTypeOK
  <2> QED
    BY <2>1, CancelWritesInv DEF CancelAccepted
<1>5. CASE PostponeCancel(c)
  <2>1. CancelWrites(c, "CANCEL_PENDING")
    BY <1>5 DEF PostponeCancel, CancelWrites
  <2> QED
    BY <2>1, CancelWritesInv DEF CancelAccepted
<1>6. CASE CrashCancel(c) /\ cstage[c] = "unreserving"
  BY <1>6, CancelDiesInv DEF CancelDies
<1> QED
  BY <1>2, <1>3, <1>4, <1>5, <1>6 DEF CancelStep, CrashCancel, OpenCancelStages

\* Every step of the cancellation side preserves the invariant.
LEMMA CancellationNextInv ==
    ASSUME IInv, CancellationNext, UNCHANGED checkoutVars
    PROVE  IInv'
<1>1. CASE \E c \in Cancels : CancelStep(c) \/ CrashCancel(c)
  BY <1>1, CancelNextInv
<1>2. CASE \E j \in Jobs : JobStep(j) \/ CrashRetry(j)
  BY <1>2, StartRetryInv, RetryOrderInv, RetryAnsweredInv, RetryUnavailableInv,
       SettleRetryInv,
     EndRetryInv, CrashRetryInv DEF JobStep
<1>3. CASE \E caller \in Cancels \cup Jobs : B2BUnreserve(caller)
  BY <1>3, B2BUnreserveInv
<1>4. CASE \E o \in OrderIds : B2BUnreserveLate(o)
  BY <1>4, B2BUnreserveLateInv
<1> QED
  BY <1>1, <1>2, <1>3, <1>4 DEF CancellationNext

\* The invariant depends on the variables of the specification only.
LEMMA StutterInv == ASSUME IInv, UNCHANGED vars PROVE IInv'
<1> USE DEF vars, storeVars, inventoryVars, checkoutVars, cancellationVars, cancelVars, jobVars,
            callVars, IInv
<1>1. TypeOK'
  BY DEF TypeOK, StoreTypeOK, InventoryTypeOK, CheckoutTypeOK,
       CancellationTypeOK
<1>2. CheckoutInv'
  BY DEF CheckoutInv, PlacedByReplied, RepliesOnce, ReserveCallsOpen,
       HoldsWereReserved, OneOrderPerKey,
         IdempotentReplies, FailedByForeignKey, Placed, ExistingOrders, Owns
<1>3. CancelInv'
  BY DEF CancelInv, LocksOwned, OpenCancelSound, UnreserveCallsOpen,
       AnsweredCancelReleased,
         Owns, Placed
<1>4. JobInv'
  BY DEF JobInv, JobsAfterCancel, AnsweredJobReleased, CancelledReleased
<1>5. StockInv'
  BY DEF StockInv, StragglersExplained, ReservedHolds, StockBehindOrder,
       Placed, DiedUnreserving
<1>6. HistoryFaithful'
  BY DEF HistoryFaithful
<1> QED
  BY <1>1, <1>2, <1>3, <1>4, <1>5, <1>6

\* Every step of every handler, of B2B and of fulfilment preserves the invariant.
LEMMA NextIInv == ASSUME IInv, [Next]_vars PROVE IInv'
BY CheckoutNextInv, CancellationNextInv, FulfilInv, StutterInv DEF Next

\* IInv is an invariant of the order subsystem, for any number of attempts,
\* cancellations and jobs and for either reading of the key by B2B.
THEOREM Invariance == Spec => []IInv
BY InitIInv, NextIInv, PTL DEF Spec

\* Type correctness: no step writes a status that is not one of the choices or a
\* call, lock or list about something that is no order (TypeOK).
THEOREM TypeCorrectness == Spec => []TypeOK
<1>1. IInv => TypeOK
  BY DEF IInv
<1> QED
  BY <1>1, Invariance, PTL

\* One key buys once, however many attempts race for it (OneOrderPerKey).
THEOREM KeyBuysOnce == Spec => []OneOrderPerKey
<1>1. IInv => OneOrderPerKey
  BY DEF IInv, CheckoutInv
<1> QED
  BY <1>1, Invariance, PTL

\* Every 201 names the order of the attempt's own buyer and key (IdempotentReplies).
THEOREM RepliesNameOwnOrder == Spec => []IdempotentReplies
<1>1. IInv => IdempotentReplies
  BY DEF IInv, CheckoutInv
<1> QED
  BY <1>1, Invariance, PTL

\* A checkout fails with an uncaught conflict only where another buyer has ordered
\* under its key (FailedByForeignKey).
THEOREM ConflictIsForeign == Spec => []FailedByForeignKey
<1>1. IInv => FailedByForeignKey
  BY DEF IInv, CheckoutInv
<1> QED
  BY <1>1, Invariance, PTL

\* After a 400 or a 409 B2B holds nothing for the attempt, and no call that could still
\* make it do so is under way (RefusedHoldsNothing).
THEOREM RefusalSafety == Spec => []RefusedHoldsNothing
<1>1. IInv => RefusedHoldsNothing
  BY DEF IInv, CheckoutInv, RefusedHoldsNothing, HoldsWereReserved, ReserveCallsOpen
<1> QED
  BY <1>1, Invariance, PTL

\* A cancelled order has no stock held (CancelledReleased).
THEOREM CancellationSafety == Spec => []CancelledReleased
<1>1. IInv => CancelledReleased
  BY DEF IInv, JobInv
<1> QED
  BY <1>1, Invariance, PTL

\* However old its list, a retry job only ever works on orders whose cancellation was
\* accepted (RetryOnlyCancelled).
THEOREM RetrySafety == Spec => []RetryOnlyCancelled
<1>1. IInv => RetryOnlyCancelled
  BY DEF IInv, JobInv, JobsAfterCancel, RetryOnlyCancelled, CancelAccepted
<1> QED
  BY <1>1, Invariance, PTL

\* If B2B holds stock per order id, an order still to be delivered has its stock
\* unless a cancellation of it is open or died (StockBehindOrder).
THEOREM StockSafety == Spec => [](~ReplayByKey => StockBehindOrder)
<1>1. IInv => (~ReplayByKey => StockBehindOrder)
  BY DEF IInv, StockInv
<1> QED
  BY <1>1, Invariance, PTL

\* The status history of every order is a gapless legal walk to its status.
THEOREM HistorySafety == Spec => []HistoryFaithful
<1>1. IInv => HistoryFaithful
  BY DEF IInv
<1> QED
  BY <1>1, Invariance, PTL

-------------------------------------------------------------------------------
(* What one step may do to a status *)

Writes(o, new) ==
    /\ Placed(o)
    /\ new \in Successors[orders[o]]
    /\ orders' = [orders EXCEPT ![o] = new]
    /\ UNCHANGED reply

Returns(r, o) ==
    /\ stage[r] # "replied"
    /\ o \in ExistingOrders(r)
    /\ reply' = [reply EXCEPT ![r] = o]
    /\ UNCHANGED orders

\* A step leaves orders and replies alone, returns an order, places one, or writes
\* one status over another that it may follow.
LEMMA StepShape ==
    ASSUME IInv, [Next]_vars
    PROVE  /\ UNCHANGED request
           /\ \/ UNCHANGED <<orders, reply>>
              \/ \E r \in Checkouts, o \in OrderIds : Returns(r, o)
              \/ \E r \in Checkouts : InsertOrder(r) /\ ~Placed(r)
              \/ \E o \in OrderIds, new \in OrderStatus : Writes(o, new)
<1> DEFINE Goal == /\ UNCHANGED request
                   /\ \/ UNCHANGED <<orders, reply>>
                      \/ \E r \in Checkouts, o \in OrderIds : Returns(r, o)
                      \/ \E r \in Checkouts : InsertOrder(r) /\ ~Placed(r)
                      \/ \E o \in OrderIds, new \in OrderStatus : Writes(o, new)
<1>0. orders \in [OrderIds -> OrderStatus \cup {Unplaced}]
  BY DEF IInv, TypeOK, StoreTypeOK
<1>1. CASE CheckoutNext /\ UNCHANGED cancellationVars
  <2>1. PICK r \in Checkouts :
           CheckoutStep(r) \/ B2BReserve(r) \/ B2BRefuse(r) \/ CrashCheckout(r)
    BY <1>1 DEF CheckoutNext
  <2>2. CASE InsertOrder(r)
    BY <2>2 DEF InsertOrder, IInv, CheckoutInv, PlacedByReplied
  <2>3. CASE ReplyExisting(r) \/ ReplyRaced(r)
    BY <2>3 DEF ReplyExisting, ReplyRaced, ReplyWith, Returns, ExistingOrders,
         storeVars
  <2>4. CASE KeyConflict(r)
    BY <2>4 DEF KeyConflict, ReplyWith, Returns, ExistingOrders, storeVars
  <2>5. CASE ~(InsertOrder(r) \/ ReplyExisting(r) \/ ReplyRaced(r) \/ KeyConflict(r))
    BY <2>1, <2>5 DEF CheckoutStep, RejectRequest, FindNoOrder, GiveUpPricing,
         SendReserve,
       ReserveAnswered, ReserveUnavailable, FindNoneAgain, B2BReserve, B2BRefuse,
       CrashCheckout, storeVars
  <2> QED
    BY <2>2, <2>3, <2>4, <2>5
<1>2. CASE CancellationNext /\ UNCHANGED checkoutVars
  <2>0. UNCHANGED reply
    BY <1>2 DEF checkoutVars
  <2>1. ASSUME NEW c \in Cancels, FinishCancel(c) \/ PostponeCancel(c)
        PROVE  Goal
    <3>1. PICK new \in CancelAccepted :
             Transition(target[c].order, seen[c], new) /\ UNCHANGED request
      BY <2>1 DEF FinishCancel, PostponeCancel, CancelAccepted
    <3>2. /\ seen[c] = orders[target[c].order]
          /\ seen[c] \in CancellableStatuses
          /\ target[c].order \in OrderIds
      BY <2>1 DEF FinishCancel, PostponeCancel, IInv, CancelInv,
           OpenCancelSound, TypeOK,
         CancellationTypeOK
    <3>3. new \in Successors[seen[c]] /\ seen[c] # Unplaced /\ new \in OrderStatus
      BY <3>2 DEF CancellableStatuses, CancelAccepted, Successors, OrderStatus,
           Unplaced
    <3>4. Writes(target[c].order, new)
      BY <2>0, <3>1, <3>2, <3>3 DEF Writes, Transition, Placed
    <3> QED
      BY <3>1, <3>2, <3>3, <3>4
  <2>2. ASSUME NEW j \in Jobs, SettleRetry(j)
        PROVE  Goal
    <3>1. /\ "CANCELLED" \in Successors["CANCEL_PENDING"]
          /\ "CANCEL_PENDING" # Unplaced
          /\ "CANCELLED" \in OrderStatus
      BY DEF Successors, OrderStatus, Unplaced
    <3>2. current[j] \in OrderIds
      BY <2>2 DEF SettleRetry, IInv, JobInv, JobsAfterCancel, TypeOK,
           CancellationTypeOK
    <3>3. Writes(current[j], "CANCELLED") \/ UNCHANGED orders
      BY <2>0, <2>2, <3>1, <3>2 DEF SettleRetry, Writes, Transition, Placed
    <3> QED
      BY <2>0, <2>2, <3>1, <3>2, <3>3 DEF SettleRetry
  <2>3. ASSUME NEW c \in Cancels, CancelStep(c) \/ CrashCancel(c)
        PROVE  FinishCancel(c) \/ PostponeCancel(c) \/ UNCHANGED <<request, orders>>
    BY <2>3 DEF CancelStep, RejectCancel, OrderNotFound, CancelNotAllowed,
         BeginCancel,
       CrashCancel, storeVars
  <2>4. ASSUME NEW j \in Jobs, JobStep(j) \/ CrashRetry(j)
        PROVE  SettleRetry(j) \/ UNCHANGED <<request, orders>>
    BY <2>4 DEF JobStep, StartRetry, RetryOrder, RetryAnswered,
         RetryUnavailable, EndRetry,
       CrashRetry, storeVars
  <2>5. ASSUME NEW caller \in Cancels \cup Jobs, B2BUnreserve(caller)
        PROVE  UNCHANGED <<request, orders>>
    BY <2>5 DEF B2BUnreserve, storeVars
  <2>6. ASSUME NEW p \in OrderIds, B2BUnreserveLate(p)
        PROVE  UNCHANGED <<request, orders>>
    BY <2>6 DEF B2BUnreserveLate, storeVars
  <2> QED
    BY <1>2, <2>0, <2>1, <2>2, <2>3, <2>4, <2>5, <2>6 DEF CancellationNext
<1>3. ASSUME NEW p \in OrderIds, Fulfil(p), UNCHANGED checkoutVars
      PROVE  Goal
  <2>1. /\ Placed(p)
        /\ NextStage[orders[p]] \in Successors[orders[p]]
        /\ NextStage[orders[p]] \in OrderStatus
        /\ Transition(p, orders[p], NextStage[orders[p]])
    BY <1>3 DEF Fulfil, NextStage, Successors, OrderStatus, Unplaced, Placed
  <2>2. Writes(p, NextStage[orders[p]])
    BY <1>3, <2>1 DEF Writes, Transition, checkoutVars
  <2> QED
    BY <1>3, <2>1, <2>2 DEF Fulfil
<1>4. CASE UNCHANGED vars
  BY <1>4 DEF vars, storeVars, checkoutVars
<1> QED
  BY <1>1, <1>2, <1>3, <1>4 DEF Next

\* No step takes an order out of DELIVERED or CANCELLED, takes a pending
\* cancellation back, or deletes an order (StatusFinal).
THEOREM StatusNeverRevived == Spec => StatusFinal
<1> DEFINE Final ==
      \A o \in OrderIds :
         /\ orders[o] \in {"DELIVERED", "CANCELLED"} => orders'[o] = orders[o]
         /\ orders[o] = "CANCEL_PENDING" => orders'[o] \in {"CANCEL_PENDING", "CANCELLED"}
         /\ Placed(o) => orders'[o] # Unplaced
<1>1. ASSUME IInv, [Next]_vars PROVE Final
  <2>1. /\ Successors["DELIVERED"] = {}
        /\ Successors["CANCELLED"] = {}
        /\ Successors["CANCEL_PENDING"] = {"CANCELLED"}
        /\ \A s \in OrderStatus : Unplaced \notin Successors[s]
    BY DEF Successors, OrderStatus, Unplaced
  <2>2. orders \in [OrderIds -> OrderStatus \cup {Unplaced}]
    BY <1>1 DEF IInv, TypeOK, StoreTypeOK
  <2>3. SUFFICES ASSUME NEW o \in OrderIds
                 PROVE  /\ orders[o] \in {"DELIVERED", "CANCELLED"} => orders'[o] = orders[o]
                        /\ orders[o] = "CANCEL_PENDING" =>
                               orders'[o] \in {"CANCEL_PENDING", "CANCELLED"}
                        /\ Placed(o) => orders'[o] # Unplaced
    OBVIOUS
  <2>4. \/ orders'[o] = orders[o]
        \/ orders[o] = Unplaced /\ orders'[o] = "PAID"
        \/ orders[o] # Unplaced /\ orders'[o] \in Successors[orders[o]]
    BY <1>1, <2>2, StepShape DEF Returns, Writes, InsertOrder, Place, Placed
  <2> QED
    BY <2>1, <2>2, <2>4 DEF Placed, Unplaced
<1>2. IInv /\ [Next]_vars => [Final]_vars
  BY <1>1
<1> QED
  BY <1>2, Invariance, PTL DEF Spec, StatusFinal
===============================================================================
