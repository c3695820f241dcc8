--------------------------- MODULE OrdersRefinement ---------------------------
(***************************************************************************)
(* The order subsystem implements the abstract order book: every step of   *)
(* it, seen through BookEntries and BookAnswers, is a step of OrderBook or *)
(* changes nothing there.                                                  *)
(***************************************************************************)
EXTENDS OrdersProofs

\* At most one order is placed under a key, so its entry is that order's.
LEMMA EntryOfPlaced ==
    ASSUME IInv, NEW o \in OrderIds, Placed(o)
    PROVE  /\ request[o].key \in Keys
           /\ BookEntries[request[o].key] = {BookEntry(o)}
<1>1. request[o].key \in Keys
  BY DEF IInv, TypeOK, StoreTypeOK, OrderIds
<1>2. \A p \in OrderIds : Placed(p) /\ request[p].key = request[o].key => p = o
  BY DEF IInv, CheckoutInv, OneOrderPerKey
<1> QED
  BY <1>1, <1>2 DEF BookEntries

\* Empty tables are an empty book.
LEMMA BookInitRefined == Init => Book!BookInit
<1> SUFFICES ASSUME Init PROVE Book!BookInit
  OBVIOUS
<1>1. \A o \in OrderIds : ~Placed(o)
  BY DEF Init, StoreInit, Placed
<1>2. \A r \in Checkouts : reply[r] = NoOrder
  BY DEF Init, CheckoutInit
<1> QED
  BY <1>1, <1>2 DEF Book!BookInit, BookEntries, BookAnswers

\* A 201 for an order that exists.
LEMMA ReturnsRefined ==
    ASSUME IInv, UNCHANGED request, NEW r \in Checkouts, NEW o \in OrderIds, Returns(r, o)
    PROVE  Book!BookNext
<1> DEFINE k == request[r].key
<1>1. /\ Placed(o)
      /\ request[o].buyer = request[r].buyer
      /\ request[o].key = k
  BY DEF Returns, ExistingOrders, Owns
<1>2. k \in Keys /\ BookEntries[k] = {BookEntry(o)}
  BY <1>1, EntryOfPlaced
<1>3. BookEntries' = BookEntries
  BY DEF Returns, BookEntries, BookEntry, BookStatus, Placed
<1>4. BookAnswers' = BookAnswers \cup {<<request[r].buyer, k, o>>}
  <2>1. reply[r] = NoOrder /\ o # NoOrder /\ reply \in [Checkouts -> OrderIds \cup {NoOrder}]
    BY NoOrderAssumption DEF Returns, IInv, CheckoutInv, RepliesOnce, TypeOK,
         CheckoutTypeOK,
       OrderIds
  <2> QED
    BY <2>1 DEF Returns, BookAnswers
<1>5. Book!Answer(k)
  BY <1>1, <1>2, <1>3, <1>4 DEF Book!Answer, BookEntry
<1> QED
  BY <1>2, <1>5 DEF Book!BookNext

\* The commit of a new order fills the vacant entry of its key.
LEMMA InsertRefined ==
    ASSUME IInv, NEW r \in Checkouts, InsertOrder(r), ~Placed(r)
    PROVE  Book!BookNext
<1> DEFINE k == request[r].key
           b == request[r].buyer
<1>0. /\ k \in Keys
      /\ b \in Buyers
      /\ r \in OrderIds
      /\ orders \in [OrderIds -> OrderStatus \cup {Unplaced}]
  BY DEF IInv, TypeOK, StoreTypeOK, OrderIds
<1>1. /\ orders' = [orders EXCEPT ![r] = "PAID"]
      /\ reply' = [reply EXCEPT ![r] = r]
      /\ UNCHANGED request
  BY DEF InsertOrder, Place, ReplyWith
<1>2. BookEntries[k] = {}
  BY <1>0 DEF InsertOrder, KeyTaken, BookEntries
<1>3. Book!Fresh(r)
  BY DEF Book!Fresh, BookEntries, BookEntry
<1>4. BookEntries' = [BookEntries EXCEPT ![k] =
                         {[buyer |-> b, order |-> r, status |-> "ACTIVE"]}]
  <2>1. \A p \in OrderIds : p # r => (Placed(p)' <=> Placed(p)) /\ BookEntry(p)' = BookEntry(p)
    BY <1>0, <1>1 DEF Placed, BookEntry, BookStatus
  <2>2. Placed(r)' /\ BookEntry(r)' = [buyer |-> b, order |-> r, status |-> "ACTIVE"]
    BY <1>0, <1>1 DEF Placed, Unplaced, BookEntry, BookStatus,
         CancellableStatuses
  <2>3. BookEntries'[k] = {[buyer |-> b, order |-> r, status |-> "ACTIVE"]}
    <3>1. \A p \in OrderIds : Placed(p) => request[p].key # k
      BY DEF InsertOrder, KeyTaken
    <3>2. {p \in OrderIds : Placed(p)' /\ request'[p].key = k} = {r}
      BY <1>0, <1>1, <2>1, <2>2, <3>1
    <3>3. BookEntries'[k] = {BookEntry(r)'}
      BY <1>0, <3>2 DEF BookEntries
    <3> QED
      BY <2>2, <3>3
  <2>4. ASSUME NEW l \in Keys, l # k PROVE BookEntries'[l] = BookEntries[l]
    BY <1>1, <2>1, <2>4 DEF BookEntries
  <2>5. /\ BookEntries = [l \in Keys |-> BookEntries[l]]
        /\ BookEntries' = [l \in Keys |-> BookEntries'[l]]
    BY DEF BookEntries
  <2> QED
    BY <1>0, <2>3, <2>4, <2>5
<1>5. BookAnswers' = BookAnswers \cup {<<b, k, r>>}
  <2>1. reply[r] = NoOrder /\ r # NoOrder /\ reply \in [Checkouts -> OrderIds \cup {NoOrder}]
    BY NoOrderAssumption DEF InsertOrder, IInv, CheckoutInv, RepliesOnce,
         TypeOK,
       CheckoutTypeOK, OrderIds
  <2> QED
    BY <1>1, <2>1 DEF BookAnswers
<1>6. Book!Buy(b, k, r)
  BY <1>2, <1>3, <1>4, <1>5 DEF Book!Buy
<1> QED
  BY <1>0, <1>6 DEF Book!BookNext

\* A new status is delivery, cancellation in one step or in two, or a move that
\* the book does not see.
LEMMA WritesRefined ==
    ASSUME IInv, UNCHANGED request, NEW o \in OrderIds, NEW new \in OrderStatus, Writes(o, new)
    PROVE  Book!BookNext \/ UNCHANGED <<BookEntries, BookAnswers>>
<1> DEFINE k == request[o].key
           old == orders[o]
<1>0. /\ orders \in [OrderIds -> OrderStatus \cup {Unplaced}]
      /\ Placed(o)
      /\ orders' = [orders EXCEPT ![o] = new]
      /\ new \in Successors[old]
      /\ UNCHANGED reply
  BY DEF IInv, TypeOK, StoreTypeOK, Writes
<1>1. k \in Keys /\ BookEntries[k] = {BookEntry(o)}
  BY <1>0, EntryOfPlaced
<1>2. /\ UNCHANGED BookAnswers
      /\ \A p \in OrderIds : Placed(p)' <=> Placed(p)
      /\ \A p \in OrderIds : p # o => BookEntry(p)' = BookEntry(p)
  BY <1>0 DEF BookAnswers, Placed, OrderStatus, Unplaced, BookEntry, BookStatus
<1>3. BookEntry(o)' = [BookEntry(o) EXCEPT !.status = BookStatus(new)]
  BY <1>0 DEF BookEntry, BookStatus
<1>4. BookEntries' = [BookEntries EXCEPT ![k] = {BookEntry(o)'}]
  <2>1. \A p \in OrderIds : Placed(p) /\ request[p].key = k => p = o
    BY <1>0 DEF IInv, CheckoutInv, OneOrderPerKey
  <2>2. BookEntries'[k] = {BookEntry(o)'}
    BY <1>0, <1>1, <1>2, <2>1 DEF BookEntries
  <2>3. ASSUME NEW l \in Keys, l # k PROVE BookEntries'[l] = BookEntries[l]
    BY <1>2, <2>3 DEF BookEntries
  <2>4. /\ BookEntries = [l \in Keys |-> BookEntries[l]]
        /\ BookEntries' = [l \in Keys |-> BookEntries'[l]]
    BY DEF BookEntries
  <2> QED
    BY <1>1, <2>2, <2>3, <2>4
<1>5. BookEntry(o).status = BookStatus(old)
  BY DEF BookEntry
<1>6. \/ BookStatus(old) = "ACTIVE" /\ BookStatus(new) \in {"DELIVERED", "CANCELLED",
                                                          "CANCEL_PENDING"}
      \/ BookStatus(old) = "CANCEL_PENDING" /\ BookStatus(new) = "CANCELLED"
      \/ BookStatus(old) = BookStatus(new)
  BY <1>0 DEF Placed, Successors, OrderStatus, Unplaced, BookStatus,
       CancellableStatuses
<1>7. CASE BookStatus(old) = BookStatus(new)
  <2>1. BookEntry(o)' = BookEntry(o)
    BY <1>0, <1>7 DEF BookEntry, BookStatus
  <2>2. BookEntries' = BookEntries
    BY <1>1, <1>4, <2>1 DEF BookEntries
  <2> QED
    BY <1>2, <2>2
<1>8. CASE BookStatus(old) # BookStatus(new)
  <2>1. Book!Move(k, BookStatus(old), BookStatus(new))
    BY <1>1, <1>2, <1>3, <1>4, <1>5 DEF Book!Move
  <2>2. Book!Deliver(k) \/ Book!Cancel(k) \/ Book!Postpone(k) \/ Book!Settle(k)
    BY <1>6, <1>8, <2>1 DEF Book!Deliver, Book!Cancel, Book!Postpone,
         Book!Settle
  <2> QED
    BY <1>1, <2>2 DEF Book!BookNext
<1> QED
  BY <1>7, <1>8

\* Every step of the service is a step of the book or leaves it unchanged.
LEMMA BookStepRefined ==
    ASSUME IInv, [Next]_vars
    PROVE  [Book!BookNext]_<<BookEntries, BookAnswers>>
<1>1. UNCHANGED request
  BY StepShape
<1>2. CASE UNCHANGED <<orders, reply>>
  BY <1>1, <1>2 DEF BookEntries, BookAnswers, BookEntry, BookStatus, Placed
<1>3. CASE \E r \in Checkouts, o \in OrderIds : Returns(r, o)
  BY <1>1, <1>3, ReturnsRefined
<1>4. CASE \E r \in Checkouts : InsertOrder(r) /\ ~Placed(r)
  BY <1>4, InsertRefined
<1>5. CASE \E o \in OrderIds, new \in OrderStatus : Writes(o, new)
  BY <1>1, <1>5, WritesRefined
<1> QED
  BY <1>2, <1>3, <1>4, <1>5, StepShape

\* The concurrent, crashing, retrying service implements the order book for any
\* number of attempts, cancellations and jobs (ImplementsOrderBook).
THEOREM Refinement == Spec => ImplementsOrderBook
BY BookInitRefined, BookStepRefined, Invariance, PTL
   DEF Spec, ImplementsOrderBook, Book!BookSpec, Book!bookVars
===============================================================================
