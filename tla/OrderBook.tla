------------------------------ MODULE OrderBook -------------------------------
(***************************************************************************)
(* What POST /orders and POST /orders/<id>/cancel promise a client, with   *)
(* no tables, locks, attempts or calls to B2B: a book with one entry per   *)
(* idempotency key.  The first purchase under a key fills the entry, every *)
(* answer names the entry's order to the buyer who owns it, and the order  *)
(* is delivered, or cancelled in one step or in two.                       *)
(***************************************************************************)
CONSTANTS Buyers, Keys, Ids

Statuses == {"ACTIVE", "DELIVERED", "CANCEL_PENDING", "CANCELLED"}

Entry == [buyer : Buyers, order : Ids, status : Statuses]

VARIABLES
    book,       \* the entries of each key: none or one
    answered    \* the answers given: <<buyer, key, order>>

bookVars == <<book, answered>>

BookInit ==
    /\ book = [k \in Keys |-> {}]
    /\ answered = {}

Fresh(o) == \A k \in Keys : \A e \in book[k] : e.order # o

Buy(b, k, o) ==
    /\ book[k] = {}
    /\ Fresh(o)
    /\ book' = [book EXCEPT ![k] = {[buyer |-> b, order |-> o, status |-> "ACTIVE"]}]
    /\ answered' = answered \cup {<<b, k, o>>}

Answer(k) ==
    /\ \E e \in book[k] : answered' = answered \cup {<<e.buyer, k, e.order>>}
    /\ UNCHANGED book

Move(k, from, to) ==
    /\ \E e \in book[k] :
         /\ e.status = from
         /\ book' = [book EXCEPT ![k] = {[e EXCEPT !.status = to]}]
    /\ UNCHANGED answered

Deliver(k) == Move(k, "ACTIVE", "DELIVERED")

Cancel(k) == Move(k, "ACTIVE", "CANCELLED")

Postpone(k) == Move(k, "ACTIVE", "CANCEL_PENDING")

Settle(k) == Move(k, "CANCEL_PENDING", "CANCELLED")

BookNext ==
    \E k \in Keys :
        \/ \E b \in Buyers, o \in Ids : Buy(b, k, o)
        \/ Answer(k)
        \/ Deliver(k)
        \/ Cancel(k)
        \/ Postpone(k)
        \/ Settle(k)

BookSpec == BookInit /\ [][BookNext]_bookVars

===============================================================================
