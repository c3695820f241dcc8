--------------------------------- MODULE Cart ---------------------------------
(***************************************************************************)
(* The cart table of B2C (CartService) at PostgreSQL's READ COMMITTED      *)
(* level: adding an item, which reads a row and writes it back, and the    *)
(* merge of a guest's cart into a user's at login, race each other and     *)
(* the single-statement requests (change, delete, clear) for the rows.     *)
(*                                                                         *)
(* A transaction keeps the rows it has locked, and the index entries of    *)
(* rows it has yet to commit, in `held'.  A row is named by its owner and  *)
(* sku, which the unique constraints allow once.  Other transactions wait  *)
(* for a held row that exists, and only an insert waits for one that does  *)
(* not: a SELECT does not see it.                                          *)
(***************************************************************************)
EXTENDS Naturals

CONSTANTS
    Users,          \* authenticated buyers
    Sessions,       \* guests, X-Session-Id
    Skus,
    MaxQuantity,    \* the largest value of the quantity column
    Adds,           \* requests to add an item
    Merges,         \* requests to merge a guest's cart: /cart/merge and login
    NoSku           \* no sku: Python's None

ASSUME CartAssumption ==
    /\ MaxQuantity \in Nat \ {0}
    /\ Users \cap Sessions = {}
    /\ Adds \cap Merges = {}
    /\ NoSku \notin Skus

VARIABLES
    cart,       \* committed CartItem.quantity by owner and sku, 0 without a row
    held,       \* rows that each open transaction holds
    add,        \* what each add request carries (never changes)
    astage,     \* where each add is in the handler
    read,       \* the quantity an add read under its lock
    merge,      \* whose cart each merge takes, and whose it fills (never changes)
    mstage,     \* where each merge is in the handler
    todo,       \* skus that a merge has yet to come to in its current loop or scan
    at,         \* the sku a merge is at, or NoSku
    guest,      \* quantities of the guest rows a merge has locked
    writes      \* quantities a merge will commit to the user's cart, 0 for none

addVars == <<add, astage, read>>
mergeVars == <<merge, mstage, todo, at, guest, writes>>
cartVars == <<cart, held, addVars, mergeVars>>

-------------------------------------------------------------------------------
Owners == Users \cup Sessions

Workers == Adds \cup Merges

Nothing == [s \in Skus |-> 0]

Larger(a, b) == IF a >= b THEN a ELSE b

\* "rejected": refused before the transaction; "failed": rolled back;
\* "answered": 200; "unanswered": committed, but the client was not told so.
Outcomes == {"rejected", "failed", "answered", "unanswered"}

\* The stages of an add, and of a merge, in their transactions.
InAdd == {"received", "looking", "inserting", "conflicted", "adding"}

InMerge == {"received", "locking", "merging", "looking", "moving", "deleting"}

\* The statements of a merge that come to the guest's rows one by one.
InScan == {"locking", "deleting"}

OpenAddStages == InAdd \cup {"added"}

OpenMergeStages == InMerge \cup {"merged"}

AddStages == OpenAddStages \cup Outcomes

MergeStages == OpenMergeStages \cup Outcomes

CartTypeOK ==
    /\ cart \in [Owners -> [Skus -> 0..MaxQuantity]]
    /\ held \in [Workers -> SUBSET (Owners \X Skus)]
    /\ add \in [Adds -> [owner : Owners, sku : Skus, quantity : 1..MaxQuantity]]
    /\ astage \in [Adds -> AddStages]
    /\ read \in [Adds -> 0..MaxQuantity]
    /\ merge \in [Merges -> [user : Users, session : Sessions]]
    /\ mstage \in [Merges -> MergeStages]
    /\ todo \in [Merges -> SUBSET Skus]
    /\ at \in [Merges -> Skus \cup {NoSku}]
    /\ guest \in [Merges -> [Skus -> 0..MaxQuantity]]
    /\ writes \in [Merges -> [Skus -> 0..MaxQuantity]]

\* Carts that earlier requests have filled.
CartInit ==
    /\ cart \in [Owners -> [Skus -> 0..MaxQuantity]]
    /\ held = [w \in Workers |-> {}]
    /\ add \in [Adds -> [owner : Owners, sku : Skus, quantity : 1..MaxQuantity]]
    /\ astage = [a \in Adds |-> "received"]
    /\ read = [a \in Adds |-> 0]
    /\ merge \in [Merges -> [user : Users, session : Sessions]]
    /\ mstage = [m \in Merges |-> "received"]
    /\ todo = [m \in Merges |-> {}]
    /\ at = [m \in Merges |-> NoSku]
    /\ guest = [m \in Merges |-> Nothing]
    /\ writes = [m \in Merges |-> Nothing]

-------------------------------------------------------------------------------
(* Rows and locks *)

Exists(row) == cart[row[1]][row[2]] > 0

\* No other transaction holds the row.
Free(w, row) == \A x \in Workers \ {w} : row \notin held[x]

Hold(w, row) == held' = [held EXCEPT ![w] = @ \cup {row}]

Release(w) == held' = [held EXCEPT ![w] = {}]

GuestRow(m, s) == <<merge[m].session, s>>

\* Rows that are gone are passed over by every statement that has seen them: a row
\* made anew under the same owner and sku is another one, unseen.
Forget(rows) ==
    /\ todo' = [m \in Merges |->
                  {s \in todo[m] : mstage[m] \in InScan => GuestRow(m, s) \notin rows}]
    /\ at' = [m \in Merges |->
                IF mstage[m] \in InScan /\ GuestRow(m, at[m]) \in rows
                  THEN NoSku ELSE at[m]]

-------------------------------------------------------------------------------
(* CartService.add_item: get_or_create under SELECT ... FOR UPDATE *)

AddRow(a) == <<add[a].owner, add[a].sku>>

AddGoto(a, s) == astage' = [astage EXCEPT ![a] = s]

\* Before the transaction: a request without identity or out of form, an item
\* that B2B's answer refuses, a B2B that does not answer.
RejectItem(a) ==
    /\ astage[a] = "received"
    /\ AddGoto(a, "rejected")
    /\ UNCHANGED <<cart, held, add, read, mergeVars>>

\* B2B sells the quantity; the transaction begins and looks for the row.
AcceptItem(a) ==
    /\ astage[a] = "received"
    /\ AddGoto(a, "looking")
    /\ UNCHANGED <<cart, held, add, read, mergeVars>>

\* Mutant: get_or_create without select_for_update.
ReadItem(a) ==
    /\ astage[a] \in {"looking", "conflicted"}
    /\ Exists(AddRow(a))
    /\ read' = [read EXCEPT ![a] = cart[add[a].owner][add[a].sku]]
    /\ AddGoto(a, "adding")
    /\ UNCHANGED <<cart, held, add, mergeVars>>

\* The first get, or the one after a conflict, finds the row and locks it.
LockItem(a) ==
    /\ astage[a] \in {"looking", "conflicted"}
    /\ Exists(AddRow(a))
    /\ Free(a, AddRow(a))
    /\ Hold(a, AddRow(a))
    /\ read' = [read EXCEPT ![a] = cart[add[a].owner][add[a].sku]]
    /\ AddGoto(a, "adding")
    /\ UNCHANGED <<cart, add, mergeVars>>

\* Mutant: the row that is not there is locked too, like a gap in another database.
FindNoItemLocked(a) ==
    /\ astage[a] = "looking"
    /\ ~Exists(AddRow(a))
    /\ Hold(a, AddRow(a))
    /\ AddGoto(a, "inserting")
    /\ UNCHANGED <<cart, add, read, mergeVars>>

FindNoItem(a) ==
    /\ astage[a] = "looking"
    /\ ~Exists(AddRow(a))
    /\ AddGoto(a, "inserting")
    /\ UNCHANGED <<cart, held, add, read, mergeVars>>

\* Nobody has, or is about to commit, a row with this owner and sku.
InsertItem(a) ==
    /\ astage[a] = "inserting"
    /\ ~Exists(AddRow(a))
    /\ Free(a, AddRow(a))
    /\ cart' = [cart EXCEPT ![add[a].owner][add[a].sku] = add[a].quantity]
    /\ AddGoto(a, "added")
    /\ UNCHANGED <<held, add, read, mergeVars>>

\* The unique constraint refuses the row; get_or_create looks again ...
InsertConflict(a) ==
    /\ astage[a] = "inserting"
    /\ Exists(AddRow(a))
    /\ AddGoto(a, "conflicted")
    /\ UNCHANGED <<cart, held, add, read, mergeVars>>

\* ... and raises if the row has gone in the meantime.
ItemGone(a) ==
    /\ astage[a] = "conflicted"
    /\ ~Exists(AddRow(a))
    /\ AddGoto(a, "failed")
    /\ UNCHANGED <<cart, held, add, read, mergeVars>>

\* Mutant: nothing checks the range of the column.
SaveUnbounded(a) ==
    /\ astage[a] = "adding"
    /\ cart' = [cart EXCEPT
                   ![add[a].owner][add[a].sku] = read[a] + add[a].quantity]
    /\ Release(a)
    /\ read' = [read EXCEPT ![a] = 0]
    /\ AddGoto(a, "added")
    /\ UNCHANGED <<add, mergeVars>>

SaveItem(a) ==
    /\ astage[a] = "adding"
    /\ read[a] + add[a].quantity <= MaxQuantity
    /\ cart' = [cart EXCEPT
                   ![add[a].owner][add[a].sku] = read[a] + add[a].quantity]
    /\ Release(a)
    /\ read' = [read EXCEPT ![a] = 0]
    /\ AddGoto(a, "added")
    /\ UNCHANGED <<add, mergeVars>>

\* Mutant: the refused save is tried again, the row still locked.
OverflowAgain(a) ==
    /\ astage[a] = "adding"
    /\ read[a] + add[a].quantity > MaxQuantity
    /\ UNCHANGED cartVars

\* The sum is out of the column's range: 500, rolled back.
Overflow(a) ==
    /\ astage[a] = "adding"
    /\ read[a] + add[a].quantity > MaxQuantity
    /\ Release(a)
    /\ read' = [read EXCEPT ![a] = 0]
    /\ AddGoto(a, "failed")
    /\ UNCHANGED <<cart, add, mergeVars>>

CrashAdd(a) ==
    /\ astage[a] \in InAdd
    /\ Release(a)
    /\ read' = [read EXCEPT ![a] = 0]
    /\ AddGoto(a, "failed")
    /\ UNCHANGED <<cart, add, mergeVars>>

\* The row is committed, and the handler asks B2B again, for the cart to show;
\* no answer, or one that is not JSON, and the client hears 503 or 500.
ReplyToAdd(a) ==
    /\ astage[a] = "added"
    /\ \E s \in {"answered", "unanswered"} : AddGoto(a, s)
    /\ UNCHANGED <<cart, held, add, read, mergeVars>>

-------------------------------------------------------------------------------
(* CartService.merge_guest_cart *)

UserRow(m, s) == <<merge[m].user, s>>

MergeGoto(m, s) == mstage' = [mstage EXCEPT ![m] = s]

\* No buyer, no session, wrong password: nothing is merged.
RejectMerge(m) ==
    /\ mstage[m] = "received"
    /\ MergeGoto(m, "rejected")
    /\ UNCHANGED <<cart, held, addVars, merge, todo, at, guest, writes>>

\* The SELECT of the guest's rows takes its snapshot ...
BeginMerge(m) ==
    /\ mstage[m] = "received"
    /\ MergeGoto(m, "locking")
    /\ todo' = [todo EXCEPT ![m] = {s \in Skus : Exists(GuestRow(m, s))}]
    /\ UNCHANGED <<cart, held, addVars, merge, at, guest, writes>>

\* ... and comes to the rows one by one, in an order that no ORDER BY fixes; so
\* does the last DELETE.
ComeToGuestRow(m, s) ==
    /\ mstage[m] \in InScan
    /\ at[m] = NoSku
    /\ s \in todo[m]
    /\ at' = [at EXCEPT ![m] = s]
    /\ todo' = [todo EXCEPT ![m] = @ \ {s}]
    /\ UNCHANGED <<cart, held, addVars, merge, mstage, guest, writes>>

\* Mutant: the guest's rows are read without select_for_update.
ReadGuestRow(m) ==
    /\ mstage[m] = "locking"
    /\ at[m] # NoSku
    /\ guest' = [guest EXCEPT ![m][at[m]] = cart[merge[m].session][at[m]]]
    /\ at' = [at EXCEPT ![m] = NoSku]
    /\ UNCHANGED <<cart, held, addVars, merge, mstage, todo, writes>>

\* Of a row that it had to wait for it gets the quantity committed meanwhile.
LockGuestRow(m) ==
    /\ mstage[m] = "locking"
    /\ at[m] # NoSku
    /\ Free(m, GuestRow(m, at[m]))
    /\ Hold(m, GuestRow(m, at[m]))
    /\ guest' = [guest EXCEPT ![m][at[m]] = cart[merge[m].session][at[m]]]
    /\ at' = [at EXCEPT ![m] = NoSku]
    /\ UNCHANGED <<cart, addVars, merge, mstage, todo, writes>>

EndLocking(m) ==
    /\ mstage[m] = "locking"
    /\ at[m] = NoSku
    /\ todo[m] = {}
    /\ todo' = [todo EXCEPT ![m] = {s \in Skus : guest[m][s] > 0}]
    /\ MergeGoto(m, "merging")
    /\ UNCHANGED <<cart, held, addVars, merge, at, guest, writes>>

NextItem(m, s) ==
    /\ mstage[m] = "merging"
    /\ s \in todo[m]
    /\ at' = [at EXCEPT ![m] = s]
    /\ todo' = [todo EXCEPT ![m] = @ \ {s}]
    /\ MergeGoto(m, "looking")
    /\ UNCHANGED <<cart, held, addVars, merge, guest, writes>>

\* What the merge will commit for the sku it is at, and on to the next.
WriteItem(m, q) ==
    /\ writes' = [writes EXCEPT ![m][at[m]] = q]
    /\ at' = [at EXCEPT ![m] = NoSku]
    /\ MergeGoto(m, "merging")

\* Mutant: the user's row is read without select_for_update.
KeepLargerUnlocked(m) ==
    /\ mstage[m] = "looking"
    /\ Exists(UserRow(m, at[m]))
    /\ WriteItem(m, Larger(cart[merge[m].user][at[m]], guest[m][at[m]]))
    /\ UNCHANGED <<cart, held, addVars, merge, todo, guest>>

\* Mutant: no max, the guest's quantity replaces the user's.
KeepGuests(m) ==
    /\ mstage[m] = "looking"
    /\ Exists(UserRow(m, at[m]))
    /\ Free(m, UserRow(m, at[m]))
    /\ Hold(m, UserRow(m, at[m]))
    /\ WriteItem(m, guest[m][at[m]])
    /\ UNCHANGED <<cart, addVars, merge, todo, guest>>

\* The user has a row of this sku: it keeps the larger quantity of the two.
KeepLarger(m) ==
    /\ mstage[m] = "looking"
    /\ Exists(UserRow(m, at[m]))
    /\ Free(m, UserRow(m, at[m]))
    /\ Hold(m, UserRow(m, at[m]))
    /\ WriteItem(m, Larger(cart[merge[m].user][at[m]], guest[m][at[m]]))
    /\ UNCHANGED <<cart, addVars, merge, todo, guest>>

FindNoUserRow(m) ==
    /\ mstage[m] = "looking"
    /\ ~Exists(UserRow(m, at[m]))
    /\ MergeGoto(m, "moving")
    /\ UNCHANGED <<cart, held, addVars, merge, todo, at, guest, writes>>

\* The guest's row becomes the user's.
MoveRow(m) ==
    /\ mstage[m] = "moving"
    /\ ~Exists(UserRow(m, at[m]))
    /\ Free(m, UserRow(m, at[m]))
    /\ Hold(m, UserRow(m, at[m]))
    /\ WriteItem(m, guest[m][at[m]])
    /\ UNCHANGED <<cart, addVars, merge, todo, guest>>

\* The transaction is rolled back; the merge, and the login, fail.
RollBack(m) ==
    /\ Release(m)
    /\ MergeGoto(m, "failed")
    /\ todo' = [todo EXCEPT ![m] = {}]
    /\ at' = [at EXCEPT ![m] = NoSku]
    /\ guest' = [guest EXCEPT ![m] = Nothing]
    /\ writes' = [writes EXCEPT ![m] = Nothing]
    /\ UNCHANGED <<cart, addVars, merge>>

\* Mutant: the refused save is tried again.
MoveAgain(m) ==
    /\ mstage[m] = "moving"
    /\ Exists(UserRow(m, at[m]))
    /\ UNCHANGED cartVars

\* The user has got a row of this sku since: the unique constraint refuses.
MoveConflict(m) ==
    /\ mstage[m] = "moving"
    /\ Exists(UserRow(m, at[m]))
    /\ RollBack(m)

\* Mutant: one level of indentation more, and the loop ends with its first row.
DeleteInLoop(m) ==
    /\ mstage[m] = "merging"
    /\ todo' = [todo EXCEPT ![m] = {s \in Skus : /\ Exists(GuestRow(m, s))
                                                /\ GuestRow(m, s) \notin held[m]}]
    /\ MergeGoto(m, "deleting")
    /\ UNCHANGED <<cart, held, addVars, merge, at, guest, writes>>

\* The last DELETE takes its snapshot: what the guest has by now, without the rows
\* that the loop has deleted or given away.
BeginDelete(m) ==
    /\ mstage[m] = "merging"
    /\ todo[m] = {}
    /\ todo' = [todo EXCEPT ![m] = {s \in Skus : /\ Exists(GuestRow(m, s))
                                                /\ GuestRow(m, s) \notin held[m]}]
    /\ MergeGoto(m, "deleting")
    /\ UNCHANGED <<cart, held, addVars, merge, at, guest, writes>>

DeleteGuestRow(m) ==
    /\ mstage[m] = "deleting"
    /\ at[m] # NoSku
    /\ Free(m, GuestRow(m, at[m]))
    /\ Hold(m, GuestRow(m, at[m]))
    /\ at' = [at EXCEPT ![m] = NoSku]
    /\ UNCHANGED <<cart, addVars, merge, mstage, todo, guest, writes>>

\* The guest's rows that the merge holds are all deleted or the user's now.  A row
\* that the guest got after the DELETE's snapshot stays the guest's.
CommitMerge(m) ==
    /\ mstage[m] = "deleting"
    /\ todo[m] = {}
    /\ at[m] = NoSku
    /\ LET gone == {s \in Skus : GuestRow(m, s) \in held[m]}
       IN  /\ cart' = [cart EXCEPT
                          ![merge[m].user] =
                              [s \in Skus |-> IF writes[m][s] > 0 THEN writes[m][s] ELSE @[s]],
                          ![merge[m].session] =
                              [s \in Skus |-> IF s \in gone THEN 0 ELSE @[s]]]
           /\ Forget({merge[m].session} \X gone)
    /\ Release(m)
    /\ MergeGoto(m, "merged")
    /\ guest' = [guest EXCEPT ![m] = Nothing]
    /\ writes' = [writes EXCEPT ![m] = Nothing]
    /\ UNCHANGED <<addVars, merge>>

\* The worker dies, the connection drops, or PostgreSQL picks the transaction to
\* break a deadlock.
AbortMerge(m) ==
    /\ mstage[m] \in InMerge
    /\ RollBack(m)

\* /cart/merge asks B2B for the cart to show, a login makes its tokens.
ReplyToMerge(m) ==
    /\ mstage[m] = "merged"
    /\ \E s \in {"answered", "unanswered"} : MergeGoto(m, s)
    /\ UNCHANGED <<cart, held, addVars, merge, todo, at, guest, writes>>

-------------------------------------------------------------------------------
(* Requests of one statement, or of one lock followed by one write *)

Unheld(row) == \A w \in Workers : row \notin held[w]

UpdateItem(o, s, q) ==
    /\ Exists(<<o, s>>)
    /\ Unheld(<<o, s>>)
    /\ cart' = [cart EXCEPT ![o][s] = q]
    /\ UNCHANGED <<held, addVars, mergeVars>>

DeleteItem(o, s) ==
    /\ Exists(<<o, s>>)
    /\ Unheld(<<o, s>>)
    /\ cart' = [cart EXCEPT ![o][s] = 0]
    /\ Forget({<<o, s>>})
    /\ UNCHANGED <<held, addVars, merge, mstage, guest, writes>>

\* The DELETE takes the rows that it has seen; those that others have committed
\* since it began stay.
ClearCart(o, seen) ==
    /\ \A s \in seen : Exists(<<o, s>>) /\ Unheld(<<o, s>>)
    /\ cart' = [cart EXCEPT ![o] = [s \in Skus |-> IF s \in seen THEN 0 ELSE @[s]]]
    /\ Forget({o} \X seen)
    /\ UNCHANGED <<held, addVars, merge, mstage, guest, writes>>

-------------------------------------------------------------------------------
\* The steps of the handlers themselves, which the server keeps running.
AddStep(a) ==
    \/ RejectItem(a)
    \/ AcceptItem(a)
    \/ LockItem(a)
    \/ FindNoItem(a)
    \/ InsertItem(a)
    \/ InsertConflict(a)
    \/ ItemGone(a)
    \/ SaveItem(a)
    \/ Overflow(a)
    \/ ReplyToAdd(a)

MergeStep(m) ==
    \/ RejectMerge(m)
    \/ BeginMerge(m)
    \/ \E s \in Skus : ComeToGuestRow(m, s) \/ NextItem(m, s)
    \/ LockGuestRow(m)
    \/ EndLocking(m)
    \/ KeepLarger(m)
    \/ FindNoUserRow(m)
    \/ MoveRow(m)
    \/ MoveConflict(m)
    \/ BeginDelete(m)
    \/ DeleteGuestRow(m)
    \/ CommitMerge(m)
    \/ ReplyToMerge(m)

CartNext ==
    \/ \E a \in Adds : AddStep(a) \/ CrashAdd(a)
    \/ \E m \in Merges : MergeStep(m) \/ AbortMerge(m)
    \/ \E o \in Owners, s \in Skus :
         \/ \E q \in 1..MaxQuantity : UpdateItem(o, s, q)
         \/ DeleteItem(o, s)
    \/ \E o \in Owners, seen \in SUBSET Skus : ClearCart(o, seen)

CartSpec == CartInit /\ [][CartNext]_cartVars

-------------------------------------------------------------------------------
(* Safety *)

Adding(a) == astage[a] # "added" /\ astage'[a] = "added"

Merging(m) == mstage[m] # "merged" /\ mstage'[m] = "merged"

\* An add that commits, as every add that is answered with 200 has, adds exactly
\* its quantity to what was in the cart at that moment, whether it made the row,
\* found it, or lost the race to make it: no concurrent add, change or merge is
\* overwritten.
AddsCounted ==
    [][\A a \in Adds :
         Adding(a) =>
             cart' = [cart EXCEPT ![add[a].owner][add[a].sku] = @ + add[a].quantity]]_cartVars

\* Every request acts on the carts at one instant or not at all: a merge gives the
\* user, of the rows it has locked, the larger quantity of both carts as they are
\* when it commits, the guest keeps only rows that came after its last snapshot,
\* each row goes once, and a merge that fails leaves both carts alone.
Atomic == INSTANCE Carts

ImplementsCarts == Atomic!CartsSpec

\* A merge that commits leaves out none of the guest's rows that it has locked: the
\* user has afterwards the larger of both quantities as they were at that moment,
\* and the guest has the row no more.  (Rows that came later are the subject of
\* MergeKeepsEverything.)
LockedRowsMerged ==
    [][\A m \in Merges :
         Merging(m) =>
             \A s \in Skus :
                 guest[m][s] > 0 =>
                     /\ cart'[merge[m].user][s] = Larger(cart[merge[m].user][s],
                                                        cart[merge[m].session][s])
                     /\ cart'[merge[m].session][s] = 0]_cartVars

\* test_cart_api.py:152-154: what only the guest had is in the user's cart after
\* the merge.  A row too late for the merge may at least still be the guest's.
MergeKeepsEverything ==
    [][\A m \in Merges :
         Merging(m) =>
             \A s \in Skus :
                 \/ cart'[merge[m].user][s] >= cart[merge[m].session][s]
                 \/ cart'[merge[m].session][s] = cart[merge[m].session][s]]_cartVars

-------------------------------------------------------------------------------
(* Liveness *)

\* The rows an open transaction is about to lock, to insert or to delete.
Wants(w) ==
    IF w \in Adds
      THEN {row \in {AddRow(w)} :
              \/ astage[w] \in {"looking", "conflicted"} /\ Exists(row)
              \/ astage[w] = "inserting" /\ ~Exists(row)}
      ELSE {row \in {GuestRow(w, s) : s \in Skus \cap {at[w]}} :
              mstage[w] \in InScan}
           \cup {row \in {UserRow(w, s) : s \in Skus \cap {at[w]}} :
              \/ mstage[w] = "looking" /\ Exists(row)
              \/ mstage[w] = "moving" /\ ~Exists(row)}

WaitsFor(w, x) == x # w /\ Wants(w) \cap held[x] # {}

\* w waits, through others, for itself.
Deadlocked(w) ==
    \E circle \in SUBSET Workers :
        /\ w \in circle
        /\ \A x \in circle : /\ \E y \in circle : WaitsFor(x, y)
                             /\ \E y \in circle : WaitsFor(y, x)

\* An add takes part in no deadlock, whatever it meets: it waits only while it holds
\* nothing.  Adding to a cart is therefore never rolled back for somebody else's
\* deadlock, and only merges need PostgreSQL to break one.
AddsNeverDeadlock == \A a \in Adds : ~Deadlocked(a)

\* Workers keep running, and PostgreSQL breaks a deadlock.
CartFairness ==
    /\ \A a \in Adds : WF_cartVars(AddStep(a))
    /\ \A m \in Merges : /\ WF_cartVars(MergeStep(m))
                         /\ WF_cartVars(Deadlocked(m) /\ AbortMerge(m))

FairCartSpec == CartSpec /\ CartFairness

\* Every add and every merge ends, and so does every wait for the rows it holds,
\* although merges lock rows in no fixed order and may wait for each other.
CartRequestsEnd ==
    /\ \A a \in Adds : astage[a] \in OpenAddStages ~> astage[a] \notin OpenAddStages
    /\ \A m \in Merges :
         mstage[m] \in OpenMergeStages ~> mstage[m] \notin OpenMergeStages

===============================================================================
