------------------------------ MODULE CartProofs ------------------------------
(***************************************************************************)
(* The invariant of the cart's row locks, for any owners, skus, quantities *)
(* and requests, and what follows from it: adds count, and every request   *)
(* is one step of Carts or none.                                           *)
(***************************************************************************)
EXTENDS CartInv, TLAPS

-------------------------------------------------------------------------------
(* Rows and locks *)

\* The rows that w holds are not written.
Kept(w) ==
    \A o \in Owners, s \in Skus : <<o, s>> \in held[w] => cart'[o][s] = cart[o][s]

\* No row disappears.
RowsStay ==
    \A o \in Owners, s \in Skus : cart[o][s] > 0 => cart'[o][s] > 0

\* Only a statement on its way through the guest's rows is told of rows that go.
Undistracted(m) ==
    mstage[m] \notin InScan => todo'[m] = todo[m] /\ at'[m] = at[m]

\* A cart without rows is a cart.
LEMMA NothingTyped == Nothing \in [Skus -> 0..MaxQuantity]
BY CartAssumption DEF Nothing

\* No transaction is both an add and a merge.
LEMMA AddIsNoMerge ==
    ASSUME NEW a \in Adds, NEW m \in Merges
    PROVE  a # m /\ a \in Workers /\ m \in Workers
BY CartAssumption DEF Workers

\* The rows that requests name are rows of owners and skus.
LEMMA RowTyped ==
    ASSUME CartTypeOK
    PROVE  /\ \A a \in Adds : AddRow(a) \in Owners \X Skus
           /\ \A m \in Merges, s \in Skus : /\ GuestRow(m, s) \in Owners \X Skus
                                            /\ UserRow(m, s) \in Owners \X Skus
BY DEF CartTypeOK, AddRow, GuestRow, UserRow, Owners

\* A row that nobody else held is held by one transaction afterwards.
LEMMA HoldExclusive ==
    ASSUME CartTypeOK, LocksExclusive, NEW w \in Workers, NEW row \in Owners \X Skus,
           Free(w, row), Hold(w, row)
    PROVE  /\ LocksExclusive'
           /\ held' \in [Workers -> SUBSET (Owners \X Skus)]
           /\ held'[w] = held[w] \cup {row}
           /\ \A x \in Workers \ {w} : held'[x] = held[x]
<1>1. /\ held' \in [Workers -> SUBSET (Owners \X Skus)]
      /\ held'[w] = held[w] \cup {row}
      /\ \A x \in Workers \ {w} : held'[x] = held[x]
  BY DEF CartTypeOK, Hold
<1>2. LocksExclusive'
  BY <1>1 DEF LocksExclusive, Free
<1> QED
  BY <1>1, <1>2

\* Letting go of locks leaves the others' as they are.
LEMMA ReleaseExclusive ==
    ASSUME CartTypeOK, LocksExclusive, NEW w \in Workers, Release(w)
    PROVE  /\ LocksExclusive'
           /\ held' \in [Workers -> SUBSET (Owners \X Skus)]
           /\ held'[w] = {}
           /\ \A x \in Workers \ {w} : held'[x] = held[x]
<1>1. /\ held' \in [Workers -> SUBSET (Owners \X Skus)]
      /\ held'[w] = {}
      /\ \A x \in Workers \ {w} : held'[x] = held[x]
  BY DEF CartTypeOK, Release
<1>2. LocksExclusive'
  BY <1>1 DEF LocksExclusive
<1> QED
  BY <1>1, <1>2

-------------------------------------------------------------------------------
(* A request is disturbed by no step of another that keeps its rows *)

\* What an add knows stays true while its row is kept.
LEMMA OtherAdd ==
    ASSUME CartTypeOK, NEW a \in Adds, AddReadsLocked(a), Kept(a), add' = add,
           astage'[a] = astage[a], read'[a] = read[a], held'[a] = held[a]
    PROVE  AddReadsLocked(a)'
<1>1. add[a].owner \in Owners /\ add[a].sku \in Skus
  BY DEF CartTypeOK
<1> QED
  BY <1>1 DEF AddReadsLocked, AddRow, Kept

\* What a merge knows stays true while its rows are kept.
LEMMA OtherMerge ==
    ASSUME CartTypeOK, NEW m \in Merges, MergeSound(m), Kept(m), merge' = merge,
           mstage'[m] = mstage[m], guest'[m] = guest[m], writes'[m] = writes[m],
           held'[m] = held[m], Undistracted(m), SeenRowsExist(m)'
    PROVE  MergeSound(m)'
<1>1. merge[m].user \in Owners /\ merge[m].session \in Owners
  BY DEF CartTypeOK, Owners
<1>2. GuestRowsLocked(m)'
  BY <1>1 DEF MergeSound, GuestRowsLocked, GuestRow, Kept
<1>3. UserRowsLocked(m)'
  BY <1>1 DEF MergeSound, UserRowsLocked, UserRow, Kept
<1>4. HoldsWhatItReads(m)'
  BY DEF MergeSound, HoldsWhatItReads, GuestRow, UserRow
<1>5. LoopCovers(m)' /\ MergeAtRest(m)'
  BY DEF MergeSound, LoopCovers, MergeAtRest, InLoop, InWrites, InScan, Undistracted
<1> QED
  BY <1>2, <1>3, <1>4, <1>5 DEF MergeSound

\* What a statement has seen is still there while no row disappears.
LEMMA SeenStay ==
    ASSUME CartTypeOK, NEW m \in Merges, MergeSound(m), RowsStay, merge' = merge,
           mstage'[m] = mstage[m], todo'[m] = todo[m], at'[m] = at[m]
    PROVE  Undistracted(m) /\ SeenRowsExist(m)'
<1>1. merge[m].session \in Owners
  BY DEF CartTypeOK, Owners
<1> QED
  BY <1>1 DEF Undistracted, MergeSound, SeenRowsExist, Exists, GuestRow, RowsStay

\* Rows that go are forgotten.
LEMMA ForgetSeen ==
    ASSUME CartTypeOK, NEW rows \in SUBSET (Owners \X Skus), Forget(rows), merge' = merge,
           \A o \in Owners, s \in Skus :
               cart[o][s] > 0 /\ <<o, s>> \notin rows => cart'[o][s] > 0
    PROVE  /\ todo' \in [Merges -> SUBSET Skus]
           /\ at' \in [Merges -> Skus \cup {NoSku}]
           /\ \A m \in Merges :
                MergeSound(m) /\ mstage'[m] = mstage[m] =>
                    Undistracted(m) /\ SeenRowsExist(m)'
<1>1. todo' \in [Merges -> SUBSET Skus] /\ at' \in [Merges -> Skus \cup {NoSku}]
  BY DEF CartTypeOK, Forget
<1>2. ASSUME NEW m \in Merges, MergeSound(m), mstage'[m] = mstage[m]
      PROVE  Undistracted(m) /\ SeenRowsExist(m)'
  <2>1. merge[m].session \in Owners
    BY DEF CartTypeOK, Owners
  <2>2. Undistracted(m)
    BY DEF Undistracted, Forget, CartTypeOK
  <2>3. ASSUME mstage[m] \in InScan, NEW s \in Skus, s \in todo'[m] \/ s = at'[m]
        PROVE  /\ GuestRow(m, s) \notin rows
               /\ s \in todo[m] \/ s = at[m]
    BY <2>3, CartAssumption DEF Forget
  <2>4. SeenRowsExist(m)'
    BY <1>2, <2>1, <2>3 DEF MergeSound, SeenRowsExist, Exists, GuestRow
  <2> QED
    BY <2>2, <2>4
<1> QED
  BY <1>1, <1>2

\* What is left to show of a step of one add, and of one merge.
LEMMA AddStepInv ==
    ASSUME CartIInv, NEW a \in Adds, UNCHANGED <<add, mergeVars>>,
           \A b \in Adds \ {a} : astage'[b] = astage[b] /\ read'[b] = read[b],
           \A x \in Workers \ {a} : held'[x] = held[x] /\ Kept(x), RowsStay,
           CartTypeOK', LocksExclusive', AddReadsLocked(a)'
    PROVE  CartIInv'
<1>1. ASSUME NEW b \in Adds PROVE AddReadsLocked(b)'
  <2>1. CASE b = a
    BY <2>1
  <2>2. CASE b # a
    BY <2>2, OtherAdd DEF CartIInv, Workers
  <2> QED
    BY <2>1, <2>2
<1>2. ASSUME NEW m \in Merges PROVE MergeSound(m)'
  BY AddIsNoMerge, SeenStay, OtherMerge DEF CartIInv, mergeVars
<1> QED
  BY <1>1, <1>2 DEF CartIInv

\* The same for a step of one merge.
LEMMA MergeStepInv ==
    ASSUME CartIInv, NEW m \in Merges, UNCHANGED <<merge, addVars>>,
           \A n \in Merges \ {m} :
               /\ mstage'[n] = mstage[n] /\ guest'[n] = guest[n] /\ writes'[n] = writes[n]
               /\ Undistracted(n) /\ SeenRowsExist(n)',
           \A x \in Workers \ {m} : held'[x] = held[x] /\ Kept(x),
           CartTypeOK', LocksExclusive', MergeSound(m)'
    PROVE  CartIInv'
<1>1. ASSUME NEW a \in Adds PROVE AddReadsLocked(a)'
  BY AddIsNoMerge, OtherAdd DEF CartIInv, addVars
<1>2. ASSUME NEW n \in Merges PROVE MergeSound(n)'
  <2>1. CASE n = m
    BY <2>1
  <2>2. CASE n # m
    BY <2>2, OtherMerge DEF CartIInv, Workers
  <2> QED
    BY <2>1, <2>2
<1> QED
  BY <1>1, <1>2 DEF CartIInv

\* While a merge reads and locks, the others' rows are as they were.
LEMMA MergeReadInv ==
    ASSUME CartIInv, NEW m \in Merges, UNCHANGED <<cart, merge, addVars>>,
           \A n \in Merges \ {m} :
               /\ mstage'[n] = mstage[n] /\ todo'[n] = todo[n] /\ at'[n] = at[n]
               /\ guest'[n] = guest[n] /\ writes'[n] = writes[n],
           \A x \in Workers \ {m} : held'[x] = held[x],
           CartTypeOK', LocksExclusive', MergeSound(m)'
    PROVE  CartIInv'
<1>1. RowsStay /\ \A x \in Workers : Kept(x)
  BY DEF RowsStay, Kept
<1>2. \A n \in Merges \ {m} : Undistracted(n) /\ SeenRowsExist(n)'
  BY <1>1, SeenStay DEF CartIInv
<1> QED
  BY <1>1, <1>2, MergeStepInv

\* A step of no transaction that writes no locked row.
LEMMA SharedStepInv ==
    ASSUME CartIInv, UNCHANGED <<held, addVars, merge, mstage, guest, writes>>,
           cart' \in [Owners -> [Skus -> 0..MaxQuantity]],
           todo' \in [Merges -> SUBSET Skus],
           at' \in [Merges -> Skus \cup {NoSku}],
           \A m \in Merges : Undistracted(m) /\ SeenRowsExist(m)',
           \A x \in Workers : Kept(x)
    PROVE  CartIInv'
<1>1. CartTypeOK' /\ LocksExclusive'
  BY DEF CartIInv, CartTypeOK, LocksExclusive, addVars
<1>2. ASSUME NEW a \in Adds PROVE AddReadsLocked(a)'
  BY OtherAdd DEF CartIInv, addVars, Workers
<1>3. ASSUME NEW m \in Merges PROVE MergeSound(m)'
  BY OtherMerge DEF CartIInv, Workers
<1> QED
  BY <1>1, <1>2, <1>3 DEF CartIInv

-------------------------------------------------------------------------------
(* The initial states *)

\* Before any request nothing is locked and nothing is known.
LEMMA InitCartIInv == CartInit => CartIInv
<1> SUFFICES ASSUME CartInit PROVE CartIInv
  OBVIOUS
<1>1. CartTypeOK
  BY NothingTyped, CartAssumption
     DEF CartInit, CartTypeOK, AddStages, OpenAddStages, InAdd, MergeStages,
         OpenMergeStages, InMerge
<1>2. LocksExclusive
  BY DEF CartInit, LocksExclusive
<1>3. \A a \in Adds : AddReadsLocked(a)
  BY AddIsNoMerge DEF CartInit, AddReadsLocked, Workers
<1>4. ASSUME NEW m \in Merges PROVE MergeSound(m)
  <2>1. /\ held[m] = {} /\ guest[m] = Nothing /\ writes[m] = Nothing
        /\ mstage[m] = "received" /\ todo[m] = {} /\ at[m] = NoSku
    BY DEF CartInit, Workers
  <2>2. GuestRowsLocked(m) /\ UserRowsLocked(m) /\ HoldsWhatItReads(m)
    BY <2>1 DEF GuestRowsLocked, UserRowsLocked, HoldsWhatItReads, Nothing
  <2>3. LoopCovers(m) /\ MergeAtRest(m) /\ SeenRowsExist(m)
    BY <2>1 DEF LoopCovers, MergeAtRest, InLoop, SeenRowsExist, InScan
  <2> QED
    BY <2>2, <2>3 DEF MergeSound
<1> QED
  BY <1>1, <1>2, <1>3, <1>4 DEF CartIInv

-------------------------------------------------------------------------------
(* Adds *)

\* The stages that write nothing and hold nothing.
AddMoves(a) ==
    \/ RejectItem(a)
    \/ AcceptItem(a)
    \/ FindNoItem(a)
    \/ InsertConflict(a)
    \/ ItemGone(a)
    \/ ReplyToAdd(a)

\* Looks that find nothing, refusals and answers change an add's stage only.
LEMMA AddMovesInv ==
    ASSUME CartIInv, NEW a \in Adds, AddMoves(a)
    PROVE  CartIInv'
<1>1. /\ astage[a] # "adding"
      /\ UNCHANGED <<cart, held, add, read, mergeVars>>
      /\ \E s \in AddStages \ {"adding"} : astage' = [astage EXCEPT ![a] = s]
  BY DEF AddMoves, RejectItem, AcceptItem, FindNoItem, InsertConflict, ItemGone, ReplyToAdd, AddGoto,
       AddStages, OpenAddStages, InAdd, Outcomes
<1>2. /\ astage' \in [Adds -> AddStages]
      /\ astage'[a] # "adding"
      /\ \A b \in Adds \ {a} : astage'[b] = astage[b]
  BY <1>1 DEF CartIInv, CartTypeOK
<1>3. CartTypeOK' /\ LocksExclusive'
  BY <1>1, <1>2 DEF CartIInv, CartTypeOK, LocksExclusive, mergeVars
<1>4. AddReadsLocked(a)'
  BY <1>1, <1>2 DEF CartIInv, AddReadsLocked
<1>5. RowsStay /\ \A x \in Workers : held'[x] = held[x] /\ Kept(x)
  BY <1>1 DEF RowsStay, Kept
<1> QED
  BY <1>1, <1>2, <1>3, <1>4, <1>5, AddStepInv

\* The row is locked, and then read.
LEMMA LockItemInv ==
    ASSUME CartIInv, NEW a \in Adds, LockItem(a)
    PROVE  CartIInv'
<1>1. a \in Workers /\ CartTypeOK /\ LocksExclusive
  BY DEF CartIInv, Workers
<1>2. AddRow(a) \in Owners \X Skus /\ add[a].owner \in Owners /\ add[a].sku \in Skus
  BY <1>1, RowTyped DEF CartTypeOK
<1>3. /\ LocksExclusive'
      /\ held' \in [Workers -> SUBSET (Owners \X Skus)]
      /\ held'[a] = held[a] \cup {AddRow(a)}
      /\ \A x \in Workers \ {a} : held'[x] = held[x]
  BY <1>1, <1>2, HoldExclusive DEF LockItem
<1>4. /\ astage' = [astage EXCEPT ![a] = "adding"]
      /\ read' = [read EXCEPT ![a] = cart[add[a].owner][add[a].sku]]
      /\ cart[add[a].owner][add[a].sku] > 0
      /\ held[a] = {}
      /\ UNCHANGED <<cart, add, mergeVars>>
  BY DEF LockItem, AddGoto, Exists, AddRow, CartIInv, AddReadsLocked
<1>5. cart[add[a].owner][add[a].sku] \in 0..MaxQuantity
  BY <1>1, <1>2 DEF CartTypeOK
<1>6. /\ astage' \in [Adds -> AddStages]
      /\ read' \in [Adds -> 0..MaxQuantity]
      /\ astage'[a] = "adding"
      /\ read'[a] = cart[add[a].owner][add[a].sku]
      /\ \A b \in Adds \ {a} : astage'[b] = astage[b] /\ read'[b] = read[b]
  BY <1>1, <1>4, <1>5 DEF CartTypeOK, AddStages, OpenAddStages, InAdd
<1>7. CartTypeOK'
  BY <1>1, <1>3, <1>4, <1>6 DEF CartTypeOK, mergeVars
<1>8. AddReadsLocked(a)'
  BY <1>3, <1>4, <1>6 DEF AddReadsLocked, AddRow
<1>9. RowsStay /\ \A x \in Workers : Kept(x)
  BY <1>4 DEF RowsStay, Kept
<1> QED
  BY <1>3, <1>4, <1>6, <1>7, <1>8, <1>9, AddStepInv

\* A committed row that no other transaction holds.
LEMMA RowWritten ==
    ASSUME CartTypeOK, NEW w, NEW row \in Owners \X Skus, Free(w, row),
           NEW q \in 0..MaxQuantity, cart' = [cart EXCEPT ![row[1]][row[2]] = q]
    PROVE  /\ cart' \in [Owners -> [Skus -> 0..MaxQuantity]]
           /\ \A x \in Workers \ {w} : Kept(x)
           /\ q > 0 => RowsStay
<1>1. row[1] \in Owners /\ row[2] \in Skus /\ row = <<row[1], row[2]>>
  OBVIOUS
<1>2. cart' \in [Owners -> [Skus -> 0..MaxQuantity]]
  BY <1>1 DEF CartTypeOK
<1>3. ASSUME NEW x \in Workers \ {w}, NEW o \in Owners, NEW s \in Skus,
             <<o, s>> \in held[x]
      PROVE  cart'[o][s] = cart[o][s]
  <2>1. o # row[1] \/ s # row[2]
    BY <1>1, <1>3 DEF Free
  <2> QED
    BY <2>1, <1>1 DEF CartTypeOK
<1>4. ASSUME q > 0, NEW o \in Owners, NEW s \in Skus, cart[o][s] > 0
      PROVE  cart'[o][s] > 0
  <2>1. cart'[o][s] = q \/ cart'[o][s] = cart[o][s]
    BY <1>1 DEF CartTypeOK
  <2> QED
    BY <1>4, <2>1
<1> QED
  BY <1>2, <1>3, <1>4 DEF Kept, RowsStay

\* The new row is the add's own, made and let go of at its commit.
LEMMA InsertItemInv ==
    ASSUME CartIInv, NEW a \in Adds, InsertItem(a)
    PROVE  CartIInv'
<1>1. CartTypeOK /\ LocksExclusive /\ AddRow(a) \in Owners \X Skus
  BY RowTyped DEF CartIInv
<1>2. add[a].quantity \in 0..MaxQuantity /\ add[a].quantity > 0
  BY <1>1, CartAssumption DEF CartTypeOK
<1>3. /\ cart' \in [Owners -> [Skus -> 0..MaxQuantity]]
      /\ RowsStay /\ \A x \in Workers \ {a} : Kept(x)
  BY <1>1, <1>2, RowWritten DEF InsertItem, AddRow
<1>4. /\ astage' = [astage EXCEPT ![a] = "added"]
      /\ held[a] = {}
      /\ UNCHANGED <<held, add, read, mergeVars>>
  BY DEF InsertItem, AddGoto, CartIInv, AddReadsLocked
<1>5. /\ astage' \in [Adds -> AddStages]
      /\ astage'[a] = "added"
      /\ \A b \in Adds \ {a} : astage'[b] = astage[b]
  BY <1>1, <1>4 DEF CartTypeOK, AddStages, OpenAddStages, InAdd
<1>6. CartTypeOK' /\ LocksExclusive' /\ AddReadsLocked(a)'
  BY <1>1, <1>3, <1>4, <1>5 DEF CartTypeOK, LocksExclusive, AddReadsLocked, mergeVars
<1> QED
  BY <1>3, <1>4, <1>5, <1>6, AddStepInv

\* The transaction ends and lets go of its row; what it may have written was its own.
LEMMA AddEndsInv ==
    ASSUME CartIInv, NEW a \in Adds, Release(a), read' = [read EXCEPT ![a] = 0],
           NEW s \in AddStages \ {"adding"}, AddGoto(a, s), UNCHANGED <<add, mergeVars>>,
           cart' \in [Owners -> [Skus -> 0..MaxQuantity]], RowsStay,
           \A x \in Workers \ {a} : Kept(x)
    PROVE  CartIInv'
<1>1. CartTypeOK /\ LocksExclusive /\ a \in Workers
  BY DEF CartIInv, Workers
<1>2. /\ LocksExclusive'
      /\ held' \in [Workers -> SUBSET (Owners \X Skus)]
      /\ held'[a] = {}
      /\ \A x \in Workers \ {a} : held'[x] = held[x]
  BY <1>1, ReleaseExclusive
<1>3. /\ astage' \in [Adds -> AddStages]
      /\ read' \in [Adds -> 0..MaxQuantity]
      /\ astage'[a] # "adding"
      /\ \A b \in Adds \ {a} : astage'[b] = astage[b] /\ read'[b] = read[b]
  BY <1>1, CartAssumption DEF CartTypeOK, AddGoto
<1>4. CartTypeOK' /\ AddReadsLocked(a)'
  BY <1>1, <1>2, <1>3 DEF CartTypeOK, AddReadsLocked, mergeVars
<1> QED
  BY <1>2, <1>3, <1>4, AddStepInv

\* The row is written by the add that holds it.
LEMMA SaveItemInv ==
    ASSUME CartIInv, NEW a \in Adds, SaveItem(a)
    PROVE  CartIInv'
<1>1. CartTypeOK /\ AddRow(a) \in Owners \X Skus
  BY RowTyped DEF CartIInv
<1>2. held[a] = {AddRow(a)} /\ read[a] > 0
  BY DEF SaveItem, CartIInv, AddReadsLocked
<1>3. Free(a, AddRow(a))
  BY <1>2 DEF CartIInv, LocksExclusive, Free, Workers
<1>4. read[a] + add[a].quantity \in 0..MaxQuantity /\ read[a] + add[a].quantity > 0
  <2>1. /\ read[a] \in 0..MaxQuantity /\ add[a].quantity \in 1..MaxQuantity
        /\ MaxQuantity \in Nat /\ read[a] + add[a].quantity <= MaxQuantity
    BY <1>1, CartAssumption DEF CartTypeOK, SaveItem
  <2> QED
    BY <2>1
<1>5. /\ cart' \in [Owners -> [Skus -> 0..MaxQuantity]]
      /\ RowsStay
      /\ \A x \in Workers \ {a} : Kept(x)
  BY <1>1, <1>3, <1>4, RowWritten DEF SaveItem, AddRow
<1> QED
  BY <1>5, AddEndsInv DEF SaveItem, AddStages, OpenAddStages

\* An add that overflows or dies lets go and has written nothing.
LEMMA AddFailsInv ==
    ASSUME CartIInv, NEW a \in Adds, Overflow(a) \/ CrashAdd(a)
    PROVE  CartIInv'
<1>1. /\ cart' \in [Owners -> [Skus -> 0..MaxQuantity]] /\ RowsStay
      /\ \A x \in Workers \ {a} : Kept(x)
  BY DEF Overflow, CrashAdd, CartIInv, CartTypeOK, RowsStay, Kept
<1> QED
  BY <1>1, AddEndsInv DEF Overflow, CrashAdd, AddStages, Outcomes

-------------------------------------------------------------------------------
(* Requests of one statement *)

\* A change waits for whoever holds the row.
LEMMA UpdateItemInv ==
    ASSUME CartIInv, NEW o \in Owners, NEW s \in Skus, NEW q \in 1..MaxQuantity,
           UpdateItem(o, s, q)
    PROVE  CartIInv'
<1>1. cart' \in [Owners -> [Skus -> 0..MaxQuantity]]
  BY CartAssumption DEF UpdateItem, CartIInv, CartTypeOK
<1>2. \A x \in Workers : Kept(x)
  BY DEF UpdateItem, Unheld, Kept, CartIInv, CartTypeOK
<1>3. RowsStay
  <2>1. ASSUME NEW p \in Owners, NEW t \in Skus
        PROVE  cart'[p][t] = q \/ cart'[p][t] = cart[p][t]
    BY DEF UpdateItem, CartIInv, CartTypeOK
  <2> QED
    BY <2>1, CartAssumption DEF RowsStay
<1>4. todo' \in [Merges -> SUBSET Skus] /\ at' \in [Merges -> Skus \cup {NoSku}]
  BY DEF UpdateItem, mergeVars, CartIInv, CartTypeOK
<1>5. \A m \in Merges : Undistracted(m) /\ SeenRowsExist(m)'
  BY <1>3, SeenStay DEF UpdateItem, mergeVars, CartIInv
<1> QED
  BY <1>1, <1>2, <1>4, <1>5, SharedStepInv DEF UpdateItem, mergeVars

\* Rows are deleted that nobody holds, and forgotten.
LEMMA RowsDeletedInv ==
    ASSUME CartIInv, NEW o \in Owners, NEW seen \in SUBSET Skus,
           \A s \in seen : Unheld(<<o, s>>),
           cart' \in [Owners -> [Skus -> 0..MaxQuantity]],
           \A p \in Owners, s \in Skus : p # o \/ s \notin seen => cart'[p][s] = cart[p][s],
           Forget({o} \X seen),
           UNCHANGED <<held, addVars, merge, mstage, guest, writes>>
    PROVE  CartIInv'
<1>1. ASSUME NEW x \in Workers, NEW p \in Owners, NEW s \in Skus, <<p, s>> \in held[x]
      PROVE  p # o \/ s \notin seen
  BY <1>1 DEF Unheld
<1>2. \A x \in Workers : Kept(x)
  BY <1>1 DEF Kept
<1> DEFINE rows == {o} \X seen
<1>3. /\ rows \in SUBSET (Owners \X Skus)
      /\ Forget(rows)
      /\ \A p \in Owners, s \in Skus :
            cart[p][s] > 0 /\ <<p, s>> \notin rows => cart'[p][s] > 0
  OBVIOUS
<1> HIDE DEF rows
<1>4. /\ todo' \in [Merges -> SUBSET Skus]
      /\ at' \in [Merges -> Skus \cup {NoSku}]
      /\ \A m \in Merges : Undistracted(m) /\ SeenRowsExist(m)'
  BY <1>3, ForgetSeen DEF CartIInv
<1> QED
  BY <1>2, <1>4, SharedStepInv

\* A deletion waits for whoever holds the row.
LEMMA DeleteItemInv ==
    ASSUME CartIInv, NEW o \in Owners, NEW s \in Skus, DeleteItem(o, s)
    PROVE  CartIInv'
<1>1. /\ cart' \in [Owners -> [Skus -> 0..MaxQuantity]]
      /\ \A p \in Owners, t \in Skus : p # o \/ t \notin {s} => cart'[p][t] = cart[p][t]
  BY CartAssumption DEF DeleteItem, CartIInv, CartTypeOK
<1>2. {<<o, s>>} = {o} \X {s}
  OBVIOUS
<1>3. Forget({o} \X {s})
  BY <1>2 DEF DeleteItem
<1>4. /\ \A t \in {s} : Unheld(<<o, t>>)
      /\ UNCHANGED <<held, addVars, merge, mstage, guest, writes>>
  BY DEF DeleteItem
<1>5. {s} \in SUBSET Skus
  OBVIOUS
<1> QED
  BY <1>1, <1>3, <1>4, <1>5, RowsDeletedInv

\* So does the clearing of a cart, for each row that it has seen.
LEMMA ClearCartInv ==
    ASSUME CartIInv, NEW o \in Owners, NEW seen \in SUBSET Skus, ClearCart(o, seen)
    PROVE  CartIInv'
<1> DEFINE left == [s \in Skus |-> IF s \in seen THEN 0 ELSE cart[o][s]]
<1>1. cart' = [cart EXCEPT ![o] = left]
  BY DEF ClearCart, CartIInv, CartTypeOK
<1>2. left \in [Skus -> 0..MaxQuantity] /\ \A s \in Skus \ seen : left[s] = cart[o][s]
  BY CartAssumption DEF CartIInv, CartTypeOK
<1> HIDE DEF left
<1>3. /\ cart' \in [Owners -> [Skus -> 0..MaxQuantity]]
      /\ \A p \in Owners, s \in Skus : p # o \/ s \notin seen => cart'[p][s] = cart[p][s]
  BY <1>1, <1>2 DEF CartIInv, CartTypeOK
<1>4. \A s \in seen : Unheld(<<o, s>>)
  BY DEF ClearCart
<1>5. Forget({o} \X seen) /\ UNCHANGED <<held, addVars, merge, mstage, guest, writes>>
  BY DEF ClearCart
<1> QED
  BY <1>3, <1>4, <1>5, RowsDeletedInv

-------------------------------------------------------------------------------
(* Merges *)

\* A step that moves a merge on, whatever it reads, and writes no row and locks none.
LEMMA MergeMovesInv ==
    ASSUME CartIInv, NEW m \in Merges, UNCHANGED <<cart, held, merge, addVars>>,
           NEW stage \in MergeStages, mstage' = [mstage EXCEPT ![m] = stage],
           NEW skus \in SUBSET Skus, todo' = [todo EXCEPT ![m] = skus],
           NEW s \in Skus \cup {NoSku}, at' = [at EXCEPT ![m] = s],
           UNCHANGED <<guest, writes>>,
           MergeSound(m)'
    PROVE  CartIInv'
<1>1. /\ mstage' \in [Merges -> MergeStages]
      /\ todo' \in [Merges -> SUBSET Skus]
      /\ at' \in [Merges -> Skus \cup {NoSku}]
      /\ \A n \in Merges \ {m} :
            mstage'[n] = mstage[n] /\ todo'[n] = todo[n] /\ at'[n] = at[n]
  BY DEF CartIInv, CartTypeOK
<1>2. CartTypeOK' /\ LocksExclusive'
  BY <1>1 DEF CartIInv, CartTypeOK, LocksExclusive, addVars
<1> QED
  BY <1>1, <1>2, MergeReadInv

\* The invariant of a merge whose knowledge stays as it is.
LEMMA SameKnowledge ==
    ASSUME NEW m \in Merges, MergeSound(m),
           UNCHANGED <<cart, merge, held[m], guest[m], writes[m]>>,
           mstage[m] = "deleting" => mstage'[m] = "deleting"
    PROVE  GuestRowsLocked(m)' /\ UserRowsLocked(m)' /\ HoldsWhatItReads(m)'
BY DEF MergeSound, GuestRowsLocked, UserRowsLocked, HoldsWhatItReads, GuestRow, UserRow

\* What the steps of a merge use, in one place.
LEMMA MergeFacts ==
    ASSUME CartIInv, NEW m \in Merges
    PROVE  /\ MergeSound(m) /\ CartTypeOK /\ LocksExclusive
           /\ m \in Workers
           /\ merge[m].user \in Owners /\ merge[m].session \in Owners
           /\ merge[m].user \in Users /\ merge[m].session \in Sessions
           /\ merge[m].user # merge[m].session
           /\ guest[m] \in [Skus -> 0..MaxQuantity]
           /\ writes[m] \in [Skus -> 0..MaxQuantity]
           /\ todo[m] \in SUBSET Skus
           /\ at[m] \in Skus \cup {NoSku}
BY CartAssumption DEF CartIInv, CartTypeOK, Workers, Owners

\* A merge that is refused, or is being answered, knows nothing.
LEMMA RejectMergeInv ==
    ASSUME CartIInv, NEW m \in Merges, RejectMerge(m) \/ ReplyToMerge(m)
    PROVE  CartIInv'
<1>1. MergeSound(m) /\ CartTypeOK /\ todo[m] \in SUBSET Skus /\ at[m] \in Skus \cup {NoSku}
  BY MergeFacts
<1>2. PICK stage \in Outcomes : mstage' = [mstage EXCEPT ![m] = stage]
  BY DEF RejectMerge, ReplyToMerge, MergeGoto, Outcomes
<1>3. /\ mstage[m] \notin {"locking"} \cup InWrites
      /\ UNCHANGED <<cart, held, merge, addVars, guest, writes, todo, at>>
  BY DEF RejectMerge, ReplyToMerge, InLoop, InWrites
<1>4. /\ mstage'[m] = stage /\ stage \notin {"locking"} \cup InWrites
      /\ stage \in MergeStages
  BY <1>1, <1>2 DEF CartTypeOK, Outcomes, InLoop, InWrites, MergeStages
<1>5. MergeSound(m)'
  <2>1. LoopCovers(m)' /\ SeenRowsExist(m)'
    BY <1>4 DEF LoopCovers, SeenRowsExist, InScan, InLoop, InWrites
  <2>2. MergeAtRest(m)'
    BY <1>1, <1>3, <1>4 DEF MergeSound, MergeAtRest
  <2> QED
    BY <1>1, <1>3, <2>1, <2>2, SameKnowledge DEF MergeSound, InWrites
<1>6. todo' = [todo EXCEPT ![m] = todo[m]] /\ at' = [at EXCEPT ![m] = at[m]]
  BY <1>1, <1>3 DEF CartTypeOK
<1> QED
  BY <1>1, <1>2, <1>3, <1>4, <1>5, <1>6, MergeMovesInv

\* The snapshot only says which rows to come to.
LEMMA BeginMergeInv ==
    ASSUME CartIInv, NEW m \in Merges, BeginMerge(m)
    PROVE  CartIInv'
<1>1. MergeSound(m) /\ CartTypeOK /\ at[m] \in Skus \cup {NoSku}
  BY MergeFacts
<1> DEFINE skus == {s \in Skus : Exists(GuestRow(m, s))}
<1>2. /\ mstage' = [mstage EXCEPT ![m] = "locking"]
      /\ todo' = [todo EXCEPT ![m] = skus]
      /\ mstage[m] = "received"
      /\ UNCHANGED <<cart, held, merge, addVars, guest, writes, at>>
  BY DEF BeginMerge, MergeGoto
<1>3. mstage'[m] = "locking" /\ todo'[m] = skus
  BY <1>1, <1>2 DEF CartTypeOK
<1>4. MergeSound(m)'
  <2>1. at[m] = NoSku
    BY <1>1, <1>2 DEF MergeSound, MergeAtRest, InLoop, InWrites
  <2>2. LoopCovers(m)' /\ MergeAtRest(m)'
    BY <1>1, <1>2, <1>3 DEF MergeSound, LoopCovers, MergeAtRest, InLoop, InWrites
  <2>3. SeenRowsExist(m)'
    BY <1>2, <1>3, <2>1, CartAssumption DEF SeenRowsExist, Exists, GuestRow
  <2> QED
    BY <1>1, <1>2, <2>2, <2>3, SameKnowledge DEF MergeSound
<1>5. at' = [at EXCEPT ![m] = at[m]] /\ "locking" \in MergeStages
  BY <1>1, <1>2 DEF CartTypeOK, MergeStages, OpenMergeStages, InMerge
<1> HIDE DEF skus
<1>6. skus \in SUBSET Skus
  BY DEF skus
<1> QED
  BY <1>1, <1>2, <1>4, <1>5, <1>6, MergeMovesInv

\* A scan comes to one of the rows that it has seen.
LEMMA ComeToGuestRowInv ==
    ASSUME CartIInv, NEW m \in Merges, NEW s \in Skus, ComeToGuestRow(m, s)
    PROVE  CartIInv'
<1>1. MergeSound(m) /\ CartTypeOK /\ todo[m] \in SUBSET Skus
  BY MergeFacts
<1>2. /\ todo' = [todo EXCEPT ![m] = todo[m] \ {s}]
      /\ at' = [at EXCEPT ![m] = s]
      /\ mstage[m] \in InScan /\ s \in todo[m]
      /\ UNCHANGED <<cart, held, merge, mstage, addVars, guest, writes>>
  BY DEF ComeToGuestRow
<1>3. todo'[m] = todo[m] \ {s} /\ at'[m] = s
  BY <1>1, <1>2 DEF CartTypeOK
<1>4. MergeSound(m)'
  <2>1. LoopCovers(m)' /\ MergeAtRest(m)'
    BY <1>1, <1>2 DEF MergeSound, LoopCovers, MergeAtRest, InLoop, InWrites, InScan
  <2>2. SeenRowsExist(m)'
    BY <1>1, <1>2, <1>3 DEF MergeSound, SeenRowsExist, Exists, GuestRow
  <2> QED
    BY <1>1, <1>2, <2>1, <2>2, SameKnowledge DEF MergeSound
<1>5. mstage' = [mstage EXCEPT ![m] = mstage[m]] /\ mstage[m] \in MergeStages
  BY <1>1, <1>2 DEF CartTypeOK
<1>6. todo[m] \ {s} \in SUBSET Skus
  BY <1>1
<1> QED
  BY <1>2, <1>4, <1>5, <1>6, MergeMovesInv

\* The loop goes over the rows that have been locked, each once.
LEMMA EndLockingInv ==
    ASSUME CartIInv, NEW m \in Merges, EndLocking(m)
    PROVE  CartIInv'
<1>1. MergeSound(m) /\ CartTypeOK
  BY MergeFacts
<1> DEFINE skus == {s \in Skus : guest[m][s] > 0}
<1>2. /\ mstage' = [mstage EXCEPT ![m] = "merging"]
      /\ todo' = [todo EXCEPT ![m] = skus]
      /\ mstage[m] = "locking" /\ at[m] = NoSku
      /\ UNCHANGED <<cart, held, merge, addVars, guest, writes, at>>
  BY DEF EndLocking, MergeGoto
<1>3. mstage'[m] = "merging" /\ todo'[m] = skus
  BY <1>1, <1>2 DEF CartTypeOK
<1>4. MergeSound(m)'
  <2>1. LoopCovers(m)'
    BY <1>2, <1>3, CartAssumption DEF LoopCovers, InLoop
  <2>2. MergeAtRest(m)'
    BY <1>3 DEF MergeAtRest, InLoop, InWrites
  <2>3. SeenRowsExist(m)'
    BY <1>3 DEF SeenRowsExist, InScan
  <2> QED
    BY <1>1, <1>2, <1>3, <2>1, <2>2, <2>3, SameKnowledge DEF MergeSound
<1>5. at' = [at EXCEPT ![m] = NoSku] /\ "merging" \in MergeStages
  BY <1>1, <1>2 DEF CartTypeOK, MergeStages, OpenMergeStages, InMerge
<1> HIDE DEF skus
<1>6. skus \in SUBSET Skus
  BY DEF skus
<1> QED
  BY <1>1, <1>2, <1>4, <1>5, <1>6, MergeMovesInv

\* The loop takes up one of the locked rows.
LEMMA NextItemInv ==
    ASSUME CartIInv, NEW m \in Merges, NEW s \in Skus, NextItem(m, s)
    PROVE  CartIInv'
<1>1. MergeSound(m) /\ CartTypeOK /\ todo[m] \in SUBSET Skus
  BY MergeFacts
<1>2. /\ mstage' = [mstage EXCEPT ![m] = "looking"]
      /\ todo' = [todo EXCEPT ![m] = todo[m] \ {s}]
      /\ at' = [at EXCEPT ![m] = s]
      /\ mstage[m] = "merging" /\ s \in todo[m]
      /\ UNCHANGED <<cart, held, merge, addVars, guest, writes>>
  BY DEF NextItem, MergeGoto
<1>3. mstage'[m] = "looking" /\ todo'[m] = todo[m] \ {s} /\ at'[m] = s
  BY <1>1, <1>2 DEF CartTypeOK
<1>4. MergeSound(m)'
  <2>1. LoopCovers(m)'
    BY <1>1, <1>2, <1>3, CartAssumption DEF MergeSound, LoopCovers, InLoop
  <2>2. MergeAtRest(m)'
    BY <1>3 DEF MergeAtRest, InLoop, InWrites
  <2>3. SeenRowsExist(m)'
    BY <1>3 DEF SeenRowsExist, InScan
  <2> QED
    BY <1>1, <1>2, <1>3, <2>1, <2>2, <2>3, SameKnowledge DEF MergeSound
<1>5. todo[m] \ {s} \in SUBSET Skus /\ "looking" \in MergeStages
  BY <1>1 DEF MergeStages, OpenMergeStages, InMerge
<1> QED
  BY <1>2, <1>4, <1>5, MergeMovesInv

\* That the user has no row is not knowledge: the insert has to find out.
LEMMA FindNoUserRowInv ==
    ASSUME CartIInv, NEW m \in Merges, FindNoUserRow(m)
    PROVE  CartIInv'
<1>1. MergeSound(m) /\ CartTypeOK /\ todo[m] \in SUBSET Skus /\ at[m] \in Skus \cup {NoSku}
  BY MergeFacts
<1>2. /\ mstage' = [mstage EXCEPT ![m] = "moving"]
      /\ mstage[m] = "looking"
      /\ UNCHANGED <<cart, held, merge, addVars, guest, writes, todo, at>>
  BY DEF FindNoUserRow, MergeGoto
<1>3. mstage'[m] = "moving"
  BY <1>1, <1>2 DEF CartTypeOK
<1>4. MergeSound(m)'
  <2>1. LoopCovers(m)'
    BY <1>1, <1>2, <1>3 DEF MergeSound, LoopCovers, InLoop
  <2>2. MergeAtRest(m)'
    BY <1>3 DEF MergeAtRest, InLoop, InWrites
  <2>3. SeenRowsExist(m)'
    BY <1>3 DEF SeenRowsExist, InScan
  <2> QED
    BY <1>1, <1>2, <1>3, <2>1, <2>2, <2>3, SameKnowledge DEF MergeSound
<1>5. /\ todo' = [todo EXCEPT ![m] = todo[m]] /\ at' = [at EXCEPT ![m] = at[m]]
      /\ "moving" \in MergeStages
  BY <1>1, <1>2 DEF CartTypeOK, MergeStages, OpenMergeStages, InMerge
<1> QED
  BY <1>1, <1>2, <1>4, <1>5, MergeMovesInv

\* A guest's row is locked, and then read.
LEMMA LockGuestRowInv ==
    ASSUME CartIInv, NEW m \in Merges, LockGuestRow(m)
    PROVE  CartIInv'
<1> DEFINE s == at[m]
           q == cart[merge[m].session][s]
<1>1. /\ MergeSound(m) /\ CartTypeOK /\ LocksExclusive /\ m \in Workers
      /\ guest[m] \in [Skus -> 0..MaxQuantity]
      /\ writes[m] \in [Skus -> 0..MaxQuantity]
      /\ merge[m].session \in Owners
  BY MergeFacts
<1>2. s \in Skus /\ mstage[m] = "locking" /\ q > 0
  BY MergeFacts DEF LockGuestRow, MergeSound, SeenRowsExist, InScan, Exists, GuestRow
<1>3. UNCHANGED <<cart, addVars, merge, mstage, todo, writes>>
  BY DEF LockGuestRow
<1>4. /\ LocksExclusive'
      /\ held' \in [Workers -> SUBSET (Owners \X Skus)]
      /\ held'[m] = held[m] \cup {GuestRow(m, s)}
      /\ \A x \in Workers \ {m} : held'[x] = held[x]
  BY <1>1, <1>2, RowTyped, HoldExclusive DEF LockGuestRow
<1>5. q \in 0..MaxQuantity
  BY <1>1, <1>2 DEF CartTypeOK
<1>6. /\ guest' = [guest EXCEPT ![m][s] = q]
      /\ at' = [at EXCEPT ![m] = NoSku]
  BY DEF LockGuestRow
<1> HIDE DEF q
<1>7. /\ guest' \in [Merges -> [Skus -> 0..MaxQuantity]]
      /\ guest'[m] = [guest[m] EXCEPT ![s] = q]
      /\ at' \in [Merges -> Skus \cup {NoSku}]
      /\ at'[m] = NoSku
      /\ \A n \in Merges \ {m} : guest'[n] = guest[n] /\ at'[n] = at[n]
  BY <1>1, <1>2, <1>5, <1>6 DEF CartTypeOK
<1>8. CartTypeOK'
  BY <1>1, <1>3, <1>4, <1>7 DEF CartTypeOK, addVars
<1>9. MergeSound(m)'
  <2>1. guest'[m][s] = q /\ \A t \in Skus \ {s} : guest'[m][t] = guest[m][t]
    BY <1>1, <1>2, <1>7
  <2>2. writes[m] = Nothing
    BY <1>1, <1>2 DEF MergeSound, MergeAtRest, InLoop, InWrites
  <2>3. GuestRowsLocked(m)'
    BY <1>1, <1>2, <1>3, <1>4, <2>1 DEF MergeSound, GuestRowsLocked, GuestRow, q
  <2>4. UserRowsLocked(m)'
    BY <1>3, <2>2 DEF UserRowsLocked, Nothing
  <2>5. HoldsWhatItReads(m)'
    <3>1. ASSUME NEW row \in held[m]
          PROVE  \E t \in Skus : row = GuestRow(m, t) /\ guest'[m][t] > 0
      <4>1. PICK t \in Skus : row = GuestRow(m, t) /\ guest[m][t] > 0
        BY <1>1, <1>2, <2>2 DEF MergeSound, HoldsWhatItReads, Nothing
      <4> QED
        BY <1>2, <2>1, <4>1
    <3> QED
      BY <1>2, <1>3, <1>4, <2>1, <3>1 DEF HoldsWhatItReads, GuestRow, UserRow
  <2>6. LoopCovers(m)' /\ MergeAtRest(m)'
    BY <1>2, <1>3, <2>2 DEF LoopCovers, MergeAtRest, InLoop, InWrites
  <2>7. SeenRowsExist(m)'
    BY <1>1, <1>3, <1>7, CartAssumption DEF MergeSound, SeenRowsExist, Exists, GuestRow
  <2> QED
    BY <2>3, <2>4, <2>5, <2>6, <2>7 DEF MergeSound
<1> QED
  BY <1>3, <1>4, <1>7, <1>8, <1>9, MergeReadInv

\* The last DELETE takes a row: what the merge knows stays as it is.
LEMMA DeleteGuestRowInv ==
    ASSUME CartIInv, NEW m \in Merges, DeleteGuestRow(m)
    PROVE  CartIInv'
<1> DEFINE s == at[m]
<1>1. MergeSound(m) /\ CartTypeOK /\ LocksExclusive /\ m \in Workers
  BY MergeFacts
<1>2. s \in Skus /\ mstage[m] = "deleting"
  BY MergeFacts DEF DeleteGuestRow
<1>3. UNCHANGED <<cart, addVars, merge, mstage, todo, guest, writes>>
  BY DEF DeleteGuestRow
<1>4. /\ LocksExclusive'
      /\ held' \in [Workers -> SUBSET (Owners \X Skus)]
      /\ held'[m] = held[m] \cup {GuestRow(m, s)}
      /\ \A x \in Workers \ {m} : held'[x] = held[x]
  BY <1>1, <1>2, RowTyped, HoldExclusive DEF DeleteGuestRow
<1>5. /\ at' \in [Merges -> Skus \cup {NoSku}]
      /\ at'[m] = NoSku
      /\ \A n \in Merges \ {m} : at'[n] = at[n]
  BY <1>1 DEF DeleteGuestRow, CartTypeOK
<1>6. CartTypeOK'
  BY <1>1, <1>3, <1>4, <1>5 DEF CartTypeOK, addVars
<1>7. MergeSound(m)'
  <2>1. GuestRowsLocked(m)' /\ UserRowsLocked(m)'
    BY <1>1, <1>3, <1>4
       DEF MergeSound, GuestRowsLocked, UserRowsLocked, GuestRow, UserRow
  <2>2. HoldsWhatItReads(m)'
    BY <1>1, <1>2, <1>3, <1>4 DEF MergeSound, HoldsWhatItReads, GuestRow, UserRow
  <2>3. LoopCovers(m)' /\ MergeAtRest(m)'
    BY <1>1, <1>2, <1>3 DEF MergeSound, LoopCovers, MergeAtRest, InLoop, InWrites
  <2>4. SeenRowsExist(m)'
    BY <1>1, <1>3, <1>5, CartAssumption DEF MergeSound, SeenRowsExist, Exists, GuestRow
  <2> QED
    BY <2>1, <2>2, <2>3, <2>4 DEF MergeSound
<1> QED
  BY <1>3, <1>4, <1>5, <1>6, <1>7, MergeReadInv

\* The DELETE begins when the loop has written every row that it has locked.
LEMMA BeginDeleteInv ==
    ASSUME CartIInv, NEW m \in Merges, BeginDelete(m)
    PROVE  CartIInv'
<1>1. MergeSound(m) /\ CartTypeOK
  BY MergeFacts
<1> DEFINE skus == {s \in Skus : Exists(GuestRow(m, s)) /\ GuestRow(m, s) \notin held[m]}
<1>2. /\ mstage' = [mstage EXCEPT ![m] = "deleting"]
      /\ todo' = [todo EXCEPT ![m] = skus]
      /\ mstage[m] = "merging" /\ todo[m] = {}
      /\ UNCHANGED <<cart, held, merge, addVars, guest, writes, at>>
  BY DEF BeginDelete, MergeGoto
<1>3. mstage'[m] = "deleting" /\ todo'[m] = skus /\ at[m] = NoSku
  BY <1>1, <1>2 DEF CartTypeOK, MergeSound, LoopCovers
<1>4. MergeSound(m)'
  <2>1. LoopCovers(m)'
    BY <1>1, <1>2, <1>3, CartAssumption DEF MergeSound, LoopCovers, InLoop
  <2>2. MergeAtRest(m)'
    BY <1>3 DEF MergeAtRest, InWrites
  <2>3. SeenRowsExist(m)'
    BY <1>2, <1>3, CartAssumption DEF SeenRowsExist, Exists, GuestRow
  <2> QED
    BY <1>1, <1>2, <1>3, <2>1, <2>2, <2>3, SameKnowledge DEF MergeSound
<1>5. at' = [at EXCEPT ![m] = NoSku] /\ "deleting" \in MergeStages
  BY <1>1, <1>2, <1>3 DEF CartTypeOK, MergeStages, OpenMergeStages, InMerge
<1> HIDE DEF skus
<1>6. skus \in SUBSET Skus
  BY DEF skus
<1> QED
  BY <1>1, <1>2, <1>4, <1>5, <1>6, MergeMovesInv

\* A user's row is locked, found or about to be made, and what to write is decided.
LEMMA UserRowWrittenInv ==
    ASSUME CartIInv, NEW m \in Merges, KeepLarger(m) \/ MoveRow(m)
    PROVE  CartIInv'
<1> DEFINE s == at[m]
           q == Larger(cart[merge[m].user][s], guest[m][s])
<1>1. /\ MergeSound(m) /\ CartTypeOK /\ LocksExclusive /\ m \in Workers
      /\ guest[m] \in [Skus -> 0..MaxQuantity]
      /\ writes[m] \in [Skus -> 0..MaxQuantity]
      /\ merge[m].user \in Owners
      /\ MaxQuantity \in Nat
  BY MergeFacts, CartAssumption
<1>2. mstage[m] \in {"looking", "moving"}
  BY DEF KeepLarger, MoveRow
<1>3. s \in Skus /\ guest[m][s] > 0
  BY <1>1, <1>2 DEF MergeSound, LoopCovers, InLoop
<1>4. /\ UNCHANGED <<cart, addVars, merge, todo, guest>>
      /\ mstage' = [mstage EXCEPT ![m] = "merging"]
      /\ at' = [at EXCEPT ![m] = NoSku]
  BY DEF KeepLarger, MoveRow, WriteItem, MergeGoto
<1>5. /\ cart[merge[m].user][s] \in 0..MaxQuantity
      /\ guest[m][s] \in 0..MaxQuantity
  BY <1>1, <1>3 DEF CartTypeOK
<1>6. q \in 0..MaxQuantity /\ q > 0
  BY <1>1, <1>3, <1>5 DEF Larger
<1>7. writes' = [writes EXCEPT ![m][s] = q]
  <2>1. CASE KeepLarger(m)
    BY <2>1 DEF KeepLarger, WriteItem
  <2>2. CASE MoveRow(m)
    <3>1. cart[merge[m].user][s] = 0
      BY <2>2, <1>1, <1>5 DEF MoveRow, Exists, UserRow
    <3>2. q = guest[m][s]
      BY <1>1, <1>3, <1>5, <3>1 DEF Larger
    <3> QED
      BY <2>2, <3>2 DEF MoveRow, WriteItem
  <2> QED
    BY <2>1, <2>2
<1>8. /\ LocksExclusive'
      /\ held' \in [Workers -> SUBSET (Owners \X Skus)]
      /\ held'[m] = held[m] \cup {UserRow(m, s)}
      /\ \A x \in Workers \ {m} : held'[x] = held[x]
  BY <1>1, <1>3, RowTyped, HoldExclusive DEF KeepLarger, MoveRow
<1>9. /\ writes' \in [Merges -> [Skus -> 0..MaxQuantity]]
      /\ writes'[m][s] = q
      /\ \A t \in Skus \ {s} : writes'[m][t] = writes[m][t]
      /\ \A n \in Merges \ {m} : writes'[n] = writes[n]
  <2> HIDE DEF q
  <2> QED
    BY <1>1, <1>3, <1>6, <1>7 DEF CartTypeOK
<1>10. /\ mstage' \in [Merges -> MergeStages]
       /\ mstage'[m] = "merging"
       /\ at' \in [Merges -> Skus \cup {NoSku}]
       /\ at'[m] = NoSku
       /\ \A n \in Merges \ {m} : mstage'[n] = mstage[n] /\ at'[n] = at[n]
  BY <1>1, <1>4 DEF CartTypeOK, MergeStages, OpenMergeStages, InMerge
<1>11. CartTypeOK'
  BY <1>1, <1>4, <1>8, <1>9, <1>10 DEF CartTypeOK, addVars
<1>12. MergeSound(m)'
  <2>1. GuestRowsLocked(m)'
    BY <1>1, <1>4, <1>8 DEF MergeSound, GuestRowsLocked, GuestRow
  <2>2. UserRowsLocked(m)'
    BY <1>1, <1>3, <1>4, <1>8, <1>9 DEF MergeSound, UserRowsLocked, UserRow
  <2>3. HoldsWhatItReads(m)'
    <3>1. ASSUME NEW row \in held[m]
          PROVE  \E t \in Skus :
                    \/ row = GuestRow(m, t) /\ guest[m][t] > 0
                    \/ row = UserRow(m, t) /\ writes'[m][t] > 0
      <4>1. PICK t \in Skus : \/ row = GuestRow(m, t) /\ guest[m][t] > 0
                              \/ row = UserRow(m, t) /\ writes[m][t] > 0
        BY <1>1, <1>2 DEF MergeSound, HoldsWhatItReads
      <4>2. writes[m][t] > 0 => writes'[m][t] > 0
        BY <1>6, <1>9
      <4> QED
        BY <4>1, <4>2
    <3>2. writes'[m][s] > 0
      BY <1>6, <1>9
    <3> QED
      BY <1>3, <1>4, <1>8, <3>1, <3>2 DEF HoldsWhatItReads, GuestRow, UserRow
  <2>4. LoopCovers(m)'
    <3>1. ASSUME NEW t \in Skus
          PROVE  /\ guest[m][t] > 0 => t \in todo[m] \/ writes'[m][t] > 0
                 /\ t \in todo[m] => guest[m][t] > 0
      <4>1. /\ guest[m][t] > 0 => t \in todo[m] \/ t = s \/ writes[m][t] > 0
            /\ t \in todo[m] => guest[m][t] > 0
        BY <1>1, <1>2 DEF MergeSound, LoopCovers, InLoop
      <4>2. t = s => writes'[m][t] > 0
        BY <1>6, <1>9
      <4>3. t # s => writes'[m][t] = writes[m][t]
        BY <1>9
      <4> QED
        BY <4>1, <4>2, <4>3
    <3> QED
      BY <1>4, <1>10, <3>1, CartAssumption DEF LoopCovers
  <2>5. MergeAtRest(m)'
    BY <1>10 DEF MergeAtRest, InLoop, InWrites
  <2>6. SeenRowsExist(m)'
    BY <1>10 DEF SeenRowsExist, InScan
  <2> QED
    BY <2>1, <2>2, <2>3, <2>4, <2>5, <2>6 DEF MergeSound
<1> QED
  BY <1>4, <1>8, <1>9, <1>10, <1>11, <1>12, MergeReadInv

\* The transaction ends, committed or rolled back.
LEMMA MergeEndsInv ==
    ASSUME CartIInv, NEW m \in Merges, Release(m),
           NEW stage \in {"merged", "failed"}, MergeGoto(m, stage),
           todo' \in [Merges -> SUBSET Skus], todo'[m] = {},
           at' \in [Merges -> Skus \cup {NoSku}], at'[m] = NoSku,
           \A n \in Merges \ {m} : Undistracted(n) /\ SeenRowsExist(n)',
           guest' = [guest EXCEPT ![m] = Nothing],
           writes' = [writes EXCEPT ![m] = Nothing],
           UNCHANGED <<addVars, merge>>,
           cart' \in [Owners -> [Skus -> 0..MaxQuantity]],
           \A x \in Workers \ {m} : Kept(x)
    PROVE  CartIInv'
<1>1. CartTypeOK /\ LocksExclusive /\ m \in Workers
  BY MergeFacts
<1>2. /\ LocksExclusive'
      /\ held' \in [Workers -> SUBSET (Owners \X Skus)]
      /\ held'[m] = {}
      /\ \A x \in Workers \ {m} : held'[x] = held[x]
  BY <1>1, ReleaseExclusive
<1>3. /\ guest' \in [Merges -> [Skus -> 0..MaxQuantity]] /\ guest'[m] = Nothing
      /\ writes' \in [Merges -> [Skus -> 0..MaxQuantity]] /\ writes'[m] = Nothing
      /\ \A n \in Merges \ {m} : guest'[n] = guest[n] /\ writes'[n] = writes[n]
  BY <1>1, NothingTyped DEF CartTypeOK
<1>4. /\ mstage' \in [Merges -> MergeStages] /\ mstage'[m] = stage
      /\ \A n \in Merges \ {m} : mstage'[n] = mstage[n]
  BY <1>1 DEF CartTypeOK, MergeGoto, MergeStages, OpenMergeStages, Outcomes
<1>5. CartTypeOK'
  BY <1>1, <1>2, <1>3, <1>4 DEF CartTypeOK, addVars
<1>6. MergeSound(m)'
  BY <1>2, <1>3, <1>4 DEF MergeSound, GuestRowsLocked, UserRowsLocked,
     HoldsWhatItReads, SeenRowsExist, LoopCovers, MergeAtRest, InLoop, InScan, InWrites,
     Nothing
<1> QED
  BY <1>2, <1>3, <1>4, <1>5, <1>6, MergeStepInv

\* A merge that conflicts, dies or is aborted lets go and has written nothing.
LEMMA RollBackInv ==
    ASSUME CartIInv, NEW m \in Merges, MoveConflict(m) \/ AbortMerge(m)
    PROVE  CartIInv'
<1>1. RollBack(m)
  BY DEF MoveConflict, AbortMerge
<1>2. /\ cart' \in [Owners -> [Skus -> 0..MaxQuantity]]
      /\ RowsStay
      /\ \A x \in Workers \ {m} : Kept(x)
  BY <1>1 DEF RollBack, CartIInv, CartTypeOK, RowsStay, Kept
<1>3. /\ todo' \in [Merges -> SUBSET Skus] /\ todo'[m] = {}
      /\ at' \in [Merges -> Skus \cup {NoSku}] /\ at'[m] = NoSku
      /\ \A n \in Merges \ {m} :
            mstage'[n] = mstage[n] /\ todo'[n] = todo[n] /\ at'[n] = at[n]
  BY <1>1 DEF RollBack, MergeGoto, CartIInv, CartTypeOK
<1>4. \A n \in Merges \ {m} : Undistracted(n) /\ SeenRowsExist(n)'
  BY <1>1, <1>2, <1>3, SeenStay DEF RollBack, CartIInv
<1> QED
  BY <1>1, <1>2, <1>3, <1>4, MergeEndsInv DEF RollBack

\* What a committing merge does to either cart.
LEMMA CommitMergeWrites ==
    ASSUME CartIInv, NEW m \in Merges, CommitMerge(m)
    PROVE  /\ cart' \in [Owners -> [Skus -> 0..MaxQuantity]]
           /\ \A s \in Skus :
                /\ cart'[merge[m].user][s] =
                       IF writes[m][s] > 0 THEN writes[m][s] ELSE cart[merge[m].user][s]
                /\ cart'[merge[m].session][s] =
                       IF GuestRow(m, s) \in held[m] THEN 0 ELSE cart[merge[m].session][s]
           /\ \A o \in Owners \ {merge[m].user, merge[m].session} : cart'[o] = cart[o]
<1> DEFINE u == merge[m].user
           g == merge[m].session
           new == [s \in Skus |-> IF writes[m][s] > 0 THEN writes[m][s] ELSE cart[u][s]]
           left == [s \in Skus |-> IF GuestRow(m, s) \in held[m] THEN 0 ELSE cart[g][s]]
<1>1. u \in Owners /\ g \in Owners /\ u # g /\ CartTypeOK
  BY MergeFacts
<1>2. new \in [Skus -> 0..MaxQuantity] /\ left \in [Skus -> 0..MaxQuantity]
  BY <1>1, CartAssumption DEF CartTypeOK
<1>3. cart' = [cart EXCEPT ![u] = new, ![g] = left]
  BY <1>1 DEF CommitMerge, CartTypeOK
<1>4. \A s \in Skus :
        /\ new[s] = IF writes[m][s] > 0 THEN writes[m][s] ELSE cart[u][s]
        /\ left[s] = IF GuestRow(m, s) \in held[m] THEN 0 ELSE cart[g][s]
  OBVIOUS
<1> HIDE DEF u, g, new, left
<1>5. /\ cart' \in [Owners -> [Skus -> 0..MaxQuantity]]
      /\ cart'[u] = new /\ cart'[g] = left
      /\ \A o \in Owners \ {u, g} : cart'[o] = cart[o]
  BY <1>1, <1>2, <1>3 DEF CartTypeOK
<1> QED
  BY <1>4, <1>5 DEF u, g

\* A merge commits rows that it holds, and the others forget those that go.
LEMMA CommitMergeInv ==
    ASSUME CartIInv, NEW m \in Merges, CommitMerge(m)
    PROVE  CartIInv'
<1>1. /\ MergeSound(m) /\ CartTypeOK /\ LocksExclusive /\ m \in Workers
      /\ merge[m].session \in Owners /\ merge[m].user \in Owners
  BY MergeFacts
<1> DEFINE gone == {s \in Skus : GuestRow(m, s) \in held[m]}
           rows == {merge[m].session} \X gone
<1>2. ASSUME NEW x \in Workers \ {m}, NEW o \in Owners, NEW s \in Skus, <<o, s>> \in held[x]
      PROVE  cart'[o][s] = cart[o][s]
  <2>1. <<o, s>> \notin held[m]
    BY <1>1, <1>2 DEF LocksExclusive
  <2>2. CASE o = merge[m].user
    <3>1. ~(writes[m][s] > 0)
      BY <1>1, <2>1, <2>2 DEF MergeSound, UserRowsLocked, UserRow
    <3> QED
      BY <2>2, <3>1, CommitMergeWrites
  <2>3. CASE o = merge[m].session
    BY <2>1, <2>3, CommitMergeWrites DEF GuestRow
  <2>4. CASE o \notin {merge[m].user, merge[m].session}
    BY <2>4, CommitMergeWrites
  <2> QED
    BY <2>2, <2>3, <2>4
<1>3. cart' \in [Owners -> [Skus -> 0..MaxQuantity]] /\ \A x \in Workers \ {m} : Kept(x)
  BY <1>2, CommitMergeWrites DEF Kept
<1>4. ASSUME NEW o \in Owners, NEW s \in Skus, cart[o][s] > 0, <<o, s>> \notin rows
      PROVE  cart'[o][s] > 0
  <2>1. CASE o = merge[m].user
    BY <1>4, <2>1, CommitMergeWrites
  <2>2. CASE o = merge[m].session
    <3>1. GuestRow(m, s) \notin held[m]
      BY <1>4, <2>2
    <3> QED
      BY <1>4, <2>2, <3>1, CommitMergeWrites
  <2>3. CASE o \notin {merge[m].user, merge[m].session}
    BY <1>4, <2>3, CommitMergeWrites
  <2> QED
    BY <2>1, <2>2, <2>3
<1>5. rows \in SUBSET (Owners \X Skus) /\ Forget(rows)
  BY <1>1 DEF CommitMerge
<1> HIDE DEF rows
<1>6. /\ todo' \in [Merges -> SUBSET Skus]
      /\ at' \in [Merges -> Skus \cup {NoSku}]
      /\ \A n \in Merges :
           MergeSound(n) /\ mstage'[n] = mstage[n] => Undistracted(n) /\ SeenRowsExist(n)'
  BY <1>1, <1>4, <1>5, ForgetSeen DEF CommitMerge
<1>7. \A n \in Merges \ {m} : Undistracted(n) /\ SeenRowsExist(n)'
  BY <1>6 DEF CommitMerge, MergeGoto, CartIInv, CartTypeOK
<1>8. todo'[m] = {} /\ at'[m] = NoSku
  BY <1>5 DEF CommitMerge, Forget
<1> QED
  BY <1>3, <1>6, <1>7, <1>8, MergeEndsInv DEF CommitMerge

-------------------------------------------------------------------------------
(* The invariant holds *)

\* CartIInv is inductive.
LEMMA CartNextInv == ASSUME CartIInv, [CartNext]_cartVars PROVE CartIInv'
<1>1. ASSUME NEW a \in Adds, AddStep(a) \/ CrashAdd(a) PROVE CartIInv'
  BY <1>1, AddMovesInv, LockItemInv, InsertItemInv, SaveItemInv, AddFailsInv
     DEF AddStep, AddMoves
<1>2. ASSUME NEW m \in Merges, MergeStep(m) \/ AbortMerge(m) PROVE CartIInv'
  BY <1>2, RejectMergeInv, BeginMergeInv, ComeToGuestRowInv, NextItemInv,
     LockGuestRowInv, EndLockingInv, UserRowWrittenInv, FindNoUserRowInv, RollBackInv,
     BeginDeleteInv, DeleteGuestRowInv, CommitMergeInv DEF MergeStep
<1>3. CASE UNCHANGED cartVars
  BY <1>3 DEF cartVars, addVars, mergeVars, CartIInv, CartTypeOK, LocksExclusive,
     AddReadsLocked, AddRow, MergeSound, GuestRowsLocked, GuestRow, UserRowsLocked,
     UserRow, HoldsWhatItReads, SeenRowsExist, Exists, LoopCovers, MergeAtRest
<1> QED
  BY <1>1, <1>2, <1>3, UpdateItemInv, DeleteItemInv, ClearCartInv DEF CartNext

\* The rows that CartService locks are what it thinks they are, for any owners, skus
\* and requests.
THEOREM CartInvariance == CartSpec => []CartIInv
BY InitCartIInv, CartNextInv, PTL DEF CartSpec

\* Every quantity stays within its column, whoever adds to it (CartTypeOK).
THEOREM CartTypeCorrectness == CartSpec => []CartTypeOK
<1>1. CartIInv => CartTypeOK
  BY DEF CartIInv
<1> QED
  BY <1>1, CartInvariance, PTL

-------------------------------------------------------------------------------
(* Every request acts at one instant *)

\* An add that gets to "added" has made the row or has written to the row it holds,
\* and has either way added its quantity.
LEMMA AddWrites ==
    ASSUME CartIInv, NEW a \in Adds, InsertItem(a) \/ SaveItem(a)
    PROVE  /\ cart[add[a].owner][add[a].sku] + add[a].quantity <= MaxQuantity
           /\ cart' = [cart EXCEPT ![add[a].owner][add[a].sku] = @ + add[a].quantity]
<1> DEFINE n == cart[add[a].owner][add[a].sku]
<1>1. /\ n \in 0..MaxQuantity /\ MaxQuantity \in Nat
      /\ add[a].quantity \in 1..MaxQuantity
  BY CartAssumption DEF CartIInv, CartTypeOK
<1>2. CASE InsertItem(a)
  <2>1. n = 0
    BY <1>1, <1>2 DEF InsertItem, Exists, AddRow
  <2>2. n + add[a].quantity = add[a].quantity /\ add[a].quantity <= MaxQuantity
    BY <1>1, <2>1
  <2>3. cart' = [cart EXCEPT ![add[a].owner][add[a].sku] = n + add[a].quantity]
    BY <1>2, <2>2 DEF InsertItem
  <2> QED
    BY <2>2, <2>3
<1>3. CASE SaveItem(a)
  <2>1. read[a] = n
    BY <1>3 DEF SaveItem, CartIInv, AddReadsLocked
  <2> QED
    BY <1>3, <2>1 DEF SaveItem
<1> QED
  BY <1>2, <1>3

\* The only ways in which a step changes the carts at all.
LEMMA CartStepShape ==
    ASSUME CartIInv, [CartNext]_cartVars
    PROVE  \/ UNCHANGED cart
           \/ \E a \in Adds : InsertItem(a) \/ SaveItem(a)
           \/ \E m \in Merges : CommitMerge(m)
           \/ \E o \in Owners, s \in Skus :
                \/ \E q \in 1..MaxQuantity : UpdateItem(o, s, q)
                \/ DeleteItem(o, s)
           \/ \E o \in Owners, seen \in SUBSET Skus : ClearCart(o, seen)
<1>1. ASSUME NEW a \in Adds, AddStep(a) \/ CrashAdd(a)
      PROVE  UNCHANGED cart \/ InsertItem(a) \/ SaveItem(a)
  BY <1>1 DEF AddStep, RejectItem, AcceptItem, LockItem, FindNoItem, InsertConflict,
     ItemGone, Overflow, CrashAdd, ReplyToAdd
<1>2. ASSUME NEW m \in Merges, MergeStep(m) \/ AbortMerge(m)
      PROVE  UNCHANGED cart \/ CommitMerge(m)
  BY <1>2 DEF MergeStep, RejectMerge, BeginMerge, ComeToGuestRow, NextItem, LockGuestRow,
     EndLocking, KeepLarger, FindNoUserRow, MoveRow, MoveConflict, BeginDelete,
     DeleteGuestRow, RollBack, AbortMerge, ReplyToMerge
<1>3. CASE UNCHANGED cartVars
  BY <1>3 DEF cartVars
<1> QED
  BY <1>1, <1>2, <1>3 DEF CartNext

\* What a merge commits is the larger of the two carts as they are at that moment, of
\* every sku whose guest row it has locked, and these rows are gone.
LEMMA MergeWrites ==
    ASSUME CartIInv, NEW m \in Merges, CommitMerge(m)
    PROVE  /\ \A s \in Skus : guest[m][s] > 0 <=> writes[m][s] > 0
           /\ \A s \in Skus :
                guest[m][s] > 0 =>
                    /\ guest[m][s] = cart[merge[m].session][s]
                    /\ GuestRow(m, s) \in held[m]
                    /\ cart'[merge[m].user][s] =
                           Larger(cart[merge[m].user][s], cart[merge[m].session][s])
                    /\ cart'[merge[m].session][s] = 0
<1>1. MergeSound(m) /\ mstage[m] = "deleting"
  BY MergeFacts DEF CommitMerge
<1>2. \A s \in Skus : guest[m][s] > 0 <=> writes[m][s] > 0
  BY <1>1 DEF MergeSound, LoopCovers, UserRowsLocked
<1> QED
  BY <1>1, <1>2, CommitMergeWrites DEF MergeSound, UserRowsLocked, GuestRowsLocked

\* A commit is a merge of Carts: of the skus whose guest rows were locked, with the
\* late rows that the DELETE has taken.
LEMMA CommitMergeRefined ==
    ASSUME CartIInv, NEW m \in Merges, CommitMerge(m)
    PROVE  \E seen, late \in SUBSET Skus :
              Atomic!Merge(merge[m].user, merge[m].session, seen, late)
<1> DEFINE u == merge[m].user
           g == merge[m].session
           seen == {s \in Skus : guest[m][s] > 0}
           gone == {s \in Skus : GuestRow(m, s) \in held[m]}
           new == [s \in Skus |-> IF s \in seen THEN Larger(cart[u][s], cart[g][s])
                                  ELSE cart[u][s]]
           left == [s \in Skus |-> IF s \in seen \cup gone THEN 0 ELSE cart[g][s]]
           after == [cart EXCEPT ![u] = new, ![g] = left]
<1>1. u \in Owners /\ g \in Owners /\ u # g /\ CartTypeOK
  BY MergeFacts
<1>2. \A s \in Skus : cart'[u][s] = new[s]
  <2>1. ASSUME NEW s \in Skus, s \in seen PROVE cart'[u][s] = new[s]
    BY <2>1, MergeWrites
  <2>2. ASSUME NEW s \in Skus, s \notin seen PROVE cart'[u][s] = new[s]
    BY <2>2, MergeWrites, CommitMergeWrites
  <2> QED
    BY <2>1, <2>2
<1>3. \A s \in Skus : cart'[g][s] = left[s]
  BY MergeWrites, CommitMergeWrites
<1>4. /\ cart' \in [Owners -> [Skus -> 0..MaxQuantity]]
      /\ \A o \in Owners \ {u, g} : cart'[o] = cart[o]
  BY CommitMergeWrites
<1>5. cart'[u] = new /\ cart'[g] = left
  BY <1>1, <1>2, <1>3, <1>4
<1>6. cart' = after
  <2> HIDE DEF new, left, u, g
  <2>1. DOMAIN cart' = Owners /\ DOMAIN cart = Owners
    BY <1>1, <1>4 DEF CartTypeOK
  <2>2. cart' = [o \in Owners |-> cart'[o]]
    BY <1>4
  <2>3. after = [o \in Owners |-> IF o = g THEN left
                                  ELSE IF o = u THEN new ELSE cart[o]]
    BY <1>1, <2>1
  <2>4. \A o \in Owners : cart'[o] = IF o = g THEN left
                                     ELSE IF o = u THEN new ELSE cart[o]
    BY <1>1, <1>4, <1>5
  <2> QED
    BY <2>2, <2>3, <2>4
<1>7. Atomic!Merge(u, g, seen, gone)
  <2> HIDE DEF u, g, seen, gone
  <2>1. after = [cart EXCEPT ![u] = [s \in Skus |-> IF s \in seen
                                                    THEN Larger(cart[u][s], cart[g][s])
                                                    ELSE cart[u][s]],
                             ![g] = left]
    OBVIOUS
  <2> QED
    BY <1>1, <1>6 DEF Atomic!Merge, Atomic!Larger, Larger, CartTypeOK
<1> QED
  BY <1>7

\* Every step of the requests is a step of Carts or none.
LEMMA CartStepRefined ==
    ASSUME CartIInv, [CartNext]_cartVars
    PROVE  [Atomic!CartsNext]_cart
<1>1. ASSUME NEW a \in Adds, InsertItem(a) \/ SaveItem(a) PROVE Atomic!CartsNext
  <2>1. /\ add[a].owner \in Users \cup Sessions /\ add[a].sku \in Skus
        /\ add[a].quantity \in 1..MaxQuantity
    BY DEF CartIInv, CartTypeOK, Owners
  <2>2. Atomic!Add(add[a].owner, add[a].sku, add[a].quantity)
    BY <1>1, AddWrites DEF Atomic!Add
  <2> QED
    BY <2>1, <2>2 DEF Atomic!CartsNext
<1>2. ASSUME NEW m \in Merges, CommitMerge(m) PROVE Atomic!CartsNext
  BY <1>2, MergeFacts, CommitMergeRefined DEF Atomic!CartsNext
<1>3. ASSUME NEW o \in Owners, NEW s \in Skus,
             \/ \E q \in 1..MaxQuantity : UpdateItem(o, s, q)
             \/ DeleteItem(o, s)
      PROVE  Atomic!CartsNext
  <2>1. \E q \in 0..MaxQuantity : Atomic!Change(o, s, q)
    BY <1>3, CartAssumption DEF UpdateItem, DeleteItem, Exists, Atomic!Change
  <2> QED
    BY <2>1 DEF Atomic!CartsNext, Owners
<1>4. ASSUME NEW o \in Owners, NEW seen \in SUBSET Skus, ClearCart(o, seen)
      PROVE  Atomic!CartsNext
  BY <1>4 DEF ClearCart, Atomic!Clear, Atomic!CartsNext, Owners
<1> QED
  BY <1>1, <1>2, <1>3, <1>4, CartStepShape

\* Whatever reads, locks and crashes lie between a request's statements, the carts change
\* as if every add, change, clear and merge took one instant (ImplementsCarts).
THEOREM CartRefinement == CartSpec => ImplementsCarts
<1>1. CartInit => Atomic!CartsInit
  BY DEF CartInit, Owners, Atomic!CartsInit
<1> QED
  BY <1>1, CartInvariance, CartStepRefined, PTL DEF CartSpec, ImplementsCarts, Atomic!CartsSpec

\* Only its own commit makes an add count.
LEMMA AddMovedBy ==
    ASSUME CartIInv, [CartNext]_cartVars, NEW a \in Adds, Adding(a)
    PROVE  InsertItem(a) \/ SaveItem(a)
<1>1. astage[a] # "added" /\ astage'[a] = "added"
  BY DEF Adding
<1>2. PICK b \in Adds : AddStep(b) \/ CrashAdd(b)
  BY <1>1 DEF CartNext, MergeStep, RejectMerge, BeginMerge, ComeToGuestRow,
     NextItem, LockGuestRow, EndLocking, KeepLarger, FindNoUserRow, MoveRow,
     MoveConflict, BeginDelete, DeleteGuestRow, CommitMerge, RollBack, AbortMerge,
     ReplyToMerge,
     UpdateItem, DeleteItem, ClearCart, addVars, cartVars
<1>3. PICK s : AddGoto(b, s)
  BY <1>2 DEF AddStep, RejectItem, AcceptItem, LockItem, FindNoItem, InsertItem, InsertConflict,
     ItemGone, SaveItem, Overflow, CrashAdd, ReplyToAdd
<1>4. a = b
  BY <1>1, <1>3 DEF AddGoto, CartIInv, CartTypeOK
<1> QED
  BY <1>1, <1>2, <1>4 DEF AddStep, RejectItem, AcceptItem, LockItem, FindNoItem, InsertConflict,
     ItemGone, Overflow, CrashAdd, ReplyToAdd, AddGoto, CartIInv, CartTypeOK

\* Only its own commit ends a merge as merged.
LEMMA MergeMovedBy ==
    ASSUME CartIInv, [CartNext]_cartVars, NEW m \in Merges, Merging(m)
    PROVE  CommitMerge(m)
<1>1. mstage[m] # "merged" /\ mstage'[m] = "merged"
  BY DEF Merging
<1>2. PICK n \in Merges : MergeStep(n) \/ AbortMerge(n)
  BY <1>1 DEF CartNext, AddStep, RejectItem, AcceptItem, LockItem, FindNoItem, InsertItem,
     InsertConflict, ItemGone, SaveItem, Overflow, CrashAdd, ReplyToAdd,
     UpdateItem, DeleteItem, ClearCart, mergeVars, cartVars
<1>3. PICK s : mstage' = [mstage EXCEPT ![n] = s]
  <2>1. \/ \E s : MergeGoto(n, s)
        \/ UNCHANGED mstage
    BY <1>2 DEF MergeStep, RejectMerge, BeginMerge, ComeToGuestRow, NextItem,
       LockGuestRow, EndLocking, KeepLarger, WriteItem, FindNoUserRow, MoveRow,
       MoveConflict, BeginDelete, DeleteGuestRow, CommitMerge, RollBack, AbortMerge,
       ReplyToMerge
  <2> QED
    BY <1>1, <2>1 DEF MergeGoto
<1>4. m = n
  BY <1>1, <1>3 DEF CartIInv, CartTypeOK
<1> QED
  BY <1>1, <1>2, <1>4 DEF MergeStep, RejectMerge, BeginMerge, ComeToGuestRow, NextItem,
     LockGuestRow, EndLocking, KeepLarger, WriteItem, FindNoUserRow, MoveRow,
     MoveConflict, BeginDelete, DeleteGuestRow, RollBack, AbortMerge, ReplyToMerge, MergeGoto, CartIInv,
     CartTypeOK

\* No add that is answered with 200 is lost, and none counts twice (AddsCounted).
THEOREM AddsAlwaysCounted == CartSpec => AddsCounted
<1> DEFINE Counts == \A a \in Adds :
         Adding(a) =>
             cart' = [cart EXCEPT ![add[a].owner][add[a].sku] = @ + add[a].quantity]
<1>1. CartIInv /\ [CartNext]_cartVars => [Counts]_cartVars
  BY AddMovedBy, AddWrites
<1> HIDE DEF Counts
<1>2. CartSpec => [][Counts]_cartVars
  BY <1>1, CartInvariance, PTL DEF CartSpec
<1> QED
  BY <1>2 DEF AddsCounted, Counts

\* No row that a merge has locked is lost with the guest's cart, however many there are
\* and whoever else merges (LockedRowsMerged).
THEOREM LockedRowsAlwaysMerged == CartSpec => LockedRowsMerged
<1> DEFINE AllMerged == \A m \in Merges :
         Merging(m) =>
             \A s \in Skus :
                 guest[m][s] > 0 =>
                     /\ cart'[merge[m].user][s] = Larger(cart[merge[m].user][s],
                                                        cart[merge[m].session][s])
                     /\ cart'[merge[m].session][s] = 0
<1>1. CartIInv /\ [CartNext]_cartVars => [AllMerged]_cartVars
  BY MergeMovedBy, MergeWrites
<1> HIDE DEF AllMerged
<1>2. CartSpec => [][AllMerged]_cartVars
  BY <1>1, CartInvariance, PTL DEF CartSpec
<1> QED
  BY <1>2 DEF LockedRowsMerged, AllMerged

-------------------------------------------------------------------------------
(* Deadlock *)

\* In a circle of waits everybody holds a row and wants another; an add that holds a
\* row wants none (AddsNeverDeadlock).
THEOREM AddsAreNeverDeadlocked == CartSpec => []AddsNeverDeadlock
<1>1. CartIInv => AddsNeverDeadlock
  <2> SUFFICES ASSUME CartIInv, NEW a \in Adds, Deadlocked(a)
               PROVE  FALSE
    BY DEF AddsNeverDeadlock
  <2>1. PICK circle \in SUBSET Workers :
           /\ a \in circle
           /\ \A x \in circle : /\ \E y \in circle : WaitsFor(x, y)
                                /\ \E y \in circle : WaitsFor(y, x)
    BY DEF Deadlocked
  <2>2. held[a] # {}
    BY <2>1 DEF WaitsFor
  <2>3. astage[a] = "adding"
    BY <2>2 DEF CartIInv, AddReadsLocked
  <2>4. Wants(a) = {}
    BY <2>3 DEF Wants
  <2> QED
    BY <2>1, <2>4 DEF WaitsFor
<1> QED
  BY <1>1, CartInvariance, PTL

===============================================================================
