-------------------------------- MODULE CartInv --------------------------------
(***************************************************************************)
(* Why the cart's requests act as if at one instant: what an open          *)
(* transaction has read of a row, it has read under the row's lock, and    *)
(* nobody else writes a row that is locked.  CartIInv is inductive.        *)
(***************************************************************************)
EXTENDS Cart

\* The loop of a merge over the rows it has locked, with the DELETE behind it.
InLoop == {"merging", "looking", "moving"}

InWrites == InLoop \cup {"deleting"}

\* A row, or the index entry of one that is about to be, has one holder.
LocksExclusive ==
    \A w, x \in Workers : w # x => held[w] \cap held[x] = {}

\* An add holds its row exactly while it has read it and not yet written it.
AddReadsLocked(a) ==
    /\ astage[a] = "adding" =>
          /\ held[a] = {AddRow(a)}
          /\ read[a] = cart[add[a].owner][add[a].sku]
          /\ read[a] > 0
    /\ astage[a] # "adding" => held[a] = {}

\* What a merge knows of a guest's row is what is in the row.
GuestRowsLocked(m) ==
    \A s \in Skus :
        guest[m][s] > 0 =>
            /\ GuestRow(m, s) \in held[m]
            /\ guest[m][s] = cart[merge[m].session][s]

\* What a merge will write is still the larger of the two quantities.
UserRowsLocked(m) ==
    \A s \in Skus :
        writes[m][s] > 0 =>
            /\ guest[m][s] > 0
            /\ UserRow(m, s) \in held[m]
            /\ writes[m][s] = Larger(cart[merge[m].user][s], guest[m][s])

\* A merge holds no row but those and, at its end, the late ones it deletes, so
\* that it holds none once it has ended.
HoldsWhatItReads(m) ==
    \A row \in held[m] :
        \E s \in Skus :
            \/ row = GuestRow(m, s) /\ (guest[m][s] > 0 \/ mstage[m] = "deleting")
            \/ row = UserRow(m, s) /\ writes[m][s] > 0

\* The rows that a statement has seen and not come to yet are still there: nobody
\* locks, or deletes, a row in the place of one that has gone.
SeenRowsExist(m) ==
    mstage[m] \in InScan =>
        \A s \in Skus : s \in todo[m] \/ s = at[m] => Exists(GuestRow(m, s))

\* The loop has written a locked guest's row, is at it, or will come to it, and has
\* written them all before the DELETE.
LoopCovers(m) ==
    /\ mstage[m] = "deleting" => \A s \in Skus : guest[m][s] > 0 => writes[m][s] > 0
    /\ mstage[m] \in InLoop =>
          \A s \in Skus :
              /\ guest[m][s] > 0 => s \in todo[m] \/ s = at[m] \/ writes[m][s] > 0
              /\ s \in todo[m] \/ s = at[m] => guest[m][s] > 0
    /\ mstage[m] \in {"looking", "moving"} => at[m] \in Skus
    /\ mstage[m] = "merging" => at[m] = NoSku

\* Before the loop nothing is to be written, and outside the transaction nothing
\* is left of it.
MergeAtRest(m) ==
    /\ mstage[m] \notin InWrites => writes[m] = Nothing
    /\ mstage[m] \notin {"locking"} \cup InWrites =>
          /\ guest[m] = Nothing
          /\ todo[m] = {}
          /\ at[m] = NoSku

MergeSound(m) ==
    /\ GuestRowsLocked(m)
    /\ UserRowsLocked(m)
    /\ HoldsWhatItReads(m)
    /\ SeenRowsExist(m)
    /\ LoopCovers(m)
    /\ MergeAtRest(m)

CartIInv ==
    /\ CartTypeOK
    /\ LocksExclusive
    /\ \A a \in Adds : AddReadsLocked(a)
    /\ \A m \in Merges : MergeSound(m)

===============================================================================
