------------------------------ MODULE Inventory -------------------------------
(***************************************************************************)
(* The inventory of the B2B service, external to this repository, as the   *)
(* B2BOrdersClient uses it: POST /inventory/reserve with an idempotency    *)
(* key and an order id, and POST /inventory/unreserve with an order id.    *)
(* A hold is the stock set aside for one order id.  OrderStore is extended *)
(* for the names of order ids and keys only.                               *)
(***************************************************************************)
EXTENDS OrderStore

CONSTANT
    ReplayByKey     \* TRUE: B2B answers a repeated reserve from its first
                    \* result; FALSE: it holds stock for every order id it is
                    \* given.  The client cannot tell which.

ASSUME ReplayByKeyAssumption == ReplayByKey \in BOOLEAN

VARIABLES
    holds,          \* order ids that stock is held for
    granted         \* keys that a reserve has been granted under

inventoryVars == <<holds, granted>>

InventoryTypeOK ==
    /\ holds \subseteq OrderIds
    /\ granted \subseteq Keys

InventoryInit ==
    /\ holds = {}
    /\ granted = {}

Reserve(k, o) ==
    /\ holds' = IF ReplayByKey /\ k \in granted THEN holds ELSE holds \cup {o}
    /\ granted' = granted \cup {k}

\* Releasing what is not held is not an error: cancel and retry repeat the call.
Unreserve(o) ==
    /\ holds' = holds \ {o}
    /\ UNCHANGED granted

===============================================================================
