# Verification of neo-market B2C

TLA+ models of the B2C service (`src/B2C`, a Django REST application over
PostgreSQL), TLC runs on small instances of them, and TLAPS proofs for instances
of any size. B2C sells what the neighbouring B2B service keeps in stock: it
holds carts and orders in its own tables and calls B2B over HTTP for products,
reservations and releases.

The code is short and each handler is easy to read alone. What is hard is what
happens between the statements of two handlers: a checkout talks to B2B before
it opens a transaction, a cancellation talks to B2B inside one, a retry command
works through an old list, a login merges a cart that somebody still fills, and
every call to B2B may be performed although its answer never came.

## 1. Inventory

| Component | State | Operations | Status |
|---|---|---|---|
| Order store (`orders/models`) | `Order`, `OrderItem`, `OrderStatusHistory`; unique `idempotency_key`; row locks | inserts and updates by the three below | modelled: `OrderStore` |
| Checkout (`orders/services/checkout_service.py`, `POST /orders`) | none of its own; order id minted per attempt | look up, price, reserve, look up again, insert or conflict | modelled: `Checkout` |
| Cancellation and retry (`orders/services/cancel_order.py`, `POST /orders/<id>/cancel`, command `retry_pending_cancellations`) | a list read once per run | lock, unreserve, CANCELLED or CANCEL_PENDING; retry, settle | modelled: `Cancellation` |
| B2B inventory (external) | stock held per order id | reserve, unreserve | modelled from its use: `Inventory` |
| Fulfilment (external) | - | PAID to ASSEMBLING to DELIVERING to DELIVERED | modelled: `Fulfil` in `OrderStore` |
| Items and money of an order (`OrderItem`, `_create_items`, `_total_amount`, `_unreserve_items`) | order lines, total; the checkout's copies of cart and prices | written with the order; named in every B2B call | modelled: `Purchase` |
| Cart (`carts/services/cart_service.py`, `/cart/*`, merge at login) | `CartItem`; one row per owner and sku | add, update, delete, clear, merge | modelled: `Cart` |
| Offers (`normalize_skus`, `CartService` and `CheckoutService` readings, `/cart/validate`) | what B2B answers for a sku | availability, quantity check, totals | modelled: `Offers` |
| Buyers and login (`buyers/api/controller.py`) | `Buyer` | login, with the merge of the guest's cart; no other endpoint | modelled: the merge in `Cart` |
| Catalog proxy (`catalog`) | none | forwards B2B's catalogue and reshapes it | modelled: `Catalog` |
| Authentication (`common/authentication.py`) | none | JWT check | not modelled: stateless, by a library |
| Favorites, content, notifications, integrations (outbox, processed events) | tables | none: no code reads or writes them | not modelled: nothing to model |

How they interact:

* Checkout, cancellation and the retry job share the rows of `Order`; they see
  each other only at commits and through row locks and the unique index.
* All three call B2B through `B2BOrdersClient`, which gives up after 5 s and turns
  a timeout, a broken connection and an HTTP error alike into
  `B2BUnavailableError`. The caller cannot tell whether the call was performed.
* Checkout reads the cart without a lock and never changes it.
* Cart, checkout and catalogue judge the same answer of B2B, each with code of its own.
* The checkout keeps its copies of the cart and of the prices over the reserve call,
  while both change.
* A login calls the cart's merge in the request.

The behaviours that are hard, each with its line in the code, are listed in
`PROJECT.json` under `hazards`. In short: two checkouts with one key; reserve
before the transaction, so that whoever loses the race or dies leaves stock
behind; B2B called inside a cancellation's transaction; calls that are performed
after their caller left; a retry job that calls B2B on the word of a stale list,
next to another such job; read-modify-write of cart rows; a merge whose
first and last statement see different rows; merges that lock rows in no fixed
order; an answer lost after the work was done; items and prices copied before a call
and written after it; and three readings of one answer that may drift apart.

What makes each component correct:

* Checkout: a key buys once, every 201 names the order of that buyer and key, a
  refusal leaves nothing reserved, every attempt ends.
* Cancellation: a CANCELLED order holds no stock, an order still to be delivered
  does, no final status is revived, a pending cancellation is settled in the end.
* History: the rows of an order lead to its status by legal steps without a gap.
* Cart: every request acts as if at one instant or not at all; an acknowledged
  add counts once; requests end in spite of deadlocks.
* Purchase: what B2B holds for an order is what the order's lines name, or nothing;
  the buyer is charged what the lines add up to; nothing is sold twice.
* Offers: checkout accepts what the cart called ready, at the price it showed, and
  refuses what is short.
* Catalog: what is shown in stock can be put into the cart, what is shown as sold out
  is not sold, on a card and in a listing, and nothing is dearer than shown.

## 2. Modules

```
OrderStore <- Inventory <- Checkout, Cancellation <- Orders <- OrdersInv <- MCOrders
                                   OrderBook <- Orders (refined by it)
                                                  OrdersInv <- OrdersProofs <- OrdersRefinement
Orders, Carts, Sales <- Purchase (refines Sales) <- MCPurchase
Purchase, OrdersProofs, SumLemmas <- PurchaseProofs <- SalesRefinement
Carts <- Cart (refines it) <- CartInv <- MCCart, CartProofs
Offers <- Catalog <- MCOffers;  Offers <- OffersProofs
Catalog, OffersProofs, SumLemmas <- CatalogProofs
```

An arrow reads "is used by". `OrderBook`, `Sales` and `Carts` are the abstract
specifications, stated without tables, locks, attempts or calls.

### Orders

`OrderStore` keeps the committed state: `orders` (the status of each order id, or
`Unplaced`), `history`, `locked` (orders whose row, and whose buyer's row, an open
cancellation has locked) and the constant part of each attempt, `request`. An
attempt mints a fresh `uuid4` for its order, so `Checkouts` are also the order ids.

`Checkout` has one action per step of `CheckoutService.checkout`:

| Code | Action |
|---|---|
| controller's and serializer's 400 | `RejectRequest` |
| first `_existing_order` | `ReplyExisting`, `FindNoOrder` |
| cart, `get_skus`, `_validate_items` | `GiveUpPricing`, `SendReserve` |
| `b2b_client.reserve` | `B2BReserve`, `B2BRefuse` (B2B's side); `ReserveAnswered`, `ReserveUnavailable` |
| second `_existing_order(lock=True)` | `ReplyRaced`, `FindNoneAgain` |
| `create`, `_create_items`, `_mark_paid`, commit | `InsertOrder` |
| `except IntegrityError` | `KeyConflict` |
| the worker dies or raises what nothing catches | `CrashCheckout` |

`Cancellation` does the same for `CancelOrderService.cancel` (`RejectCancel`,
`OrderNotFound`, `CancelNotAllowed`, `BeginCancel`, `FinishCancel`, `PostponeCancel`,
`CrashCancel`) and for `retry_pending_cancellations` (`StartRetry`, `RetryOrder`,
`RetryAnswered`, `RetryUnavailable`, `SettleRetry`, `EndRetry`, `CrashRetry`), with
B2B's side in `B2BUnreserve` and `B2BUnreserveLate`. A call of a worker that left
is `straggling` and may be performed at any later time or never.

`Orders` composes them with fulfilment and states the properties, the fairness and
the mapping to `OrderBook`. `OrdersInv` holds the inductive invariant.

What a reader should know of this model:

* Each cancellation names an order, which need not be its buyer's or exist, and brings
  a reason that fits or does not (`target`). The reason is looked at before the order is
  asked for, so that a cancellation that waits for the order's lock has no other way out.
* Locks. `BeginCancel` locks the order and its buyer, because `select_for_update()`
  comes with `select_related("buyer")`. A checkout's insert waits for the buyer's row
  through the foreign key; the retry job locks the order only.
* The checkout's transaction is one action from its insert to its commit. What it
  writes is not visible before the commit, and a second insert of the key waits
  for the unique index entry until then, so that `InsertOrder` followed by
  `KeyConflict` is what happens.
* `ReplayByKey`. The code gives B2B an idempotency key and an order id and does not
  say what B2B does with a key it has seen: answer from the first result (`TRUE`)
  or reserve for the new order id (`FALSE`). Both are modelled. No property that
  is checked or proved as true depends on a guess: where it matters
  (`StockBehindOrder`), the theorem has the reading as its hypothesis.
* `StockBehindOrder` allows one case that the code cannot avoid: a cancellation that
  died after it had called B2B. B2B has released the stock, the rollback leaves the
  order PAID, and nothing repairs it.
* Items and amounts are left to `Purchase`; addresses and comments are left out. A buyer or an
  address deleted in the middle of a checkout is not modelled: no code of the
  repository deletes either.

### Purchase

`Purchase` puts items and money on top of `Orders`: each of its steps is a step of
`Orders` together with what it does to items, or a step of the cart (`CartChanges`) or
of B2B's prices (`PriceChanges`) alone. Every behaviour of `Purchase` is one of `Orders` as
far as `Orders`' variables go, so all that is shown of those holds here too.

| Code | Action |
|---|---|
| `_cart_items`, no lock | `ReadCart`: the cart goes into `asked`; `RejectEmptyCart` if it has no item |
| `get_skus`, `_validate_items` | `PriceItems`: the prices go into `quoted`; `ItemsRefused` |
| `reserve(order_id, key, items)` | `HoldItems`: B2B sets aside `asked`, if it has that much |
| `_total_amount`, `_create_items` | `CreateOrder`: `total` and `lines` from `asked` and `quoted` |
| `_unreserve_items` | `GiveBack`: B2B gives back what the order's lines name |

`basket` is one buyer's cart. The modules do not share a variable: the cart's own
races are the subject of `Cart`, which implements `Carts`, and `CartChanges` takes the
atomic steps of `Carts` (an add, a change or deletion, a clear; what a merge does to a
sku is one of these).
B2B's reasons to refuse an item (status, stock as listed, unknown sku) are left
open here; `Offers` has them. B2B's `unreserve` names items and an order id and the code does not say
what B2B does with items it does not hold for that order. It is modelled to give
back no more than it holds (`Less`): the code repeats releases after timeouts
and could not be correct otherwise, as the mutant `Minus` shows.

`Sales` is what all this comes to: stock is set aside once for an order id (`SetAside`),
a bill is written once for what was set aside (`Sell`), a release takes all of it back
(`TakeBack`), and only then the order is cancelled (`Cancel`). It shares `lines` and `total` with
`Purchase`, reads `amount` as `held`, and has for the status of an order only whether it was sold and
cancelled (`SaleStatuses`). That B2B is told to release no order but one whose
cancellation was accepted, or died, is not said there but by `RetryOnlyCancelled` and
`StockBehindOrder`.

### Cart

`Cart` keeps the committed quantities (`cart`, 0 where there is no row), the rows and
index entries each open transaction holds (`held`) and the local variables of each
add and merge. `add_item` begins with `AcceptItem`, once B2B has been asked, and is
`get_or_create` under a row lock: `LockItem`, or
`FindNoItem` and then `InsertItem` or `InsertConflict` and a second look
(`LockItem`, `ItemGone`), then `SaveItem`, or `Overflow` when the sum leaves the
column's range. `merge_guest_cart` is `BeginMerge` (the snapshot of its first
SELECT), `ComeToGuestRow` with `LockGuestRow` (rows are locked one by
one, and no ORDER BY fixes the order), `EndLocking`, then per row `NextItem`,
`KeepLarger` or `FindNoUserRow` with `MoveRow` or `MoveConflict`. The last DELETE is a
statement of its own: `BeginDelete` is its snapshot, which finds the rows that the guest has
got since the SELECT, `DeleteGuestRow` waits for each and deletes it, and `CommitMerge`
makes all of it visible. A row of the guest that is committed after that snapshot, even before the
commit, stays the guest's. `Forget` is PostgreSQL's second look at a row that has been waited
for: one that is gone is passed over by the SELECTs and DELETEs that have seen it, and a row made
anew under the same owner and sku is another row, which they have not seen.
What a merge writes is kept in `writes` until it commits. Around the transactions stand
the handlers: `RejectItem` and `RejectMerge` are every refusal before anything is written
(identity, form, B2B's answer, password), `ReplyToAdd` and `ReplyToMerge` the answer after
the commit, which asks B2B once more and may end in 503 or 500 (`unanswered`) although
the cart has been changed. `UpdateItem`, `DeleteItem`
and `ClearCart` lock, write and commit without anything in between that another
request could tell apart. A clear takes rows that it has seen (`seen`) and leaves those
committed since; one that waits in the middle of its DELETE acts as a series of
clears of fewer rows. An add's `get` that waits for a row which is then deleted and made
anew is modelled to look again and find the new one; in PostgreSQL it finds
none, tries to insert, is refused and then finds it. The waits on the buyer's row through
the foreign key are left out: nobody who holds that row waits for a cart row.

### Offers

`Offers` is a pure algorithm over a small state: `items` in the cart and the `offer`
of B2B for each sku, which changes at any time. `Sku` is `normalize_skus`, with its
defaults; `CartReason`, `IsValid`, `Issues`, `Subtotal` are the cart's reading, and
`CheckoutReason`, `FailedItems`, `TotalAmount` the checkout's. An add is checked against
the stock for its own quantity alone, so that a cart may come to hold more than there is;
`OnlyModerationSlips` says that the checkout finds it. A number in an answer may be
given, null (`None`) or left out (`Absent`); the code tells the two apart in places.

### Catalog

`Catalog` adds the third reading to `Offers`. It has no state of its own; `Products` are
all the products that B2B could list from the current `offer`, skus in any order,
because the first sku in stock and the first null decide how Python's `any` ends. `ShownQuantity` is
`_sanitize_sku` with `_get_quantity`; `HasStock`, `MinPrice` the card's. The listing has an `any` of
its own (`StopsAt`, `SummaryHasStock`), shares `_get_min_price` with the card, and lets
B2B's own fields go first (`SummaryMinPrice`, `StockLeftOut`). `Fails` and `SummaryFails` are the comparison of
null with 0 that raises. `CardStatus` and `ListStatus` say which status the client gets for what
becomes of the call; filters and facets are passed on unread (`ProxyStatus`).

## 3. Runs

| Run | Instance | What it shows |
|---|---|---|
| `checkout_race` | 3 attempts, 2 buyers, 2 keys | `OneOrderPerKey`, `IdempotentReplies`, `RefusedHoldsNothing`, `FailedByForeignKey` over every interleaving of lookups, calls, inserts and crashes |
| `lifecycle` | 2 attempts, 2 buyers, 2 keys, 2 cancellations, 1 job | `TypeOK`, `IInv`, `CancelledReleased`, `StockBehindOrder`, `HistoryFaithful`, `StatusFinal`, and the refinement `ImplementsOrderBook`, with fulfilment, lost, late and crashed calls |
| `purchase` | 2 attempts of 1 buyer, 2 keys, 1 cancellation, 1 job, 1 sku, quantities to 2, stock 1, prices 1 and 2 | `PurchaseTypeOK`, `HoldMatchesOrder`, `TotalOfLines`, `NoOversell`, and the refinement `ImplementsSales`, while cart and prices change |
| `settlement` | 1 order, 2 cancellations, 2 jobs | `RetryOnlyCancelled`, `HistoryFaithful` under racing jobs; `PendingSettles` |
| `answers` | 2 attempts with one key, 2 cancellations | `RequestsAnswered` with no fairness for B2B |
| `cart_race` | 1 user, 1 guest, 1 sku, quantities to 2, 2 adds, 1 merge | `CartTypeOK`, `CartIInv`, `AddsNeverDeadlock`, `AddsCounted`, `ImplementsCarts`, `LockedRowsMerged`; `CartRequestsEnd` for adds against adds, a merge and single-statement requests |
| `cart_waits` | 1 user, 2 guests, 2 skus, quantities to 1, 2 merges | `ImplementsCarts`, `LockedRowsMerged`, `CartRequestsEnd` for merges, with deadlocks and conflicts |
| `offers` | 2 skus, quantities to 2, answers with every status and missing field | `OffersTypeOK`, `CheckoutKeepsPromise`, `OnlyModerationSlips`; `NoStockMeansNotSold`, `StockMeansSold`, `ListingKeepsPromise`, `NeverDearerThanShown` of the catalogue |
| `double_reserve`, `replayed_reserve`, `late_guest_row`, `moderated_sale` | smallest that shows it | one expected violation each, see section 6 |

Bounds, and why they are enough for what a run asks:

* `Checkouts`: two attempts suffice for a race; the third in `checkout_race` lets one
  attempt lose to an order that is not of its first rival and lets a key that
  belongs to another buyer be raced for at the same time.
* `Buyers`, `Keys`: every assignment of buyer and key to attempts is an initial state,
  so two of each give same buyer and key, same key of two buyers, and two keys.
* `Cancels`: two, of which either may name the wrong buyer or an order that does not
  exist; the second meets every status and lock the first leaves behind.
* `Jobs`: one against two cancellations, two against each other.
* A job may run any number of times; nothing counts, so no other cap is needed.
* `MaxQuantity` in `Cart` stands for the top of the quantity column's range; 2 lets two
  adds of 1 fit and reach it, a third unit overflow it, and a merge tell the larger
  quantity from the smaller. `cart_waits` has quantities to 1 and no adds: its subject is
  merges of several rows in any order, and adds wait for one row only. In `Offers` it bounds the quantity of an
  item in the instance only.
* In `purchase` one buyer is enough, since attempts of two buyers share nothing but B2B's
  stock, and two keys give both the repeated and the separate purchase. With a stock
  of 1 the attempts compete for the last item: a call for 1 fits exactly or finds nothing
  left, a call for 2 finds too little, and a cart may shrink from 2 to 1 or grow during
  the call; that several orders held at once stay within the stock is left to the theorem
  `NothingOversold`. One sku: a second makes the state space too large for TLC, and
  sums over several lines, the total's and the stock's, rest on the theorems
  `TotalSafety` and `NothingOversold` alone. Two prices tell an old from a new one.
* `MCAnswers` are answers around each comparison of the code: stock below 0, at
  0, below, at and above the quantity, each of the three stock fields missing or
  present, a discount below and above the price, each status and no status.

The proofs below show every safety property, action property and refinement of these
runs for all sizes; for those the bounds matter only as a sanity check. They carry
weight for the liveness properties and the expected violations.

`CHECK_DEADLOCK FALSE` is said in the runs of `Orders` and `Purchase`: each attempt and cancellation
happens once, and when all have ended with no job there is nothing left to do.
Deadlock stays checked for `Cart` and `Offers`, where other requests never end.

Fairness:

* `Fairness` (orders): a worker keeps running. It waits for B2B at most
  `B2BOrdersClient.timeout`, so `ReserveUnavailable` and `PostponeCancel` are always
  possible while it waits. B2B is owed nothing, and a crash is never required.
  Locks are only held by workers that run, which is why weak fairness is enough.
* `RetryFairness`: the operator runs the command again and again, it comes to every
  order it lists, and of the calls for one order that are repeated without end one is
  performed, answered and not cut short. These are strong fairness, because a
  crash or a timeout may get in the way any number of times. The repository has
  no scheduler for the command; that it is run is an assumption about its users.
  The instance has one order: that one order's failure keeps a run from the next,
  again and again, is what "it comes to every order it lists" assumes away.
* `CartFairness`: workers keep running, and PostgreSQL aborts some transaction of a
  deadlock. `Deadlocked` is a circle of waits; without one no abort is required. Only
  merges are ever owed an abort: no add is in such a circle (`AddsNeverDeadlock`).

## 4. Proofs

`OrdersProofs` proves `Spec => []IInv` for any sets of attempts, buyers, keys,
cancellations and jobs, from the assumptions that `NoOrder` is no attempt, that no job
is a cancellation and that `ReplayByKey` is a Boolean.

None of the safety properties is inductive alone. `CancelledReleased` needs to know
that nobody reserves for an order that has been placed, hence `ReserveCallsOpen`, and
that whoever is about to write CANCELLED has had its release performed, hence
`AnsweredCancelReleased` and `AnsweredJobReleased`. `HistoryFaithful` needs that the status
a cancellation read is still the status when it writes, hence `OpenCancelSound`
(the lock is its own and its view is current) and `LocksOwned`. `StockBehindOrder`
needs to know what a late release may be about (`StragglersExplained`) and that a job
has only orders whose cancellation was accepted (`JobsAfterCancel`), however old its
list. The parts are `CheckoutInv`, `CancelInv`, `JobInv`, `StockInv`, and `IInv` is their
conjunction with `TypeOK` and `HistoryFaithful`. Actions that change the same
variables in the same way share a lemma (`AttemptMovesInv`, `CancelWritesInv`,
`ReleaseInv`), every other action has its own. The trail lemmas (`AppendTrail`, `PlaceTrail`)
say how a history stays a legal walk.

From it follow `TypeCorrectness`, `KeyBuysOnce` (`OneOrderPerKey`), `RepliesNameOwnOrder`
(`IdempotentReplies`), `ConflictIsForeign` (`FailedByForeignKey`), `RefusalSafety`
(`RefusedHoldsNothing`), `CancellationSafety` (`CancelledReleased`), `RetrySafety`
(`RetryOnlyCancelled`), `StockSafety` and `HistorySafety`.
`StepShape` says, under the invariant, the few ways in which a step can change
`orders` and `reply` at all. `StatusNeverRevived` (`Spec => StatusFinal`) and `OrdersRefinement`'s
`Refinement` (`Spec => ImplementsOrderBook`) both rest on it: each shape is a
step of the order book or none.

`PurchaseProofs` first proves `PurchaseImplementsOrders` (`PurchaseSpec => Spec`): every step
of `Purchase` is a step of `Orders` or leaves `Orders`' variables alone, so `IInv` holds of it
too. `HoldMatchesOrder` is not inductive: it relates B2B's stock to the order's lines,
and before the order is placed there are none. `ItemsInv` ties both to what the attempt
has read: whoever has sent a reserve call has items (`AskedBeforeReserving`), what is held
is what was asked or nothing (`HeldIsAsked`), the lines are what was asked
(`LinesAreAsked`). From `IInv` it needs that a cart is only read before anything is
reserved or placed, and that B2B is told to release placed orders only
(`ReleaseStepInv`), whose lines then name all that is held (`GiveBackInv`). `HoldSafety`
and `TotalSafety` follow. `LinesOfAsked` says that leaving out the lines of nothing changes
neither quantities nor the total.

`NothingOversold` needs arithmetic over any finite number of orders. `SumLemmas` has it: a sum
of naturals is the number of units of its elements, so that what
the library knows of the cardinality of finite sets gives `SumIsNatural`, `SumMonotone`
and `SumOfChanged`. The one induction in it, over the order in which the fold takes the
elements, is by a least counterexample (`LeastNatural`). With these, no reserve lets what is
held exceed the stock (`HoldItemsFits`, `GiveBackFits`); what is promised is held
under the order's own id (`PromisedIsHeld`, from `StockBehindOrder`), hence no more than is held in all.
`PurchaseTypeCorrectness` needs the same sums, for the totals.

`SalesRefinement` proves `SalesRefined` (`PurchaseSpec => ImplementsSales`), one lemma for each way
in which a step is seen by `Sales`. The first reserve of an id is the only one, because
no call is open for an id that holds or has been placed (`ReserveCallsOpen`); `Sell` finds the
quantities set aside, because an attempt past its answer holds what it asked
(`ReservedHolds`, `HeldIsAsked`), and real prices, because nobody reserves without
(`PricesQuoted`); `Cancel` finds the stock back, by `CancelledReleased` of the state after the step.
With `ReplayByKey` (`HeldFirst` is then false) a bill may be written with nothing held, which is
finding 2. The theorem covers both readings.

`CartProofs` proves `CartSpec => []CartIInv` for any owners, skus, adds and merges, from
`CartAssumption` (users are no sessions, adds no merges, `NoSku` no sku, and the column
holds at least 1). `CartTypeOK` is the only
property of the cart that is nearly inductive alone. That `ImplementsCarts` holds at the
commit of an add or a merge depends on what it read several steps before being true still:
an add that is about to write holds its row and knows its quantity (`AddReadsLocked`); a
merge holds the guest's rows that it has read (`GuestRowsLocked`), and what it is going to write
is the larger quantity and under lock as well (`UserRowsLocked`); the loop leaves out
none of the locked rows (`LoopCovers`); and a row that a statement has seen and has yet to
come to is there or forgotten (`SeenRowsExist`), so that no merge ever locks a row
that is not the one it saw. `RowsStay` and `ForgetSeen` carry the last part over the steps of others. `LocksExclusive` and the guards make every step of
another request one that keeps these rows (`Kept`), so that `OtherAdd` and
`OtherMerge` dispose of all but the request that moves; `AddStepInv` and `MergeStepInv`
leave the rest to one lemma for each action. `HoldsWhatItReads` and `MergeAtRest` say that a
request that has ended holds nothing.

`CartStepShape` lists the ways in which a step changes the carts at all. `CartRefinement`
maps each to a step of `Carts`; `AddsAlwaysCounted` and `LockedRowsAlwaysMerged` say of the
step that acknowledges (`AddMovedBy`, `MergeMovedBy`) what it did. `Carts` leaves open which skus a
merge sees, and which later rows its DELETE takes (`late`), since the code only
merges the rows it has found and locked. `LockedRowsMerged` says that it is these and no
fewer; what it holds besides are the late rows (`HoldsWhatItReads`). `AddsAreNeverDeadlocked`: an add holds
its row only from its reading to its commit, and wants none meanwhile, so
no circle of waits passes through it.

`OffersProofs` proves `OffersTypeCorrect`, `PromiseKept` and `SlipsAreModerated` for any answers
and quantities: an item the cart has no issue with passes the checkout (`ReadingsAgree`),
and for a ready cart the two line functions are equal, so their sums are.
`CatalogProofs` compares the catalogue's reading with it: Python's `any` is decided by the
first sku in stock or unreadable (`FirstDecides`, by the least natural of a set), and a
number the card shows is the number the cart has (`ShownIsQuantity`). `SoldOutIsNotSold`,
`InStockIsSold` and `ShownPriceHolds` follow from the type invariant, and so does `ListingHolds`
for the listing's own reading (`ListingDecides`, `LeastPriceCanBeHad`).

The constants are assumed to be no more than the model says of them: `PurchaseAssumption` adds
that skus and attempts are finite in number, which every database is, and without
which a sum means nothing.

Only model-checked: `RequestsAnswered`, `PendingSettles` and `CartRequestsEnd`. Liveness under
fairness is beyond TLAPS.

## 5. Mutants

Operators commented with "Mutant:" are not part of any specification. Each is a
plausible mistake in the code beside it (no unique index, no `select_for_update`, no timeout, a
list without its filter, a second look left out) and each property that passes is
violated when the mutant takes the place of the definition it is written before.

## 6. Findings

1. `double_reserve`: two attempts with one idempotency key may both reserve, under
   different order ids; only one becomes an order (`OneOrderPerKey`) and the other hold is
   never released (`checkout_service.py:46`). This is so if B2B reserves for every order id
   it is given (`ReplayByKey = FALSE`); for the other reading see the next. The test of a repeated key
   (`test_checkout_api.py:268`) only sends the second request after the first.
2. `replayed_reserve`: if B2B replays the first answer for a key, a retry after a timeout
   creates an order whose own id has no stock, and its cancellation releases nothing.
3. `late_guest_row`: the last DELETE of `merge_guest_cart` (`cart_service.py:110`) removes
   rows that were added after its first SELECT, before its own snapshot, and never merged.
4. `moderated_sale`: the checkout does not know ON_MODERATION and sells what the cart
   shows as unavailable and counts as 0 (`checkout_service.py:129`).

## 7. Not modelled, and the plan

Not modelled:

* Authentication and the issue of tokens: library hashing over a request, no state. A
  request in the models is already authenticated or refused.
* Favorites, content, notifications, the outbox and the processed events: tables that no
  code of the repository reads or writes, so there is no operation to model.
* `BuyerManager.create_user`: called by no code of the application.
* Logging, response layout, images, names, and HTTP parsing: an answer is already
  decoded. A body that is not JSON is one of the outcomes of `ReserveUnavailable`
  for orders, an unanswered request for carts, and `garbled` for the catalogue.
* The stock check of an add against what the cart already holds: the code has none; the
  cart may exceed the stock and `Offers` lets validate and checkout notice
  (`OnlyModerationSlips`).

What a reader may miss among the properties. The checkout does not empty the cart, so
that a second attempt under a new key buys the same items again. An add whose answer is
lost counts again when the client repeats it; `AddsCounted` counts requests.
A sku without a price is sold for 0. A 200 without JSON from B2B is shown as a card that is sold
out; `NoStockMeansNotSold` excludes that outcome by name. A checkout that dies after B2B has
reserved leaves the stock held, and a cancellation that dies after B2B has released leaves a PAID
order without stock: both states are reached, and no property forbids them. Nothing in the repository says that
any of these should be otherwise, and no run is made of them.

Planned: what follows from `OrderBook` and from `Sales` alone (that an answer once given stays
true, that a bill never changes) as theorems about those modules.
