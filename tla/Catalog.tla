------------------------------- MODULE Catalog --------------------------------
(***************************************************************************)
(* The catalogue pages (catalog/api/controller.py and its B2BCatalogClient): *)
(* B2B's answer is passed on, with a stock and a price for each product    *)
(* that are worked out here.  The fields of a sku are the ones that cart   *)
(* and checkout read in Offers, read by a third piece of code.             *)
(***************************************************************************)
EXTENDS Offers, FiniteSets

-------------------------------------------------------------------------------
(* Products as B2B lists them: skus in an order, under one status *)

Products ==
    {p \in UNION {[1..n -> Skus] : n \in 0..Cardinality(Skus)} :
        /\ \A i, j \in DOMAIN p : p[i] = p[j] => i = j
        /\ \A i \in DOMAIN p : Known(p[i])
        /\ \A i, j \in DOMAIN p : /\ offer[p[i]].status = offer[p[j]].status
                                  /\ offer[p[i]].deleted = offer[p[j]].deleted}

\* What a listing may say of a product next to its skus.
SummaryFields ==
    [min_price : {Absent, None, 1}, price : {Absent, None, 1},
     has_stock : {Absent, None, TRUE, FALSE}, in_stock : {Absent, None, TRUE, FALSE}]

-------------------------------------------------------------------------------
(* The product card *)

\* Mutant: the quantity that includes what is reserved is looked at first.
ReservedToo(a) ==
    CASE a.quantity # Absent -> a.quantity
      [] a.quantity = Absent /\ a.available_quantity # Absent -> a.available_quantity
      [] OTHER -> 0

\* Mutant: a sku without available_quantity is shown as sold out.
AvailableOnly(a) == IF a.available_quantity # Absent THEN a.available_quantity ELSE 0

\* _sanitize_sku and _get_quantity: the first of four fields that is there, null
\* or not.
ShownQuantity(a) ==
    IF a.available_quantity # Absent THEN a.available_quantity
    ELSE IF a.active_quantity # Absent THEN a.active_quantity
    ELSE IF a.activeQuantity # Absent THEN a.activeQuantity
    ELSE IF a.quantity # Absent THEN a.quantity ELSE 0

Unreadable(s) == ShownQuantity(offer[s]) = None

InStock(s) == ~Unreadable(s) /\ ShownQuantity(offer[s]) > 0

\* any() stops at the first sku in stock ...
HasStock(p) ==
    \E i \in DOMAIN p : InStock(p[i]) /\ \A j \in 1..(i - 1) : ~Unreadable(p[j])

\* ... and raises at a null that it comes to before.
Fails(p) ==
    \E i \in DOMAIN p : Unreadable(p[i]) /\ \A j \in 1..(i - 1) : ~InStock(p[j])

PricesOf(p) == {offer[p[i]].price : i \in DOMAIN p} \ {None, Absent}

\* Mutant: the discount is taken off.
MinDiscountedPrice(p) ==
    LET prices == {offer[p[i]].price - Number(offer[p[i]].discount) :
                     i \in {k \in DOMAIN p : Given(offer[p[k]].price)}}
    IN  IF prices = {} THEN None ELSE CHOOSE x \in prices : \A y \in prices : x <= y

MinPrice(p) ==
    IF PricesOf(p) = {} THEN None
    ELSE CHOOSE x \in PricesOf(p) : \A y \in PricesOf(p) : x <= y

-------------------------------------------------------------------------------
(* A product in a listing: what B2B says of the product goes before its skus *)

SummaryMinPrice(own, p) ==
    IF own.min_price # Absent THEN own.min_price
    ELSE IF Given(own.price) THEN own.price ELSE MinPrice(p)

\* What a listing says of the stock is worked out here only for a product that it
\* says nothing of.
StockLeftOut(own) == own.has_stock = Absent /\ ~Given(own.in_stock)

\* Mutant: a listing looks at its first sku only.
StockOfFirst(own, p) ==
    IF StockLeftOut(own) THEN p # << >> /\ InStock(p[1])
    ELSE IF own.has_stock # Absent THEN own.has_stock ELSE own.in_stock

\* The first sku that the listing's own any() stops at.
StopsAt(p, i) ==
    LET quantity(j) == ShownQuantity(offer[p[j]])
    IN  /\ quantity(i) = None \/ quantity(i) > 0
        /\ \A j \in 1..(i - 1) : quantity(j) # None /\ ~(quantity(j) > 0)

SummaryHasStock(own, p) ==
    IF StockLeftOut(own)
      THEN \E i \in DOMAIN p : StopsAt(p, i) /\ ShownQuantity(offer[p[i]]) # None
    ELSE IF own.has_stock # Absent THEN own.has_stock ELSE own.in_stock

SummaryFails(own, p) ==
    /\ StockLeftOut(own)
    /\ \E i \in DOMAIN p : StopsAt(p, i) /\ ShownQuantity(offer[p[i]]) = None

-------------------------------------------------------------------------------
(* B2BCatalogClient._get and the status that the client gets *)

\* What becomes of a call: an answer; one that is no JSON; an error status; no
\* answer.
Calls == {"answered", "garbled", "error", "silent"}

\* 200 stands for the page, UPSTREAM for B2B's own status and body.
ProxyStatus(valid, call) ==
    IF ~valid THEN "400"
    ELSE CASE call \in {"answered", "garbled"} -> "200"
           [] call = "error" -> "UPSTREAM"
           [] call = "silent" -> "502"

CardStatus(call, p) ==
    IF call = "answered" /\ Fails(p) THEN "500" ELSE ProxyStatus(TRUE, call)

\* page maps the products of the listing to what B2B says of each.
ListStatus(valid, call, page) ==
    IF valid /\ call = "answered" /\ \E p \in DOMAIN page : SummaryFails(page[p], p)
      THEN "500" ELSE ProxyStatus(valid, call)

\* An answer without JSON is shown as a product without skus.
CardSkus(call, p) == IF call = "answered" THEN p ELSE << >>

-------------------------------------------------------------------------------
(* Properties *)

\* What the catalogue shows as sold out the cart does not sell, although the two
\* look for the stock in different fields; unless B2B's answer was no JSON, which
\* any product is shown as sold out for.
NoStockMeansNotSold ==
    \A p \in Products, call \in Calls \ {"garbled"} :
        CardStatus(call, p) = "200" /\ ~HasStock(CardSkus(call, p)) =>
            \A i \in DOMAIN p : ~IsAvailable(p[i])

\* The fields that normalize_skus reads the stock from.
HasCartField(a) ==
    \/ a.available_quantity # Absent
    \/ a.active_quantity # Absent
    \/ a.activeQuantity # Absent

\* A product that the catalogue shows in stock can be put into the cart, if it is
\* moderated, not deleted, and B2B fills in the fields that the cart knows.
StockMeansSold ==
    \A p \in Products :
        /\ HasStock(p)
        /\ \A i \in DOMAIN p : /\ Sku(offer[p[i]]).status = "MODERATED"
                               /\ ~Sku(offer[p[i]]).deleted
                               /\ HasCartField(offer[p[i]])
        => \E i \in DOMAIN p : Addable(p[i], 1)

\* A listing, which works its stock out apart from the card, keeps its word as well:
\* of a product that it lists as sold out the cart sells nothing, and the price that
\* it lists can be had, where B2B leaves the field to the service and asks for no
\* less than nothing.
ListingKeepsPromise ==
    \A p \in Products, own \in SummaryFields :
        ListStatus(TRUE, "answered", [x \in {p} |-> own]) = "200" =>
            /\ StockLeftOut(own) /\ ~SummaryHasStock(own, p) =>
                  \A i \in DOMAIN p : ~IsAvailable(p[i])
            /\ /\ own.min_price = Absent /\ ~Given(own.price)
               /\ SummaryMinPrice(own, p) # None
               /\ \A i \in DOMAIN p : /\ Number(offer[p[i]].price) >= 0
                                      /\ Number(offer[p[i]].discount) >= 0
               => \E i \in DOMAIN p : UnitPrice(p[i]) <= SummaryMinPrice(own, p)

\* The price on the card can be had: of the skus on it, one costs no more in the
\* cart, and none costs more than the card says for it, unless B2B asks for less
\* than nothing.
NeverDearerThanShown ==
    \A p \in Products :
        (\A i \in DOMAIN p : /\ Number(offer[p[i]].price) >= 0
                             /\ Number(offer[p[i]].discount) >= 0) =>
            /\ \A i \in DOMAIN p :
                 Given(offer[p[i]].price) => UnitPrice(p[i]) <= offer[p[i]].price
            /\ MinPrice(p) # None => \E i \in DOMAIN p : UnitPrice(p[i]) <= MinPrice(p)

===============================================================================
