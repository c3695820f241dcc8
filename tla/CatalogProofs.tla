----------------------------- MODULE CatalogProofs -----------------------------
(***************************************************************************)
(* The catalogue's reading of B2B's answers against the cart's, for any    *)
(* skus, products and numbers.                                             *)
(***************************************************************************)
EXTENDS Catalog, OffersProofs, SumLemmas

\* What a listed product is made of.
LEMMA ProductsType ==
    ASSUME OffersTypeOK, NEW p \in Products
    PROVE  /\ \E n \in Nat : DOMAIN p = 1..n
           /\ \A i \in DOMAIN p : p[i] \in Skus /\ offer[p[i]] \in Answers /\ Known(p[i])
<1>1. PICK n \in Nat : p \in [1..n -> Skus]
  BY DEF Products
<1>2. \A i \in DOMAIN p : Known(p[i])
  BY DEF Products
<1> QED
  BY <1>1, <1>2 DEF OffersTypeOK, Known

\* any() comes to a verdict, or to an exception, at the first sku that is in stock
\* or unreadable.
LEMMA FirstDecides ==
    ASSUME NEW p, NEW n \in Nat, DOMAIN p = 1..n, ~HasStock(p), ~Fails(p)
    PROVE  \A i \in DOMAIN p : ~Unreadable(p[i]) /\ ~InStock(p[i])
<1> DEFINE T == {i \in DOMAIN p : Unreadable(p[i]) \/ InStock(p[i])}
<1> SUFFICES ASSUME T # {} PROVE FALSE
  OBVIOUS
<1>0. T \subseteq Nat
  OBVIOUS
<1>1. PICK m \in T : \A y \in T : m <= y
  <2> HIDE DEF T
  <2> QED
    BY <1>0, LeastNatural
<1>2. ASSUME NEW j \in 1..(m - 1) PROVE ~Unreadable(p[j]) /\ ~InStock(p[j])
  <2>1. j \in DOMAIN p /\ ~(m <= j)
    BY <1>1
  <2> QED
    BY <1>1, <2>1
<1>3. HasStock(p) \/ Fails(p)
  BY <1>1, <1>2 DEF HasStock, Fails
<1> QED
  BY <1>3

\* Where the card shows a number from a field that the cart knows, the cart has the
\* same number; where there is none of these fields, the cart has none in stock.
LEMMA ShownIsQuantity ==
    ASSUME NEW a \in Answers, ShownQuantity(a) # None
    PROVE  IF HasCartField(a) THEN Quantity(a) = ShownQuantity(a) ELSE Quantity(a) = 0
<1>1. CASE a.available_quantity # Absent
  BY <1>1 DEF ShownQuantity, HasCartField, Quantity, Given
<1>2. CASE a.available_quantity = Absent /\ a.active_quantity # Absent
  BY <1>2 DEF ShownQuantity, HasCartField, Quantity, Given
<1>3. CASE a.available_quantity = Absent /\ a.active_quantity = Absent
  BY <1>3 DEF ShownQuantity, HasCartField, Quantity, Given, Number
<1> QED
  BY <1>1, <1>2, <1>3

\* What the catalogue shows as sold out is not sold (NoStockMeansNotSold).
THEOREM SoldOutIsNotSold == OffersSpec => []NoStockMeansNotSold
<1>1. OffersTypeOK => NoStockMeansNotSold
  <2> SUFFICES ASSUME OffersTypeOK, NEW p \in Products, NEW call \in Calls \ {"garbled"},
                      CardStatus(call, p) = "200", ~HasStock(CardSkus(call, p)),
                      NEW i \in DOMAIN p
               PROVE  ~IsAvailable(p[i])
    BY DEF NoStockMeansNotSold
  <2>1. call = "answered" /\ ~Fails(p)
    BY DEF CardStatus, ProxyStatus, Calls
  <2>2. ~HasStock(p)
    BY <2>1 DEF CardSkus
  <2>3. PICK n \in Nat : DOMAIN p = 1..n
    BY ProductsType
  <2>4. offer[p[i]] \in Answers /\ ~Unreadable(p[i]) /\ ~InStock(p[i])
    BY <2>1, <2>2, <2>3, ProductsType, FirstDecides
  <2>5. Quantity(offer[p[i]]) \in Int /\ ~(Quantity(offer[p[i]]) > 0)
    BY <2>4, ShownIsQuantity, QuantityIsInt DEF Unreadable, InStock
  <2>6. Sku(offer[p[i]]).available <= 0
    BY <2>5 DEF Sku
  <2> QED
    BY <2>6 DEF IsAvailable, CartReason
<1> QED
  BY <1>1, OffersTypeCorrect, PTL

\* What the catalogue shows in stock can be put into the cart (StockMeansSold).
THEOREM InStockIsSold == OffersSpec => []StockMeansSold
<1>1. OffersTypeOK => StockMeansSold
  <2> SUFFICES ASSUME OffersTypeOK, NEW p \in Products, HasStock(p),
                      \A i \in DOMAIN p : /\ Sku(offer[p[i]]).status = "MODERATED"
                                          /\ ~Sku(offer[p[i]]).deleted
                                          /\ HasCartField(offer[p[i]])
               PROVE  \E i \in DOMAIN p : Addable(p[i], 1)
    BY DEF StockMeansSold
  <2>1. PICK i \in DOMAIN p : InStock(p[i])
    BY DEF HasStock
  <2>2. offer[p[i]] \in Answers /\ Known(p[i])
    BY ProductsType
  <2>3. Quantity(offer[p[i]]) \in Int /\ Quantity(offer[p[i]]) > 0
    BY <2>1, <2>2, ShownIsQuantity, QuantityIsInt DEF InStock, Unreadable
  <2>4. Sku(offer[p[i]]).available \in Int /\ Sku(offer[p[i]]).available >= 1
    BY <2>3 DEF Sku
  <2>5. CartReason(Sku(offer[p[i]])) = "NONE"
    BY <2>4 DEF CartReason
  <2> QED
    BY <2>2, <2>4, <2>5 DEF Addable, IsAvailable, AvailableQuantity
<1> QED
  BY <1>1, OffersTypeCorrect, PTL

\* No sku costs more than its own price, and one can be had for the least price of
\* them.
LEMMA LeastPriceCanBeHad ==
    ASSUME OffersTypeOK, NEW p \in Products,
           \A i \in DOMAIN p : /\ Number(offer[p[i]].price) >= 0
                               /\ Number(offer[p[i]].discount) >= 0
    PROVE  /\ \A i \in DOMAIN p :
                 Given(offer[p[i]].price) => UnitPrice(p[i]) <= offer[p[i]].price
           /\ MinPrice(p) # None => \E i \in DOMAIN p : UnitPrice(p[i]) <= MinPrice(p)
<1>1. ASSUME NEW i \in DOMAIN p, Given(offer[p[i]].price)
      PROVE  offer[p[i]].price \in Nat /\ UnitPrice(p[i]) <= offer[p[i]].price
  <2>1. offer[p[i]] \in AnswerFields(Int \cup {None, Absent})
    BY ProductsType, OffersAssumption
  <2>2. /\ offer[p[i]].price \in Int \cup {None, Absent}
        /\ offer[p[i]].discount \in Int \cup {None, Absent}
    BY <2>1 DEF AnswerFields
  <2>3. /\ Number(offer[p[i]].price) = offer[p[i]].price
        /\ offer[p[i]].price \in Int
        /\ Number(offer[p[i]].discount) \in Int
    BY <1>1, <2>2 DEF Number, Given
  <2>4. offer[p[i]].price >= 0 /\ Number(offer[p[i]].discount) >= 0
    BY <2>3
  <2> QED
    BY <2>3, <2>4 DEF UnitPrice, Sku
<1>2. ASSUME MinPrice(p) # None
      PROVE  \E i \in DOMAIN p : UnitPrice(p[i]) <= MinPrice(p)
  <2>1. PricesOf(p) # {}
    BY <1>2 DEF MinPrice
  <2>2. PricesOf(p) \subseteq Nat
    BY <1>1 DEF PricesOf, Given
  <2>3. MinPrice(p) \in PricesOf(p)
    BY <2>1, <2>2, LeastNatural DEF MinPrice
  <2>4. PICK i \in DOMAIN p : MinPrice(p) = offer[p[i]].price /\ Given(offer[p[i]].price)
    BY <2>3 DEF PricesOf, Given
  <2> QED
    BY <1>1, <2>4
<1> QED
  BY <1>1, <1>2

\* No sku costs more than its card says, and one can be had for the least price that
\* is shown (NeverDearerThanShown).
THEOREM ShownPriceHolds == OffersSpec => []NeverDearerThanShown
<1>1. OffersTypeOK => NeverDearerThanShown
  BY LeastPriceCanBeHad DEF NeverDearerThanShown
<1> QED
  BY <1>1, OffersTypeCorrect, PTL

\* The listing's any(), too, comes to its verdict or its exception at the first sku
\* that it stops at.
LEMMA ListingDecides ==
    ASSUME NEW p, NEW n \in Nat, DOMAIN p = 1..n, NEW own, StockLeftOut(own),
           ~SummaryHasStock(own, p), ~SummaryFails(own, p)
    PROVE  \A i \in DOMAIN p : /\ ShownQuantity(offer[p[i]]) # None
                               /\ ~(ShownQuantity(offer[p[i]]) > 0)
<1> DEFINE quantity(i) == ShownQuantity(offer[p[i]])
           T == {i \in DOMAIN p : quantity(i) = None \/ quantity(i) > 0}
<1>0. T \subseteq Nat
  OBVIOUS
<1>1. ASSUME NEW m \in T PROVE \E y \in T : ~(m <= y)
  <2> SUFFICES ASSUME \A y \in T : m <= y PROVE FALSE
    OBVIOUS
  <2>1. ASSUME NEW j \in 1..(m - 1) PROVE quantity(j) # None /\ ~(quantity(j) > 0)
    <3>1. j \in DOMAIN p /\ ~(m <= j)
      BY <1>0
    <3>2. j \notin T
      BY <3>1
    <3> QED
      BY <3>1, <3>2
  <2>2. StopsAt(p, m)
    BY <2>1 DEF StopsAt
  <2> QED
    BY <2>2 DEF SummaryHasStock, SummaryFails
<1>2. T = {}
  <2> HIDE DEF T
  <2> QED
    BY <1>0, <1>1, LeastNatural
<1> QED
  BY <1>2

\* What a listing shows as sold out is not sold, and the price that it lists can be
\* had (ListingKeepsPromise).
THEOREM ListingHolds == OffersSpec => []ListingKeepsPromise
<1>1. OffersTypeOK => ListingKeepsPromise
  <2> SUFFICES ASSUME OffersTypeOK, NEW p \in Products, NEW own \in SummaryFields,
                      ListStatus(TRUE, "answered", [x \in {p} |-> own]) = "200"
               PROVE  /\ StockLeftOut(own) /\ ~SummaryHasStock(own, p) =>
                            \A i \in DOMAIN p : ~IsAvailable(p[i])
                      /\ /\ own.min_price = Absent /\ ~Given(own.price)
                         /\ SummaryMinPrice(own, p) # None
                         /\ \A i \in DOMAIN p : /\ Number(offer[p[i]].price) >= 0
                                                /\ Number(offer[p[i]].discount) >= 0
                         => \E i \in DOMAIN p : UnitPrice(p[i]) <= SummaryMinPrice(own, p)
    BY DEF ListingKeepsPromise
  <2>1. ASSUME StockLeftOut(own), ~SummaryHasStock(own, p), NEW i \in DOMAIN p
        PROVE  ~IsAvailable(p[i])
    <3>1. ~SummaryFails(own, p)
      <4> DEFINE page == [x \in {p} |-> own]
      <4>1. DOMAIN page = {p} /\ page[p] = own
        OBVIOUS
      <4> HIDE DEF page
      <4>2. ~\E q \in DOMAIN page : SummaryFails(page[q], q)
        BY DEF ListStatus, page
      <4> QED
        BY <4>1, <4>2
    <3>2. PICK n \in Nat : DOMAIN p = 1..n
      BY ProductsType
    <3>3. /\ offer[p[i]] \in Answers
          /\ ShownQuantity(offer[p[i]]) # None
          /\ ~(ShownQuantity(offer[p[i]]) > 0)
      BY <2>1, <3>1, <3>2, ProductsType, ListingDecides
    <3>4. Quantity(offer[p[i]]) \in Int /\ ~(Quantity(offer[p[i]]) > 0)
      BY <3>3, ShownIsQuantity, QuantityIsInt
    <3>5. Sku(offer[p[i]]).available <= 0
      BY <3>4 DEF Sku
    <3> QED
      BY <3>5 DEF IsAvailable, CartReason
  <2>2. own.min_price = Absent /\ ~Given(own.price) => SummaryMinPrice(own, p) = MinPrice(p)
    BY DEF SummaryMinPrice
  <2> QED
    BY <2>1, <2>2, LeastPriceCanBeHad
<1> QED
  BY <1>1, OffersTypeCorrect, PTL

===============================================================================
