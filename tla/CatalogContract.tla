-------------------------- MODULE CatalogContract --------------------------
(***************************************************************************)
(* What a reading of Dux becomes on its way to the buyer's page: the       *)
(* snapshot server/dux-catalog writes and reads back, the public catalogue *)
(* server/dux-public-catalog makes of it, and what the parsers of          *)
(* src/catalog/model and src/data/runtime-catalog accept of that.  Every   *)
(* one of these refuses the whole when an item is not as it expects, so    *)
(* they have to agree.                                                     *)
(*                                                                         *)
(* Operators only: module Rules states what they promise, of the readings  *)
(* at the end.  An item is its code, a text is a letter, an amount is in   *)
(* thousandths of a peso, and stock is what the modern snapshots carry.    *)
(***************************************************************************)
EXTENDS Integers, Sequences, SequencesExt, FiniteSetsExt

NoRef   == [id |-> 0, name |-> "none"]
Invalid == [ok |-> FALSE, items |-> <<>>]

(***************************************************************************)
(* Prices.                                                                 *)
(***************************************************************************)

\* parsePrices: the collection may be absent, not be one, or hold anything.
ParsedPrice(raw) ==
  [name |-> raw.name, kind |-> raw.kind, milli |-> raw.milli,
   valid |-> raw.id /\ raw.name # "none" /\ raw.kind \in {"number", "absent"}]
ParsedPrices(raw) ==
  [array |-> raw.given # "malformed",
   list |-> IF raw.given = "list" THEN [i \in DOMAIN raw.list |-> ParsedPrice(raw.list[i])] ELSE <<>>]

IsUsablePrice(milli) == milli > 2000 /\ milli % 10 = 0

Price(amount, status) == [amount |-> amount, status |-> status]
NoPrice(status) == Price(0, status)

\* As it would be if the first entry of the list were taken.
SelectFirstPrice(prices) ==
  LET matches == SelectSeq(prices.list, LAMBDA p : p.name = "public")
  IN IF ~prices.array \/ \E p \in ToSet(prices.list) : p.name = "none" THEN NoPrice("invalid")
     ELSE IF matches = <<>> THEN NoPrice("missing_or_zero")
     ELSE LET match == Head(matches) IN
       CASE match.kind # "number" \/ match.milli = 0 -> NoPrice("missing_or_zero")
         [] match.milli \in {1000, 2000}             -> NoPrice("placeholder")
         [] IsUsablePrice(match.milli)               -> Price(match.milli, "usable")
         [] OTHER                                    -> NoPrice("invalid")

SelectPublicPrice(prices) ==
  LET matches == SelectSeq(prices.list, LAMBDA p : p.name = "public")
  IN IF ~prices.array \/ \E p \in ToSet(prices.list) : p.name = "none" THEN NoPrice("invalid")
     ELSE IF matches = <<>> THEN NoPrice("missing_or_zero")
     ELSE LET match == Head(matches) IN
       CASE Len(matches) # 1 \/ ~match.valid            -> NoPrice("invalid")
         [] match.kind # "number" \/ match.milli = 0 -> NoPrice("missing_or_zero")
         [] match.milli \in {1000, 2000}             -> NoPrice("placeholder")
         [] IsUsablePrice(match.milli)               -> Price(match.milli, "usable")
         [] OTHER                                    -> NoPrice("invalid")

\* The same price as the analysis scripts read it, which keep the amount of a placeholder.
AnalysisPrice(prices) ==
  LET matches == SelectSeq(prices.list, LAMBDA p : p.name = "public")
  IN IF ~prices.array \/ \E p \in ToSet(prices.list) : p.name = "none" THEN NoPrice("invalid")
     ELSE IF matches = <<>> THEN NoPrice("missing_or_zero")
     ELSE IF Len(matches) > 1 \/ ~Head(matches).valid THEN NoPrice("invalid")
     ELSE LET milli == Head(matches).milli IN
       CASE Head(matches).kind # "number" \/ milli = 0 -> NoPrice("missing_or_zero")
         [] milli \in {1000, 2000}                    -> Price(milli, "placeholder")
         [] milli <= 2000 \/ milli % 10 # 0           -> NoPrice("invalid")
         [] OTHER                                     -> Price(milli, "usable")

(***************************************************************************)
(* The snapshot: buildStoredPayload and parseStoredPayload.                *)
(***************************************************************************)

RubroSlug(item)    == <<"dux-rubro", 0, item.rubro.id>>
\* A sub-rubro is identified within its rubro.
SubrubroSlug(item) == <<"subrubro", item.rubro.id, item.subrubro.id>>

SourceCategories(item) ==
  SelectSeq(<<[slug |-> RubroSlug(item), name |-> item.rubro.name],
              [slug |-> SubrubroSlug(item), name |-> item.subrubro.name]>>,
            LAMBDA c : c.name # "none")

\* Two names for one category.
Conflicting(itemCategories) == \E c, d \in UNION {ToSet(cs) : cs \in itemCategories} : c.slug = d.slug /\ c.name # d.name

StoredItem(item) ==
  [slug |-> item.code, price |-> SelectPublicPrice(ParsedPrices(item.prices)),
   categories |-> SourceCategories(item), address |-> item.address, stock |-> item.stock]

\* Every code is checked, the rest of an item only when it is enabled; an address that is
\* not http or https is refused.
BuildStoredPayload(reading) ==
  LET enabled == SelectSeq(reading, LAMBDA item : item.enabled)
  IN IF \/ ~IsInjective([i \in DOMAIN reading |-> reading[i].code])
        \/ \E item \in ToSet(enabled) : item.address = "other"
        \/ Conflicting({SourceCategories(item) : item \in ToSet(enabled)})
     THEN Invalid
     ELSE [ok |-> TRUE, items |-> [i \in DOMAIN enabled |-> StoredItem(enabled[i])]]

DatabasePrice(price) ==
  \/ price.status = "usable" /\ IsUsablePrice(price.amount)
  \/ price.status \in {"placeholder", "missing_or_zero", "invalid"} /\ price.amount = 0

\* "long" is an address of up to 2048 characters whose normalised form, the one that is
\* stored, has more.
ParseStoredPayload(payload) ==
  LET items == ToSet(payload.items)
  IN IF /\ IsInjective([i \in DOMAIN payload.items |-> payload.items[i].slug])
        /\ \A item \in items : /\ IsInjective([i \in DOMAIN item.categories |-> item.categories[i].slug])
                               /\ DatabasePrice(item.price) /\ item.address # "long"
        /\ ~Conflicting({item.categories : item \in items})
     THEN payload ELSE Invalid

(***************************************************************************)
(* The public catalogue: projectProduct, buildRuntimeCategories and        *)
(* readPublicCatalog.  fresh: the reading is within the age allowed.       *)
(***************************************************************************)

AvailabilityState(item, fresh) ==
  CASE Len(item.stock) # 1 \/ ~item.stock[1].known -> "unavailable"
    [] ~fresh                                        -> "updating"
    [] item.stock[1].available <= 0                  -> "out_of_stock"
    [] OTHER                                         -> "verified"

ProjectProduct(item, fresh) ==
  [slug |-> item.slug, price |-> item.price, categories |-> item.categories,
   availability |-> "unavailable", checkoutEligible |-> FALSE,
   availabilityState |-> AvailabilityState(item, fresh)]

RuntimeCategories(products) ==
  {[slug |-> c.slug, name |-> c.name,
    count |-> Quantify(ToSet(products), LAMBDA q : \E d \in ToSet(q.categories) : d.slug = c.slug)] :
     c \in UNION {ToSet(p.categories) : p \in ToSet(products)}}

ReadPublicCatalog(payload, hidden, fresh) ==
  LET all == [i \in DOMAIN payload.items |-> ProjectProduct(payload.items[i], fresh)]
      shown == SelectSeq(all, LAMBDA p : p.slug \notin hidden)
      Counted(c) == [c EXCEPT !.count = Quantify(ToSet(shown), LAMBDA p : \E d \in ToSet(p.categories) : d.slug = c.slug)]
  IN [products |-> shown, categories |-> {c \in {Counted(d) : d \in RuntimeCategories(all)} : c.count > 0}]

(***************************************************************************)
(* The browser: parseProduct, parseProducts, parseCategories, loadCatalog  *)
(* and isProductEffectivelyAvailable.                                      *)
(***************************************************************************)

Slugs(product) == [i \in DOMAIN product.categories |-> product.categories[i].slug]
Names(product) == [i \in DOMAIN product.categories |-> product.categories[i].name]

\* parseTextArray refuses a repeated text, of the slugs and of the names.
IsTextArray(texts) == IsInjective(texts)

ParsesPrice(price) == price.amount > 0 /\ price.amount % 10 = 0

ParsesCommerce(product) == product.checkoutEligible => product.availabilityState = "verified"

ParsesProduct(product) ==
  /\ IsTextArray(Slugs(product)) /\ IsTextArray(Names(product))
  /\ ParsesCommerce(product)
  /\ IF product.price.status = "usable"
     THEN ParsesPrice(product.price) /\ product.price.amount > 2000
     ELSE product.price.amount = 0 /\ ~product.checkoutEligible

ParsesCategories(categories) == \A c, d \in categories : c.slug = d.slug => c = d

ParsesProducts(products, categories) ==
  /\ \A p \in ToSet(products) : ParsesProduct(p)
  /\ IsInjective([i \in DOMAIN products |-> products[i].slug])
  /\ categories # {} => \A p \in ToSet(products) : \A c \in ToSet(p.categories) :
                           \E d \in categories : d.slug = c.slug /\ d.name = c.name

\* Anything that is not as it expects, and the page shows an error.
Loads(catalog) == ParsesCategories(catalog.categories) /\ ParsesProducts(catalog.products, catalog.categories)

EffectivelyAvailable(product) ==
  /\ product.price.status = "usable" /\ product.availability # "unavailable"
  /\ product.availabilityState = "verified" /\ product.checkoutEligible

(***************************************************************************)
(* The readings of module Rules.                                           *)
(***************************************************************************)

RawPrices ==
  [name : {"public", "other", "none"}, id : BOOLEAN, kind : {"number"}, milli : {-5000, 0, 1000, 1500, 2000, 2005, 2010, 9000}]
    \cup [name : {"public", "other", "none"}, id : BOOLEAN, kind : {"absent", "text"}, milli : {0}]
PriceLists ==
  {[given |-> g, list |-> <<>>] : g \in {"missing", "malformed", "list"}}
    \cup {[given |-> "list", list |-> <<p>>] : p \in RawPrices}
    \cup {[given |-> "list", list |-> <<p, q>>] : p, q \in RawPrices}

References == {NoRef} \cup [id : {1, 2}, name : {"A", "B"}]
Fair == [given |-> "list", list |-> <<[name |-> "public", id |-> TRUE, kind |-> "number", milli |-> 9000]>>]
Row(known, available) == [known |-> known, available |-> available]

Item(code, enabled, rubro, subrubro, prices, address, stock) ==
  [code |-> code, enabled |-> enabled, rubro |-> rubro, subrubro |-> subrubro,
   prices |-> prices, address |-> address, stock |-> stock]

\* One product, with every price, every kind of address and every count of its deposits.
Alone ==
  {<<Item(1, TRUE, NoRef, NoRef, prices, "plain", <<Row(TRUE, 1)>>)>> : prices \in PriceLists} \cup
  {<<Item(1, enabled, NoRef, NoRef, Fair, address, stock)>> :
     enabled \in BOOLEAN, address \in {"none", "plain", "long", "other"},
     stock \in {<<>>, <<Row(TRUE, 0)>>, <<Row(TRUE, 2)>>, <<Row(FALSE, 0)>>, <<Row(TRUE, 1), Row(TRUE, 1)>>}}
\* Two, with every category each may have.
Together ==
  {<<Item(1, TRUE, r, s, Fair, "plain", <<Row(TRUE, 1)>>), Item(code, enabled, t, u, Fair, "plain", <<Row(TRUE, 0)>>)>> :
     r, s, t, u \in References, code \in {1, 2}, enabled \in BOOLEAN}
Readings == Alone \cup Together

Written(reading) == BuildStoredPayload(reading).ok
ReadBack(reading) == ParseStoredPayload(BuildStoredPayload(reading))
\* What the page gets of a reading whose products in hidden are not published.
Served(reading, hidden, fresh) == ReadPublicCatalog(BuildStoredPayload(reading), hidden, fresh)
=============================================================================
