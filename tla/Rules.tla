-------------------------------- MODULE Rules --------------------------------
(***************************************************************************)
(* What the parts of the program that compute, and keep no state, promise. *)
(* The one variable is a case: something a rule is asked about.            *)
(***************************************************************************)
EXTENDS CatalogContract, MarketingQuote, CommerceReadiness, CatalogMatching, SalesReport, OrderStory, DuxOrder, Charges

VARIABLE case

\* One product with every list of prices; every reading, with some products hidden.
PriceCases   == {[rule |-> "price", prices |-> raw] : raw \in PriceLists}
CatalogCases == [rule : {"catalog"}, reading : Readings, hidden : {{}, {1}, {1, 2}}, fresh : BOOLEAN]

Init == case \in PriceCases \cup CatalogCases \cup QuoteCases \cup SettingCases \cup MatchingCases \cup AmountCases \cup MappingCases \cup CopyCases \cup ReportCases \cup StoryCases \cup DuxOrderCases
        \cup ChargeCases \cup PaymentCases
Next == UNCHANGED case
Spec == Init /\ [][Next]_case

\* The price of a product is the one the table of docs/DUX_COMPLETE_CATALOG.md gives: one
\* good entry of the public list gives a price above 2 with two decimals, 1 and 2 are
\* placeholders, and no price is taken from another list or from two entries.  The analysis
\* scripts, which read it again in their own words, say the same of every product.
PricesFollowTable ==
  case.rule = "price" =>
    LET price == SelectPublicPrice(ParsedPrices(case.prices))
        list == case.prices.list
        entries == {i \in DOMAIN list : list[i].name = "public"}
        amounts == {list[i].milli : i \in {j \in entries : list[j].kind = "number"}}
    IN /\ price.status = "usable" =>
            amounts = {price.amount} /\ Cardinality(entries) = 1 /\ price.amount > 2000 /\ price.amount % 10 = 0
       /\ price.status # "usable" => price.amount = 0
       /\ price.status = "placeholder" => amounts \subseteq {1000, 2000} /\ Cardinality(entries) = 1
       /\ price.status = "missing_or_zero" => amounts \subseteq {0} /\ Cardinality(entries) <= 1
       /\ (Len(list) = 1 /\ amounts = {9000} /\ list[1].id) => price.status = "usable"
       /\ LET read == AnalysisPrice(ParsedPrices(case.prices))
          IN read.status = price.status /\ (price.status = "usable" => read = price)

\* What is written can be read back as it was written, unless an address grew when it was
\* normalised; and the browser takes what is served, unless a product has a category and
\* a subcategory of one name: the writer, the reader and the page check the same things.
Repeats(item) == item.enabled /\ item.rubro.name # "none" /\ item.rubro.name = item.subrubro.name
ContractHolds ==
  (case.rule = "catalog" /\ Written(case.reading)) =>
    LET items == ToSet(case.reading)
        grown == \E item \in items : item.enabled /\ item.address = "long"
    IN /\ (ReadBack(case.reading) = BuildStoredPayload(case.reading)) <=> ~grown
       /\ Loads(Served(case.reading, case.hidden, case.fresh))
            <=> ~\E item \in items : Repeats(item) /\ item.code \notin case.hidden

\* The counts of the categories are those of the published products, every category of one
\* is listed and none is empty, whatever is hidden; and no product of the public
\* catalogue can be put in a cart as if Dux had confirmed its stock.
PublicIsConsistent ==
  (case.rule = "catalog" /\ Written(case.reading)) =>
    LET catalog == Served(case.reading, case.hidden, case.fresh)
        shown == {item \in ToSet(case.reading) : item.enabled /\ item.code \notin case.hidden}
        SlugsOf(item) == {c.slug : c \in ToSet(SourceCategories(item))}
    IN /\ {c.slug : c \in catalog.categories} = UNION {SlugsOf(item) : item \in shown}
       /\ \A c \in catalog.categories : c.count = Quantify(shown, LAMBDA item : c.slug \in SlugsOf(item))
       /\ \A p \in ToSet(catalog.products) : ~EffectivelyAvailable(p)

\* The price of a cart is fair: what is quoted passes the parser of a quote and the guard
\* of a redemption, no campaign the buyer has a right to gives more, a coupon that is taken
\* never costs its buyer anything, and the order in which the products were put in the cart
\* changes no price.
QuoteIsFair ==
  case.rule = "quote" =>
    LET lines == case.lines  campaigns == case.campaigns
        answer == ReadMarketingQuote(lines, campaigns, case.code)
        turned == ReadMarketingQuote(Reverse(lines), campaigns, case.code)
        plain == ReadMarketingQuote(lines, campaigns, "none")
    IN ~answer.refused =>
         /\ ParseMarketingQuote(answer.quote)
         /\ answer.quote.campaign # 0 => RedemptionGuard(campaigns, answer.quote)
         /\ \A k \in DOMAIN campaigns : Competes(campaigns, k, case.code = "mine")
              => CandidateQuote(campaigns, k, lines).discount <= answer.quote.discount
         /\ answer.quote.discount >= plain.quote.discount
         /\ ToSet(turned.quote.lines) = ToSet(answer.quote.lines)

\* The diagnosis and the guards agree.  A direct purchase is said to be ready exactly when
\* it is registered, prepared and paid for; with no blocker the assisted one is paid for
\* and registered; a request that is registered has no blocker, and one with neither
\* blocker nor warning is registered.  What the diagnosis does not look at is assumed:
\* the tenant of the readings, and when the stock was read.
DiagnosisHolds ==
  case.rule = "setting" =>
    LET s == case.s
        registered == WebOrderRegistrationEnabled(s)
        read == s.read # "future" /\ s.snapshot # "empty"
        readNow == s.read = "fresh" /\ s.maxAge /\ ~s.direct
    IN /\ (s.tenant = "same" /\ read) =>
            ((DirectBlockers(s) = {})
               <=> (registered /\ DirectCheckoutAdvances(s) /\ DirectCheckoutPaymentConfigured(s)))
       /\ AssistedBlockers(s) = {} => AssistedCheckoutConfigured(s) /\ (readNow => registered)
       /\ (registered /\ read) => WebBlockers(s) = {}
       /\ (WebBlockers(s) \cup WebWarnings(s) = {} /\ s.public # "none" /\ readNow) => registered

\* A product of the old catalogue is taken over automatically by one product of Dux at most,
\* and evidence wins: a product of Dux with evidence of one local product, and of nothing
\* else, gets it, whatever names are alike, unless another has the same evidence.
LinksFollowEvidence ==
  case.rule = "matching" =>
    LET items == case.items  locals == case.locals
        matches == Matches(items, locals)  plan == Plan(items, locals)
        Sole(code) == IF HardAmbiguous(items[code]) THEN {} ELSE Evidence(items[code], locals)
    IN /\ \A c, d \in DOMAIN items : c # d =>
            /\ IsAuto(plan[c]) /\ IsAuto(plan[d]) => plan[c].selected # plan[d].selected
            /\ matches[c].selected = matches[d].selected => matches[c].selected = "none"
       /\ \A c \in DOMAIN items :
            (Cardinality(Sole(c)) = 1 /\ \A d \in DOMAIN items \ {c} : Evidence(items[d], locals) # Sole(c))
              => plan[c].status = "confirmed_identity" /\ plan[c].selected \in Sole(c)

\* What is copied does not contradict Dux: no description that states another presentation
\* is ever recommended, and by its name alone a product takes over nothing from one of
\* another presentation, or of which its own texts disagree.
CopiesAgree ==
  case.rule = "matching" =>
    LET plan == Plan(case.items, case.locals)
    IN \A code \in DOMAIN plan :
         LET item == case.items[code]  proposal == plan[code]  l == case.locals[proposal.selected]
         IN /\ "description" \in proposal.fields => InText(l) \subseteq {item.pres}
            /\ proposal.status = "auto_full" =>
                 Effective(l) = {item.pres} \ {"none"} /\ InText(l) \subseteq {item.pres}

\* What a synchronisation stores can be read by the next one and by every page; two units
\* Dux reports are not mapped to one product; a unit keeps the product it was mapped to while
\* the product exists, whatever other evidence says, and is never given one by its name
\* after the first synchronisation; and readings with nothing new settle.
MappingsHold ==
  case.rule = "mapping" =>
    LET read(table) == Synchronised(table, case.units, case.locals, case.initial)
        after == read(case.table)  again == read(after)
        live == DOMAIN case.units
        Same(m, n) == [m EXCEPT !.source = "none"] = [n EXCEPT !.source = "none"]
        Changed(old, new) == \E k \in live : ~Same(old[k].mapping, new[k].mapping)
    IN /\ \A k \in DOMAIN after : ReadableMapping(after[k].mapping)
       /\ \A k, l \in live : k # l /\ after[k].mapping.status = "mapped" /\ after[l].mapping.status = "mapped"
            => after[k].mapping.local # after[l].mapping.local
       /\ \A k \in live : after[k].mapping.candidates \subseteq DOMAIN case.locals
       /\ \A k \in live \cap DOMAIN case.table :
            case.table[k].mapping.status = "mapped" /\ case.table[k].mapping.local \in DOMAIN case.locals
              => after[k].mapping.local = case.table[k].mapping.local
       /\ \A k \in live : after[k].mapping.source = "exact_name" => case.initial /\ DOMAIN case.table = {}
       /\ ~Changed(again, read(again))

\* A unit of Mercado Libre speaks for a product only if it was read in time by itself, and
\* no other that may speak names its code or its product; and none that may is silenced by
\* the age of the others.
CorroborationIsSound ==
  case.rule = "copy" =>
    LET used == CorroboratingUnits(case.rows, case.run, case.seller)
        speaks(i) == /\ case.rows[i].valid /\ case.rows[i].active /\ case.rows[i].age \in 0..MaxAge
                     /\ case.rows[i].mapping = "mapped" /\ case.rows[i].sync = "ok" /\ case.rows[i].sku # "none"
        rivals(i, j) == case.rows[i].sku = case.rows[j].sku \/ case.rows[i].local = case.rows[j].local
    IN \A i \in DOMAIN case.rows :
         i \in used <=> /\ case.run = "succeeded" /\ case.seller = "expected" /\ speaks(i)
                       /\ \A j \in DOMAIN case.rows \ {i} : ~(speaks(j) /\ rivals(i, j))

\* Two texts of one quantity become the same text, in grams or millilitres, and two of
\* different quantities never do: the result denotes the quantity, with no digit to spare.
QuantityIsKept ==
  case.rule = "amount" =>
    LET given == case.amount  result == CanonicalAmount(given, case.multiplier)
        Scaled(a) == (a.integer * 10^Len(a.digits) + DigitsValue(a.digits)) * 10^(5 - Len(a.digits))
    IN /\ Scaled(result) = Scaled(given) * case.multiplier
       /\ result.digits # <<>> => Last(result.digits) # 0

\* The reports of a period, each from a query of its own, tell one story: what the summary
\* says was paid is what the orders of the list and their payments show, once however
\* often one was paid; no order it calls pending is missing from the list it leads to, and
\* those nobody resolved are never cut off by newer ones; the funnel, the trend of the
\* days, the sources and the export count the same visits.
ReportsAgree ==
  case.rule = "report" /\ RangeAccepted(case.period) =>
    LET p == case.period
        orders == case.orders  seen == {e \in case.events : In(e.at, p)}
        summary == GetAdminSummary(orders, case.events, p)
        list == ListOrders(orders, p, Every, 100)
        inPeriod == {o \in ToSet(list) : In(o.at, p)}
        paid == {o \in inPeriod : o.status = "approved" /\ \E i \in DOMAIN o.payments : Exact(o.payments[i])}
        funnel == FunnelTable(GetAnalyticsFunnel(case.events, p))
        trend == GetAnalyticsTrend(case.events, p)
        products == GetAnalyticsProducts(case.events, p)
    IN /\ inPeriod = ToSet(ExportOrders(orders, p, Every, 1000)) /\ summary.orderCount = Cardinality(inPeriod)
       /\ summary.approvedRevenue = Amount(paid) /\ summary.approvedCount = Cardinality(paid)
       /\ PendingOrders(summary) <= Cardinality({o \in ToSet(list) : o.status \in {"preference_pending", "pending"}})
       /\ (\E o \in orders : ListFirst(o)) => ListFirst(Head(ListOrders(orders, p, Every, 1)))
       /\ ParseSummary(summary) =>
            /\ summary.approvedCount <= summary.approvedPaymentCount
            /\ \A name \in DOMAIN summary.eventSessionCount : summary.eventSessionCount[name] = funnel[name].sessions
            /\ \A day \in DOMAIN trend : trend[day].sessions <= summary.sessionCount
       /\ \A name \in TrendNames : funnel[name].events = MapThenSumSet(LAMBDA day : trend[day].counts[name], DOMAIN trend)
       /\ \A dimension \in {"source", "device"} : TotalEvents(GroupedBy(dimension, case.events, p)) = Cardinality(seen)
       /\ MapThenSumSet(LAMBDA day : RelevantEventTotal(trend[day]), DOMAIN trend) <= Cardinality(seen)
       /\ \A x \in DOMAIN products : products[x].convertedSessions <= products[x].viewSessions
                                     /\ products[x].cartAddSessions <= products[x].cartAdds

\* Nothing falls between two periods: those of a period are the orders and visits of the
\* days up to one and of the days after it, and what the server accepts the page offers.
PeriodsAddUp ==
  case.rule = "report" /\ RangeAccepted(case.period) =>
    LET p == case.period IN
    /\ RangeOffered(p)
    /\ \A day \in p.from .. p.to - 1 :
         LET Of(q) == GetAdminSummary(case.orders, case.events, q)
             before == [p EXCEPT !.to = day]  after == [p EXCEPT !.from = day + 1]
             Events(q) == TotalEvents(GroupedBy("source", case.events, q))
         IN /\ Of(p).orderCount = Of(before).orderCount + Of(after).orderCount
            /\ Of(p).approvedRevenue = Of(before).approvedRevenue + Of(after).approvedRevenue
            /\ Events(p) = Events(before) + Events(after)

\* Whatever happened to a purchase, every page can read what it is answered about it, and
\* those who look at it are told the same: the two pages of the buyer that it is paid or
\* not; the panel and the buyer's page the state of the money and of the goods, and that
\* they need a review.
ViewsAgree ==
  case.rule = "story" =>
    LET s == case.story
        buyer == GetWebRequestByToken(s)  admin == ReadAssistedCheckoutAdminState(s)  page == GetPublicOrderState(s)
    IN /\ ParseWebRequestReceipt(buyer) /\ ParseState(admin)
       /\ HasOrder(s) => ParsePublicOrder(page)
       /\ NextAction(s) # "none" => ParseAttention(s)
       /\ admin.stage = "prepared" =>
            /\ buyer.reservation = admin.reservation /\ buyer.review = admin.review
            /\ buyer.payment = IF admin.payment = "none" THEN "not_requested" ELSE admin.payment
       /\ ReceiptMessage(buyer) = "paid" => Presentation(page.payment) = "paid" /\ Has(s, "approved")
       /\ Presentation(page.payment) = "do not pay" => ReceiptMessage(buyer) = "do not pay"

\* What is offered is accepted.  A buyer who is shown the payment is not refused it, nobody
\* with a payment on its way is offered to pay again, and another purchase is offered only
\* when this one cannot be paid, and always when it failed; what the panel offers on a reservation the server does,
\* but for the 30 minutes of the preference and a payment pending beside a refunded one;
\* the list says to finalize exactly when the panel offers it, and a verification that can
\* be resumed by the panel is claimed by the server.
OffersAreKept ==
  case.rule = "story" =>
    LET s == case.story
        buyer == GetWebRequestByToken(s)  admin == ReadAssistedCheckoutAdminState(s)
        action == LifecycleActionFor(admin)
    IN /\ buyer.available => PaymentRefusal(s) = "none" /\ ReceiptMessage(buyer) = "pay"
       /\ buyer.available => ~Has(s, "approved") /\ ~Has(s, "pending") /\ ~Has(s, "refunded")
       /\ OffersAnother(buyer) => PaymentRefusal(s) # "none"
       /\ s.prep = "failed" \/ s.reservation = "released" => OffersAnother(buyer)
       /\ action = "finalize" => LifecycleRefusal(s, action) = "none"
       /\ action = "release" =>
            \/ LifecycleRefusal(s, action) \in {"none", "window_active"}
            \/ PaymentStatus(s) = "refunded" /\ (PaymentReview(s) \/ Has(s, "pending"))
       /\ NextAction(s) = "finalize" <=> action = "finalize"
       /\ OffersResume(admin) => ResumeClaims(s)

\* What Dux holds is what was bought.  The net prices that are asked come back, with their
\* VAT, as the total that was quoted, whatever the price, the rate, the units or the
\* discount; the order is found again under the reference as Dux writes it; and no order
\* that was annulled, changed by the staff, entered twice or is of another purchase is kept.
ReservesWhatIsBought ==
  case.rule = "order" =>
    LET p == case.progress  request == DirectProviderRequest(p)  order == DuxOrder(request)
        answer == FindOrder(case.listed, request)
        Goods(o) == {[code |-> line.code, quantity |-> line.quantity] : line \in ToSet(o.lines)}
    IN /\ ParseDirectProgress(p) /\ ValidateOrderRequest(request) /\ ParseStoredProviderRequest(request)
       /\ case.listed = <<order>> => IsKept(answer, p)
       /\ IsKept(answer, p) =>
            /\ answer.order \notin Retouched(order) /\ order.total = ProductsTotal(p)
            /\ Goods(answer.order) = {[code |-> line.code, quantity |-> line.quantity] : line \in ToSet(p.lines)}
            /\ Cardinality({i \in DOMAIN case.listed : case.listed[i].reference \in {"own", "OWN"}}) = 1

\* What is written about a purchase can be read by the next call, but for a reading with
\* a negative reserve, which stops it; and the stock is evidence: units that moved to the
\* reserve verify the line, a stock that nobody moved never does, and what was verified
\* of one line is not used again when another is put to a review.
EvidenceIsKept ==
  case.rule = "evidence" =>
    LET quantities == [i \in DOMAIN case.before |-> case.quantity]
        quoted == Quoted(case.before, quantities, case.discounted)
        first == AfterReading(quoted, case.after[1])
        last == IF Len(case.after) = 2 /\ Len(first.after) = 1 THEN AfterReading(first, case.after[2]) ELSE first
        Moved(i) == case.after[i].reserved - case.before[i].reserved = case.quantity
                    /\ case.after[i].available = case.before[i].available - case.quantity
        Still(i) == Quantities(case.after[i]) = Quantities(case.before[i])
        fit == \A i \in DOMAIN case.before : ~QuoteRefuses([quantity |-> case.quantity], case.before[i])
    IN fit => /\ ParseDirectProgress(quoted) <=> \A i \in DOMAIN case.before : case.before[i].reserved >= 0
              /\ ParseDirectProgress(quoted) =>
                   /\ ParseDirectProgress(last) <=> (last.review = <<>> \/ last.review[1].after.reserved >= 0)
                   /\ (\A i \in DOMAIN case.after : Moved(i)) => Len(last.after) = Len(last.lines)
                   /\ (\E i \in DOMAIN case.after : Still(i)) => last.after = <<>> \/ Len(last.after) < Len(last.lines)
                   /\ last.review # <<>> => last.after = <<>> /\ ~last.observed

\* The buyer is charged the order.  What both ways of preparing one write adds up to what
\* Mercado Pago is asked for, delivery included; and after an answer that was lost the
\* preference of that charge is taken up again, and no other: not one of other units or
\* prices with the same total, of another term, or one of two.
ChargeIsOrder ==
  case.rule = "charge" =>
    LET cart == ReadPaymentCart(case.order)  charged == CreatePaymentCart(cart)
        asked == Preference("order", charged, case.created)
        own == SelectSeq(case.found, LAMBDA p : p.reference = "order")
        result == Recover(case.found, "order", charged, case.created)
    IN /\ cart.fits /\ Over(asked.items, Cost) = case.order.total
       /\ ConfirmsTerm(asked, case.created) <=> IsActive(case.created)
       /\ result = "recovered" <=>
            /\ IsActive(case.created) /\ Len(own) = 1
            /\ ToSet(own[1].items) = ToSet(asked.items) /\ Len(own[1].items) = Len(asked.items)
            /\ [own[1] EXCEPT !.items = asked.items] = asked
       /\ result = "none" <=> own = <<>> /\ IsActive(case.created)

\* A payment counts the same by whichever way it is known: what a notification makes of it,
\* a reconciliation makes of it too, and it is a payment of the order; what a reconciliation
\* applies, a notification that says nothing else of it would have; and one payment that
\* is not of the order stops the reconciliation of all.
PaymentsAgree ==
  case.rule = "payment" =>
    LET payment == case.payment  notification == case.notification
        good == [payment EXCEPT !.reference = "order", !.metadata = "order", !.pesos = TRUE,
                                !.amount = "total", !.live = TRUE, !.collector = "us"]
        others == CASE case.other = "good" -> {good} [] case.other = "foreign" -> {[good EXCEPT !.metadata = "another"]} [] OTHER -> {}
        alone == ReconcileOutcome({payment})
        faithful == notification.payment /\ notification.live = payment.live /\ notification.user = payment.collector
    IN /\ WebhookOutcome(payment, notification) = "processed" => alone = "applied" /\ payment = [good EXCEPT !.collector = payment.collector]
       /\ (alone = "applied" /\ payment.reference = "order" /\ faithful) => WebhookOutcome(payment, notification) = "processed"
       /\ ReconcileOutcome({payment} \cup others) = "applied" <=> alone = "applied" /\ case.other # "foreign"

\* A purchase that the panel says needs a review is in the list of pending matters.
\* CommerceAttentionPanel.tsx:74: "Pedidos que necesitan una revisión del pago o de la
\* reserva en Dux".
ReviewsAreListed ==
  case.rule = "story" =>
    LET admin == ReadAssistedCheckoutAdminState(case.story)
    IN (admin.stage = "prepared" /\ admin.review) => NextAction(case.story) # "none"

\* The page can show the summary of every period, whatever was sold and visited in it.
\* The answer to the page's test, src/pages/AdminPage.test.tsx:475, has no orders and
\* four visits.
SummaryIsReadable ==
  case.rule = "report" /\ RangeAccepted(case.period) =>
    ParseSummary(GetAdminSummary(case.orders, case.events, case.period))

\* Every product that is enabled in a reading the server publishes is shown by the page.
\* docs/DUX_COMPLETE_CATALOG.md: "publica todos los códigos habilitados del último
\* snapshot Dux válido".
PublishedIsShown ==
  (case.rule = "catalog" /\ Written(case.reading) /\ ReadBack(case.reading).ok)
    => Loads(Served(case.reading, case.hidden, case.fresh))

\* What the shop shows of a product is what Dux, the preserved content and the evidence
\* of the scripts say of it.
CatalogueIsFaithful ==
  /\ PricesFollowTable /\ ContractHolds /\ PublicIsConsistent
  /\ LinksFollowEvidence /\ CopiesAgree /\ QuantityIsKept /\ MappingsHold /\ CorroborationIsSound

\* What a buyer is charged, and Dux is asked to reserve, is what was bought.
ChargesAreFair ==
  QuoteIsFair /\ ReservesWhatIsBought /\ EvidenceIsKept /\ ChargeIsOrder /\ PaymentsAgree

\* What operators, reports and buyers are told of the same rows agrees.
ViewsAreTrue == DiagnosisHolds /\ ReportsAgree /\ PeriodsAddUp /\ ViewsAgree /\ OffersAreKept
=============================================================================
