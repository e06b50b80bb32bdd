----------------------------- MODULE SalesReport -----------------------------
(***************************************************************************)
(* The reports of the administrator as functions of the rows they are read *)
(* from: the period (server/admin.ts, pages/AdminPage.tsx), the summary,   *)
(* the list and the export of orders (server/admin-fulfillment.ts), and    *)
(* the measurements of visits: funnel, products, trend, sources, devices.  *)
(*                                                                         *)
(* A day has four instants, the last one its last millisecond.  The total  *)
(* of an order is a number of its own; a payment is approved or not, and   *)
(* of the order's amount, currency and reference or not.  Money is left in *)
(* whole units; averages and percentages are left out, with the texts.     *)
(***************************************************************************)
EXTENDS Integers, Sequences, FiniteSets, SequencesExt, FiniteSetsExt

NoNumber      == -1       \* SQL's NULL where a count is expected
Every         == "every"    \* no product, or every status
InstantsOfDay == 4
MaxRangeDays  == 3    \* MAX_RANGE_DAYS, 366

Statuses   == {"preference_pending", "pending", "approved", "rejected", "cancelled", "refunded", "failed"}
Summarised == {"page_view", "product_view", "cart_add", "manual_payment_click", "whatsapp_open"}
FunnelNames == Summarised \cup {"checkout_start", "checkout_redirect"}
TrendNames  == Summarised \cup {"checkout_redirect"}

-----------------------------------------------------------------------------
(* The period *)

StartOfUtcDay(day) == day * InstantsOfDay

EndOfUtcDay(day) == StartOfUtcDay(day) + InstantsOfDay - 1

\* parseAdminRange, with both days given.
RangeAccepted(p) ==
  /\ StartOfUtcDay(p.from) <= EndOfUtcDay(p.to)
  /\ EndOfUtcDay(p.to) - StartOfUtcDay(p.from) <= MaxRangeDays * InstantsOfDay

\* validateDateRange, of the page.
RangeOffered(p) == p.from <= p.to /\ p.to - p.from <= MaxRangeDays

In(at, p) == StartOfUtcDay(p.from) <= at /\ at <= EndOfUtcDay(p.to)
Day(at)   == at \div InstantsOfDay

-----------------------------------------------------------------------------
(* Orders *)

Total(o) == 10 * o.id
Exact(payment) == payment.approved /\ payment.exact
ExactPayments(o) == Cardinality({i \in DOMAIN o.payments : Exact(o.payments[i])})
ConfirmedApproved(o) == o.status = "approved" /\ ExactPayments(o) > 0

Amount(orders) == MapThenSumSet(Total, orders)

Revenue(orders) == Amount(orders)

ListFirst(o) == o.channel = "whatsapp" /\ o.status = "pending"
Newer(a, b)  == a.at > b.at \/ (a.at = b.at /\ a.id < b.id)

\* The status a request asks for; Every asks for all.
Wanted(orders, status) == {o \in orders : status = Every \/ o.status = status}
Page(rows, limit) == SubSeq(rows, 1, Min({limit, Len(rows)}))

\* listAdminOrdersWithFulfillment: what is pending on WhatsApp comes first,
\* of whatever day.
ListOrders(orders, p, status, limit) ==
  Page(SetToSortSeq({o \in Wanted(orders, status) : ListFirst(o) \/ In(o.at, p)},
                    LAMBDA a, b : IF ListFirst(a) = ListFirst(b) THEN Newer(a, b) ELSE ListFirst(a)), limit)

\* exportOrdersWithFulfillmentCsv
ExportOrders(orders, p, status, limit) ==
  Page(SetToSortSeq({o \in Wanted(orders, status) : In(o.at, p)}, Newer), limit)

-----------------------------------------------------------------------------
(* Visits *)

Sessions(events) == Cardinality({e.session : e \in events})
Named(events, name) == {e \in events : e.name = name}

\* getAnalyticsFunnel has a row for each action that occurred; FunnelTable
\* shows all of them.
GetAnalyticsFunnel(events, p) ==
  LET seen == {e \in events : In(e.at, p)}
  IN [name \in {e.name : e \in seen} \cap FunnelNames |->
        [events |-> Cardinality(Named(seen, name)), sessions |-> Sessions(Named(seen, name))]]
FunnelTable(rows) == [name \in FunnelNames |-> IF name \in DOMAIN rows THEN rows[name] ELSE [events |-> 0, sessions |-> 0]]

\* getAnalyticsProducts: by product and session first, then by product.
GetAnalyticsProducts(events, p) ==
  LET seen == {e \in events : In(e.at, p) /\ e.product # Every /\ e.name \in {"product_view", "cart_add"}}
      Of(product, session, name) == Cardinality({e \in Named(seen, name) : e.product = product /\ e.session = session})
      Row(product) ==
        LET sessions == {e.session : e \in {f \in seen : f.product = product}}
            viewed == {s \in sessions : Of(product, s, "product_view") > 0}
            added  == {s \in sessions : Of(product, s, "cart_add") > 0}
        IN [views |-> MapThenSumSet(LAMBDA s : Of(product, s, "product_view"), sessions),
            cartAdds |-> MapThenSumSet(LAMBDA s : Of(product, s, "cart_add"), sessions),
            viewSessions |-> Cardinality(viewed), cartAddSessions |-> Cardinality(added),
            convertedSessions |-> Cardinality(viewed \cap added)]
  IN [product \in {e.product : e \in seen} |-> Row(product)]

\* getAnalyticsTrend: a row for every day of the period.
GetAnalyticsTrend(events, p) ==
  [day \in p.from .. p.to |->
     LET seen == {e \in events : In(e.at, p) /\ Day(e.at) = day}
     IN [sessions |-> Sessions(seen), counts |-> [name \in TrendNames |-> Cardinality(Named(seen, name))]]]

\* relevantEventTotal
RelevantEventTotal(row) == MapThenSumSet(LAMBDA name : row.counts[name], TrendNames)

\* getAnalyticsSources and getAnalyticsDevices.
GroupedBy(dimension, events, p) ==
  LET seen == {e \in events : In(e.at, p)}
  IN [value \in {e[dimension] : e \in seen} |->
        LET group == {e \in seen : e[dimension] = value} IN [events |-> Cardinality(group), sessions |-> Sessions(group)]]

\* The total of ParticipationTable.
TotalEvents(rows) == MapThenSumSet(LAMBDA value : rows[value].events, DOMAIN rows)

-----------------------------------------------------------------------------
(* The summary *)

\* getAdminSummary joins the orders of the period with one row of payments and
\* one of visits: without orders the join is empty, and of the two rows only
\* what is under a COALESCE is a number.
GetAdminSummary(orders, events, p) ==
  LET ranged == {o \in orders : In(o.at, p)}
      confirmed == {o \in ranged : ConfirmedApproved(o)}
      seen == {e \in events : In(e.at, p)}
      Bare(n) == IF ranged = {} THEN NoNumber ELSE n
      Coalesced(n) == IF ranged = {} THEN 0 ELSE n
  IN [orderCount |-> Cardinality(ranged),
      approvedRevenue |-> Revenue(confirmed),
      approvedCount |-> Cardinality(confirmed),
      approvedPaymentCount |-> Bare(MapThenSumSet(ExactPayments, ranged)),
      statusCount |-> [s \in Statuses \ {"approved"} |-> Cardinality({o \in ranged : o.status = s})],
      sessionCount |-> Bare(Sessions(seen)),
      eventCount |-> [name \in {"page_view", "manual_payment_click", "whatsapp_open"} |->
                        Coalesced(Cardinality(Named(seen, name)))],
      eventSessionCount |-> [name \in Summarised |-> Bare(Sessions(Named(seen, name)))]]

\* parseSummary, with readRequiredMetric: one value that is not a number and
\* the page says that the summary could not be shown.
ParseSummary(s) ==
  /\ s.approvedPaymentCount # NoNumber /\ s.sessionCount # NoNumber
  /\ \A name \in DOMAIN s.eventSessionCount : s.eventSessionCount[name] # NoNumber

\* SummaryAttention
PendingOrders(s) == s.statusCount["preference_pending"] + s.statusCount["pending"]

-----------------------------------------------------------------------------
(* Bounded inputs *)

Paid     == [approved |-> TRUE, exact |-> TRUE]
Short    == [approved |-> TRUE, exact |-> FALSE]
Waiting  == [approved |-> FALSE, exact |-> TRUE]
Payments == {<<>>, <<Paid>>, <<Paid, Paid>>, <<Waiting, Short>>}

OrdersOf(id) ==
  [id : {id}, at : {3, 4, 7, 8}, payments : Payments, channel : {"checkout_pro"},
   status : {"preference_pending", "approved", "refunded"}]
  \cup [id : {id}, at : {3, 4, 8}, payments : {<<>>}, channel : {"whatsapp"}, status : {"pending", "approved"}]
OrderSets == {{}} \cup {{a} : a \in OrdersOf(1)} \cup {{a, b} : a \in OrdersOf(1), b \in OrdersOf(2)}

Visit == [id |-> 1, session |-> 1, name |-> "page_view", product |-> Every, at |-> 4, source |-> "direct", device |-> "mobile"]
EventsOf(id, ats) ==
  {[Visit EXCEPT !.id = id, !.session = s, !.name = n, !.at = at,
                 !.product = IF n \in {"product_view", "cart_add"} THEN "a product" ELSE Every,
                 !.source = IF n = "cart_add" THEN "campaign" ELSE "direct"] :
     s \in {1, 2}, n \in {"page_view", "product_view", "cart_add", "consent_granted", "checkout_redirect"}, at \in ats}
EventSets == {{a, b, c} : a \in EventsOf(1, {4}), b \in EventsOf(2, {4, 7}), c \in EventsOf(3, {3, 8})}

SomeOrder == {o \in OrdersOf(1) : o.at = 4 /\ o.payments = <<Paid>> /\ o.status = "approved"}
Periods == [from : {1, 2}, to : 0..2]

ReportCases ==
  [rule : {"report"}, orders : OrderSets, events : {{Visit}}, period : Periods]
  \cup [rule : {"report"}, orders : {SomeOrder}, events : EventSets, period : {[from |-> 1, to |-> 1], [from |-> 1, to |-> 2]}]
=============================================================================
