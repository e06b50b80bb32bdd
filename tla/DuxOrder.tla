------------------------------- MODULE DuxOrder -------------------------------
(***************************************************************************)
(* What a direct purchase asks of Dux and what it takes of Dux's answers:  *)
(* the order with its net prices, the order found later by its reference,  *)
(* the stock read before and after, and the progress that keeps all of it  *)
(* between two calls.  DirectCheckout has the calls; these are the values. *)
(*                                                                         *)
(* Prices are whole cents.  A net price is kept in Scale-ths of a cent, a  *)
(* rate of VAT as twice its percentage (10.5 is 21).                       *)
(***************************************************************************)
EXTENDS Integers, Sequences, FiniteSets, SequencesExt

NoBase == 0                                     \* a line without discount
MaxUnits == 99

\* toFixed(8) of pesos is a millionth of a cent; here a thousandth.
Scale == 1000
Rounded(n, d) == (n + d \div 2) \div d

SumOver(lines, Of(_)) == FoldLeft(LAMBDA total, line : total + Of(line), 0, lines)
CodesOf(lines)    == [i \in DOMAIN lines |-> lines[i].code]

-----------------------------------------------------------------------------
(* The progress of a purchase: direct-checkout-progress.ts *)

\* A reading, as parseItem admits it.
ParseItem(item) == item.price > 0 /\ item.vat \in 0..200 /\ item.reserved >= 0
Quantities(item) == [real |-> item.real, reserved |-> item.reserved, available |-> item.available]

\* advanceDirectCheckout's quote of one line, and its lines again under a discount.
QuoteRefuses(requested, item) == item.available < requested.quantity
QuoteLine(requested, item) ==
  [code |-> requested.code, quantity |-> requested.quantity, price |-> item.price, base |-> NoBase, before |-> item]
PricedLine(line, price) == [line EXCEPT !.price = price, !.base = line.before.price]

\* A discount makes the quote of every line part of the progress.
Progress(lines, discounted) ==
  [lines |-> lines,
   quote |-> IF ~discounted THEN <<>> ELSE
     [i \in DOMAIN lines |-> [code |-> lines[i].code, base |-> lines[i].base, unit |-> lines[i].price, quantity |-> lines[i].quantity]],
   order |-> <<>>, after |-> <<>>, observed |-> FALSE, review |-> <<>>]

ParseLine(line, quote) ==
  /\ ParseItem(line.before) /\ line.code = line.before.code
  /\ line.quantity \in 1..MaxUnits /\ line.price > 0 /\ line.before.available >= line.quantity
  /\ IF quote = <<>> THEN line.price = line.before.price /\ line.base = NoBase
     ELSE /\ line.base = line.before.price
          /\ \E q \in ToSet(quote) : q = [code |-> line.code, base |-> line.base, unit |-> line.price, quantity |-> line.quantity]

\* parseDirectReservationReview, and the line it is about.
ParseReview(review, lines) ==
  /\ review.before.reserved >= 0 /\ review.after.reserved >= 0
  /\ \E line \in ToSet(lines) : /\ line.code = review.code /\ line.quantity = review.quantity
                                /\ Quantities(line.before) = review.before

ParseDirectProgress(p) ==
  /\ \A line \in ToSet(p.lines) : ParseLine(line, p.quote)
  /\ IsInjective(CodesOf(p.lines))
  /\ p.quote # <<>> => Len(p.quote) = Len(p.lines)
  /\ \A item \in ToSet(p.after) : ParseItem(item) /\ item.code \in ToSet(CodesOf(p.lines))
  /\ IsInjective(CodesOf(p.after)) /\ Len(p.after) <= Len(p.lines)
  /\ p.after # <<>> => p.observed
  /\ \A review \in ToSet(p.review) : ParseReview(review, p.lines)

HasPhysicalReservation(line, item) ==
  /\ item.code = line.code /\ item.available >= 0 /\ item.real = line.before.real
  /\ item.reserved >= line.before.reserved + line.quantity
  /\ item.available <= line.before.available - line.quantity

\* advanceReservation with the reading after the POST: kept, or put to a review with
\* everything to be looked up again.
AfterReading(p, item) ==
  LET line == p.lines[Len(p.after) + 1]
  IN IF HasPhysicalReservation(line, item)
     THEN [p EXCEPT !.after = Append(@, item), !.observed = TRUE, !.review = <<>>]
     ELSE [p EXCEPT !.order = <<>>, !.after = <<>>, !.observed = FALSE,
             !.review = <<[code |-> line.code, quantity |-> line.quantity,
                           before |-> Quantities(line.before), after |-> Quantities(item)]>>]

-----------------------------------------------------------------------------
(* The order that is asked: directProviderRequest and its readers *)

NetPrice(line) == Rounded(line.price * 200 * Scale, 200 + line.before.vat)
DirectProviderRequest(p) ==
  [company |-> "ours", branch |-> "ours", reference |-> "own",
   items |-> [i \in DOMAIN p.lines |-> [code |-> p.lines[i].code, quantity |-> p.lines[i].quantity,
                                        net |-> NetPrice(p.lines[i]), vat |-> p.lines[i].before.vat]]]

\* validateOrderRequest before the POST, parseStoredProviderRequest of what was stored.
ValidateOrderRequest(request) ==
  /\ request.items # <<>> /\ IsInjective(CodesOf(request.items))
  /\ \A item \in ToSet(request.items) : item.quantity \in 1..MaxUnits /\ item.net > 0 /\ item.vat \in 0..200
ParseStoredProviderRequest(request) == ValidateOrderRequest(request)
ProductsTotal(p) == SumOver(p.lines, LAMBDA line : line.quantity * line.price)

-----------------------------------------------------------------------------
(* Dux, from how its answers are read: it keeps the reference in capitals and adds the   *)
(* VAT to what it was given, line by line                                                *)
Gross(line) == Rounded(line.net * line.quantity * (200 + line.vat), 200 * Scale)
DuxOrder(request) ==
  [number |-> 1, company |-> request.company, branch |-> request.branch, reference |-> "OWN", cancelled |-> FALSE,
   pesos |-> TRUE,
   lines |-> [i \in DOMAIN request.items |->
                [code |-> request.items[i].code, variant |-> "none", quantity |-> request.items[i].quantity,
                 net |-> request.items[i].net, vat |-> request.items[i].vat, discount |-> 0]],
   total |-> SumOver(request.items, Gross)]

\* What else may be there under a filter that is not presumed exact: orders of others,
\* and this one as the staff left it.
Retouched(order) ==
  {[order EXCEPT !.cancelled = TRUE], [order EXCEPT !.branch = "other"], [order EXCEPT !.company = "other"],
   [order EXCEPT !.reference = "OWN-2"], [order EXCEPT !.pesos = FALSE],
   [order EXCEPT !.lines[1].quantity = @ + 1], [order EXCEPT !.lines[1].net = @ + 1], [order EXCEPT !.lines[1].vat = 200 - @],
   [order EXCEPT !.lines[1].discount = 10], [order EXCEPT !.lines[1].variant = "red"], [order EXCEPT !.lines[1].code = "z"],
   [order EXCEPT !.lines = Append(@, Head(@))], [order EXCEPT !.lines = Tail(@)],
   [order EXCEPT !.lines = [i \in DOMAIN @ |-> Head(@)]], [order EXCEPT !.total = @ + 1]} \ {order}

-----------------------------------------------------------------------------
(* The orders that are found: dux-order-api.ts *)

MatchesDuxReference(actual, expected) ==
  actual = expected \/ (expected = "own" /\ actual = "OWN")

ParseDuxOrderEvidence(order) == order.lines # <<>> /\ order.pesos /\ order.total > 0

DuxOrderMatchesRequest(order, request) ==
  /\ order.company = request.company /\ order.branch = request.branch
  /\ MatchesDuxReference(order.reference, request.reference) /\ ~order.cancelled
  /\ Len(order.lines) = Len(request.items) /\ IsInjective(CodesOf(order.lines))
  /\ \A line \in ToSet(order.lines) :
       /\ line.variant = "none" /\ line.discount = 0
       /\ \E item \in ToSet(request.items) :
            item = [code |-> line.code, quantity |-> line.quantity, net |-> line.net, vat |-> line.vat]

\* findOrder: "invalid" refuses the whole answer, of which one order is of others.
FindOrder(orders, request) ==
  LET matching == SelectSeq(orders, LAMBDA o : MatchesDuxReference(o.reference, request.reference))
  IN CASE \E o \in ToSet(orders) : ~ParseDuxOrderEvidence(o) \/ o.company # request.company \/ o.branch # request.branch
            -> [found |-> "invalid"]
       [] OTHER -> CASE Len(matching) > 1 -> [found |-> "ambiguous"]
                     [] matching = <<>>   -> [found |-> "none"]
                     [] OTHER             -> [found |-> "one", order |-> Head(matching)]

\* The order advanceReservation keeps.
IsKept(answer, p) ==
  /\ answer.found = "one" /\ DuxOrderMatchesRequest(answer.order, DirectProviderRequest(p))
  /\ answer.order.total = ProductsTotal(p)

-----------------------------------------------------------------------------
(* The cases *)
Reading(code, price, vat, reserved, available) ==
  [code |-> code, price |-> price, vat |-> vat, real |-> reserved + available, reserved |-> reserved, available |-> available]

\* A purchase as it was quoted, of wares with no more than it asks for; a discount halves
\* the price of every line.
Quoted(readings, quantities, discounted) ==
  Progress([i \in DOMAIN readings |->
              LET line == QuoteLine([code |-> readings[i].code, quantity |-> quantities[i]], readings[i])
              IN IF discounted THEN PricedLine(line, line.price \div 2) ELSE line], discounted)

\* Bound: TLC's integers are of 32 bits, which a line of 100 pesos fills.
MaxSubtotal == 10000
Wares(code, prices, vats, quantities) ==
  {w \in [code : {code}, price : prices, vat : vats, quantity : quantities] : w.price * w.quantity <= MaxSubtotal}
Purchases ==
  {<<a>> : a \in Wares("a", {201, 203, 999, 1999, 10000}, {0, 21, 42, 200}, {1, 3, 7, 49})} \cup
  {<<a, b>> : a \in Wares("a", {201, 5001}, {21, 42}, {1, 49}), b \in Wares("b", {333}, {21, 42}, {2})}
\* What Dux lists: this order alone, retouched, or with another, in either order.
Listings(order) ==
  LET reversed == [order EXCEPT !.lines = Reverse(@)]
  IN {<<>>, <<order>>, <<reversed>>, <<order, order>>, <<[order EXCEPT !.reference = "own"]>>}
       \cup {<<o>> : o \in Retouched(order)} \cup {<<o, order>> : o \in Retouched(order)}
OrderCases ==
  UNION {{[rule |-> "order", progress |-> p, listed |-> l] : l \in Listings(DuxOrder(DirectProviderRequest(p)))} :
           p \in {Quoted([i \in DOMAIN w |-> Reading(w[i].code, w[i].price, w[i].vat, 0, w[i].quantity)],
                       [i \in DOMAIN w |-> w[i].quantity], d) : w \in Purchases, d \in BOOLEAN}}

\* One or two lines, and what Dux said of the stock of each before and after.
Stocks(code) == {Reading(code, 500, 42, r, v) : r \in -1..1, v \in 1..3}
StockCases ==
  {[rule |-> "evidence", quantity |-> q, before |-> <<b>>, after |-> <<a>>, discounted |-> d] :
     q \in 1..2, b \in Stocks("a"), a \in {Reading("a", p, 42, r, v) : p \in {400, 500}, r \in -1..4, v \in 0..3}, d \in BOOLEAN} \cup
  {[rule |-> "evidence", quantity |-> 1, before |-> <<b, Reading("b", 500, 42, 0, 2)>>,
    after |-> <<a, Reading("b", 500, 42, r, 2 - r)>>, discounted |-> FALSE] :
     b \in Stocks("a"), a \in {Reading("a", 500, 42, r, v) : r \in 0..2, v \in 0..2}, r \in 0..1}
DuxOrderCases == OrderCases \cup StockCases
=============================================================================
