---------------------------- MODULE MarketingQuote ----------------------------
(***************************************************************************)
(* The price of a cart under the marketing campaigns (server/marketing.ts),*)
(* and the two that check it afterwards: the parser of a quote and the     *)
(* trigger that guards a redemption.                                       *)
(*                                                                         *)
(* Amounts are minor units.  A line's product stands for its productId and *)
(* its code.  Campaigns come by priority and identifier, as the query      *)
(* orders them, and a campaign is known by its place.  At most one is the  *)
(* coupon that the buyer may name.                                         *)
(***************************************************************************)
EXTENDS Integers, Sequences, SequencesExt, FiniteSetsExt

None == 0                \* no bound: every bound of a campaign is positive
Now  == 2                \* the instant of the question; 1 is before it, 3 after

\* Everything but the terms: a campaign that runs.
Running == [enabled |-> TRUE, starts |-> None, ends |-> None, slots |-> None, taken |-> 0]

Active(c) ==
  /\ c.enabled
  /\ c.starts = None \/ c.starts <= Now
  /\ c.ends = None \/ c.ends > Now
  /\ c.slots = None \/ c.taken < c.slots

SumOf(n, F(_)) == FoldSet(LAMBDA i, sum : sum + F(i), 0, 1 .. n)
Subtotal(lines) == SumOf(Len(lines), LAMBDA i : lines[i].price * lines[i].quantity)

\* A quote: what each line costs a unit, and the campaign that made it so.
Base(lines) ==
  [campaign |-> 0, discount |-> 0, total |-> Subtotal(lines), subtotal |-> Subtotal(lines),
   lines |-> [i \in DOMAIN lines |-> lines[i] @@ [unit |-> lines[i].price, off |-> 0]]]

InCartOrder(lines) == [i \in DOMAIN lines |-> i]

\* "Stable ordering makes a capped quote independent of cart display order."
ByProduct(lines) == SetToSortSeq(DOMAIN lines, LAMBDA i, j : lines[i].product < lines[j].product)

\* The discount of a unit of every line: each takes what is left of the cap.
PerUnit(c, lines) ==
  LET Unbounded == Subtotal(lines)
      Take(state, i) ==
        LET line == lines[i]
            rounded == (line.price * c.percent + 50) \div 100
            eligible == c.codes = {} \/ line.product \in c.codes
            off == IF eligible THEN Min({rounded, line.price - 1, state.cap \div line.quantity}) ELSE 0
        IN [cap |-> state.cap - off * line.quantity, off |-> [state.off EXCEPT ![i] = off]]
  IN FoldLeft(Take, [cap |-> IF c.cap = None THEN Unbounded ELSE c.cap, off |-> [i \in DOMAIN lines |-> 0]],
              ByProduct(lines)).off

CandidateQuote(campaigns, k, lines) ==
  LET c == campaigns[k]
      off == PerUnit(c, lines)
      discount == SumOf(Len(lines), LAMBDA i : off[i] * lines[i].quantity)
  IN IF c.type = "announcement" \/ Subtotal(lines) < c.min \/ discount = 0 THEN Base(lines)
     ELSE [campaign |-> k, discount |-> discount, total |-> Subtotal(lines) - discount, subtotal |-> Subtotal(lines),
           lines |-> [i \in DOMAIN lines |-> lines[i] @@ [unit |-> lines[i].price - off[i],
                                                          off |-> off[i] * lines[i].quantity]]]

\* Without a campaign the answer is the base; a coupon that does not run, or does not
\* discount, is refused; of the rest the first of those that discount most is applied.
Refusal == [refused |-> TRUE]
Competes(campaigns, k, named) ==
  Active(campaigns[k]) /\ campaigns[k].type \in {"automatic"} \cup (IF named THEN {"coupon"} ELSE {})

ReadMarketingQuote(lines, campaigns, code) ==
  LET coupons == {k \in DOMAIN campaigns : campaigns[k].type = "coupon" /\ code = "mine"}
      Better(best, k) ==
        LET quote == CandidateQuote(campaigns, k, lines)
        IN IF quote.discount > best.discount THEN quote ELSE best
  IN IF code # "none" /\ ~\E k \in coupons : Active(campaigns[k])
                                           /\ CandidateQuote(campaigns, k, lines).discount > 0
     THEN Refusal
     ELSE [refused |-> FALSE,
           quote |-> FoldLeft(Better, Base(lines),
                       SelectSeq([k \in DOMAIN campaigns |-> k], LAMBDA k : Competes(campaigns, k, code = "mine")))]

\* What the order asks before it keeps a quote, and what the database asks before it
\* gives the order a slot of the campaign.
ParseMarketingQuote(quote) ==
  /\ \A i \in DOMAIN quote.lines :
       LET line == quote.lines[i]
       IN line.unit \in 1 .. line.price /\ line.off = (line.price - line.unit) * line.quantity
  /\ quote.subtotal = SumOf(Len(quote.lines), LAMBDA i : quote.lines[i].price * quote.lines[i].quantity)
  /\ quote.discount = SumOf(Len(quote.lines), LAMBDA i : quote.lines[i].off)
  /\ quote.total = quote.subtotal - quote.discount /\ quote.total >= 1
  /\ (quote.discount > 0) <=> (quote.campaign # 0)

RedemptionGuard(campaigns, quote) ==
  LET c == campaigns[quote.campaign]
  IN /\ c.type \in {"coupon", "automatic"} /\ Active(c)
     /\ quote.discount > 0 /\ quote.subtotal >= c.min
     /\ c.cap = None \/ quote.discount <= c.cap

-----------------------------------------------------------------------------
\* The cases.  Prices, quantities and terms are chosen so that rounding, the floor of one
\* minor unit, a cap that does not divide and the minimum all happen.
Cart(products, prices, quantities) ==
  {<<[product |-> p, price |-> a, quantity |-> n]>> : p \in products, a \in prices, n \in quantities}
Carts ==
  LET one == {1, 3, 150}  many == 1 .. 3
  IN Cart({1}, one, many) \cup {x \o y : x \in Cart({1}, one, many), y \in Cart({2}, one, many)}

Terms == [type : {"automatic", "coupon"}, percent : {1, 50, 90}, min : {0, 200}, cap : {None, 1, 5},
          codes : {{}, {1}, {2}}]
Others == [type : {"automatic"}, percent : {10, 50}, min : {0}, cap : {None, 5}, codes : {{}}]
          \cup [type : {"announcement"}, percent : {0}, min : {0}, cap : {None}, codes : {{}}]
Windows == [enabled : BOOLEAN, starts : {None, 2, 3}, ends : {None, 2, 3}, slots : {None, 1}, taken : {0, 1}]
Plain == [type |-> "automatic", percent |-> 50, min |-> 0, cap |-> None, codes |-> {}]

Lists ==
  {<<t @@ Running>> : t \in Terms} \cup {<<t @@ Running, o @@ Running>> : t \in Terms, o \in Others}
QuoteCases ==
  [rule : {"quote"}, lines : Carts, campaigns : Lists, code : {"none", "mine"}]
  \cup [rule : {"quote"}, lines : Cart({1}, {3, 150}, {2}), code : {"none", "mine", "other"},
        campaigns : {<<[Plain EXCEPT !.type = type] @@ w>> : type \in {"automatic", "coupon"}, w \in Windows}]
=============================================================================
