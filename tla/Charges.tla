-------------------------------- MODULE Charges --------------------------------
(***************************************************************************)
(* What Mercado Pago is asked to charge for a prepared order, what of its  *)
(* preferences is taken for that charge, and what of its payments counts   *)
(* as paid.  OrderPayment has the calls and their order; these are the     *)
(* values.  Prices are whole cents; an identifier is a name.               *)
(***************************************************************************)
EXTENDS Integers, Sequences, FiniteSets, SequencesExt

\* The term of a preference, CHECKOUT_IDEMPOTENCY_WINDOW_MS, and the instant of a question.
Window  == 3
Instant == 10
Shipping == "shipping-correo-argentino"
NotFit   == [fits |-> FALSE]

Over(seq, Of(_)) == FoldLeft(LAMBDA total, x : total + Of(x), 0, seq)
Cost(line)       == line.price * line.quantity

-----------------------------------------------------------------------------
(* The rows, as the two ways of preparing an order write them *)

\* validateShipping: nothing for who picks up, a price for who is sent.
ValidateShipping(method, shipping) == IF method = "coordinated_pickup" THEN shipping = 0 ELSE shipping > 0

\* prepareAssistedCheckout and createDraft, whose orders are all picked up.
Prepared(by, lines, method, shipping) ==
  [by |-> by, lines |-> lines, items |-> Over(lines, LAMBDA line : line.quantity),
   fulfillment |-> [method   |-> IF by = "direct" THEN "coordinated_pickup" ELSE method,
                    tier     |-> IF by = "direct" \/ method = "coordinated_pickup" THEN "coordinated_pickup" ELSE "correo_manual_quote",
                    weighed  |-> FALSE, products |-> Over(lines, Cost),
                    shipping |-> IF by = "direct" THEN 0 ELSE shipping],
   total |-> Over(lines, Cost) + IF by = "direct" THEN 0 ELSE shipping]

-----------------------------------------------------------------------------
(* The charge: assisted-payment.ts and fulfillment.ts *)

ReadShippingTier(row) ==
  \/ row.method = "coordinated_pickup" /\ row.tier = "coordinated_pickup" /\ row.shipping = 0
  \/ row.method = "correo_argentino" /\ row.tier = "correo_manual_quote" /\ row.shipping > 0 /\ ~row.weighed
  \/ row.method = "correo_argentino" /\ row.tier \in {"correo_up_to_1kg", "correo_up_to_5kg"} /\ row.shipping > 0 /\ row.weighed

ReadPaymentCart(order) ==
  IF /\ order.lines # <<>> /\ ReadShippingTier(order.fulfillment)
     /\ \A line \in ToSet(order.lines) : line.quantity > 0 /\ line.price > 0
     /\ Over(order.lines, Cost) = order.fulfillment.products
     /\ Over(order.lines, LAMBDA line : line.quantity) = order.items
     /\ order.fulfillment.products + order.fulfillment.shipping = order.total
  THEN [fits |-> TRUE, lines |-> order.lines, shipping |-> order.fulfillment.shipping, total |-> order.total]
  ELSE NotFit

CreatePaymentCart(cart) ==
  IF cart.shipping = 0 THEN cart
  ELSE [cart EXCEPT !.lines = Append(@, [product |-> Shipping, quantity |-> 1, price |-> cart.shipping])]

-----------------------------------------------------------------------------
(* The preference: mercado-pago.ts *)

IsActive(created) == created + Window > Instant      \* requireActivePreferenceTerm
\* createMercadoPagoPreference's body, with what Mercado Pago adds to it.
Preference(order, cart, created) ==
  [id |-> 1, reference |-> order, items |-> cart.lines, pesos |-> TRUE, expired |-> FALSE,
   from |-> created, to |-> created + Window]

\* assertCreatedPreferenceExpiration.
ConfirmsTerm(answer, created) ==
  answer.from = created /\ answer.to = created + Window /\ ~answer.expired /\ IsActive(created)

AssertPreferenceMatchesCart(preference, cart) ==
  /\ preference.pesos /\ Len(preference.items) = Len(cart.lines)
  /\ IsInjective([i \in DOMAIN preference.items |-> preference.items[i].product])
  /\ \A item \in ToSet(preference.items) : item \in ToSet(cart.lines)
  /\ Over(preference.items, Cost) = cart.total

\* recoverMercadoPagoPreference among what a search by reference returns.
Recover(found, order, cart, created) ==
  LET own == SelectSeq(found, LAMBDA p : p.reference = order)
  IN IF ~IsActive(created) THEN "expired"
     ELSE IF own = <<>> THEN "none"
     ELSE CASE Len(own) > 1 -> "ambiguous"
            [] OTHER -> LET p == Head(own)
                            sameTerm == p.from = created /\ p.to = created + Window
                        IN IF ~AssertPreferenceMatchesCart(p, cart) \/ ~sameTerm THEN "mismatch"
                           ELSE IF p.expired THEN "expired" ELSE "recovered"

\* What else may be under the reference of an order.
Varied(p) ==
  {[p EXCEPT !.items[1].quantity = @ + 1], [p EXCEPT !.items[1].price = @ + 1], [p EXCEPT !.items[1].product = "z"],
   [p EXCEPT !.items = Tail(@)], [p EXCEPT !.items = Append(@, Head(@))],
   [p EXCEPT !.items = [i \in DOMAIN @ |-> Head(@)]],
   [p EXCEPT !.items = [i \in DOMAIN @ |-> [@[i] EXCEPT !.price = p.items[Len(p.items) + 1 - i].price]]],
   [p EXCEPT !.pesos = FALSE], [p EXCEPT !.from = @ - 1], [p EXCEPT !.to = @ + 1], [p EXCEPT !.expired = TRUE]} \ {p}

-----------------------------------------------------------------------------
(* The payment: mercado-pago.ts, the webhook and the reconciliation *)

\* getMercadoPagoPayment: an amount that is no number of cents, or no account, is refused.
GetMercadoPagoPayment(payment) == payment.amount # "fraction" /\ payment.collector # "none"

\* mapPaymentStatus.
MapPaymentStatus(status) ==
  IF status \in {"approved", "rejected", "cancelled"} THEN status
  ELSE IF status \in {"refunded", "charged_back"} THEN "refunded" ELSE "pending"

\* mercadoPagoPaymentContextError; the reconciliation has no notification.
NoNotification == [given |-> FALSE]
InContext(payment, notification) ==
  /\ payment.live /\ (notification.given => notification.live)
  /\ notification.given => payment.collector = notification.user
  /\ payment.metadata = "order"

\* updateOrderFromPayment's own check, and the row it leaves.
FitsOrder(payment) == payment.reference = "order" /\ payment.pesos /\ payment.amount = "total"

\* The handler of the webhook, for an event that was claimed.
WebhookOutcome(payment, notification) ==
  IF ~notification.payment THEN "ignored"
  ELSE IF ~GetMercadoPagoPayment(payment) THEN "failed"
  ELSE CASE payment.reference # "order" -> "ignored"
         [] OTHER -> IF ~payment.pesos \/ payment.amount # "total" \/ ~InContext(payment, notification)
                     THEN "ignored" ELSE IF FitsOrder(payment) THEN "processed" ELSE "failed"

\* reconcileMercadoPagoOrder: all the payments of the order are applied, or none is.
ReconcileOutcome(payments) ==
  LET own == {p \in payments : p.reference = "order"}
  IN IF \E p \in own : ~GetMercadoPagoPayment(p) \/ ~InContext(p, NoNotification) \/ ~FitsOrder(p)
     THEN "refused" ELSE "applied"

-----------------------------------------------------------------------------
(* The cases *)
OrderLines ==
  LET Of(product, prices) == [product : {product}, quantity : {1, 2}, price : prices]
  IN {<<a>> : a \in Of("a", {100, 150})} \cup {<<a, b>> : a \in Of("a", {100, 200}), b \in Of("b", {100, 200})}
Orders ==
  {Prepared("direct", lines, "coordinated_pickup", 0) : lines \in OrderLines} \cup
  {Prepared("assisted", lines, m, s) : lines \in OrderLines,
     <<m, s>> \in {x \in {"coordinated_pickup", "correo_argentino"} \X {0, 100} : ValidateShipping(x[1], x[2])}}
\* What the search returns: the preference, what became of it, or others.
Searches(p) ==
  LET other == [p EXCEPT !.reference = "another"]
  IN {<<>>, <<other>>, <<p>>, <<p, other>>, <<[p EXCEPT !.items = Reverse(@)]>>, <<p, p>>}
       \cup {<<v>> : v \in Varied(p)} \cup {<<v, p>> : v \in Varied(p)}
ChargeCases ==
  UNION {UNION {{[rule |-> "charge", order |-> o, created |-> c, found |-> f] :
                   f \in IF ReadPaymentCart(o).fits THEN Searches(Preference("order", CreatePaymentCart(ReadPaymentCart(o)), c)) ELSE {<<>>}} :
                c \in Instant - Window .. Instant} : o \in Orders}

PaymentsSeen ==
  [reference : {"order", "another"}, metadata : {"order", "another", "none"}, pesos : BOOLEAN,
   amount : {"total", "less", "fraction"}, live : BOOLEAN, collector : {"us", "them", "none"},
   status : {"approved", "charged_back", "in_process", "cancelled"}]
Notifications == [given : {TRUE}, payment : BOOLEAN, live : BOOLEAN, user : {"us", "them"}]
PaymentCases == [rule : {"payment"}, payment : PaymentsSeen, notification : Notifications, other : {"none", "good", "foreign"}]
=============================================================================
