----------------------------- MODULE OrderStory -----------------------------
(***************************************************************************)
(* What is said of one purchase, and offered on it, by every part of the   *)
(* program that reads its rows: the buyer's page, the status page, the     *)
(* administrator's panel, the list of pending matters, the payment and the *)
(* lifecycle of the reservation.  Each composes its own answer from the    *)
(* same rows, and each page checks what it is answered.                    *)
(*                                                                         *)
(* A story is the rows of a purchase as DirectCheckout and OrderPayment    *)
(* leave them; times are whether the 30 minutes of the preference run, and *)
(* amounts whether a discount was redeemed.  Rows that those modules show  *)
(* never to exist (a reservation without its operation) are left out.      *)
(***************************************************************************)
EXTENDS Naturals, Sequences, FiniteSets, SequencesExt

Absent       == "absent"
PaymentKinds == {"approved", "refunded", "pending", "rejected", "cancelled"}
Settled      == {"confirmed", "released", "finalized"}   \* Dux has the order
Unsettled    == {"not_attempted", "pending", "uncertain"}
Unavailable  == "unavailable"       \* an answer 503 instead of a view

Count(story, kind) == Cardinality({i \in DOMAIN story.payments : story.payments[i] = kind})
Has(story, kind)   == Count(story, kind) > 0
HasOrder(story)    == story.by # "none"

-----------------------------------------------------------------------------
(* The money: order-payment-state.ts *)

\* orderPaymentStatusSql; the projection of updateOrderFromPayment goes through the
\* same order of preference.
PaymentStatus(story) ==
  CASE Has(story, "approved")  -> "approved"
    [] ~Has(story, "approved") /\ Has(story, "refunded") -> "refunded"
    [] OTHER -> IF Has(story, "pending") THEN "pending"
                ELSE IF Has(story, "rejected") THEN "rejected"
                ELSE IF Has(story, "cancelled") THEN "cancelled" ELSE "none"

PaymentReview(story) ==
  \/ Count(story, "approved") > 1
  \/ Has(story, "approved") /\ story.status # "approved"
  \/ ~Has(story, "approved") /\ Has(story, "refunded") /\ story.status # "refunded"

GetOrderPaymentState(story) == [status |-> PaymentStatus(story), review |-> PaymentReview(story)]

GetPublicOrderState(story) ==
  [status |-> story.status, payment |-> GetOrderPaymentState(story)]

ParseOrderPaymentState(payment) == payment.status \in PaymentKinds \cup {"none"} /\ payment.review \in BOOLEAN
ParsePublicOrder(view) ==
  /\ view.status \in {"preference_pending", "pending", "approved", "rejected", "cancelled", "refunded", "failed"}
  /\ ParseOrderPaymentState(view.payment)

\* paymentStatePresentation, reduced to what the buyer is told to do.
Presentation(payment) ==
  CASE payment.status = "approved" -> IF payment.review THEN "do not pay" ELSE "paid"
    [] payment.status = "pending"  -> "do not pay"
    [] payment.status = "refunded" -> "refunded"
    [] OTHER -> "not paid"

-----------------------------------------------------------------------------
(* The buyer's page: web-order-requests.ts *)

\* The same in both readers: what the money says against what the goods say.
LifecycleNeedsReview(story) ==
  \/ PaymentStatus(story) = "approved" /\ story.reservation \notin {"confirmed", "finalized"}
  \/ PaymentStatus(story) = "refunded" /\ story.reservation # "released"

\* Mutant: the reader does not know the last state.
FinalizedIsReview(story) ==
  IF story.by = "automatic_api" /\ story.reservation \in Unsettled THEN "not_reserved"
  ELSE IF story.reservation \in {"confirmed", "released"} THEN story.reservation ELSE "requires_review"
ReadReservationStatus(story) ==
  IF story.by = "automatic_api" /\ story.reservation \in Unsettled THEN "not_reserved"
  ELSE IF story.reservation \in Settled THEN story.reservation ELSE "requires_review"

PreferenceAttemptCanContinue(story) == story.preference = "none" \/ story.active

\* readMarketingPricing; a discount that was redeemed is in the operation too.
ReadMarketingPricing(story) == IF story.discounted THEN "discount" ELSE "none"

\* readAssistedPublicOrder's total, hidden while the purchase is not reserved.
ShowsTotal(story) == ~(story.by = "automatic_api" /\ ReadReservationStatus(story) = "not_reserved")

GetWebRequestByToken(story) ==
  LET payment == GetOrderPaymentState(story)
      reservation == ReadReservationStatus(story)
  IN IF ~HasOrder(story)
     THEN [preparation |-> story.prep, payment |-> "not_requested", review |-> FALSE,
           reservation |-> "not_reserved", available |-> FALSE, total |-> FALSE, pricing |-> "none"]
     ELSE [preparation |-> story.prep,
           payment     |-> IF payment.status = "none" THEN "not_requested" ELSE payment.status,
           review      |-> payment.review \/ LifecycleNeedsReview(story),
           reservation |-> reservation,
           available   |-> /\ reservation = "confirmed"
                           /\ payment.status \notin {"pending", "approved", "refunded"}
                           /\ story.status \notin {"approved", "refunded"}
                           /\ PreferenceAttemptCanContinue(story),
           total       |-> ShowsTotal(story),
           pricing     |-> IF ShowsTotal(story) THEN ReadMarketingPricing(story) ELSE "none"]

\* parseWebRequestReceipt and parseWebRequestPricing.
ParseWebRequestReceipt(view) ==
  /\ view.payment \in PaymentKinds \cup {"not_requested"}
  /\ view.reservation \in Settled \cup {"not_reserved", "requires_review"}
  /\ view.preparation \in {"none", "preparing", "uncertain", "prepared", "failed", "requires_review"}
  /\ view.payment # "not_requested" \/ view.reservation # "not_reserved" => view.total
  /\ view.available => /\ view.reservation = "confirmed" /\ view.total
                       /\ view.payment \notin {"pending", "approved", "refunded"}
  /\ view.pricing # "none" => view.total

\* receiptStatusMessage, reduced likewise, and canPrepareAnother; a request that the
\* administrator rejected has no purchase, and is left to WebRequests.
ReceiptMessage(view) ==
  CASE view.payment = "approved" -> IF view.review THEN "do not pay" ELSE "paid"
    [] view.payment = "refunded" -> "refunded"
    [] view.payment = "pending"  -> "do not pay"
    [] OTHER ->
       CASE view.preparation \in {"preparing", "uncertain"} -> "wait"
         [] view.preparation = "failed" -> "start another"
         [] view.preparation = "requires_review" \/ view.reservation = "requires_review" -> "ask"
         [] OTHER -> CASE view.reservation = "released"  -> "start another"
                       [] view.reservation = "confirmed" -> IF view.available THEN "pay" ELSE "wait"
                       [] OTHER -> "wait"
OffersAnother(view) ==
  \/ view.preparation = "failed" /\ ~view.total
  \/ view.reservation \in {"released", "finalized"}

-----------------------------------------------------------------------------
(* The payment: the refusals of assisted-payment.ts *)

\* createOrRecoverAssistedPreference up to the call to Mercado Pago: what it throws
\* before it gives, recovers or creates a preference.
PaymentRefusal(story) ==
  CASE ~HasOrder(story) -> "not_found"
    [] HasOrder(story) /\ story.reservation # "confirmed" -> "reservation_required"
    [] OTHER -> IF story.status \in {"approved", "refunded"} THEN "already_finalized"
                ELSE IF story.preference = "ready" /\ ~story.active THEN "expired"
                ELSE IF story.preference = "none" /\ story.status \notin {"preference_pending", "failed"}
                     THEN "in_progress" ELSE "none"

-----------------------------------------------------------------------------
(* The administrator's panel: assisted-checkout-admin-state.ts *)

ReadAssistedCheckoutAdminState(story) ==
  LET payment == GetOrderPaymentState(story)
  IN IF story.prep \notin {"none", "prepared"}
     THEN [stage |-> "direct_preparing", preparation |-> story.prep, evidence |-> story.evidence]
     ELSE IF ~HasOrder(story) THEN [stage |-> "preview"]
     ELSE IF story.reservation \notin Settled THEN [stage |-> Unavailable]
     ELSE [stage |-> "prepared", reservation |-> story.reservation, payment |-> payment.status,
           review |-> payment.review \/ LifecycleNeedsReview(story)]

ParseState(view) ==
  /\ view.stage \in {"direct_preparing", "preview", "prepared"}
  /\ view.stage = "direct_preparing" => view.preparation \in {"preparing", "uncertain", "failed", "requires_review"}
  /\ view.stage = "prepared" => /\ view.reservation \in Settled \cup {"requires_review"}
                                /\ view.payment \in PaymentKinds \cup {"none"}

\* What the administrator is offered for the reservation.
LifecycleActionFor(view) ==
  IF view.stage # "prepared" \/ view.reservation # "confirmed" THEN "none"
  ELSE CASE view.payment = "approved" -> IF view.review THEN "none" ELSE "finalize"
         [] view.payment = "pending" -> "none"
         [] OTHER -> IF view.review /\ view.payment # "refunded" THEN "none" ELSE "release"

OffersResume(view) ==
  /\ view.stage = "direct_preparing"
  /\ \/ view.preparation \in {"preparing", "uncertain"}
     \/ view.preparation = "requires_review" /\ view.evidence

\* The claim of advanceDirectCheckout with resumeReview: its WHERE, but for the lease.
ResumeClaims(story) ==
  \/ story.prep \in {"preparing", "uncertain"}
  \/ story.prep = "requires_review" /\ HasOrder(story) /\ story.reservation \in {"pending", "uncertain"}

\* inspectAssistedDuxLifecycle and confirmAssistedDuxLifecycle before their batch, and the
\* financial guard of 0023 on it.
LifecycleRefusal(story, action) ==
  LET payment == GetOrderPaymentState(story)
  IN IF story.reservation = (IF action = "release" THEN "released" ELSE "finalized") THEN "none"   \* done already
     ELSE CASE story.reservation # "confirmed" -> "review"
            [] story.reservation = "confirmed" /\ action = "release" ->
                 IF story.preference # "none" /\ story.active THEN "window_active"
                 ELSE IF payment.review THEN "payment_review"
                 ELSE IF Has(story, "approved") \/ Has(story, "pending") THEN "payment_blocked" ELSE "none"
            [] OTHER ->
                 IF story.preference # "ready" THEN "payment_required"
                 ELSE IF payment.review THEN "payment_review"
                 ELSE IF payment.status # "approved" THEN "payment_required" ELSE "none"

-----------------------------------------------------------------------------
(* The list of pending matters: commerce-attention.ts *)

FinalizeAttention(story) ==
  IF Has(story, "approved") /\ story.reservation = "confirmed" THEN "finalize" ELSE "none"

NextAction(story) ==
  CASE ~HasOrder(story) -> "none"
    [] HasOrder(story) /\ Count(story, "approved") > 1 -> "duplicate_payment"
    [] OTHER ->
       IF PaymentReview(story) \/ (Has(story, "approved") /\ story.reservation = "released") THEN "payment_review"
       ELSE IF /\ ~Has(story, "approved") /\ story.reservation = "confirmed"
               /\ Has(story, "refunded") \/ story.status \in {"rejected", "cancelled"} THEN "release_review"
       ELSE IF story.reservation \in {"pending", "uncertain"} THEN "reconcile"
       ELSE IF story.reservation = "not_attempted" THEN "reservation_review" ELSE FinalizeAttention(story)

\* ACTIONS, RESERVATIONS and parseRow of CommerceAttentionPanel.
ParseAttention(story) ==
  /\ NextAction(story) \in {"duplicate_payment", "payment_review", "reconcile", "release_review", "finalize", "reservation_review"}
  /\ story.reservation \in Settled \cup Unsettled
  /\ ParseOrderPaymentState([status |-> PaymentStatus(story), review |-> FALSE])

-----------------------------------------------------------------------------
(* The stories *)

\* What the status of an order was projected from: its payments now, or before one of
\* them changed and the worker was lost (OrderPayment's torn).
Before(kind) ==
  CASE kind = "refunded" -> {"refunded", "approved", "pending", Absent}
    [] kind = Absent     -> {Absent}
    [] OTHER             -> {kind, "pending", Absent}
Projections(story) ==
  LET Earlier == {[story EXCEPT !.payments = <<a, b>>] : a \in Before(story.payments[1]), b \in Before(story.payments[2])}
  IN {IF PaymentStatus(s) = "none" THEN "pending" ELSE PaymentStatus(s) : s \in Earlier}

\* What the invariants of DirectCheckout and OrderPayment say of the rows.
Told(story) ==
  LET done == story.reservation \in Settled
      paid == story.payments # <<Absent, Absent>>
  IN /\ ~HasOrder(story) <=> story.reservation = "none"
     /\ ~HasOrder(story) => story.prep \notin {"uncertain", "prepared"}
     /\ story.by = "assisted_admin" => done /\ story.prep = "none" /\ ~story.discounted
     /\ story.by = "automatic_api" => story.prep # "none" /\ (done <=> story.prep = "prepared")
     /\ story.by = "automatic_api" /\ story.prep \in {"uncertain", "requires_review"} => story.reservation # "not_attempted"
     /\ story.prep = "failed" => story.reservation \in {"none", "not_attempted"}
     /\ story.evidence => story.prep = "requires_review" /\ HasOrder(story)
     /\ ~done => story.preference = "none"
     /\ story.preference = "none" => ~story.active
     /\ story.discounted => HasOrder(story)
     /\ paid => story.preference = "ready"
     /\ story.reservation = "released" => ~story.active /\ ~Has(story, "approved") /\ ~Has(story, "pending")
     /\ story.reservation = "finalized" => Has(story, "approved") \/ Has(story, "refunded")
     /\ CASE story.preference = "ready" -> story.status \in Projections(story)
          [] story.preference = "attempted" -> story.status \in {"preference_pending", "failed"}
          [] OTHER -> IF HasOrder(story) THEN story.status \in {"preference_pending", "failed"} ELSE story.status = "preference_pending"

StoryCases ==
  {[rule |-> "story", story |-> s] : s \in {s \in
     [by : {"none", "assisted_admin", "automatic_api"},
      prep : {"none", "preparing", "uncertain", "failed", "requires_review", "prepared"},
      evidence : BOOLEAN, reservation : Settled \cup Unsettled \cup {"none"},
      status : {"preference_pending", "pending", "approved", "rejected", "cancelled", "refunded", "failed"},
      payments : (PaymentKinds \cup {Absent}) \X (PaymentKinds \cup {Absent}),
      preference : {"none", "attempted", "ready"}, active : BOOLEAN, discounted : BOOLEAN] : Told(s)}}
=============================================================================
