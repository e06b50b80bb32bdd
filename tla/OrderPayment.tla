---------------------------- MODULE OrderPayment ----------------------------
(***************************************************************************)
(* The payment of one order whose Dux reservation is confirmed: the        *)
(* buyers' POST .../checkout (server/assisted-payment.ts), Mercado Pago's  *)
(* notifications (functions/api/webhooks/mercadopago.ts) and the           *)
(* administrators' reconciliation, release and finalisation                *)
(* (server/payment-reconciliation.ts, server/assisted-dux-lifecycle.ts).   *)
(* Every one of them is a sequence of D1 statements and provider calls     *)
(* that interleave; the triggers of migration 0024 are guards of the       *)
(* statements they abort.                                                  *)
(*                                                                         *)
(* An attempt at a preference is a number: it stands for the attempt's     *)
(* mp_preference_attempted_at, for its mp_preference_attempt_token and for *)
(* the preference created with that creation time; 0 is NULL.  An attempt  *)
(* is open for CHECKOUT_IDEMPOTENCY_WINDOW_MS, the term Mercado Pago gives *)
(* the preference too.                                                     *)
(***************************************************************************)
EXTENDS Naturals, FiniteSets, TLC

CONSTANTS
  Buyers,       \* invocations of the checkout that can be under way at once
  Hooks,        \* invocations of the webhook
  Admins,       \* invocations of the administrator's routes
  Payments,     \* payments that buyers may start at Mercado Pago
  Notices,      \* notifications that Mercado Pago may send
  MaxAttempts,  \* bound: attempts at a preference
  MaxFaults,    \* bound: exceptions, and leases that run out under a live owner
  MaxLosses,    \* bound: webhooks that die, notifications lost or repeated
  NoOne,        \* a NULL owner, a notice not sent yet
  Other         \* an owner that is gone; the payment of another order

Workers == Buyers \cup Hooks \cup Admins

ASSUME KindsAssumption ==
  /\ Buyers \cap Hooks = {} /\ Buyers \cap Admins = {} /\ Hooks \cap Admins = {}
ASSUME NoOneAssumption ==
  /\ NoOne # Other
  /\ {NoOne, Other} \cap (Hooks \cup Payments) = {}
ASSUME BoundsAssumption ==
  MaxAttempts \in Nat /\ MaxFaults \in Nat /\ MaxLosses \in Nat

VARIABLES
  status,       \* orders.status
  attempt,      \* orders.mp_preference_attempted_at
  token,        \* orders.mp_preference_attempt_token
  pref,         \* orders.mp_preference_id and mp_checkout_url
  reservation,  \* dux_order_links.reservation_state
  ops,          \* confirmed release and finalize rows of dux_order_operations
  rows,         \* payments.mapped_status, by payment
  event,        \* payment_events, by notification
  sent,         \* attempts whose POST /checkout/preferences is under way
  refused,      \* attempts that Mercado Pago answered with a 4xx
  prefs,        \* preferences that exist at Mercado Pago
  shown,        \* preferences whose URL a buyer was given
  real,         \* status of each payment at Mercado Pago
  notice,       \* the payment each notification is about
  acked,        \* notifications answered with a 200
  over,         \* attempts 1..over are no longer open
  attempts,     \* attempts made so far
  pc,           \* where each worker is
  held,         \* the attempt a buyer's invocation works on
  job,          \* the notification and the status a webhook works on
  desk,         \* what an administrator's invocation works on
  torn,         \* history: a worker was lost before it projected a payment
  faults,       \* counter for MaxFaults
  losses        \* counter for MaxLosses

orderRow == <<status, attempt, token, pref>>
goods    == <<reservation, ops>>
provider == <<sent, refused, prefs, real, notice>>
counters == <<attempts, faults, losses>>
vars     == <<orderRow, goods, rows, event, provider, shown, acked, over, pc,
              held, job, desk, torn, counters>>

-----------------------------------------------------------------------------
(* Types *)

Attempts  == 0..MaxAttempts
Settled   == {"rejected", "cancelled", "refunded"}
PayStates == {"none", "pending", "approved"} \cup Settled
Intents   == {"reconcile", "release", "finalize"}
Events    == [status : {"none", "processing", "processed", "ignored", "failed"},
              owner : Hooks \cup {NoOne, Other}, old : BOOLEAN]
Jobs      == [notice : Notices \cup {NoOne}, seen : PayStates]
Desks     == [intent : Intents, todo : SUBSET Payments,
              seen : [Payments -> PayStates], reconciled : BOOLEAN,
              since : Attempts]
Labels    == {"idle", "order", "recover", "recovered", "reset", "claim",
              "lost", "reread", "creating", "created", "declined", "failing",
              "check", "lookup", "upsert", "project", "finish", "ignore",
              "fail", "search", "inspect", "review", "batch"}

NoJob  == [notice |-> NoOne, seen |-> "none"]
NoDesk == [intent |-> "reconcile", todo |-> {},
           seen |-> [p \in Payments |-> "none"], reconciled |-> FALSE,
           since |-> 0]

\* Every variable has its type: the columns' CHECK constraints, the
\* provider's states and the workers' locals.
TypeOK ==
  /\ status \in {"preference_pending", "failed", "pending", "approved",
                 "rejected", "cancelled", "refunded"}
  /\ attempt \in Attempts /\ token \in Attempts /\ pref \in Attempts
  /\ reservation \in {"confirmed", "released", "finalized"}
  /\ ops \in SUBSET {"release", "finalize"}
  /\ rows \in [Payments -> PayStates] /\ real \in [Payments -> PayStates]
  /\ event \in [Notices -> Events]
  /\ sent \in SUBSET Attempts /\ refused \in SUBSET Attempts
  /\ prefs \in SUBSET Attempts /\ shown \in SUBSET Attempts
  /\ notice \in [Notices -> Payments \cup {NoOne, Other}]
  /\ acked \in SUBSET Notices
  /\ over \in Attempts /\ attempts \in Attempts
  /\ pc \in [Workers -> Labels]
  /\ held \in [Buyers -> Attempts]
  /\ job \in [Hooks -> Jobs]
  /\ desk \in [Admins -> Desks]
  /\ torn \in BOOLEAN /\ faults \in Nat /\ losses \in Nat

\* A reserved order; one that an expired quote closed may be reserved too.
Init ==
  /\ status \in {"preference_pending", "failed"}
  /\ attempt = 0 /\ token = 0 /\ pref = 0
  /\ reservation = "confirmed" /\ ops = {}
  /\ rows = [p \in Payments |-> "none"] /\ real = rows
  /\ event = [e \in Notices |-> [status |-> "none", owner |-> NoOne,
                                 old |-> FALSE]]
  /\ sent = {} /\ refused = {} /\ prefs = {} /\ shown = {}
  /\ notice = [e \in Notices |-> NoOne] /\ acked = {}
  /\ over = 0 /\ attempts = 0
  /\ pc = [w \in Workers |-> "idle"]
  /\ held = [b \in Buyers |-> 0]
  /\ job = [h \in Hooks |-> NoJob]
  /\ desk = [a \in Admins |-> NoDesk]
  /\ torn = FALSE /\ faults = 0 /\ losses = 0

-----------------------------------------------------------------------------
(* Helpers *)

Goto(w, l) == pc' = [pc EXCEPT ![w] = l]

\* requireActivePreferenceTerm, and the half hour of the lifecycle guards.
Open(n) == n > over

\* The buyer is redirected to the preference.
Show(b, n) == shown' = shown \cup {n} /\ Goto(b, "idle")

Unpaid == status \in {"preference_pending", "failed"}

-----------------------------------------------------------------------------
(* createOrRecoverAssistedPreference *)

\* readAssistedAccess and assertAssistedReservation.
ReadAccess(b) ==
  /\ pc[b] = "idle" /\ reservation = "confirmed"
  /\ Goto(b, "order")
  /\ UNCHANGED <<orderRow, goods, rows, event, provider, shown, acked, over,
                 held, job, desk, torn, counters>>

\* getOrderById: a stored preference is returned while it is open, an attempt
\* without one is recovered, and without any attempt a new one is made.
ReadOrder(b) ==
  /\ pc[b] = "order"
  /\ \/ /\ status \in {"approved", "refunded"} \/ (pref # 0 /\ ~Open(attempt))
        /\ Goto(b, "idle") /\ UNCHANGED <<shown, held>>
     \/ /\ status \notin {"approved", "refunded"} /\ pref # 0 /\ Open(attempt)
        /\ Show(b, pref) /\ UNCHANGED held
     \/ /\ status \notin {"approved", "refunded"} /\ pref = 0 /\ attempt # 0
        /\ held' = [held EXCEPT ![b] = attempt]
        /\ Goto(b, "recover") /\ UNCHANGED shown
     \/ /\ status \notin {"approved", "refunded"} /\ pref = 0 /\ attempt = 0
        /\ Goto(b, IF status = "failed" THEN "reset" ELSE "claim")
        /\ UNCHANGED <<shown, held>>
  /\ UNCHANGED <<orderRow, goods, rows, event, provider, acked, over, job,
                 desk, torn, counters>>

\* recoverMercadoPagoPreference: exactly one preference with the order's
\* reference and the term of this attempt.
Recover(b) ==
  /\ pc[b] = "recover"
  /\ Goto(b, IF Open(held[b]) /\ prefs = {held[b]} THEN "recovered" ELSE "idle")
  /\ UNCHANGED <<orderRow, goods, rows, event, provider, shown, acked, over,
                 held, job, desk, torn, counters>>

\* Mutant: the preference is stored whatever became of the reservation.
PreferenceGuardOff == TRUE

\* automatic_checkout_preference_guard of 0024.
PreferenceGuard == reservation = "confirmed"

\* markPreferenceCreated: the UPDATE changes the row, is aborted by the guard,
\* or changes nothing and is compared with the preference that is stored.
MarkPreferenceCreated(b, fits, next) ==
  LET n == held[b]
      matches == pref = 0 /\ Unpaid /\ fits
  IN \/ /\ matches /\ PreferenceGuard
        /\ status' = "pending" /\ pref' = n /\ token' = 0
        /\ Show(b, n) /\ UNCHANGED attempt
     \/ /\ ~matches /\ pref = n
        /\ Show(b, n) /\ UNCHANGED orderRow
     \/ /\ IF matches THEN ~PreferenceGuard ELSE pref # n
        /\ Goto(b, next) /\ UNCHANGED <<orderRow, shown>>

KeepRecovered(b) ==
  /\ pc[b] = "recovered"
  /\ MarkPreferenceCreated(b, TRUE, "idle")
  /\ UNCHANGED <<goods, rows, event, provider, acked, over, held, job, desk,
                 torn, counters>>

ResetRetrySafeFailedOrder(b) ==
  /\ pc[b] = "reset"
  /\ status' = IF status = "failed" /\ pref = 0 /\ attempt = 0 /\ token = 0
               THEN "preference_pending" ELSE status
  /\ Goto(b, "claim")
  /\ UNCHANGED <<attempt, token, pref, goods, rows, event, provider, shown,
                 acked, over, held, job, desk, torn, counters>>

Claimable == pref = 0 /\ attempt = 0 /\ Unpaid

ClaimPreferenceAttempt(b) ==
  /\ pc[b] = "claim"
  /\ \/ /\ Claimable /\ attempts < MaxAttempts
        /\ attempts' = attempts + 1
        /\ attempt' = attempts + 1 /\ token' = attempts + 1
        /\ held' = [held EXCEPT ![b] = attempts + 1]
        /\ Goto(b, "reread")
     \/ /\ ~Claimable
        /\ Goto(b, "lost")
        /\ UNCHANGED <<attempt, token, held, attempts>>
  /\ UNCHANGED <<status, pref, goods, rows, event, provider, shown, acked,
                 over, job, desk, torn, faults, losses>>

\* Someone else has the attempt: its preference, if there is one by now.
LostAttempt(b) ==
  /\ pc[b] = "lost"
  /\ \/ pref # 0 /\ Open(attempt) /\ Show(b, pref)
     \/ ~(pref # 0 /\ Open(attempt)) /\ Goto(b, "idle") /\ UNCHANGED shown
  /\ UNCHANGED <<orderRow, goods, rows, event, provider, acked, over, held,
                 job, desk, torn, counters>>

\* The order is read once more and the preference is asked for.
SendPreference(b) ==
  /\ pc[b] = "reread"
  /\ \/ /\ token = held[b] /\ pref = 0 /\ Open(held[b])
        /\ sent' = sent \cup {held[b]}
        /\ Goto(b, "creating")
     \/ /\ ~(token = held[b] /\ pref = 0 /\ Open(held[b]))
        /\ Goto(b, "idle") /\ UNCHANGED sent
  /\ UNCHANGED <<orderRow, goods, rows, event, refused, prefs, real, notice,
                 shown, acked, over, held, job, desk, torn, counters>>

\* createMercadoPagoPreference: an answer, a 4xx, or no way to know.
CreateAnswered(b) ==
  /\ pc[b] = "creating"
  /\ \/ held[b] \in prefs /\ Goto(b, "created")
     \/ held[b] \in refused /\ Goto(b, "declined")
     \/ Goto(b, "failing")
  /\ UNCHANGED <<orderRow, goods, rows, event, provider, shown, acked, over,
                 held, job, desk, torn, counters>>

KeepCreated(b) ==
  /\ pc[b] = "created"
  /\ MarkPreferenceCreated(b, token = held[b], "failing")
  /\ UNCHANGED <<goods, rows, event, provider, acked, over, held, job, desk,
                 torn, counters>>

\* Mutant: an unknown outcome is as safe to retry as a refusal.
RetrySafeAlways(b) == TRUE

RetrySafe(b) == pc[b] = "declined"

MarkOrderFailed(b) ==
  /\ pc[b] \in {"failing", "declined"}
  /\ IF pref = 0 /\ token = held[b] /\ Unpaid
       THEN /\ status' = "failed"
            /\ attempt' = IF RetrySafe(b) THEN 0 ELSE attempt
            /\ token' = IF RetrySafe(b) THEN 0 ELSE token
       ELSE UNCHANGED <<status, attempt, token>>
  /\ Goto(b, "idle")
  /\ UNCHANGED <<pref, goods, rows, event, provider, shown, acked, over, held,
                 job, desk, torn, counters>>

BuyerStep(b) ==
  \/ ReadOrder(b) \/ Recover(b) \/ KeepRecovered(b)
  \/ ResetRetrySafeFailedOrder(b) \/ ClaimPreferenceAttempt(b) \/ LostAttempt(b)
  \/ SendPreference(b) \/ CreateAnswered(b) \/ KeepCreated(b)
  \/ MarkOrderFailed(b)

-----------------------------------------------------------------------------
(* updateOrderFromPayment, for the webhook and for the reconciliation *)

\* Mutant: the last status read wins.
MergeLast(old, new) == new

\* The CASE of the upsert: what was once approved or refunded stays so.
Merge(old, new) ==
  IF "refunded" \in {old, new} THEN "refunded"
  ELSE IF "approved" \in {old, new} THEN "approved" ELSE new

\* The statuses of the order's payments, in the order of the two CASEs.
Paid(s) == \E p \in Payments : rows[p] = s

Projected ==
  IF Paid("approved") THEN "approved" ELSE IF Paid("refunded") THEN "refunded"
  ELSE IF Paid("pending") THEN "pending"
  ELSE IF Paid("rejected") THEN "rejected" ELSE "cancelled"

-----------------------------------------------------------------------------
(* The webhook *)

\* registerPaymentEvent: a new event, a failed one, or one whose owner holds
\* it for longer than the lease.
Takeable(e) == \/ event[e].status \in {"none", "failed"}
               \/ event[e].status = "processing" /\ event[e].old

Register(h, e) ==
  /\ pc[h] = "idle" /\ notice[e] # NoOne
  /\ event' = IF Takeable(e)
              THEN [event EXCEPT ![e] = [status |-> "processing", owner |-> h,
                                         old |-> FALSE]]
              ELSE event
  /\ job' = [job EXCEPT ![h] = [notice |-> e, seen |-> "none"]]
  /\ Goto(h, "check")
  /\ UNCHANGED <<orderRow, goods, rows, provider, shown, acked, over, held,
                 desk, torn, attempts, faults>>

Busy(e) == \E h \in Hooks : job[h].notice = e

\* Mercado Pago notifies until it is answered with a 200.
Deliver(h, e) == /\ e \notin acked /\ ~Busy(e)
                 /\ Register(h, e) /\ UNCHANGED losses

\* It may also send a notification twice.
Duplicate(h, e) == /\ losses < MaxLosses /\ losses' = losses + 1
                   /\ Register(h, e)

Owns(h, e) == event[e].status = "processing" /\ event[e].owner = h

Leave(h) == /\ Goto(h, "idle") /\ job' = [job EXCEPT ![h] = NoJob]

CheckClaim(h) ==
  /\ pc[h] = "check"
  /\ \/ /\ Owns(h, job[h].notice)
        /\ Goto(h, "lookup") /\ UNCHANGED <<job, acked>>
     \/ /\ ~Owns(h, job[h].notice)
        /\ acked' = acked \cup {job[h].notice} /\ Leave(h)
  /\ UNCHANGED <<orderRow, goods, rows, event, provider, shown, over, held,
                 desk, torn, counters>>

\* getMercadoPagoPayment, and the events that are ignored.
LookUpPayment(h) ==
  /\ pc[h] = "lookup"
  /\ LET p == notice[job[h].notice]
     IN \/ /\ p = Other
           /\ Goto(h, "ignore") /\ UNCHANGED job
        \/ /\ p # Other
           /\ job' = [job EXCEPT ![h].seen = real[p]]
           /\ Goto(h, "upsert")
  /\ UNCHANGED <<orderRow, goods, rows, event, provider, shown, acked, over,
                 held, desk, torn, counters>>

HookUpserts(h) ==
  /\ pc[h] = "upsert"
  /\ rows' = [rows EXCEPT ![notice[job[h].notice]] = Merge(@, job[h].seen)]
  /\ Goto(h, "project")
  /\ UNCHANGED <<orderRow, goods, event, provider, shown, acked, over, held,
                 job, desk, torn, counters>>

\* Mutant: the order gets the status of this reading.
HookProjectsSeen(h) ==
  /\ pc[h] = "project"
  /\ status' = job[h].seen /\ torn' = FALSE
  /\ Goto(h, "finish")
  /\ UNCHANGED <<attempt, token, pref, goods, rows, event, provider, shown,
                 acked, over, held, job, desk, counters>>

HookProjects(h) ==
  /\ pc[h] = "project"
  /\ status' = Projected /\ torn' = FALSE
  /\ Goto(h, "finish")
  /\ UNCHANGED <<attempt, token, pref, goods, rows, event, provider, shown,
                 acked, over, held, job, desk, counters>>

\* finishPaymentEvent, as processed or as ignored; a lost lease is an error.
FinishEvent(h) ==
  /\ pc[h] \in {"finish", "ignore"}
  /\ LET e == job[h].notice
         end == IF pc[h] = "finish" THEN "processed" ELSE "ignored"
     IN \/ /\ Owns(h, e)
           /\ event' = [event EXCEPT ![e].status = end, ![e].owner = NoOne]
           /\ acked' = acked \cup {e} /\ Leave(h)
        \/ /\ ~Owns(h, e)
           /\ Goto(h, "fail") /\ UNCHANGED <<event, acked, job>>
  /\ UNCHANGED <<orderRow, goods, rows, provider, shown, over, held, desk,
                 torn, counters>>

\* Mutant: the error path forgets the event.
FailEventNot(h) ==
  /\ pc[h] = "fail"
  /\ Leave(h)
  /\ UNCHANGED <<orderRow, goods, rows, event, provider, shown, acked, over,
                 held, desk, torn, counters>>

\* The catch block: the event is failed and the answer is an error.
FailEvent(h) ==
  /\ pc[h] = "fail"
  /\ LET e == job[h].notice
     IN event' = IF Owns(h, e)
                 THEN [event EXCEPT ![e].status = "failed", ![e].owner = NoOne]
                 ELSE event
  /\ Leave(h)
  /\ UNCHANGED <<orderRow, goods, rows, provider, shown, acked, over, held,
                 desk, torn, counters>>

HookStep(h) ==
  \/ CheckClaim(h) \/ LookUpPayment(h) \/ HookUpserts(h) \/ HookProjects(h)
  \/ FinishEvent(h) \/ FailEvent(h)

\* An await of the webhook throws; at "project" the payment is stored and the
\* order is not.
HookFault(h) ==
  /\ faults < MaxFaults /\ faults' = faults + 1
  /\ pc[h] \in {"lookup", "upsert", "project", "finish", "ignore"}
  /\ torn' = (torn \/ pc[h] = "project")
  /\ Goto(h, "fail")
  /\ UNCHANGED <<orderRow, goods, rows, event, provider, shown, acked, over,
                 held, job, desk, attempts, losses>>

\* The invocation is killed, or it cannot record its failure: its event stays
\* in processing and nobody holds its token any more.
HookDies(h) ==
  /\ losses < MaxLosses /\ losses' = losses + 1
  /\ pc[h] # "idle"
  /\ torn' = (torn \/ pc[h] = "project")
  /\ LET e == job[h].notice
     IN event' = IF Owns(h, e) THEN [event EXCEPT ![e].owner = Other] ELSE event
  /\ Leave(h)
  /\ UNCHANGED <<orderRow, goods, rows, provider, shown, acked, over, held,
                 desk, attempts, faults>>

\* LEASE_DURATION_MS pass; under an owner that lives that is a fault.
EventAges(e) ==
  /\ event[e].status = "processing" /\ ~event[e].old
  /\ event' = [event EXCEPT ![e].old = TRUE]
  /\ IF event[e].owner = Other THEN UNCHANGED faults
     ELSE faults < MaxFaults /\ faults' = faults + 1
  /\ UNCHANGED <<orderRow, goods, rows, provider, shown, acked, over, pc, held,
                 job, desk, torn, attempts, losses>>

-----------------------------------------------------------------------------
(* The administrators: reconciliation, release and finalisation *)

\* A release waits for the half hour of the attempt to be over.
WindowAllows == attempt = 0 \/ ~Open(attempt)

\* inspectAssistedDuxLifecycle, for an operation that is not done yet.
Inspected(intent) ==
  /\ reservation = "confirmed" /\ ops = {}
  /\ intent = "release" => WindowAllows
  /\ intent = "finalize" => attempt # 0 /\ pref # 0

\* The route: reconcile on request, or before a release or a finalisation of
\* an order with an attempt.
Begin(a) ==
  /\ pc[a] = "idle"
  /\ \E intent \in Intents :
       /\ intent # "reconcile" => Inspected(intent)
       /\ desk' = [desk EXCEPT ![a].intent = intent, ![a].since = attempts]
       /\ Goto(a, IF intent = "reconcile" \/ attempt # 0 THEN "search"
                  ELSE "inspect")
  /\ UNCHANGED <<orderRow, goods, rows, event, provider, shown, acked, over,
                 held, job, torn, counters>>

Home(a) == /\ Goto(a, "idle") /\ desk' = [desk EXCEPT ![a] = NoDesk]

\* After the last payment: the end of the reconciliation.
Reconciled(a) ==
  \/ desk[a].intent = "reconcile" /\ Home(a)
  \/ /\ desk[a].intent # "reconcile"
     /\ desk' = [desk EXCEPT ![a].reconciled = TRUE]
     /\ Goto(a, "inspect")

\* searchMercadoPagoPayments: the payments that exist, ...
SearchPayments(a) ==
  /\ pc[a] = "search"
  /\ LET found == {p \in Payments : real[p] # "none"}
     IN \/ found = {} /\ Reconciled(a)
        \/ /\ found # {}
           /\ desk' = [desk EXCEPT ![a].todo = found]
           /\ Goto(a, "lookup")
  /\ UNCHANGED <<orderRow, goods, rows, event, provider, shown, acked, over,
                 held, job, torn, counters>>

\* ... each looked up by a call of its own, all at the same time.
LookUpEach(a) ==
  /\ pc[a] = "lookup"
  /\ \E p \in desk[a].todo :
       /\ desk[a].seen[p] = "none"
       /\ desk' = [desk EXCEPT ![a].seen[p] = real[p]]
       /\ Goto(a, IF \E q \in desk[a].todo \ {p} : desk[a].seen[q] = "none"
                  THEN "lookup" ELSE "upsert")
  /\ UNCHANGED <<orderRow, goods, rows, event, provider, shown, acked, over,
                 held, job, torn, counters>>

\* One payment after another (here in any order).
AdminUpserts(a) ==
  /\ pc[a] = "upsert"
  /\ \E p \in desk[a].todo :
       /\ rows' = [rows EXCEPT ![p] = Merge(@, desk[a].seen[p])]
       /\ desk' = [desk EXCEPT ![a].todo = @ \ {p}]
  /\ Goto(a, "project")
  /\ UNCHANGED <<orderRow, goods, event, provider, shown, acked, over, held,
                 job, torn, counters>>

AdminProjects(a) ==
  /\ pc[a] = "project"
  /\ status' = Projected /\ torn' = FALSE
  /\ \/ desk[a].todo = {} /\ Reconciled(a)
     \/ desk[a].todo # {} /\ Goto(a, "upsert") /\ UNCHANGED desk
  /\ UNCHANGED <<attempt, token, pref, goods, rows, event, provider, shown,
                 acked, over, held, job, counters>>

\* confirmAssistedDuxLifecycle inspects again, ...
InspectAgain(a) ==
  /\ pc[a] = "inspect"
  /\ \/ /\ Inspected(desk[a].intent)
        /\ attempt # 0 => desk[a].reconciled
        /\ Goto(a, "review") /\ UNCHANGED desk
     \/ /\ ~(Inspected(desk[a].intent) /\ (attempt # 0 => desk[a].reconciled))
        /\ Home(a)
  /\ UNCHANGED <<orderRow, goods, rows, event, provider, shown, acked, over,
                 held, job, torn, counters>>

\* order-payment-state.ts: the summary of the payments and whether a person
\* has to look at them.
Approved == {p \in Payments : rows[p] = "approved"}
RequiresReview ==
  \/ Cardinality(Approved) > 1
  \/ Paid("approved") /\ status # "approved"
  \/ ~Paid("approved") /\ Paid("refunded") /\ status # "refunded"

MayConfirm(intent) ==
  /\ ~RequiresReview
  /\ intent = "release" => ~Paid("approved") /\ (~Paid("refunded") => ~Paid("pending"))
  /\ intent = "finalize" => Paid("approved")

\* ... reads the state of the payments ...
ReviewPayments(a) ==
  /\ pc[a] = "review"
  /\ \/ MayConfirm(desk[a].intent) /\ Goto(a, "batch") /\ UNCHANGED desk
     \/ ~MayConfirm(desk[a].intent) /\ Home(a)
  /\ UNCHANGED <<orderRow, goods, rows, event, provider, shown, acked, over,
                 held, job, torn, counters>>

\* Mutant: the migration has no financial guard for a release.
FinancialGuardLoose(a) ==
  \/ desk[a].intent = "release"
  \/ /\ desk[a].intent = "finalize"
     /\ attempt # 0 /\ pref # 0 /\ desk[a].reconciled
     /\ Cardinality(Approved) = 1 /\ ~Paid("pending") /\ ~Paid("refunded")

\* dux_automatic_release_financial_guard and its twin for finalize.
FinancialGuard(a) ==
  \/ /\ desk[a].intent = "release"
     /\ ~Paid("approved") /\ ~Paid("pending")
     /\ attempt # 0 => ~Open(attempt) /\ desk[a].reconciled
  \/ /\ desk[a].intent = "finalize"
     /\ attempt # 0 /\ pref # 0 /\ desk[a].reconciled
     /\ Cardinality(Approved) = 1 /\ ~Paid("pending") /\ ~Paid("refunded")

\* ... and writes the operation and the link in one batch.  The operation's
\* key is unique; the link only changes while it is confirmed.
ConfirmLifecycle(a) ==
  /\ pc[a] = "batch"
  /\ IF desk[a].intent \notin ops /\ FinancialGuard(a)
       THEN /\ ops' = ops \cup {desk[a].intent}
            /\ reservation' = IF reservation # "confirmed" THEN reservation
                              ELSE IF desk[a].intent = "release" THEN "released"
                              ELSE "finalized"
       ELSE UNCHANGED goods
  /\ Home(a)
  /\ UNCHANGED <<orderRow, rows, event, provider, shown, acked, over, held,
                 job, torn, counters>>

AdminStep(a) ==
  \/ SearchPayments(a) \/ LookUpEach(a) \/ AdminUpserts(a) \/ AdminProjects(a)
  \/ InspectAgain(a) \/ ReviewPayments(a) \/ ConfirmLifecycle(a)

-----------------------------------------------------------------------------
(* Mercado Pago, the buyer in front of it, and the clock *)

CreatePreference(n) ==
  /\ n \in sent /\ sent' = sent \ {n}
  /\ prefs' = prefs \cup {n}
  /\ UNCHANGED <<orderRow, goods, rows, event, refused, real, notice, shown,
                 acked, over, pc, held, job, desk, torn, counters>>

RefusePreference(n) ==
  /\ n \in sent /\ sent' = sent \ {n}
  /\ refused' = refused \cup {n}
  /\ UNCHANGED <<orderRow, goods, rows, event, prefs, real, notice, shown,
                 acked, over, pc, held, job, desk, torn, counters>>

\* A payment changes, and a notification of it is sent or lost.
PaymentBecomes(p, s) ==
  /\ real' = [real EXCEPT ![p] = s]
  /\ \/ /\ \E e \in Notices : /\ notice[e] = NoOne
                              /\ notice' = [notice EXCEPT ![e] = p]
        /\ UNCHANGED losses
     \/ losses < MaxLosses /\ losses' = losses + 1 /\ UNCHANGED notice
  /\ UNCHANGED <<orderRow, goods, rows, event, sent, refused, prefs, shown,
                 acked, over, pc, held, job, desk, torn, attempts, faults>>

\* A buyer pays with a URL that was shown, while the preference is open.
Pay(p) == /\ real[p] = "none"
          /\ \E n \in shown \cap prefs : Open(n)
          /\ \E s \in {"pending", "approved", "rejected"} : PaymentBecomes(p, s)

Resolve(p) == /\ real[p] = "pending"
              /\ \E s \in {"approved", "rejected", "cancelled"} :
                   PaymentBecomes(p, s)

Refund(p) == real[p] = "approved" /\ PaymentBecomes(p, "refunded")

\* A notification that is not about a payment of this order.
NotifyOther(e) ==
  /\ notice[e] = NoOne
  /\ notice' = [notice EXCEPT ![e] = Other]
  /\ UNCHANGED <<orderRow, goods, rows, event, sent, refused, prefs, real,
                 shown, acked, over, pc, held, job, desk, torn, counters>>

\* The half hour of the oldest open attempt is over.  An administrator's
\* invocation is shorter than that: its provider calls time out after seconds,
\* and a reconciliation that is older than two minutes counts for nothing.
WindowCloses ==
  /\ over < attempts /\ over' = over + 1
  /\ \A a \in Admins : pc[a] # "idle" => over < desk[a].since
  /\ UNCHANGED <<orderRow, goods, rows, event, provider, shown, acked, pc,
                 held, job, desk, torn, counters>>

\* An await of a buyer's invocation throws, or the invocation dies.
BuyerFault(b) ==
  /\ faults < MaxFaults /\ faults' = faults + 1
  /\ pc[b] # "idle"
  /\ \/ pc[b] = "created" /\ Goto(b, "failing")
     \/ Goto(b, "idle")
  /\ UNCHANGED <<orderRow, goods, rows, event, provider, shown, acked, over,
                 held, job, desk, torn, attempts, losses>>

\* The same for an administrator's; a reconciliation that is older than two
\* minutes ends like this too.
AdminFault(a) ==
  /\ faults < MaxFaults /\ faults' = faults + 1
  /\ pc[a] # "idle" /\ Home(a)
  /\ torn' = (torn \/ pc[a] = "project")
  /\ UNCHANGED <<orderRow, goods, rows, event, provider, shown, acked, over,
                 held, job, attempts, losses>>

-----------------------------------------------------------------------------
(* The system *)

MercadoPago ==
  \/ \E n \in sent : CreatePreference(n) \/ RefusePreference(n)
  \/ \E p \in Payments : Pay(p) \/ Resolve(p) \/ Refund(p)
  \/ \E e \in Notices : NotifyOther(e)

Next ==
  \/ \E b \in Buyers : ReadAccess(b) \/ BuyerStep(b) \/ BuyerFault(b)
  \/ \E h \in Hooks : \/ HookStep(h) \/ HookFault(h) \/ HookDies(h)
                      \/ \E e \in Notices : Deliver(h, e) \/ Duplicate(h, e)
  \/ \E a \in Admins : Begin(a) \/ AdminStep(a) \/ AdminFault(a)
  \/ \E e \in Notices : EventAges(e)
  \/ MercadoPago
  \/ WindowCloses

Spec == Init /\ [][Next]_vars

\* Invocations that live go on, and Mercado Pago notifies until it is answered.
Fairness ==
  /\ \A h \in Hooks : WF_vars(HookStep(h))
  /\ \A e \in Notices : WF_vars(\E h \in Hooks : Deliver(h, e))

FairSpec == Spec /\ Fairness

-----------------------------------------------------------------------------
(* Properties *)

\* Mercado Pago has one preference of the order at most, whatever is retried
\* after an answer that was lost (assisted-payment.ts:118, orders.ts:223), and
\* what buyers were shown is the preference the order stores.
OnePreference == /\ Cardinality(prefs \cup sent) <= 1
                 /\ shown \subseteq {pref} /\ shown \subseteq prefs

\* Once the reservation is released no buyer can pay: no payment is approved or
\* may still be, and no URL that was shown is open (0024, release guard).
ReleasedCannotBePaid ==
  reservation = "released" =>
    /\ \A p \in Payments : real[p] \notin {"pending", "approved"}
    /\ \A n \in shown : ~Open(n)

\* ARCHITECTURE.md:159 wants the goods finalised or released exactly once: a
\* release and a finalisation are never both confirmed.
OneOutcome == Cardinality(ops) <= 1

\* The link says what its operations say: each move of it has its operation, and
\* after a release no finalisation is recorded.  The two batches have different
\* keys, so no uniqueness stops the second (assisted-dux-lifecycle.ts:143).
LinkHasItsOperation ==
  /\ reservation = "confirmed" => ops = {}
  /\ reservation = "released"  => ops = {"release"}
  /\ reservation = "finalized" => "finalize" \in ops

\* Between projections the order says what its payments say, unless a worker
\* was lost half way (orders.ts:442); a preference stored late must not hide
\* a payment.
StatusFollowsPayments ==
  (~torn /\ (\A w \in Workers : pc[w] # "project")
         /\ \E p \in Payments : rows[p] # "none") => status = Projected

\* No reading that comes late takes an approval or a refund back
\* (orders.ts:374).
EvidenceKept ==
  [][\A p \in Payments :
       /\ rows[p] = "refunded" => rows'[p] = "refunded"
       /\ rows[p] = "approved" => rows'[p] \in {"approved", "refunded"}]_vars

\* dux_automatic_order_status_guard of 0024 as its own text has it: the code
\* never asks for a change of status that the guard would abort.
Admitted ==
  \/ status' = "failed" /\ pref' = 0
  \/ status' = "preference_pending" /\ status = "failed"
     /\ pref' = 0 /\ attempt' = 0 /\ token' = 0
  \/ status' = "pending" /\ pref' # 0 /\ ~Paid("approved") /\ ~Paid("refunded")
  \/ (\E p \in Payments : rows[p] # "none") /\ status' = Projected

StatusGuardNeverFires == [][status' # status => Admitted]_vars

\* The goods and the money of the sale.
Outcome == INSTANCE SaleOutcome WITH
  goods <- CASE reservation = "confirmed" -> "held"
             [] reservation = "released"  -> "released"
             [] reservation = "finalized" -> "delivered",
  money <- {real[p] : p \in Payments} \cap {"pending", "approved", "refunded"}

\* The rows and the provider together implement SaleOutcome: goods are given
\* for money only, and nobody pays for goods that were released.
ImplementsOutcome == Outcome!Spec

\* A payment that Mercado Pago approved reaches the order, whatever throws on
\* the way, as long as no invocation dies and no notification is lost or
\* repeated (mercadopago.ts:150).
ApprovedReachesOrder ==
  \A p \in Payments :
    real[p] = "approved" ~> status \in {"approved", "refunded"} \/ losses > 0

\* mercadopago.ts:159: a failure of the error path is covered by the provider's
\* retry, so an event that was answered with a 200 was processed or ignored.
AcknowledgedIsProcessed ==
  \A e \in acked : Busy(e) \/ event[e].status \in {"processed", "ignored"}

-----------------------------------------------------------------------------
(* The instances TLC checks *)

\* Invocations of one kind, payments and notifications are interchangeable: no
\* definition tells one from another.
Symmetry == Permutations(Buyers) \cup Permutations(Hooks) \cup Permutations(Admins)
            \cup Permutations(Payments) \cup Permutations(Notices)

\* A lost statement or call is explored among two invocations at a time: the
\* third ones interleave while nothing has failed.
FaultsAmongTwo ==
  faults > 0 => Cardinality({w \in Workers : pc[w] # "idle"}) <= 2
=============================================================================
