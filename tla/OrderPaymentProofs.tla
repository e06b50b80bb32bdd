------------------------- MODULE OrderPaymentProofs -------------------------
(***************************************************************************)
(* Theorems about OrderPayment, for every set of invocations, payments and *)
(* notifications and every bound.                                          *)
(***************************************************************************)
EXTENDS OrderPayment, FiniteSetTheorems, TLAPS

USE DEF Attempts, PayStates, Settled, Intents, Labels

-----------------------------------------------------------------------------
(* The inductive invariant *)

\* What the order's row knows of the preferences at Mercado Pago: all of them
\* stem from the attempt that is stored, and a refused attempt has none.
Preferences ==
  /\ attempt <= attempts /\ over <= attempts /\ token \in {0, attempt}
  /\ sent \cup prefs \cup refused \subseteq 1..attempts
  /\ sent \cup prefs \subseteq {attempt}
  /\ refused \cap (sent \cup prefs) = {} /\ sent \cap prefs = {}
  /\ pref # 0 => attempt = pref /\ pref \in prefs
  /\ shown = IF pref = 0 THEN {} ELSE {pref}

\* What is behind a buyer's invocation: it alone owns the attempt it claimed.
Owning == {"reread", "creating", "created", "declined", "failing"}

Behind(b) ==
  /\ held[b] <= attempts
  /\ pc[b] \in Owning => held[b] # 0
  /\ pc[b] = "reread" => held[b] \notin sent \cup prefs \cup refused
  /\ pc[b] \in {"created", "recovered"} => held[b] \in prefs
  /\ pc[b] = "declined" => held[b] \in refused

Creators ==
  /\ \A b \in Buyers : Behind(b)
  /\ \A b, c \in Buyers : b # c /\ pc[b] \in Owning /\ pc[c] \in Owning
                            => held[b] # held[c]

\* A status that was read of a payment is its present or its past.
Known(seen, now) ==
  \/ seen \in {"none", now}
  \/ seen = "pending" /\ now # "none"
  \/ seen = "approved" /\ now = "refunded"

HookReads(h) ==
  /\ pc[h] # "idle" => job[h].notice \in Notices /\ notice[job[h].notice] # NoOne
  /\ pc[h] = "upsert" =>
       LET p == notice[job[h].notice]
       IN p \in Payments /\ job[h].seen # "none" /\ Known(job[h].seen, real[p])

AdminReads(a) ==
  /\ \A p \in Payments : Known(desk[a].seen[p], real[p])
  /\ \A p \in desk[a].todo : real[p] # "none"
  /\ pc[a] \in {"upsert", "project"} =>
       \A p \in desk[a].todo : desk[a].seen[p] # "none"

Readings ==
  /\ \A p \in Payments : Known(rows[p], real[p])
  /\ \A p \in Payments : real[p] # "none" => pref # 0
  /\ \A e \in Notices : notice[e] \in Payments => real[notice[e]] # "none"
  /\ \A h \in Hooks : HookReads(h)
  /\ \A a \in Admins : AdminReads(a)

\* What is behind a release: since it began no attempt has closed that was
\* made later, and once the attempt is closed no payment escapes it.
Found(a, p) ==
  \/ real[p] = "none"
  \/ pc[a] \in {"lookup", "upsert", "project"} /\ p \in desk[a].todo
  \/ pc[a] \in {"upsert", "project", "inspect", "review", "batch"} /\ rows[p] # "none"

Exhausted(a) ==
  /\ attempt # 0 /\ ~Open(attempt) /\ pc[a] # "search"
  /\ pc[a] \in {"inspect", "review", "batch"} => desk[a].reconciled

Releasing(a) ==
  pc[a] # "idle" =>
    /\ over <= desk[a].since /\ desk[a].since <= attempts
    /\ desk[a].intent = "release" =>
         /\ attempt = 0 \/ ~Open(attempt) \/ attempt > desk[a].since
         /\ Exhausted(a) => \A p \in Payments : Found(a, p)

Releases == \A a \in Admins : Releasing(a)

\* After a release: all is over, and a refund is in the rows.
Released ==
  reservation = "released" =>
    /\ \A p \in Payments :
         /\ real[p] \notin {"pending", "approved"}
         /\ real[p] = "refunded" => rows[p] = "refunded"
    /\ \A n \in shown : ~Open(n)

IInv ==
  /\ TypeOK /\ Preferences /\ Creators /\ Readings /\ Releases /\ Released
  /\ LinkHasItsOperation

-----------------------------------------------------------------------------
(* Types *)

LEMMA Blanks == /\ NoJob \in Jobs /\ NoDesk \in Desks
                /\ 0 \in Attempts /\ Attempts \subseteq Nat
  PROOF BY BoundsAssumption DEF NoJob, Jobs, NoDesk, Desks

LEMMA InitTypeOK == Init => TypeOK
  <1> SUFFICES ASSUME Init PROVE TypeOK
    OBVIOUS
  <1>1. event \in [Notices -> Events]
    BY DEF Init, Events
  <1>2. /\ job \in [Hooks -> Jobs] /\ desk \in [Admins -> Desks]
        /\ held \in [Buyers -> Attempts]
    BY Blanks DEF Init
  <1>3. rows \in [Payments -> PayStates] /\ real \in [Payments -> PayStates]
    BY DEF Init
  <1> QED BY <1>1, <1>2, <1>3, Blanks DEF Init, TypeOK

LEMMA MarkType ==
  ASSUME TypeOK, NEW b \in Buyers, NEW fits \in BOOLEAN, NEW next \in Labels,
         MarkPreferenceCreated(b, fits, next)
  PROVE  /\ status' \in {"preference_pending", "failed", "pending", "approved",
                         "rejected", "cancelled", "refunded"}
         /\ attempt' \in Attempts /\ token' \in Attempts /\ pref' \in Attempts
         /\ shown' \in SUBSET Attempts
         /\ pc' \in [Workers -> Labels]
  <1>1. held[b] \in Attempts /\ b \in Workers /\ 0 \in Attempts
    BY Blanks DEF TypeOK, Workers
  <1>2. \/ pc' = [pc EXCEPT ![b] = "idle"] /\ shown' = shown \cup {held[b]}
        \/ pc' = [pc EXCEPT ![b] = next] /\ shown' = shown
    BY DEF MarkPreferenceCreated, Show, Goto
  <1>3. pc' \in [Workers -> Labels] /\ shown' \in SUBSET Attempts
    BY <1>1, <1>2 DEF TypeOK
  <1>4. \/ /\ status' = "pending" /\ pref' = held[b] /\ token' = 0
           /\ attempt' = attempt
        \/ UNCHANGED <<status, attempt, token, pref>>
    BY DEF MarkPreferenceCreated, orderRow
  <1> QED BY <1>1, <1>3, <1>4 DEF TypeOK

LEMMA BuyerType ==
  ASSUME TypeOK, NEW b \in Buyers, ReadAccess(b) \/ BuyerStep(b) \/ BuyerFault(b)
  PROVE  TypeOK'
  <1> USE Blanks DEF orderRow, goods, provider, counters, Goto, Show, Workers
  <1>1. CASE ReadAccess(b)
    BY <1>1 DEF ReadAccess, TypeOK
  <1>2. CASE ReadOrder(b)
    <2>1. PICK l \in Labels : pc' = [pc EXCEPT ![b] = l]
      BY <1>2 DEF ReadOrder
    <2>2. held' \in [Buyers -> Attempts]
      BY <1>2 DEF ReadOrder, TypeOK
    <2>3. shown' \in SUBSET Attempts
      BY <1>2 DEF ReadOrder, TypeOK
    <2>4. pc' \in [Workers -> Labels]
      BY <2>1 DEF TypeOK
    <2> QED BY <1>2, <2>2, <2>3, <2>4 DEF ReadOrder, TypeOK
  <1>3. CASE Recover(b)
    BY <1>3 DEF Recover, TypeOK
  <1>4. CASE KeepRecovered(b)
    BY <1>4, MarkType DEF KeepRecovered, TypeOK
  <1>5. CASE ResetRetrySafeFailedOrder(b)
    BY <1>5 DEF ResetRetrySafeFailedOrder, TypeOK
  <1>6. CASE ClaimPreferenceAttempt(b)
    <2>1. CASE Claimable /\ attempts < MaxAttempts
      <3>1. attempts + 1 \in Attempts
        BY <2>1, BoundsAssumption DEF TypeOK
      <3> QED BY <1>6, <2>1, <3>1 DEF ClaimPreferenceAttempt, TypeOK
    <2>2. CASE ~Claimable
      BY <1>6, <2>2 DEF ClaimPreferenceAttempt, TypeOK
    <2> QED BY <1>6, <2>1, <2>2 DEF ClaimPreferenceAttempt
  <1>7. CASE LostAttempt(b)
    BY <1>7 DEF LostAttempt, TypeOK
  <1>8. CASE SendPreference(b)
    BY <1>8 DEF SendPreference, TypeOK
  <1>9. CASE CreateAnswered(b)
    BY <1>9 DEF CreateAnswered, TypeOK
  <1>10. CASE KeepCreated(b)
    BY <1>10, MarkType DEF KeepCreated, TypeOK
  <1>11. CASE MarkOrderFailed(b)
    BY <1>11 DEF MarkOrderFailed, TypeOK
  <1>12. CASE BuyerFault(b)
    BY <1>12 DEF BuyerFault, TypeOK
  <1> QED BY <1>1, <1>2, <1>3, <1>4, <1>5, <1>6, <1>7, <1>8, <1>9, <1>10, <1>11,
             <1>12 DEF BuyerStep

LEMMA MergeType ==
  ASSUME NEW u \in PayStates, NEW v \in PayStates
  PROVE  Merge(u, v) \in PayStates
  PROOF BY DEF Merge

LEMMA EventType ==
  ASSUME TypeOK, NEW e \in Notices, NEW v \in Events
  PROVE  [event EXCEPT ![e] = v] \in [Notices -> Events]
  PROOF BY DEF TypeOK

LEMMA EventFieldTypes ==
  ASSUME TypeOK, NEW e \in Notices, NEW o \in Hooks \cup {NoOne, Other},
         NEW s \in {"none", "processing", "processed", "ignored", "failed"}
  PROVE  /\ [event EXCEPT ![e].owner = o] \in [Notices -> Events]
         /\ [event EXCEPT ![e].old = TRUE] \in [Notices -> Events]
         /\ [event EXCEPT ![e].status = s, ![e].owner = o] \in [Notices -> Events]
  <1>1. event[e] \in Events /\ event \in [Notices -> Events]
    BY DEF TypeOK
  <1>2. /\ [event[e] EXCEPT !.owner = o] \in Events
        /\ [event[e] EXCEPT !.old = TRUE] \in Events
        /\ [event[e] EXCEPT !.status = s, !.owner = o] \in Events
    BY <1>1 DEF Events
  <1> QED BY <1>1, <1>2

LEMMA HookType ==
  ASSUME TypeOK, NEW h \in Hooks, HookReads(h),
         \/ HookStep(h) \/ HookFault(h) \/ HookDies(h)
         \/ \E e \in Notices : Deliver(h, e) \/ Duplicate(h, e)
  PROVE  TypeOK'
  <1> USE Blanks DEF orderRow, goods, provider, counters, Goto, Leave, Workers
  <1>1. ASSUME NEW e \in Notices, Deliver(h, e) \/ Duplicate(h, e)
        PROVE  TypeOK'
    <2>1. [status |-> "processing", owner |-> h, old |-> FALSE] \in Events
      BY DEF Events
    <2>2. [notice |-> e, seen |-> "none"] \in Jobs
      BY DEF Jobs
    <2>3. /\ Register(h, e)
          /\ losses' \in {losses, losses + 1}
      BY <1>1 DEF Deliver, Duplicate
    <2>4. event' \in [Notices -> Events]
      BY <2>1, <2>3, EventType DEF Register, TypeOK
    <2>5. job' \in [Hooks -> Jobs] /\ pc' \in [Workers -> Labels]
      BY <2>2, <2>3 DEF Register, TypeOK
    <2> QED BY <2>3, <2>4, <2>5 DEF Register, TypeOK
  <1>2. CASE CheckClaim(h)
    BY <1>2 DEF CheckClaim, TypeOK, Jobs, HookReads
  <1>3. CASE LookUpPayment(h)
    <2>1. CASE UNCHANGED job
      BY <1>3, <2>1 DEF LookUpPayment, TypeOK
    <2>2. CASE notice[job[h].notice] # Other
      <3>1. real[notice[job[h].notice]] \in PayStates
        BY <1>3, <2>2 DEF LookUpPayment, HookReads, TypeOK
      <3>2. job' \in [Hooks -> Jobs]
        BY <1>3, <2>2, <3>1 DEF LookUpPayment, TypeOK, Jobs
      <3> QED BY <1>3, <3>2 DEF LookUpPayment, TypeOK
    <2> QED BY <1>3, <2>1, <2>2 DEF LookUpPayment
  <1>4. CASE HookUpserts(h)
    <2> DEFINE p == notice[job[h].notice]
    <2>1. p \in Payments /\ job[h].seen \in PayStates /\ rows[p] \in PayStates
      BY <1>4 DEF HookUpserts, HookReads, TypeOK, Jobs
    <2>2. Merge(rows[p], job[h].seen) \in PayStates
      BY <2>1, MergeType
    <2>3. rows' = [rows EXCEPT ![p] = Merge(rows[p], job[h].seen)]
      BY <1>4 DEF HookUpserts
    <2>4. rows' \in [Payments -> PayStates]
      BY <2>1, <2>2, <2>3 DEF TypeOK
    <2> QED BY <1>4, <2>4 DEF HookUpserts, TypeOK
  <1>5. CASE HookProjects(h)
    BY <1>5 DEF HookProjects, Projected, TypeOK
  <1>6. CASE FinishEvent(h)
    <2>1. job[h].notice \in Notices
      BY <1>6 DEF FinishEvent, HookReads
    <2>2. event' \in [Notices -> Events]
      <3>1. CASE UNCHANGED event
        BY <3>1 DEF TypeOK
      <3>2. CASE Owns(h, job[h].notice)
        <4>1. PICK s \in {"processed", "ignored"} : event' =
                [event EXCEPT ![job[h].notice].status = s, ![job[h].notice].owner = NoOne]
          BY <1>6, <3>2 DEF FinishEvent
        <4> QED BY <2>1, <4>1, EventFieldTypes
      <3> QED BY <1>6, <3>1, <3>2 DEF FinishEvent
    <2>3. /\ job' \in [Hooks -> Jobs] /\ pc' \in [Workers -> Labels]
          /\ acked' \in SUBSET Notices
      BY <1>6, <2>1 DEF FinishEvent, TypeOK
    <2> QED BY <1>6, <2>2, <2>3 DEF FinishEvent, TypeOK
  <1>7. CASE FailEvent(h)
    <2>1. job[h].notice \in Notices
      BY <1>7 DEF FailEvent, HookReads
    <2>2. event' \in [Notices -> Events]
      BY <1>7, <2>1, EventFieldTypes DEF FailEvent, TypeOK
    <2> QED BY <1>7, <2>1, <2>2 DEF FailEvent, TypeOK
  <1>8. CASE HookFault(h)
    BY <1>8 DEF HookFault, TypeOK
  <1>9. CASE HookDies(h)
    <2>1. job[h].notice \in Notices
      BY <1>9 DEF HookDies, HookReads
    <2>2. event' \in [Notices -> Events]
      BY <1>9, <2>1, EventFieldTypes DEF HookDies, TypeOK
    <2> QED BY <1>9, <2>1, <2>2 DEF HookDies, TypeOK
  <1> QED BY <1>1, <1>2, <1>3, <1>4, <1>5, <1>6, <1>7, <1>8, <1>9 DEF HookStep

LEMMA BeginType ==
  ASSUME TypeOK, NEW a \in Admins, NEW intent \in Intents
  PROVE  [desk EXCEPT ![a].intent = intent, ![a].since = attempts]
           \in [Admins -> Desks]
  <1>1. desk[a] \in Desks /\ desk \in [Admins -> Desks]
    BY DEF TypeOK
  <1>2. [desk[a] EXCEPT !.intent = intent, !.since = attempts] \in Desks
    BY <1>1 DEF Desks, TypeOK
  <1> QED BY <1>1, <1>2

LEMMA ReconciledType ==
  ASSUME TypeOK, NEW a \in Admins
  PROVE  [desk EXCEPT ![a].reconciled = TRUE] \in [Admins -> Desks]
  <1>1. desk[a] \in Desks /\ desk \in [Admins -> Desks]
    BY DEF TypeOK
  <1>2. [desk[a] EXCEPT !.reconciled = TRUE] \in Desks
    BY <1>1 DEF Desks
  <1> QED BY <1>1, <1>2

LEMMA TodoType ==
  ASSUME TypeOK, NEW a \in Admins, NEW todo \in SUBSET Payments
  PROVE  [desk EXCEPT ![a].todo = todo] \in [Admins -> Desks]
  <1>1. desk[a] \in Desks /\ desk \in [Admins -> Desks]
    BY DEF TypeOK
  <1>2. [desk[a] EXCEPT !.todo = todo] \in Desks
    BY <1>1 DEF Desks
  <1> QED BY <1>1, <1>2

LEMMA SeenType ==
  ASSUME TypeOK, NEW a \in Admins, NEW p \in Payments
  PROVE  [desk EXCEPT ![a].seen[p] = real[p]] \in [Admins -> Desks]
  <1>1. desk[a] \in Desks /\ desk \in [Admins -> Desks]
    BY DEF TypeOK
  <1>2. [desk[a].seen EXCEPT ![p] = real[p]] \in [Payments -> PayStates]
    BY <1>1 DEF Desks, TypeOK
  <1>3. [desk[a] EXCEPT !.seen = [desk[a].seen EXCEPT ![p] = real[p]]] \in Desks
    BY <1>1, <1>2 DEF Desks
  <1> QED BY <1>1, <1>3

LEMMA AdminType ==
  ASSUME TypeOK, NEW a \in Admins, Begin(a) \/ AdminStep(a) \/ AdminFault(a)
  PROVE  TypeOK'
  <1> USE Blanks DEF orderRow, goods, provider, counters, Goto, Home, Workers
  <1>1. CASE Begin(a)
    <2>1. desk' \in [Admins -> Desks]
      <3>1. PICK intent \in Intents :
              desk' = [desk EXCEPT ![a].intent = intent, ![a].since = attempts]
        BY <1>1 DEF Begin
      <3>2. [desk EXCEPT ![a].intent = intent, ![a].since = attempts]
              \in [Admins -> Desks]
        BY BeginType
      <3> QED BY <3>1, <3>2
    <2>2. pc' \in [Workers -> Labels]
      BY <1>1 DEF Begin, TypeOK
    <2> QED BY <1>1, <2>1, <2>2 DEF Begin, TypeOK
  <1>2. ASSUME Reconciled(a)
        PROVE  desk' \in [Admins -> Desks] /\ pc' \in [Workers -> Labels]
    BY <1>2, ReconciledType DEF Reconciled, TypeOK
  <1>3. CASE SearchPayments(a)
    <2>1. desk' \in [Admins -> Desks] /\ pc' \in [Workers -> Labels]
      <3> DEFINE found == {p \in Payments : real[p] # "none"}
      <3>1. CASE Reconciled(a)
        BY <1>2, <3>1
      <3>2. CASE /\ desk' = [desk EXCEPT ![a].todo = found]
                 /\ pc' = [pc EXCEPT ![a] = "lookup"]
        <4>1. found \in SUBSET Payments
          OBVIOUS
        <4> HIDE DEF found
        <4> QED BY <3>2, <4>1, TodoType DEF TypeOK
      <3> QED BY <1>3, <3>1, <3>2 DEF SearchPayments
    <2> QED BY <1>3, <2>1 DEF SearchPayments, TypeOK
  <1>4. CASE LookUpEach(a)
    <2>1. PICK p \in desk[a].todo : desk' = [desk EXCEPT ![a].seen[p] = real[p]]
      BY <1>4 DEF LookUpEach
    <2>2. p \in Payments
      BY DEF TypeOK, Desks
    <2>3. desk' \in [Admins -> Desks]
      BY <2>1, <2>2, SeenType
    <2>4. pc' \in [Workers -> Labels]
      BY <1>4 DEF LookUpEach, TypeOK
    <2> QED BY <1>4, <2>3, <2>4 DEF LookUpEach, TypeOK
  <1>5. CASE AdminUpserts(a)
    <2>1. PICK p \in desk[a].todo :
            /\ rows' = [rows EXCEPT ![p] = Merge(rows[p], desk[a].seen[p])]
            /\ desk' = [desk EXCEPT ![a].todo = desk[a].todo \ {p}]
      BY <1>5 DEF AdminUpserts
    <2>2. /\ p \in Payments /\ desk[a].todo \ {p} \in SUBSET Payments
          /\ rows[p] \in PayStates /\ desk[a].seen[p] \in PayStates
      BY DEF TypeOK, Desks
    <2>3. desk' \in [Admins -> Desks]
      BY <2>1, <2>2, TodoType
    <2>4. rows' \in [Payments -> PayStates]
      BY <2>1, <2>2, MergeType DEF TypeOK
    <2> QED BY <1>5, <2>3, <2>4 DEF AdminUpserts, TypeOK
  <1>6. CASE AdminProjects(a)
    <2>1. desk' \in [Admins -> Desks] /\ pc' \in [Workers -> Labels]
      BY <1>2, <1>6 DEF AdminProjects, TypeOK
    <2>2. status' \in {"pending", "approved", "rejected", "cancelled", "refunded"}
      BY <1>6 DEF AdminProjects, Projected
    <2> QED BY <1>6, <2>1, <2>2 DEF AdminProjects, TypeOK
  <1>7. CASE InspectAgain(a)
    BY <1>7 DEF InspectAgain, TypeOK
  <1>8. CASE ReviewPayments(a)
    BY <1>8 DEF ReviewPayments, TypeOK
  <1>9. CASE ConfirmLifecycle(a)
    <2>1. ops' \in SUBSET {"release", "finalize"}
      BY <1>9 DEF ConfirmLifecycle, TypeOK, FinancialGuard
    <2> QED BY <1>9, <2>1 DEF ConfirmLifecycle, TypeOK
  <1>10. CASE AdminFault(a)
    BY <1>10 DEF AdminFault, TypeOK
  <1> QED BY <1>1, <1>3, <1>4, <1>5, <1>6, <1>7, <1>8, <1>9, <1>10 DEF AdminStep

\* Mercado Pago, its clock and the lease of a notification.
Outside ==
  \/ MercadoPago \/ WindowCloses
  \/ \E e \in Notices : EventAges(e)

LEMMA OutsideType ==
  ASSUME TypeOK, Outside
  PROVE  TypeOK'
  <1> USE Blanks DEF orderRow, goods, provider, counters
  <1>1. ASSUME NEW n \in sent, CreatePreference(n) \/ RefusePreference(n)
        PROVE  TypeOK'
    BY <1>1 DEF CreatePreference, RefusePreference, TypeOK
  <1>2. ASSUME NEW p \in Payments, NEW s \in PayStates, PaymentBecomes(p, s)
        PROVE  TypeOK'
    <2>1. real' \in [Payments -> PayStates]
      BY <1>2 DEF PaymentBecomes, TypeOK
    <2>2. notice' \in [Notices -> Payments \cup {NoOne, Other}]
      BY <1>2 DEF PaymentBecomes, TypeOK
    <2>3. losses' \in Nat
      BY <1>2 DEF PaymentBecomes, TypeOK
    <2> QED BY <1>2, <2>1, <2>2, <2>3 DEF PaymentBecomes, TypeOK
  <1>3. ASSUME NEW p \in Payments, Pay(p) \/ Resolve(p) \/ Refund(p)
        PROVE  TypeOK'
    BY <1>2, <1>3 DEF Pay, Resolve, Refund
  <1>4. ASSUME NEW e \in Notices, NotifyOther(e) PROVE TypeOK'
    BY <1>4 DEF NotifyOther, TypeOK
  <1>5. ASSUME NEW e \in Notices, EventAges(e) PROVE TypeOK'
    <2>1. event' \in [Notices -> Events]
      <3>1. NoOne \in Hooks \cup {NoOne, Other}
        OBVIOUS
      <3>2. [event EXCEPT ![e].old = TRUE] \in [Notices -> Events]
        BY <3>1, EventFieldTypes
      <3> QED BY <1>5, <3>2 DEF EventAges
    <2> QED BY <1>5, <2>1 DEF EventAges, TypeOK
  <1>6. CASE WindowCloses
    <2>1. over + 1 \in Attempts
      BY <1>6, BoundsAssumption DEF WindowCloses, TypeOK
    <2> QED BY <1>6, <2>1 DEF WindowCloses, TypeOK
  <1> QED BY <1>1, <1>3, <1>4, <1>5, <1>6 DEF Outside, MercadoPago

\* The steps by kind of worker.
BuyerActs(b) == ReadAccess(b) \/ BuyerStep(b) \/ BuyerFault(b)
HookActs(h) == \/ HookStep(h) \/ HookFault(h) \/ HookDies(h)
               \/ \E e \in Notices : Deliver(h, e) \/ Duplicate(h, e)
AdminActs(a) == Begin(a) \/ AdminStep(a) \/ AdminFault(a)

LEMMA Cases ==
  Next => \/ \E b \in Buyers : BuyerActs(b)
          \/ \E h \in Hooks : HookActs(h)
          \/ \E a \in Admins : AdminActs(a)
          \/ Outside
  PROOF BY DEF Next, BuyerActs, HookActs, AdminActs, Outside

LEMMA NextType ==
  ASSUME TypeOK, Readings, Next
  PROVE  TypeOK'
  <1>1. ASSUME NEW b \in Buyers, BuyerActs(b) PROVE TypeOK'
    BY <1>1, BuyerType DEF BuyerActs
  <1>2. ASSUME NEW h \in Hooks, HookActs(h) PROVE TypeOK'
    BY <1>2, HookType DEF HookActs, Readings
  <1>3. ASSUME NEW a \in Admins, AdminActs(a) PROVE TypeOK'
    BY <1>3, AdminType DEF AdminActs
  <1> QED BY <1>1, <1>2, <1>3, Cases, OutsideType

-----------------------------------------------------------------------------
(* The invariant holds at the start *)

LEMMA InitIInv == Init => IInv
  <1> SUFFICES ASSUME Init PROVE IInv
    OBVIOUS
  <1>1. TypeOK
    BY InitTypeOK
  <1>2. Preferences
    BY DEF Init, Preferences
  <1>3. Creators
    BY DEF Init, Creators, Behind, Owning, Workers
  <1>4. Readings
    BY NoOneAssumption
       DEF Init, Readings, Known, HookReads, AdminReads, NoDesk, Workers
  <1>5. Releases
    BY DEF Init, Releases, Releasing, Workers
  <1> QED BY <1>1, <1>2, <1>3, <1>4, <1>5 DEF Init, IInv, Released,
             LinkHasItsOperation

-----------------------------------------------------------------------------
(* The row and the preferences at Mercado Pago *)

LEMMA PreferencesKept ==
  ASSUME Preferences,
         UNCHANGED <<attempt, attempts, over, token, pref, shown, sent, prefs,
                     refused>>
  PROVE  Preferences'
  PROOF BY DEF Preferences

LEMMA MarkPreferences ==
  ASSUME TypeOK, Preferences, NEW b \in Buyers, held[b] \in prefs, NEW fits,
         NEW next, MarkPreferenceCreated(b, fits, next),
         UNCHANGED <<attempts, over, sent, prefs, refused>>
  PROVE  Preferences'
  <1>1. held[b] = attempt /\ held[b] # 0
    BY DEF Preferences, TypeOK
  <1>2. \/ /\ pref' = held[b] /\ token' = 0 /\ attempt' = attempt
           /\ shown' = shown \cup {held[b]} /\ pref = 0
        \/ /\ UNCHANGED <<attempt, token, pref>>
           /\ shown' = shown \cup {held[b]} /\ pref = held[b]
        \/ UNCHANGED <<attempt, token, pref, shown>>
    BY DEF MarkPreferenceCreated, Show, orderRow
  <1> QED BY <1>1, <1>2 DEF Preferences, TypeOK

LEMMA BuyerPreferences ==
  ASSUME TypeOK, Preferences, Creators, NEW b \in Buyers, BuyerActs(b)
  PROVE  Preferences'
  <1> USE DEF orderRow, goods, provider, counters, Goto, Show
  <1>0. Behind(b)
    BY DEF Creators
  <1>1. CASE ReadAccess(b) \/ Recover(b) \/ CreateAnswered(b) \/ BuyerFault(b)
             \/ ResetRetrySafeFailedOrder(b)
    BY <1>1 DEF ReadAccess, Recover, CreateAnswered, BuyerFault,
                ResetRetrySafeFailedOrder, Preferences
  <1>2. CASE ReadOrder(b)
    <2>1. shown' = shown \/ (pref # 0 /\ shown' = shown \cup {pref})
      BY <1>2 DEF ReadOrder
    <2> QED BY <1>2, <2>1 DEF ReadOrder, Preferences
  <1>3. CASE KeepRecovered(b)
    BY <1>0, <1>3, MarkPreferences DEF KeepRecovered, Behind
  <1>4. CASE KeepCreated(b)
    BY <1>0, <1>4, MarkPreferences DEF KeepCreated, Behind
  <1>5. CASE ClaimPreferenceAttempt(b)
    <2>1. CASE Claimable /\ attempts < MaxAttempts
      <3>1. sent = {} /\ prefs = {} /\ pref = 0 /\ shown = {}
        BY <2>1 DEF Preferences, Claimable, TypeOK
      <3>2. attempts \in Nat /\ over \in Nat
        BY Blanks DEF TypeOK
      <3>3. /\ attempts' = attempts + 1 /\ attempt' = attempts + 1
            /\ token' = attempts + 1
            /\ UNCHANGED <<over, sent, prefs, refused, pref, shown>>
        BY <1>5, <2>1 DEF ClaimPreferenceAttempt
      <3> QED BY <3>1, <3>2, <3>3 DEF Preferences
    <2>2. CASE UNCHANGED <<attempt, token, attempts>>
      BY <1>5, <2>2 DEF ClaimPreferenceAttempt, Preferences
    <2> QED BY <1>5, <2>1, <2>2 DEF ClaimPreferenceAttempt
  <1>6. CASE LostAttempt(b)
    BY <1>6 DEF LostAttempt, Preferences
  <1>7. CASE SendPreference(b)
    <2>1. CASE sent' = sent \cup {held[b]} /\ pc[b] = "reread" /\ token = held[b]
      <3>1. held[b] \notin sent \cup prefs \cup refused /\ held[b] # 0
        BY <1>0, <2>1 DEF Behind, Owning
      <3>2. held[b] = attempt /\ held[b] \in 1..attempts
        BY <1>0, <2>1, <3>1, Blanks DEF Preferences, Behind, TypeOK
      <3> QED BY <1>7, <2>1, <3>1, <3>2 DEF SendPreference, Preferences
    <2>2. CASE UNCHANGED sent
      BY <1>7, <2>2 DEF SendPreference, Preferences
    <2> QED BY <1>7, <2>1, <2>2 DEF SendPreference
  <1>8. CASE MarkOrderFailed(b)
    <2>1. CASE UNCHANGED <<attempt, token>>
      BY <1>8, <2>1 DEF MarkOrderFailed, Preferences
    <2>2. CASE pc[b] = "declined" /\ pref = 0 /\ token = held[b] /\ Unpaid
      <3>1. held[b] \in refused /\ held[b] # 0
        BY <1>0, <2>2 DEF Behind, Owning
      <3>2. sent = {} /\ prefs = {}
        BY <2>2, <3>1 DEF Preferences
      <3>3. attempt' = 0 /\ token' = 0
        BY <1>8, <2>2 DEF MarkOrderFailed, RetrySafe
      <3> QED BY <1>8, <2>2, <3>2, <3>3 DEF MarkOrderFailed, Preferences, TypeOK
    <2> QED BY <1>8, <2>1, <2>2 DEF MarkOrderFailed, RetrySafe
  <1> QED BY <1>1, <1>2, <1>3, <1>4, <1>5, <1>6, <1>7, <1>8
          DEF BuyerActs, BuyerStep

LEMMA OutsidePreferences ==
  ASSUME TypeOK, Preferences, Outside
  PROVE  Preferences'
  <1> USE DEF orderRow, goods, provider, counters
  <1>1. ASSUME NEW n \in sent, CreatePreference(n) PROVE Preferences'
    BY <1>1 DEF CreatePreference, Preferences
  <1>2. ASSUME NEW n \in sent, RefusePreference(n) PROVE Preferences'
    BY <1>2 DEF RefusePreference, Preferences
  <1>3. ASSUME NEW p \in Payments, Pay(p) \/ Resolve(p) \/ Refund(p)
        PROVE  Preferences'
    BY <1>3, PreferencesKept DEF Pay, Resolve, Refund, PaymentBecomes
  <1>4. ASSUME NEW e \in Notices, NotifyOther(e) \/ EventAges(e)
        PROVE  Preferences'
    BY <1>4, PreferencesKept DEF NotifyOther, EventAges
  <1>5. CASE WindowCloses
    BY <1>5, Blanks DEF WindowCloses, Preferences, TypeOK
  <1> QED BY <1>1, <1>2, <1>3, <1>4, <1>5 DEF Outside, MercadoPago

\* What the webhooks and the administrators leave alone.
LEMMA HookFrame ==
  ASSUME NEW h \in Hooks, HookActs(h)
  PROVE  /\ UNCHANGED <<attempt, attempts, over, token, pref, shown, provider,
                        goods, held, desk>>
         /\ \E l \in Labels : pc' = [pc EXCEPT ![h] = l]
  <1> USE DEF orderRow, goods, provider, counters, Goto, Leave
  <1>1. CASE HookStep(h)
    BY <1>1 DEF HookStep, CheckClaim, LookUpPayment, HookUpserts, HookProjects,
                FinishEvent, FailEvent
  <1>2. CASE HookFault(h) \/ HookDies(h)
    BY <1>2 DEF HookFault, HookDies
  <1>3. ASSUME NEW e \in Notices, Deliver(h, e) \/ Duplicate(h, e)
        PROVE  /\ UNCHANGED <<attempt, attempts, over, token, pref, shown,
                              provider, goods, held, desk>>
               /\ \E l \in Labels : pc' = [pc EXCEPT ![h] = l]
    BY <1>3 DEF Deliver, Duplicate, Register
  <1> QED BY <1>1, <1>2, <1>3 DEF HookActs

LEMMA AdminFrame ==
  ASSUME NEW a \in Admins, AdminActs(a)
  PROVE  /\ UNCHANGED <<attempt, attempts, over, token, pref, shown, provider,
                        event, held, job>>
         /\ \E l \in Labels : pc' = [pc EXCEPT ![a] = l]
  <1> USE DEF orderRow, goods, provider, counters, Goto, Home, Reconciled
  <1>1. CASE Begin(a) \/ AdminFault(a)
    BY <1>1 DEF Begin, AdminFault
  <1>2. CASE SearchPayments(a)
    BY <1>2 DEF SearchPayments
  <1>3. CASE LookUpEach(a)
    BY <1>3 DEF LookUpEach
  <1>4. CASE AdminUpserts(a)
    BY <1>4 DEF AdminUpserts
  <1>5. CASE AdminProjects(a)
    BY <1>5 DEF AdminProjects
  <1>6. CASE InspectAgain(a) \/ ReviewPayments(a)
    BY <1>6 DEF InspectAgain, ReviewPayments
  <1>7. CASE ConfirmLifecycle(a)
    BY <1>7 DEF ConfirmLifecycle
  <1> QED BY <1>1, <1>2, <1>3, <1>4, <1>5, <1>6, <1>7 DEF AdminActs, AdminStep

LEMMA NextPreferences ==
  ASSUME TypeOK, Preferences, Creators, Next
  PROVE  Preferences'
  <1>1. ASSUME NEW h \in Hooks, HookActs(h) PROVE Preferences'
    BY <1>1, HookFrame, PreferencesKept DEF provider
  <1>2. ASSUME NEW a \in Admins, AdminActs(a) PROVE Preferences'
    BY <1>2, AdminFrame, PreferencesKept DEF provider
  <1> QED BY <1>1, <1>2, Cases, BuyerPreferences, OutsidePreferences

-----------------------------------------------------------------------------
(* The invocations that own an attempt *)

\* For the steps that are not a buyer's.
LEMMA CreatorsKept ==
  ASSUME Creators, UNCHANGED <<held, attempts>>,
         \A b \in Buyers : pc'[b] = pc[b],
         sent' \cup prefs' \cup refused' = sent \cup prefs \cup refused,
         prefs \subseteq prefs', refused \subseteq refused'
  PROVE  Creators'
  PROOF BY DEF Creators, Behind

\* For the steps of a buyer that keep its attempt, or let go of it.
LEMMA CreatorMoves ==
  ASSUME TypeOK, Creators, NEW b \in Buyers, NEW l,
         pc' = [pc EXCEPT ![b] = l],
         l \in Owning => pc[b] \in Owning /\ l # "reread",
         l \in {"created", "recovered"} => held[b] \in prefs,
         l = "declined" => held[b] \in refused,
         UNCHANGED <<held, attempts, sent, prefs, refused>>
  PROVE  Creators'
  <1>1. /\ pc'[b] = l
        /\ \A c \in Buyers : c # b => pc'[c] = pc[c]
    BY DEF TypeOK, Workers
  <1>2. Behind(b)'
    BY <1>1 DEF Creators, Behind, Owning
  <1>3. ASSUME NEW c \in Buyers PROVE Behind(c)'
    BY <1>1, <1>2 DEF Creators, Behind
  <1>4. ASSUME NEW c \in Buyers, NEW d \in Buyers, c # d,
               pc'[c] \in Owning, pc'[d] \in Owning
        PROVE  held'[c] # held'[d]
    <2>1. pc[c] \in Owning /\ pc[d] \in Owning
      BY <1>1, <1>4
    <2> QED BY <1>4, <2>1 DEF Creators
  <1> QED BY <1>3, <1>4 DEF Creators

LEMMA BuyerCreators ==
  ASSUME TypeOK, Preferences, Creators, NEW b \in Buyers, BuyerActs(b)
  PROVE  Creators'
  <1> USE DEF orderRow, goods, provider, counters, Goto, Show
  <1>0. Behind(b) /\ b \in Workers
    BY DEF Creators, Workers
  <1>1. CASE ReadAccess(b)
    BY <1>1, CreatorMoves DEF ReadAccess, Owning
  <1>2. CASE ReadOrder(b)
    <2>1. CASE held' = held
      <3>1. PICK l \in {"idle", "reset", "claim", "recover"} :
              pc' = [pc EXCEPT ![b] = l]
        BY <1>2 DEF ReadOrder
      <3> QED BY <1>2, <2>1, <3>1, CreatorMoves DEF ReadOrder, Owning
    <2>2. CASE held' = [held EXCEPT ![b] = attempt] /\ pc' = [pc EXCEPT ![b] = "recover"]
      <3>1. /\ held'[b] = attempt /\ pc'[b] = "recover"
            /\ \A c \in Buyers : c # b => held'[c] = held[c] /\ pc'[c] = pc[c]
        BY <1>0, <2>2 DEF TypeOK
      <3>2. UNCHANGED <<attempts, sent, prefs, refused>>
        BY <1>2 DEF ReadOrder
      <3>3. Behind(b)'
        BY <3>1, <3>2 DEF Preferences, Behind, Owning
      <3>4. \A c \in Buyers : Behind(c)'
        BY <3>1, <3>2, <3>3 DEF Creators, Behind
      <3> QED BY <3>1, <3>4 DEF Creators, Owning
    <2> QED BY <1>2, <2>1, <2>2 DEF ReadOrder
  <1>3. CASE Recover(b)
    BY <1>3, CreatorMoves DEF Recover, Owning
  <1>4. CASE KeepRecovered(b)
    <2>1. pc' = [pc EXCEPT ![b] = "idle"]
      BY <1>4 DEF KeepRecovered, MarkPreferenceCreated
    <2> QED BY <1>4, <2>1, CreatorMoves DEF KeepRecovered, Owning
  <1>5. CASE KeepCreated(b)
    <2>1. PICK l \in {"idle", "failing"} : pc' = [pc EXCEPT ![b] = l]
      BY <1>5 DEF KeepCreated, MarkPreferenceCreated
    <2> QED BY <1>5, <2>1, CreatorMoves DEF KeepCreated, Owning
  <1>6. CASE ResetRetrySafeFailedOrder(b)
    BY <1>6, CreatorMoves DEF ResetRetrySafeFailedOrder, Owning
  <1>7. CASE ClaimPreferenceAttempt(b)
    <2>1. CASE Claimable /\ attempts < MaxAttempts
      <3> DEFINE n == attempts + 1
      <3>1. /\ held'[b] = n /\ pc'[b] = "reread" /\ attempts' = n
            /\ \A c \in Buyers : c # b => held'[c] = held[c] /\ pc'[c] = pc[c]
            /\ UNCHANGED <<sent, prefs, refused>>
        <4>1. /\ held' = [held EXCEPT ![b] = n] /\ attempts' = n
              /\ pc' = [pc EXCEPT ![b] = "reread"]
              /\ UNCHANGED <<sent, prefs, refused>>
          BY <1>7, <2>1 DEF ClaimPreferenceAttempt
        <4> HIDE DEF n
        <4> QED BY <1>0, <4>1 DEF TypeOK, Workers
      <3>2. /\ n # 0 /\ n \notin sent \cup prefs \cup refused
            /\ \A c \in Buyers : held[c] < n
        BY Blanks DEF Creators, Behind, Preferences, TypeOK
      <3>3. Behind(b)'
        BY <3>1, <3>2 DEF Behind
      <3>4. ASSUME NEW c \in Buyers, c # b PROVE Behind(c)'
        <4>1. /\ held'[c] = held[c] /\ pc'[c] = pc[c] /\ Behind(c)
              /\ held[c] < n
          BY <3>1, <3>2, <3>4 DEF Creators
        <4>2. held'[c] <= attempts'
          BY <3>1, <4>1, Blanks DEF TypeOK
        <4> QED BY <3>1, <4>1, <4>2 DEF Behind
      <3>5. \A c \in Buyers : c # b => held'[c] # held'[b]
        BY <3>1, <3>2, Blanks DEF TypeOK
      <3> QED BY <3>1, <3>3, <3>4, <3>5 DEF Creators
    <2>2. CASE UNCHANGED <<held, attempts>> /\ pc' = [pc EXCEPT ![b] = "lost"]
      BY <1>7, <2>2, CreatorMoves DEF ClaimPreferenceAttempt, Owning
    <2> QED BY <1>7, <2>1, <2>2 DEF ClaimPreferenceAttempt
  <1>8. CASE LostAttempt(b)
    BY <1>8, CreatorMoves DEF LostAttempt, Owning
  <1>9. CASE SendPreference(b)
    <2>1. CASE sent' = sent \cup {held[b]} /\ pc' = [pc EXCEPT ![b] = "creating"]
      <3>1. /\ pc[b] \in Owning /\ pc'[b] = "creating"
            /\ \A c \in Buyers : c # b => pc'[c] = pc[c]
            /\ UNCHANGED <<held, attempts, prefs, refused>>
        BY <1>0, <1>9, <2>1 DEF SendPreference, TypeOK, Owning
      <3>2. ASSUME NEW c \in Buyers, c # b PROVE Behind(c)'
        <4>1. pc[c] = "reread" => held[c] # held[b]
          BY <3>1, <3>2 DEF Creators, Owning
        <4>2. Behind(c) /\ pc'[c] = pc[c]
          BY <3>1, <3>2 DEF Creators
        <4> QED BY <2>1, <3>1, <4>1, <4>2 DEF Behind
      <3>3. Behind(b)'
        BY <1>0, <3>1 DEF Behind
      <3> QED BY <3>1, <3>2, <3>3 DEF Creators
    <2>2. CASE UNCHANGED sent /\ pc' = [pc EXCEPT ![b] = "idle"]
      BY <1>9, <2>2, CreatorMoves DEF SendPreference, Owning
    <2> QED BY <1>9, <2>1, <2>2 DEF SendPreference
  <1>10. CASE CreateAnswered(b)
    <2>1. PICK l \in {"created", "declined", "failing"} :
            /\ pc' = [pc EXCEPT ![b] = l]
            /\ l = "created" => held[b] \in prefs
            /\ l = "declined" => held[b] \in refused
      BY <1>10 DEF CreateAnswered
    <2> QED BY <1>10, <2>1, CreatorMoves DEF CreateAnswered, Owning
  <1>11. CASE MarkOrderFailed(b)
    BY <1>11, CreatorMoves DEF MarkOrderFailed, Owning
  <1>12. CASE BuyerFault(b)
    <2>1. PICK l \in {"failing", "idle"} :
            /\ pc' = [pc EXCEPT ![b] = l]
            /\ l = "failing" => pc[b] = "created"
      BY <1>12 DEF BuyerFault
    <2> QED BY <1>12, <2>1, CreatorMoves DEF BuyerFault, Owning
  <1> QED BY <1>1, <1>2, <1>3, <1>4, <1>5, <1>6, <1>7, <1>8, <1>9, <1>10,
             <1>11, <1>12 DEF BuyerActs, BuyerStep

\* What Mercado Pago, the clock and the leases leave alone.
LEMMA OutsideFrame ==
  ASSUME Outside
  PROVE  /\ UNCHANGED <<attempt, attempts, pc, held, pref, shown, rows, goods,
                        job, desk>>
         /\ sent' \cup prefs' \cup refused' = sent \cup prefs \cup refused
         /\ prefs \subseteq prefs' /\ refused \subseteq refused'
  <1> USE DEF orderRow, goods, provider, counters
  <1>1. ASSUME NEW n \in sent, CreatePreference(n) \/ RefusePreference(n)
        PROVE  /\ UNCHANGED <<attempt, attempts, pc, held, pref, shown, rows,
                              goods, job, desk>>
               /\ sent' \cup prefs' \cup refused' = sent \cup prefs \cup refused
               /\ prefs \subseteq prefs' /\ refused \subseteq refused'
    BY <1>1 DEF CreatePreference, RefusePreference
  <1>2. ASSUME NEW p \in Payments, Pay(p) \/ Resolve(p) \/ Refund(p)
        PROVE  UNCHANGED <<attempt, attempts, pc, held, pref, shown, rows, goods,
                           job, desk, sent, prefs, refused>>
    BY <1>2 DEF Pay, Resolve, Refund, PaymentBecomes
  <1>3. ASSUME NEW e \in Notices, NotifyOther(e) \/ EventAges(e)
        PROVE  UNCHANGED <<attempt, attempts, pc, held, pref, shown, rows, goods,
                           job, desk, sent, prefs, refused>>
    BY <1>3 DEF NotifyOther, EventAges
  <1>4. CASE WindowCloses
    BY <1>4 DEF WindowCloses
  <1> QED BY <1>1, <1>2, <1>3, <1>4 DEF Outside, MercadoPago

LEMMA NextCreators ==
  ASSUME TypeOK, Preferences, Creators, Next
  PROVE  Creators'
  <1>1. ASSUME NEW h \in Hooks, HookActs(h) PROVE Creators'
    <2>1. \A b \in Buyers : b # h
      BY KindsAssumption
    <2>2. /\ UNCHANGED <<held, attempts, sent, prefs, refused>>
          /\ \E l \in Labels : pc' = [pc EXCEPT ![h] = l]
      BY <1>1, HookFrame DEF provider
    <2>3. \A b \in Buyers : pc'[b] = pc[b]
      BY <2>1, <2>2 DEF TypeOK, Workers
    <2> QED BY <2>2, <2>3, CreatorsKept
  <1>2. ASSUME NEW a \in Admins, AdminActs(a) PROVE Creators'
    <2>1. \A b \in Buyers : b # a
      BY KindsAssumption
    <2>2. /\ UNCHANGED <<held, attempts, sent, prefs, refused>>
          /\ \E l \in Labels : pc' = [pc EXCEPT ![a] = l]
      BY <1>2, AdminFrame DEF provider
    <2>3. \A b \in Buyers : pc'[b] = pc[b]
      BY <2>1, <2>2 DEF TypeOK, Workers
    <2> QED BY <2>2, <2>3, CreatorsKept
  <1>3. CASE Outside
    BY <1>3, OutsideFrame, CreatorsKept
  <1> QED BY <1>1, <1>2, <1>3, Cases, BuyerCreators

-----------------------------------------------------------------------------
(* What was read of a payment, and when *)

\* Two readings that were true once merge into a reading that was true once.
LEMMA KnownMerge ==
  ASSUME NEW now \in PayStates, NEW u \in PayStates, NEW v \in PayStates,
         Known(u, now), Known(v, now)
  PROVE  /\ Known(Merge(u, v), now)
         /\ v # "none" => Merge(u, v) # "none"
         /\ u # "none" /\ v # "none" => Merge(u, v) # "none"
  PROOF BY DEF Known, Merge

\* How a payment moves at Mercado Pago.
Moves(now, s) ==
  \/ now = "none" /\ s \in {"pending", "approved", "rejected"}
  \/ now = "pending" /\ s \in {"approved", "rejected", "cancelled"}
  \/ now = "approved" /\ s = "refunded"

LEMMA KnownMoves ==
  ASSUME NEW now \in PayStates, NEW s \in PayStates, NEW v, Moves(now, s),
         Known(v, now)
  PROVE  Known(v, s)
  PROOF BY DEF Known, Moves

LEMMA BuyerFrame ==
  ASSUME NEW b \in Buyers, BuyerActs(b)
  PROVE  /\ UNCHANGED <<rows, event, real, notice, goods, over, job, desk>>
         /\ \E l : pc' = [pc EXCEPT ![b] = l]
         /\ pref # 0 => pref' = pref
  <1> USE DEF orderRow, goods, provider, counters, Goto, Show
  <1>1. CASE ReadAccess(b) \/ Recover(b) \/ CreateAnswered(b) \/ BuyerFault(b)
    BY <1>1 DEF ReadAccess, Recover, CreateAnswered, BuyerFault
  <1>2. CASE ReadOrder(b)
    BY <1>2 DEF ReadOrder
  <1>3. CASE KeepRecovered(b)
    BY <1>3 DEF KeepRecovered, MarkPreferenceCreated
  <1>4. CASE KeepCreated(b)
    BY <1>4 DEF KeepCreated, MarkPreferenceCreated
  <1>5. CASE ResetRetrySafeFailedOrder(b) \/ ClaimPreferenceAttempt(b)
    BY <1>5 DEF ResetRetrySafeFailedOrder, ClaimPreferenceAttempt
  <1>6. CASE LostAttempt(b) \/ SendPreference(b) \/ MarkOrderFailed(b)
    BY <1>6 DEF LostAttempt, SendPreference, MarkOrderFailed
  <1> QED BY <1>1, <1>2, <1>3, <1>4, <1>5, <1>6 DEF BuyerActs, BuyerStep

\* A step of a worker leaves the others where they are.
LEMMA OthersStay ==
  ASSUME TypeOK
  PROVE  /\ \A b \in Buyers : BuyerActs(b) =>
              \A w \in Workers : w # b => pc'[w] = pc[w]
         /\ \A h \in Hooks : HookActs(h) =>
              /\ \A w \in Workers : w # h => pc'[w] = pc[w]
              /\ \A k \in Hooks : k # h => job'[k] = job[k]
         /\ \A a \in Admins : AdminActs(a) =>
              /\ \A w \in Workers : w # a => pc'[w] = pc[w]
              /\ \A c \in Admins : c # a => desk'[c] = desk[c]
  <1>1. ASSUME NEW b \in Buyers, BuyerActs(b)
        PROVE  \A w \in Workers : w # b => pc'[w] = pc[w]
    <2>1. \E l : pc' = [pc EXCEPT ![b] = l]
      BY <1>1, BuyerFrame
    <2> QED BY <2>1 DEF TypeOK
  <1>2. ASSUME NEW h \in Hooks, HookActs(h)
        PROVE  /\ \A w \in Workers : w # h => pc'[w] = pc[w]
               /\ \A k \in Hooks : k # h => job'[k] = job[k]
    <2>1. \E l : pc' = [pc EXCEPT ![h] = l]
      BY <1>2, HookFrame
    <2>2. \A k \in Hooks : k # h => job'[k] = job[k]
      BY <1>2 DEF HookActs, HookStep, CheckClaim, LookUpPayment, HookUpserts,
                  HookProjects, FinishEvent, FailEvent, HookFault, HookDies,
                  Deliver, Duplicate, Register, Leave, Goto, TypeOK
    <2> QED BY <2>1, <2>2 DEF TypeOK
  <1>3. ASSUME NEW a \in Admins, AdminActs(a)
        PROVE  /\ \A w \in Workers : w # a => pc'[w] = pc[w]
               /\ \A c \in Admins : c # a => desk'[c] = desk[c]
    <2>1. \E l : pc' = [pc EXCEPT ![a] = l]
      BY <1>3, AdminFrame
    <2>2. \A c \in Admins : c # a => desk'[c] = desk[c]
      <3> USE DEF Goto, Home, Reconciled, TypeOK
      <3>1. CASE Begin(a) \/ AdminFault(a)
        BY <3>1 DEF Begin, AdminFault
      <3>2. CASE SearchPayments(a)
        BY <3>2 DEF SearchPayments
      <3>3. CASE LookUpEach(a) \/ AdminUpserts(a)
        BY <3>3 DEF LookUpEach, AdminUpserts
      <3>4. CASE AdminProjects(a) \/ InspectAgain(a)
        BY <3>4 DEF AdminProjects, InspectAgain
      <3>5. CASE ReviewPayments(a) \/ ConfirmLifecycle(a)
        BY <3>5 DEF ReviewPayments, ConfirmLifecycle
      <3> QED BY <1>3, <3>1, <3>2, <3>3, <3>4, <3>5 DEF AdminActs, AdminStep
    <2> QED BY <2>1, <2>2 DEF TypeOK
  <1> QED BY <1>1, <1>2, <1>3

LEMMA BuyerReadings ==
  ASSUME TypeOK, Readings, NEW b \in Buyers, BuyerActs(b)
  PROVE  Readings'
  <1>1. /\ UNCHANGED <<rows, real, notice, job, desk>>
        /\ pref # 0 => pref' = pref
    BY BuyerFrame
  <1>2. \A w \in Hooks \cup Admins : pc'[w] = pc[w]
    BY OthersStay, KindsAssumption DEF Workers
  <1> QED BY <1>1, <1>2 DEF Readings, HookReads, AdminReads

\* The row of a payment and the webhook's job, after a step of a webhook.
LEMMA HookMoves ==
  ASSUME TypeOK, Readings, NEW h \in Hooks, HookActs(h)
  PROVE  /\ \A p \in Payments : Known(rows'[p], real[p])
         /\ HookReads(h)'
  <1> USE DEF orderRow, goods, provider, counters, Goto, Leave, Workers
  <1>0. HookReads(h) /\ (\A p \in Payments : Known(rows[p], real[p])) /\ h \in Workers
    BY DEF Readings
  <1>1. ASSUME NEW e \in Notices, Deliver(h, e) \/ Duplicate(h, e)
        PROVE  UNCHANGED rows /\ HookReads(h)'
    <2>1. Register(h, e)
      BY <1>1 DEF Deliver, Duplicate
    <2> QED BY <1>0, <2>1 DEF Register, HookReads, TypeOK
  <1>2. CASE CheckClaim(h)
    BY <1>0, <1>2 DEF CheckClaim, HookReads, TypeOK
  <1>3. CASE LookUpPayment(h)
    <2> DEFINE p == notice[job[h].notice]
    <2>1. job[h].notice \in Notices /\ p # NoOne
      BY <1>0, <1>3 DEF LookUpPayment, HookReads
    <2>2. CASE p # Other
      <3>1. p \in Payments /\ real[p] # "none"
        BY <2>1, <2>2 DEF TypeOK, Readings
      <3>2. job'[h].notice = job[h].notice /\ job'[h].seen = real[p]
        BY <1>3, <2>2 DEF LookUpPayment, TypeOK, Jobs
      <3>3. UNCHANGED <<rows, real, notice>>
        BY <1>3 DEF LookUpPayment
      <3> QED BY <1>0, <2>1, <3>1, <3>2, <3>3 DEF HookReads, Known
    <2>3. CASE p = Other
      BY <1>0, <1>3, <2>1, <2>3 DEF LookUpPayment, HookReads, TypeOK
    <2> QED BY <2>2, <2>3
  <1>4. CASE HookUpserts(h)
    <2> DEFINE p == notice[job[h].notice]
    <2>1. /\ p \in Payments /\ Known(job[h].seen, real[p])
          /\ job[h].seen \in PayStates /\ rows[p] \in PayStates
          /\ real[p] \in PayStates /\ Known(rows[p], real[p])
      BY <1>0, <1>4 DEF HookUpserts, HookReads, TypeOK, Jobs
    <2>2. Known(Merge(rows[p], job[h].seen), real[p])
      BY <2>1, KnownMerge
    <2>3. rows' = [rows EXCEPT ![p] = Merge(rows[p], job[h].seen)]
      BY <1>4 DEF HookUpserts
    <2>4. HookReads(h)'
      BY <1>0, <1>4 DEF HookUpserts, HookReads, TypeOK
    <2> HIDE DEF p
    <2> QED BY <1>0, <2>1, <2>2, <2>3, <2>4 DEF TypeOK
  <1>5. CASE HookProjects(h)
    BY <1>0, <1>5 DEF HookProjects, HookReads, TypeOK
  <1>6. CASE FinishEvent(h)
    BY <1>0, <1>6 DEF FinishEvent, HookReads, TypeOK
  <1>7. CASE FailEvent(h)
    BY <1>0, <1>7 DEF FailEvent, HookReads, TypeOK
  <1>8. CASE HookFault(h)
    BY <1>0, <1>8 DEF HookFault, HookReads, TypeOK
  <1>9. CASE HookDies(h)
    BY <1>0, <1>9 DEF HookDies, HookReads, TypeOK
  <1> QED BY <1>0, <1>1, <1>2, <1>3, <1>4, <1>5, <1>6, <1>7, <1>8, <1>9
          DEF HookActs, HookStep

LEMMA HookReadings ==
  ASSUME TypeOK, Readings, NEW h \in Hooks, HookActs(h)
  PROVE  Readings'
  <1>1. UNCHANGED <<real, notice, pref, desk>>
    BY HookFrame DEF provider
  <1>2. /\ \A p \in Payments : Known(rows'[p], real'[p])
        /\ HookReads(h)'
    BY <1>1, HookMoves
  <1>3. ASSUME NEW k \in Hooks, k # h PROVE HookReads(k)'
    <2>1. pc'[k] = pc[k] /\ job'[k] = job[k]
      BY <1>3, OthersStay DEF Workers
    <2> QED BY <1>1, <2>1 DEF Readings, HookReads
  <1>4. \A a \in Admins : pc'[a] = pc[a]
    BY OthersStay, KindsAssumption DEF Workers
  <1> QED BY <1>1, <1>2, <1>3, <1>4 DEF Readings, AdminReads

\* The row of a payment and the administrator's desk, after a step of an
\* administrator.
LEMMA AdminMoves ==
  ASSUME TypeOK, Readings, NEW a \in Admins, AdminActs(a)
  PROVE  /\ \A p \in Payments : Known(rows'[p], real[p])
         /\ AdminReads(a)'
  <1> USE DEF orderRow, goods, provider, counters, Goto, Workers
  <1>0. /\ AdminReads(a) /\ a \in Workers /\ desk \in [Admins -> Desks]
        /\ \A p \in Payments : Known(rows[p], real[p])
        /\ desk[a].todo \in SUBSET Payments
        /\ \A p \in Payments : desk[a].seen[p] \in PayStates /\ real[p] \in PayStates
    BY DEF Readings, TypeOK, Desks
  <1>1. ASSUME UNCHANGED <<rows, real>>, desk'[a].todo = desk[a].todo,
               desk'[a].seen = desk[a].seen,
               pc'[a] \in {"upsert", "project"} => pc[a] \in {"upsert", "project"}
        PROVE  AdminReads(a)'
    BY <1>0, <1>1 DEF AdminReads
  <1>2. ASSUME UNCHANGED <<rows, real>>, Home(a)
        PROVE  AdminReads(a)'
    <2>1. pc'[a] = "idle" /\ desk'[a] = NoDesk
      BY <1>0, <1>2 DEF Home, TypeOK
    <2> QED BY <1>2, <2>1 DEF AdminReads, NoDesk, Known
  <1>3. ASSUME UNCHANGED <<rows, real>>, Reconciled(a)
        PROVE  AdminReads(a)'
    <2>1. CASE desk' = [desk EXCEPT ![a].reconciled = TRUE]
               /\ pc' = [pc EXCEPT ![a] = "inspect"]
      <3>1. desk'[a].todo = desk[a].todo /\ desk'[a].seen = desk[a].seen
        BY <1>0, <2>1 DEF Desks
      <3>2. pc'[a] = "inspect"
        BY <1>0, <2>1 DEF TypeOK
      <3> QED BY <1>1, <1>3, <3>1, <3>2
    <2> QED BY <1>2, <1>3, <2>1 DEF Reconciled
  <1>4. CASE Begin(a)
    <2>1. /\ desk'[a].todo = desk[a].todo /\ desk'[a].seen = desk[a].seen
          /\ pc'[a] \in {"search", "inspect"}
      BY <1>0, <1>4 DEF Begin, TypeOK, Desks
    <2> QED BY <1>0, <1>1, <1>4, <2>1 DEF Begin
  <1>5. CASE SearchPayments(a)
    <2> DEFINE found == {p \in Payments : real[p] # "none"}
    <2>1. UNCHANGED <<rows, real>>
      BY <1>5 DEF SearchPayments
    <2>2. CASE desk' = [desk EXCEPT ![a].todo = found]
               /\ pc' = [pc EXCEPT ![a] = "lookup"]
      <3>1. /\ desk'[a].todo = found /\ desk'[a].seen = desk[a].seen
            /\ pc'[a] = "lookup"
        BY <1>0, <2>2 DEF TypeOK, Desks
      <3> QED BY <1>0, <2>1, <3>1 DEF AdminReads
    <2> QED BY <1>0, <1>3, <1>5, <2>1, <2>2 DEF SearchPayments
  <1>6. CASE LookUpEach(a)
    <2>1. PICK p \in desk[a].todo :
            /\ desk' = [desk EXCEPT ![a].seen[p] = real[p]]
            /\ pc' = [pc EXCEPT ![a] =
                        IF \E q \in desk[a].todo \ {p} : desk[a].seen[q] = "none"
                        THEN "lookup" ELSE "upsert"]
      BY <1>6 DEF LookUpEach
    <2>2. UNCHANGED <<rows, real>>
      BY <1>6 DEF LookUpEach
    <2>3. /\ desk'[a].todo = desk[a].todo
          /\ desk'[a].seen = [desk[a].seen EXCEPT ![p] = real[p]]
          /\ desk[a].seen \in [Payments -> PayStates] /\ p \in Payments
      BY <1>0, <2>1 DEF Desks
    <2>4. desk'[a].seen[p] = real[p]
          /\ \A q \in Payments : q # p => desk'[a].seen[q] = desk[a].seen[q]
      BY <2>3
    <2>5. pc'[a] \in {"lookup", "upsert"}
          /\ (pc'[a] = "upsert" =>
                \A q \in desk[a].todo \ {p} : desk[a].seen[q] # "none")
      BY <1>0, <2>1 DEF TypeOK
    <2> QED BY <1>0, <2>2, <2>3, <2>4, <2>5 DEF AdminReads, Known
  <1>7. CASE AdminUpserts(a)
    <2>1. PICK p \in desk[a].todo :
            /\ rows' = [rows EXCEPT ![p] = Merge(rows[p], desk[a].seen[p])]
            /\ desk' = [desk EXCEPT ![a].todo = desk[a].todo \ {p}]
      BY <1>7 DEF AdminUpserts
    <2>2. Known(Merge(rows[p], desk[a].seen[p]), real[p])
      <3>1. /\ p \in Payments /\ rows[p] \in PayStates
            /\ Known(desk[a].seen[p], real[p])
        BY <1>0 DEF TypeOK, AdminReads
      <3> QED BY <1>0, <3>1, KnownMerge
    <2>3. \A q \in Payments : Known(rows'[q], real[q])
      BY <1>0, <2>1, <2>2 DEF TypeOK
    <2>4. desk'[a].todo = desk[a].todo \ {p} /\ desk'[a].seen = desk[a].seen
      BY <1>0, <2>1 DEF Desks
    <2>5. pc[a] = "upsert" /\ real' = real
      BY <1>7 DEF AdminUpserts
    <2> QED BY <1>0, <2>3, <2>4, <2>5 DEF AdminReads
  <1>8. CASE AdminProjects(a)
    <2>1. UNCHANGED <<rows, real>>
      BY <1>8 DEF AdminProjects
    <2>2. CASE UNCHANGED desk
      BY <1>0, <1>1, <1>8, <2>1, <2>2 DEF AdminProjects
    <2> QED BY <1>0, <1>3, <1>8, <2>1, <2>2 DEF AdminProjects
  <1>9. CASE InspectAgain(a)
    <2>1. UNCHANGED <<rows, real>>
      BY <1>9 DEF InspectAgain
    <2>2. CASE UNCHANGED desk /\ pc' = [pc EXCEPT ![a] = "review"]
      BY <1>0, <1>1, <2>1, <2>2 DEF TypeOK
    <2> QED BY <1>0, <1>2, <1>9, <2>1, <2>2 DEF InspectAgain
  <1>10. CASE ReviewPayments(a)
    <2>1. UNCHANGED <<rows, real>>
      BY <1>10 DEF ReviewPayments
    <2>2. CASE UNCHANGED desk /\ pc' = [pc EXCEPT ![a] = "batch"]
      BY <1>0, <1>1, <2>1, <2>2 DEF TypeOK
    <2> QED BY <1>0, <1>2, <1>10, <2>1, <2>2 DEF ReviewPayments
  <1>11. CASE ConfirmLifecycle(a)
    BY <1>0, <1>2, <1>11 DEF ConfirmLifecycle
  <1>12. CASE AdminFault(a)
    BY <1>0, <1>2, <1>12 DEF AdminFault
  <1> QED BY <1>4, <1>5, <1>6, <1>7, <1>8, <1>9, <1>10, <1>11, <1>12
          DEF AdminActs, AdminStep

LEMMA AdminReadings ==
  ASSUME TypeOK, Readings, NEW a \in Admins, AdminActs(a)
  PROVE  Readings'
  <1>1. UNCHANGED <<real, notice, pref, job>>
    BY AdminFrame DEF provider
  <1>2. /\ \A p \in Payments : Known(rows'[p], real'[p])
        /\ AdminReads(a)'
    BY <1>1, AdminMoves
  <1>3. ASSUME NEW c \in Admins, c # a PROVE AdminReads(c)'
    <2>1. pc'[c] = pc[c] /\ desk'[c] = desk[c]
      BY <1>3, OthersStay DEF Workers
    <2> QED BY <1>1, <2>1 DEF Readings, AdminReads
  <1>4. \A h \in Hooks : pc'[h] = pc[h]
    BY OthersStay, KindsAssumption DEF Workers
  <1> QED BY <1>1, <1>2, <1>3, <1>4 DEF Readings, HookReads

\* The provider's side of the steps outside: a payment moves, or none does.
LEMMA OutsideMoves ==
  ASSUME TypeOK, Preferences, Readings, Outside
  PROVE  \/ UNCHANGED <<real, notice>>
         \/ UNCHANGED real /\ \E e \in Notices : notice[e] = NoOne
               /\ notice' = [notice EXCEPT ![e] = Other]
         \/ \E p \in Payments, s \in PayStates :
               /\ Moves(real[p], s) /\ PaymentBecomes(p, s) /\ pref # 0
               /\ real[p] = "none" => \E n \in shown : Open(n)
  <1> USE DEF orderRow, goods, provider, counters
  <1>1. ASSUME NEW n \in sent, CreatePreference(n) \/ RefusePreference(n)
        PROVE  UNCHANGED <<real, notice>>
    BY <1>1 DEF CreatePreference, RefusePreference
  <1>2. CASE WindowCloses
    BY <1>2 DEF WindowCloses
  <1>3. ASSUME NEW e \in Notices, EventAges(e) PROVE UNCHANGED <<real, notice>>
    BY <1>3 DEF EventAges
  <1>4. ASSUME NEW e \in Notices, NotifyOther(e)
        PROVE  /\ UNCHANGED real /\ notice[e] = NoOne
               /\ notice' = [notice EXCEPT ![e] = Other]
    BY <1>4 DEF NotifyOther
  <1>5. ASSUME NEW p \in Payments, Pay(p)
        PROVE  \E s \in PayStates :
                 /\ Moves(real[p], s) /\ PaymentBecomes(p, s) /\ pref # 0
                 /\ real[p] = "none" => \E n \in shown : Open(n)
    BY <1>5 DEF Pay, Moves, Preferences
  <1>6. ASSUME NEW p \in Payments, Resolve(p)
        PROVE  \E s \in PayStates :
                 /\ Moves(real[p], s) /\ PaymentBecomes(p, s)
                 /\ real[p] # "none" /\ pref # 0
    BY <1>6 DEF Resolve, Moves, Readings
  <1>7. ASSUME NEW p \in Payments, Refund(p)
        PROVE  /\ Moves(real[p], "refunded") /\ PaymentBecomes(p, "refunded")
               /\ real[p] # "none" /\ pref # 0
    BY <1>7 DEF Refund, Moves, Readings
  <1> QED BY <1>1, <1>2, <1>3, <1>4, <1>5, <1>6, <1>7 DEF Outside, MercadoPago

LEMMA OutsideReadings ==
  ASSUME TypeOK, Preferences, Readings, Outside
  PROVE  Readings'
  <1>1. UNCHANGED <<pc, pref, rows, job, desk>>
    BY OutsideFrame
  <1>2. CASE UNCHANGED <<real, notice>>
    BY <1>1, <1>2 DEF Readings, HookReads, AdminReads
  <1>3. ASSUME UNCHANGED real, NEW e \in Notices, notice[e] = NoOne,
               notice' = [notice EXCEPT ![e] = Other]
        PROVE  Readings'
    <2>1. /\ \A d \in Notices : notice[d] # NoOne => notice'[d] = notice[d]
          /\ \A d \in Notices : notice'[d] \in Payments => notice'[d] = notice[d]
      BY <1>3, NoOneAssumption DEF TypeOK
    <2>2. ASSUME NEW h \in Hooks PROVE HookReads(h)'
      BY <1>1, <1>3, <2>1, NoOneAssumption DEF Readings, HookReads
    <2> QED BY <1>1, <1>3, <2>1, <2>2 DEF Readings, AdminReads
  <1>4. ASSUME NEW p \in Payments, NEW s \in PayStates, Moves(real[p], s),
               PaymentBecomes(p, s), pref # 0
        PROVE  Readings'
    <2>1. /\ real' = [real EXCEPT ![p] = s] /\ real \in [Payments -> PayStates]
          /\ s # "none"
      BY <1>4 DEF PaymentBecomes, TypeOK, Moves
    <2>2. /\ real'[p] = s
          /\ \A q \in Payments : q # p => real'[q] = real[q]
          /\ \A q \in Payments : real[q] # "none" => real'[q] # "none"
      BY <2>1
    <2>3. \A q \in Payments : \A v : Known(v, real[q]) => Known(v, real'[q])
      <3>1. ASSUME NEW v, Known(v, real[p]) PROVE Known(v, s)
        BY <1>4, <2>1, <3>1, KnownMoves
      <3> QED BY <2>2, <3>1
    <2>4. /\ \A d \in Notices : notice[d] # NoOne => notice'[d] = notice[d]
          /\ \A d \in Notices : notice'[d] = notice[d] \/ notice'[d] = p
      BY <1>4 DEF PaymentBecomes, TypeOK
    <2>5. ASSUME NEW h \in Hooks PROVE HookReads(h)'
      <3>1. HookReads(h)
        BY DEF Readings
      <3> QED BY <1>1, <2>3, <2>4, <3>1, NoOneAssumption DEF HookReads
    <2>6. ASSUME NEW a \in Admins PROVE AdminReads(a)'
      <3>1. AdminReads(a) /\ desk[a].todo \in SUBSET Payments
        BY DEF Readings, TypeOK, Desks
      <3> QED BY <1>1, <2>2, <2>3, <3>1 DEF AdminReads
    <2>7. \A q \in Payments : Known(rows'[q], real'[q]) /\ pref' # 0
      BY <1>1, <1>4, <2>3 DEF Readings
    <2>8. \A d \in Notices : notice'[d] \in Payments => real'[notice'[d]] # "none"
      BY <2>1, <2>2, <2>4 DEF Readings
    <2> QED BY <2>5, <2>6, <2>7, <2>8 DEF Readings
  <1> QED BY <1>2, <1>3, <1>4, OutsideMoves

LEMMA NextReadings ==
  ASSUME TypeOK, Preferences, Readings, Next
  PROVE  Readings'
  PROOF BY Cases, BuyerReadings, HookReadings, AdminReadings, OutsideReadings

-----------------------------------------------------------------------------
(* The rows of the payments only learn *)

Learns(old, new) ==
  /\ old # "none" => new # "none"
  /\ old = "refunded" => new = "refunded"
  /\ old = "approved" => new \in {"approved", "refunded"}

LEMMA MergeLearns ==
  ASSUME NEW u \in PayStates, NEW v \in PayStates, v # "none"
  PROVE  Learns(u, Merge(u, v)) /\ Merge(u, v) # "none"
  PROOF BY DEF Learns, Merge

LEMMA RowsLearn ==
  ASSUME TypeOK, Readings, Next
  PROVE  \A p \in Payments : Learns(rows[p], rows'[p])
  <1>0. UNCHANGED rows => \A p \in Payments : Learns(rows[p], rows'[p])
    BY DEF Learns
  <1>1. ASSUME NEW q, q \in Payments, NEW v \in PayStates, v # "none",
               rows' = [rows EXCEPT ![q] = Merge(rows[q], v)]
        PROVE  \A p \in Payments : Learns(rows[p], rows'[p])
    <2>1. rows \in [Payments -> PayStates] /\ rows[q] \in PayStates
      BY <1>1 DEF TypeOK
    <2>2. Learns(rows[q], Merge(rows[q], v))
      BY <1>1, <2>1, MergeLearns
    <2>3. \A p \in Payments : p # q => rows'[p] = rows[p]
      BY <1>1, <2>1
    <2>4. rows'[q] = Merge(rows[q], v)
      BY <1>1, <2>1
    <2> QED BY <2>2, <2>3, <2>4 DEF Learns
  <1>2. ASSUME NEW h \in Hooks, HookActs(h)
        PROVE  \A p \in Payments : Learns(rows[p], rows'[p])
    <2>1. CASE HookUpserts(h)
      <3>1. /\ notice[job[h].notice] \in Payments
            /\ job[h].seen \in PayStates /\ job[h].seen # "none"
        BY <2>1 DEF HookUpserts, Readings, HookReads, TypeOK, Jobs
      <3>2. rows' = [rows EXCEPT ![notice[job[h].notice]] =
                       Merge(rows[notice[job[h].notice]], job[h].seen)]
        BY <2>1 DEF HookUpserts
      <3> QED BY <1>1, <3>1, <3>2
    <2>2. CASE UNCHANGED rows
      BY <1>0, <2>2
    <2> QED BY <1>2, <2>1, <2>2 DEF HookActs, HookStep, CheckClaim, LookUpPayment,
          HookProjects, FinishEvent, FailEvent, HookFault, HookDies, Deliver,
          Duplicate, Register
  <1>3. ASSUME NEW a \in Admins, AdminActs(a)
        PROVE  \A p \in Payments : Learns(rows[p], rows'[p])
    <2>1. CASE AdminUpserts(a)
      <3>1. PICK p \in desk[a].todo :
              rows' = [rows EXCEPT ![p] = Merge(rows[p], desk[a].seen[p])]
        BY <2>1 DEF AdminUpserts
      <3>2. /\ p \in Payments /\ desk[a].seen[p] \in PayStates
            /\ desk[a].seen[p] # "none"
        BY <2>1 DEF AdminUpserts, Readings, AdminReads, TypeOK, Desks
      <3> QED BY <1>1, <3>1, <3>2
    <2>2. CASE UNCHANGED rows
      BY <1>0, <2>2
    <2> QED BY <1>3, <2>1, <2>2 DEF AdminActs, AdminStep, Begin, AdminFault,
          SearchPayments, LookUpEach, AdminProjects, InspectAgain, ReviewPayments,
          ConfirmLifecycle
  <1> QED BY <1>0, <1>2, <1>3, Cases, BuyerFrame, OutsideFrame

-----------------------------------------------------------------------------
(* What is behind a release *)

LEMMA BuyerAttempts ==
  ASSUME TypeOK, NEW b \in Buyers, BuyerActs(b)
  PROVE  /\ \/ attempt' \in {attempt, 0} /\ attempts' = attempts
            \/ attempt' = attempts + 1 /\ attempts' = attempts + 1
         /\ reservation # "confirmed" => pref' = pref
  <1> USE DEF orderRow, goods, provider, counters, Goto, Show
  <1>1. CASE ReadAccess(b) \/ Recover(b) \/ CreateAnswered(b) \/ BuyerFault(b)
    BY <1>1 DEF ReadAccess, Recover, CreateAnswered, BuyerFault
  <1>2. CASE ReadOrder(b)
    BY <1>2 DEF ReadOrder
  <1>3. CASE KeepRecovered(b)
    BY <1>3 DEF KeepRecovered, MarkPreferenceCreated, PreferenceGuard
  <1>4. CASE KeepCreated(b)
    BY <1>4 DEF KeepCreated, MarkPreferenceCreated, PreferenceGuard
  <1>5. CASE ResetRetrySafeFailedOrder(b) \/ ClaimPreferenceAttempt(b)
    BY <1>5 DEF ResetRetrySafeFailedOrder, ClaimPreferenceAttempt
  <1>6. CASE LostAttempt(b) \/ SendPreference(b) \/ MarkOrderFailed(b)
    BY <1>6 DEF LostAttempt, SendPreference, MarkOrderFailed
  <1> QED BY <1>1, <1>2, <1>3, <1>4, <1>5, <1>6 DEF BuyerActs, BuyerStep

LEMMA BuyerReleases ==
  ASSUME TypeOK, Preferences, Releases, NEW b \in Buyers, BuyerActs(b)
  PROVE  Releases'
  <1> SUFFICES ASSUME NEW a \in Admins PROVE Releasing(a)'
    BY DEF Releases
  <1>1. UNCHANGED <<rows, real, over, desk>> /\ pc'[a] = pc[a] /\ Releasing(a)
    BY BuyerFrame, OthersStay, KindsAssumption DEF Workers, Releases
  <1>2. /\ attempts \in Nat /\ attempt \in Nat /\ over \in Nat
        /\ desk[a].since \in Nat
    BY Blanks DEF TypeOK, Desks
  <1>3. CASE attempt' = attempt /\ attempts' = attempts
    BY <1>1, <1>3 DEF Releasing, Exhausted, Found, Open
  <1>4. CASE attempt' = 0 /\ attempts' = attempts
    BY <1>1, <1>4 DEF Releasing, Exhausted
  <1>5. CASE attempt' = attempts + 1 /\ attempts' = attempts + 1
    <2>1. Open(attempt)'
      BY <1>1, <1>2, <1>5 DEF Open, Preferences
    <2> QED BY <1>1, <1>2, <1>5, <2>1 DEF Releasing, Exhausted
  <1> QED BY <1>3, <1>4, <1>5, BuyerAttempts

\* A webhook, or another administrator, only adds rows.
LEMMA ReleasingKept ==
  ASSUME NEW a \in Admins, Releasing(a), pc'[a] = pc[a], desk'[a] = desk[a],
         UNCHANGED <<attempt, attempts, over, real>>,
         \A p \in Payments : Learns(rows[p], rows'[p])
  PROVE  Releasing(a)'
  PROOF BY DEF Releasing, Exhausted, Found, Open, Learns

LEMMA HookReleases ==
  ASSUME TypeOK, Readings, Releases, Next, NEW h \in Hooks, HookActs(h)
  PROVE  Releases'
  <1> SUFFICES ASSUME NEW a \in Admins PROVE Releasing(a)'
    BY DEF Releases
  <1>1. UNCHANGED <<attempt, attempts, over, real, desk>> /\ pc'[a] = pc[a]
    BY HookFrame, OthersStay, KindsAssumption DEF Workers, provider
  <1> QED BY <1>1, ReleasingKept, RowsLearn DEF Releases

LEMMA OutsideReleases ==
  ASSUME TypeOK, Preferences, Readings, Releases, Outside
  PROVE  Releases'
  <1> SUFFICES ASSUME NEW a \in Admins PROVE Releasing(a)'
    BY DEF Releases
  <1>1. UNCHANGED <<rows, attempt, attempts, desk, pc>> /\ Releasing(a)
    BY OutsideFrame DEF Releases
  <1>2. /\ attempts \in Nat /\ attempt \in Nat /\ over \in Nat
        /\ desk[a].since \in Nat
    BY Blanks DEF TypeOK, Desks
  <1>3. CASE WindowCloses
    <2>1. over' = over + 1 /\ real' = real /\ (pc[a] # "idle" => over < desk[a].since)
      BY <1>3 DEF WindowCloses, provider
    <2>2. pc[a] # "idle" /\ desk[a].intent = "release" /\ attempt # 0
            => (Open(attempt)' <=> Open(attempt))
      BY <1>1, <1>2, <2>1 DEF Releasing, Open
    <2> QED BY <1>1, <1>2, <2>1, <2>2 DEF Releasing, Exhausted, Found
  <1>4. CASE ~WindowCloses
    <2>1. over' = over
      BY <1>4 DEF Outside, MercadoPago, CreatePreference, RefusePreference, Pay,
                  Resolve, Refund, PaymentBecomes, NotifyOther, EventAges
    <2>2. CASE Exhausted(a)
      <3>1. \A n \in shown : ~Open(n)
        BY <2>2 DEF Exhausted, Preferences
      <3>2. \A p \in Payments : real[p] = "none" => real'[p] = "none"
        BY <3>1, OutsideMoves DEF PaymentBecomes, TypeOK
      <3>3. \A p \in Payments : Found(a, p) => Found(a, p)'
        BY <1>1, <3>2 DEF Found
      <3> QED BY <1>1, <2>1, <2>2, <3>3 DEF Releasing, Open
    <2>3. CASE ~Exhausted(a)
      BY <1>1, <2>1, <2>3 DEF Releasing, Exhausted, Open
    <2> QED BY <2>2, <2>3
  <1> QED BY <1>3, <1>4

LEMMA AdminReleasing ==
  ASSUME TypeOK, Preferences, Readings, NEW a \in Admins, Releasing(a), Next,
         AdminActs(a)
  PROVE  Releasing(a)'
  <1> USE DEF Goto, Workers
  <1>0. /\ UNCHANGED <<attempt, attempts, over, real>> /\ a \in Workers
        /\ desk \in [Admins -> Desks]
        /\ \A p \in Payments : rows[p] # "none" => rows'[p] # "none"
    BY AdminFrame, RowsLearn DEF provider, TypeOK, Learns
  <1>1. ASSUME Home(a) PROVE Releasing(a)'
    BY <1>0, <1>1 DEF Home, Releasing, TypeOK
  <1>2. ASSUME pc[a] # "idle", desk'[a].intent = desk[a].intent,
               desk'[a].since = desk[a].since,
               Exhausted(a)' => Exhausted(a),
               Exhausted(a)' /\ Exhausted(a) =>
                 \A p \in Payments : Found(a, p) => Found(a, p)'
        PROVE  Releasing(a)'
    BY <1>0, <1>2 DEF Releasing, Open
  <1>4. CASE Begin(a)
    <2>1. PICK intent \in Intents :
            /\ intent # "reconcile" => Inspected(intent)
            /\ desk' = [desk EXCEPT ![a].intent = intent, ![a].since = attempts]
            /\ pc' = [pc EXCEPT ![a] =
                        IF intent = "reconcile" \/ attempt # 0 THEN "search"
                        ELSE "inspect"]
      BY <1>4 DEF Begin
    <2>2. /\ desk'[a].intent = intent /\ desk'[a].since = attempts
          /\ pc'[a] = "search" \/ attempt = 0
      BY <1>0, <2>1 DEF TypeOK, Desks
    <2>3. intent = "release" => attempt = 0 \/ ~Open(attempt)
      BY <2>1 DEF Inspected, WindowAllows
    <2>4. over <= attempts /\ attempts <= attempts
      BY Blanks DEF Preferences, TypeOK
    <2> QED BY <1>0, <2>2, <2>3, <2>4 DEF Releasing, Exhausted, Open
  <1>5. CASE SearchPayments(a)
    <2> DEFINE found == {p \in Payments : real[p] # "none"}
    <2>1. CASE found = {} /\ Reconciled(a)
      <3>1. \A p \in Payments : real[p] = "none"
        BY <2>1
      <3>2. CASE desk' = [desk EXCEPT ![a].reconciled = TRUE]
        <4>1. desk'[a].intent = desk[a].intent /\ desk'[a].since = desk[a].since
          BY <1>0, <3>2 DEF Desks
        <4>2. pc[a] # "idle"
          BY <1>5 DEF SearchPayments
        <4> QED BY <1>0, <3>1, <4>1, <4>2 DEF Releasing, Found, Open
      <3> QED BY <1>1, <2>1, <3>2 DEF Reconciled
    <2>2. CASE /\ desk' = [desk EXCEPT ![a].todo = found]
               /\ pc' = [pc EXCEPT ![a] = "lookup"]
      <3>1. /\ desk'[a].todo = found /\ desk'[a].intent = desk[a].intent
            /\ desk'[a].since = desk[a].since
        BY <1>0, <2>2 DEF Desks
      <3>2. pc'[a] = "lookup" /\ pc[a] # "idle"
        BY <1>0, <1>5, <2>2 DEF SearchPayments, TypeOK
      <3>3. \A p \in Payments : Found(a, p)'
        BY <1>0, <3>1, <3>2 DEF Found
      <3> QED BY <1>0, <3>1, <3>2, <3>3 DEF Releasing, Open
    <2> QED BY <1>5, <2>1, <2>2 DEF SearchPayments
  <1>6. CASE LookUpEach(a)
    <2>1. /\ desk'[a].todo = desk[a].todo /\ desk'[a].intent = desk[a].intent
          /\ desk'[a].since = desk[a].since
      BY <1>0, <1>6 DEF LookUpEach, Desks
    <2>2. pc[a] = "lookup" /\ pc'[a] \in {"lookup", "upsert"}
      BY <1>0, <1>6 DEF LookUpEach, TypeOK
    <2>3. \A p \in Payments : Found(a, p) => Found(a, p)'
      BY <1>0, <2>1, <2>2 DEF Found
    <2>4. Exhausted(a)' => Exhausted(a)
      BY <1>0, <2>2 DEF Exhausted, Open
    <2> QED BY <1>2, <2>1, <2>2, <2>3, <2>4
  <1>7. CASE AdminUpserts(a)
    <2>1. PICK p \in desk[a].todo :
            /\ rows' = [rows EXCEPT ![p] = Merge(rows[p], desk[a].seen[p])]
            /\ desk' = [desk EXCEPT ![a].todo = desk[a].todo \ {p}]
      BY <1>7 DEF AdminUpserts
    <2>2. /\ desk'[a].todo = desk[a].todo \ {p}
          /\ desk'[a].intent = desk[a].intent /\ desk'[a].since = desk[a].since
      BY <1>0, <2>1 DEF Desks
    <2>3. pc[a] = "upsert" /\ pc'[a] = "project"
      BY <1>0, <1>7 DEF AdminUpserts, TypeOK
    <2>4. rows'[p] # "none"
      <3>1. /\ p \in Payments /\ rows[p] \in PayStates
            /\ desk[a].seen[p] \in PayStates /\ desk[a].seen[p] # "none"
        BY <2>3 DEF TypeOK, Desks, Readings, AdminReads
      <3>2. Merge(rows[p], desk[a].seen[p]) # "none"
        BY <3>1, MergeLearns
      <3> QED BY <2>1, <3>1, <3>2 DEF TypeOK
    <2>5. \A q \in Payments : Found(a, q) => Found(a, q)'
      BY <1>0, <2>2, <2>3, <2>4 DEF Found
    <2>6. Exhausted(a)' => Exhausted(a)
      BY <1>0, <2>3 DEF Exhausted, Open
    <2> QED BY <1>2, <2>2, <2>3, <2>5, <2>6
  <1>8. CASE AdminProjects(a)
    <2>1. pc[a] = "project"
      BY <1>8 DEF AdminProjects
    <2>2. CASE UNCHANGED desk /\ pc' = [pc EXCEPT ![a] = "upsert"]
      <3>1. pc'[a] = "upsert"
        BY <1>0, <2>2 DEF TypeOK
      <3>2. \A q \in Payments : Found(a, q) => Found(a, q)'
        BY <1>0, <2>1, <2>2, <3>1 DEF Found
      <3>3. Exhausted(a)' => Exhausted(a)
        BY <1>0, <2>1, <3>1 DEF Exhausted, Open
      <3> QED BY <1>2, <2>1, <2>2, <3>2, <3>3
    <2>3. CASE /\ desk[a].todo = {} /\ pc' = [pc EXCEPT ![a] = "inspect"]
               /\ desk' = [desk EXCEPT ![a].reconciled = TRUE]
      <3>1. /\ desk'[a].intent = desk[a].intent /\ desk'[a].since = desk[a].since
            /\ pc'[a] = "inspect"
        BY <1>0, <2>3 DEF TypeOK, Desks
      <3>2. \A q \in Payments : Found(a, q) => Found(a, q)'
        BY <1>0, <2>1, <2>3, <3>1 DEF Found
      <3>3. Exhausted(a)' => Exhausted(a)
        BY <1>0, <2>1, <3>1 DEF Exhausted, Open
      <3> QED BY <1>2, <2>1, <3>1, <3>2, <3>3
    <2> QED BY <1>1, <1>8, <2>2, <2>3 DEF AdminProjects, Reconciled
  <1>9. CASE InspectAgain(a)
    <2>1. pc[a] = "inspect"
      BY <1>9 DEF InspectAgain
    <2>2. CASE /\ attempt # 0 => desk[a].reconciled
               /\ UNCHANGED desk /\ pc' = [pc EXCEPT ![a] = "review"]
      <3>1. pc'[a] = "review"
        BY <1>0, <2>2 DEF TypeOK
      <3>2. \A q \in Payments : Found(a, q) => Found(a, q)'
        BY <1>0, <2>1, <2>2, <3>1 DEF Found
      <3>3. Exhausted(a)' => Exhausted(a)
        BY <1>0, <2>1, <2>2 DEF Exhausted, Open
      <3> QED BY <1>2, <2>1, <2>2, <3>2, <3>3
    <2> QED BY <1>1, <1>9, <2>2 DEF InspectAgain
  <1>10. CASE ReviewPayments(a)
    <2>1. pc[a] = "review"
      BY <1>10 DEF ReviewPayments
    <2>2. CASE UNCHANGED desk /\ pc' = [pc EXCEPT ![a] = "batch"]
      <3>1. pc'[a] = "batch"
        BY <1>0, <2>2 DEF TypeOK
      <3>2. \A q \in Payments : Found(a, q) => Found(a, q)'
        BY <1>0, <2>1, <2>2, <3>1 DEF Found
      <3>3. Exhausted(a)' => Exhausted(a)
        BY <1>0, <2>1, <2>2, <3>1 DEF Exhausted, Open
      <3> QED BY <1>2, <2>1, <2>2, <3>2, <3>3
    <2> QED BY <1>1, <1>10, <2>2 DEF ReviewPayments
  <1>11. CASE ConfirmLifecycle(a) \/ AdminFault(a)
    BY <1>1, <1>11 DEF ConfirmLifecycle, AdminFault
  <1> QED BY <1>4, <1>5, <1>6, <1>7, <1>8, <1>9, <1>10, <1>11
          DEF AdminActs, AdminStep

LEMMA NextReleases ==
  ASSUME TypeOK, Preferences, Readings, Releases, Next
  PROVE  Releases'
  <1>1. ASSUME NEW a \in Admins, AdminActs(a) PROVE Releases'
    <2>1. ASSUME NEW c \in Admins PROVE Releasing(c)'
      <3>1. CASE c = a
        BY <1>1, <3>1, AdminReleasing DEF Releases
      <3>2. CASE c # a
        <4>1. /\ pc'[c] = pc[c] /\ desk'[c] = desk[c]
              /\ UNCHANGED <<attempt, attempts, over, real>>
          BY <1>1, <3>2, OthersStay, AdminFrame DEF Workers, provider
        <4> QED BY <4>1, ReleasingKept, RowsLearn DEF Releases
      <3> QED BY <3>1, <3>2
    <2> QED BY <2>1 DEF Releases
  <1> QED BY <1>1, Cases, BuyerReleases, HookReleases, OutsideReleases

-----------------------------------------------------------------------------
(* After the reservation is released *)

\* Only a batch moves the goods; the guard of the release sees all payments.
LEMMA ConfirmOutcome ==
  ASSUME TypeOK, Preferences, Readings, Releases, Released, LinkHasItsOperation,
         NEW a \in Admins, ConfirmLifecycle(a)
  PROVE  Released' /\ LinkHasItsOperation'
  <1> USE DEF orderRow, goods, provider, counters
  <1>1. /\ UNCHANGED <<rows, real, shown, over>> /\ pc[a] = "batch"
        /\ desk[a].intent \in Intents /\ attempt \in Nat
    BY Blanks DEF ConfirmLifecycle, TypeOK, Desks
  <1>2. CASE UNCHANGED <<reservation, ops>>
    BY <1>1, <1>2 DEF Released, LinkHasItsOperation, Open
  <1>3. CASE desk[a].intent \notin ops /\ FinancialGuard(a)
    <2>1. ops' = ops \cup {desk[a].intent}
          /\ reservation' = IF reservation # "confirmed" THEN reservation
                            ELSE IF desk[a].intent = "release" THEN "released"
                            ELSE "finalized"
      BY <1>3 DEF ConfirmLifecycle
    <2>2. desk[a].intent \in {"release", "finalize"}
      BY <1>3 DEF FinancialGuard
    <2>3. CASE reservation = "confirmed" /\ desk[a].intent = "release"
      <3>1. /\ \A p \in Payments : rows[p] \notin {"approved", "pending"}
            /\ attempt # 0 => ~Open(attempt) /\ desk[a].reconciled
        BY <1>3, <2>3 DEF FinancialGuard, Paid
      <3>2. ASSUME NEW p \in Payments
            PROVE  /\ real[p] \notin {"pending", "approved"}
                   /\ real[p] = "refunded" => rows[p] = "refunded"
        <4>1. Known(rows[p], real[p]) /\ real[p] \in PayStates /\ rows[p] \in PayStates
          BY DEF Readings, TypeOK
        <4>2. CASE attempt = 0
          BY <4>2 DEF Preferences, Readings
        <4>3. CASE attempt # 0
          <5>1. Exhausted(a)
            BY <1>1, <3>1, <4>3 DEF Exhausted
          <5>2. Found(a, p)
            BY <1>1, <2>3, <5>1 DEF Releases, Releasing
          <5>3. real[p] = "none" \/ rows[p] # "none"
            BY <1>1, <5>2 DEF Found
          <5> QED BY <3>1, <4>1, <5>3 DEF Known
        <4> QED BY <4>2, <4>3
      <3>3. \A n \in shown : ~Open(n)
        BY <3>1 DEF Preferences
      <3>4. Released'
        BY <1>1, <3>2, <3>3 DEF Released, Open
      <3> QED BY <2>1, <2>3, <3>4 DEF LinkHasItsOperation
    <2>4. CASE reservation = "confirmed" /\ desk[a].intent = "finalize"
      BY <2>1, <2>4 DEF Released, LinkHasItsOperation
    <2>5. CASE reservation = "released"
      <3>1. desk[a].intent = "finalize"
        BY <1>3, <2>2, <2>5 DEF LinkHasItsOperation
      <3>2. \A p \in Payments : rows[p] # "approved"
        BY <2>5 DEF Released, Readings, Known, TypeOK
      <3>3. Approved = {}
        BY <3>2 DEF Approved
      <3>4. Cardinality(Approved) = 1
        BY <1>3, <3>1 DEF FinancialGuard
      <3> QED BY <3>3, <3>4, FS_EmptySet
    <2>6. CASE reservation = "finalized"
      BY <2>1, <2>6 DEF Released, LinkHasItsOperation
    <2> QED BY <2>3, <2>4, <2>5, <2>6, <2>2 DEF TypeOK
  <1> QED BY <1>2, <1>3 DEF ConfirmLifecycle

\* The other steps leave the goods alone, and no payment moves after a release.
LEMMA ReleasedStays ==
  ASSUME TypeOK, Preferences, Readings, Released, LinkHasItsOperation, Next,
         Preferences', UNCHANGED goods
  PROVE  Released' /\ LinkHasItsOperation'
  <1>1. LinkHasItsOperation'
    BY DEF LinkHasItsOperation, goods
  <1>2. SUFFICES ASSUME reservation = "released" PROVE Released'
    BY <1>1 DEF Released, goods
  <1>3. \A p \in Payments : rows[p] = "refunded" => rows'[p] = "refunded"
    BY RowsLearn DEF Learns
  <1>4. ASSUME NEW b \in Buyers, BuyerActs(b) PROVE Released'
    <2>1. pref' = pref /\ UNCHANGED <<real, over>>
      BY <1>2, <1>4, BuyerAttempts, BuyerFrame
    <2>2. shown' = shown
      BY <2>1 DEF Preferences
    <2> QED BY <1>2, <1>3, <2>1, <2>2 DEF Released, Open
  <1>5. ASSUME UNCHANGED <<real, over, shown>> PROVE Released'
    BY <1>2, <1>3, <1>5 DEF Released, Open
  <1>6. CASE Outside
    <2>1. UNCHANGED <<real, notice>> \/ UNCHANGED real
      <3>1. ASSUME NEW p \in Payments, NEW s \in PayStates, Moves(real[p], s),
                   real[p] = "none" => \E n \in shown : Open(n)
            PROVE  FALSE
        BY <1>2, <3>1 DEF Released, Moves
      <3> QED BY <1>6, <3>1, OutsideMoves
    <2>2. over' \in {over, over + 1}
      BY <1>6 DEF Outside, MercadoPago, CreatePreference, RefusePreference, Pay,
            Resolve, Refund, PaymentBecomes, NotifyOther, EventAges, WindowCloses
    <2>3. \A n \in shown : ~Open(n) => ~Open(n)'
      BY <2>2, Blanks DEF Open, TypeOK
    <2>4. UNCHANGED <<shown, rows>>
      BY <1>6, OutsideFrame
    <2> QED BY <1>2, <2>1, <2>3, <2>4 DEF Released
  <1> QED BY <1>4, <1>5, <1>6, Cases, HookFrame, AdminFrame DEF provider

LEMMA GoodsMove ==
  Next => UNCHANGED goods \/ \E a \in Admins : ConfirmLifecycle(a)
  <1> SUFFICES ASSUME Next, \A a \in Admins : ~ConfirmLifecycle(a)
               PROVE  UNCHANGED goods
    OBVIOUS
  <1>1. ASSUME NEW a \in Admins, AdminActs(a) PROVE UNCHANGED goods
    BY <1>1 DEF AdminActs, AdminStep, Begin, AdminFault, SearchPayments,
         LookUpEach, AdminUpserts, AdminProjects, InspectAgain, ReviewPayments
  <1> QED BY <1>1, Cases, BuyerFrame, HookFrame, OutsideFrame

\* The invariant holds in every state.
THEOREM Invariance == Spec => []IInv
  <1>1. ASSUME IInv, Next PROVE IInv'
    <2>1. /\ TypeOK' /\ Preferences' /\ Creators' /\ Readings' /\ Releases'
      BY <1>1, NextType, NextPreferences, NextCreators, NextReadings, NextReleases
         DEF IInv
    <2>2. Released' /\ LinkHasItsOperation'
      BY <1>1, <2>1, GoodsMove, ConfirmOutcome, ReleasedStays DEF IInv
    <2> QED BY <2>1, <2>2 DEF IInv
  <1>2. ASSUME IInv, UNCHANGED vars PROVE IInv'
    <2> USE <1>2 DEF vars, orderRow, goods, provider, counters
    <2>1. TypeOK' /\ Preferences'
      BY DEF IInv, TypeOK, Preferences
    <2>2. Creators'
      BY DEF IInv, Creators, Behind
    <2>3. Readings'
      BY DEF IInv, Readings, HookReads, AdminReads
    <2>4. Releases'
      BY DEF IInv, Releases, Releasing, Exhausted, Found, Open
    <2>5. Released' /\ LinkHasItsOperation'
      BY DEF IInv, Released, LinkHasItsOperation, Open
    <2> QED BY <2>1, <2>2, <2>3, <2>4, <2>5 DEF IInv
  <1> QED BY <1>1, <1>2, InitIInv, PTL DEF Spec

-----------------------------------------------------------------------------
(* The theorems *)

\* Every variable has its type, the columns' CHECKs among them.
THEOREM TypeCorrect == Spec => []TypeOK
  <1>1. IInv => TypeOK
    BY DEF IInv
  <1> QED BY <1>1, Invariance, PTL

\* However often the checkout is retried, and by however many buyers at once,
\* Mercado Pago has one preference of the order at most.
THEOREM OnePreferenceOnly == Spec => []OnePreference
  <1>1. IInv => OnePreference
    <2> SUFFICES ASSUME IInv PROVE OnePreference
      OBVIOUS
    <2>1. prefs \cup sent = {} \/ prefs \cup sent = {attempt}
      BY DEF IInv, Preferences
    <2>2. Cardinality(prefs \cup sent) <= 1
      <3>1. CASE prefs \cup sent = {}
        BY <3>1, FS_EmptySet
      <3>2. CASE prefs \cup sent = {attempt}
        <4>1. Cardinality({attempt}) = 1
          BY FS_Singleton
        <4> QED BY <3>2, <4>1
      <3> QED BY <2>1, <3>1, <3>2
    <2> QED BY <2>2 DEF IInv, Preferences, OnePreference
  <1> QED BY <1>1, Invariance, PTL

\* A reservation that was released is of no buyer who paid or can still pay.
THEOREM ReleaseIsFinal == Spec => []ReleasedCannotBePaid
  <1>1. IInv => ReleasedCannotBePaid
    BY DEF IInv, Released, ReleasedCannotBePaid
  <1> QED BY <1>1, Invariance, PTL

\* The reservation of the link moves with an operation of its own kind.
THEOREM LinkAgrees == Spec => []LinkHasItsOperation
  <1>1. IInv => LinkHasItsOperation
    BY DEF IInv
  <1> QED BY <1>1, Invariance, PTL

\* In whatever order notifications and reconciliations read a payment, its row
\* takes no approval and no refund back.
THEOREM EvidenceIsKept == Spec => EvidenceKept
  <1>1. IInv /\ Next => \A p \in Payments :
          /\ rows[p] = "refunded" => rows'[p] = "refunded"
          /\ rows[p] = "approved" => rows'[p] \in {"approved", "refunded"}
    BY RowsLearn DEF IInv, Learns
  <1>2. UNCHANGED vars => \A p \in Payments :
          /\ rows[p] = "refunded" => rows'[p] = "refunded"
          /\ rows[p] = "approved" => rows'[p] \in {"approved", "refunded"}
    BY DEF vars
  <1> QED BY <1>1, <1>2, Invariance, PTL DEF Spec, EvidenceKept

-----------------------------------------------------------------------------
(* The order's status *)

\* Only a projection follows a payment's row: no buyer is at that step, and a
\* step that leaves the payments alone leaves the status alone too, once one
\* of them is known.
BuyersElsewhere == \A b \in Buyers : pc[b] # "project"

KnownPayment == \E p \in Payments : rows[p] # "none"

\* A worker w goes from one place to another; it does not leave the
\* projection undone without saying so.
Aside(w) ==
  /\ pc[w] # "project" \/ torn'
  /\ torn => torn'
  /\ UNCHANGED rows /\ (KnownPayment => UNCHANGED status)
  /\ \E l \in Labels : pc' = [pc EXCEPT ![w] = l]

LEMMA AsideFollows ==
  ASSUME TypeOK, StatusFollowsPayments, NEW w \in Workers, Aside(w)
  PROVE  StatusFollowsPayments'
  <1> SUFFICES ASSUME ~torn', \A v \in Workers : pc'[v] # "project", KnownPayment'
               PROVE  status' = Projected'
    BY DEF StatusFollowsPayments, KnownPayment
  <1>1. Projected' = Projected /\ KnownPayment /\ status' = status
    BY DEF Aside, Projected, Paid, KnownPayment
  <1>2. ~torn /\ pc[w] # "project"
    BY DEF Aside
  <1>3. \A v \in Workers : v # w => pc'[v] = pc[v]
    BY DEF Aside, TypeOK
  <1> QED BY <1>1, <1>2, <1>3 DEF StatusFollowsPayments, KnownPayment

LEMMA BuyerFollows ==
  ASSUME IInv, StatusFollowsPayments, BuyersElsewhere, NEW b \in Buyers, BuyerActs(b)
  PROVE  StatusFollowsPayments' /\ BuyersElsewhere'
  <1> USE DEF orderRow, goods, provider, counters, Goto, Show
  <1>1. KnownPayment => pref # 0
    BY DEF KnownPayment, IInv, TypeOK, Readings, Known
  <1> DEFINE Goes == /\ UNCHANGED <<rows, torn>> /\ (pref # 0 => UNCHANGED status)
                     /\ \E l \in Labels \ {"project"} : pc' = [pc EXCEPT ![b] = l]
  <1>2. ASSUME ReadAccess(b) \/ Recover(b) \/ CreateAnswered(b) \/ BuyerFault(b) PROVE Goes
    BY <1>2 DEF ReadAccess, Recover, CreateAnswered, BuyerFault
  <1>3. ASSUME ReadOrder(b) PROVE Goes
    BY <1>3 DEF ReadOrder
  <1>4. ASSUME KeepRecovered(b) \/ KeepCreated(b) PROVE Goes
    BY <1>4 DEF KeepRecovered, KeepCreated, MarkPreferenceCreated
  <1>5. ASSUME ResetRetrySafeFailedOrder(b) \/ ClaimPreferenceAttempt(b) PROVE Goes
    BY <1>5 DEF ResetRetrySafeFailedOrder, ClaimPreferenceAttempt
  <1>6. ASSUME LostAttempt(b) \/ SendPreference(b) \/ MarkOrderFailed(b) PROVE Goes
    BY <1>6 DEF LostAttempt, SendPreference, MarkOrderFailed
  <1>7. Goes
    BY <1>2, <1>3, <1>4, <1>5, <1>6 DEF BuyerActs, BuyerStep
  <1>8. Aside(b)
    BY <1>1, <1>7 DEF Aside, BuyersElsewhere
  <1>9. BuyersElsewhere'
    BY <1>7 DEF BuyersElsewhere, IInv, TypeOK, Workers
  <1> QED BY <1>8, <1>9, AsideFollows DEF IInv, Workers

\* A projection gives the order the status of its payments; one that has just
\* stored a payment is still at it.
LEMMA ProjectionFollows ==
  ASSUME UNCHANGED rows, status' = Projected
  PROVE  StatusFollowsPayments'
  PROOF BY DEF StatusFollowsPayments, Projected, Paid

LEMMA StoredFollows ==
  ASSUME TypeOK, NEW w \in Workers, pc' = [pc EXCEPT ![w] = "project"]
  PROVE  StatusFollowsPayments'
  PROOF BY DEF StatusFollowsPayments, TypeOK

LEMMA HookFollows ==
  ASSUME IInv, StatusFollowsPayments, NEW h \in Hooks, HookActs(h)
  PROVE  StatusFollowsPayments'
  <1> USE DEF orderRow, goods, provider, counters, Goto, Leave
  <1>1. CASE HookProjects(h)
    BY <1>1, ProjectionFollows DEF HookProjects
  <1>2. CASE HookUpserts(h)
    BY <1>2, StoredFollows DEF HookUpserts, IInv, Workers
  <1>3. CASE CheckClaim(h) \/ LookUpPayment(h) \/ FinishEvent(h) \/ FailEvent(h)
    BY <1>3, AsideFollows DEF CheckClaim, LookUpPayment, FinishEvent, FailEvent, Aside, IInv, Workers
  <1>4. CASE HookFault(h) \/ HookDies(h)
    BY <1>4, AsideFollows DEF HookFault, HookDies, Aside, IInv, Workers
  <1>5. ASSUME NEW e \in Notices, Deliver(h, e) \/ Duplicate(h, e) PROVE StatusFollowsPayments'
    BY <1>5, AsideFollows DEF Deliver, Duplicate, Register, Aside, IInv, Workers
  <1> QED BY <1>1, <1>2, <1>3, <1>4, <1>5 DEF HookActs, HookStep

LEMMA AdminFollows ==
  ASSUME IInv, StatusFollowsPayments, NEW a \in Admins, AdminActs(a)
  PROVE  StatusFollowsPayments'
  <1> USE DEF orderRow, goods, provider, counters, Goto, Home, Reconciled
  <1>1. CASE AdminProjects(a)
    BY <1>1, ProjectionFollows DEF AdminProjects
  <1>2. CASE AdminUpserts(a)
    BY <1>2, StoredFollows DEF AdminUpserts, IInv, Workers
  <1>3. CASE Begin(a)
    BY <1>3, AsideFollows DEF Begin, Aside, IInv, Workers
  <1>4. CASE SearchPayments(a) \/ LookUpEach(a)
    BY <1>4, AsideFollows DEF SearchPayments, LookUpEach, Aside, IInv, Workers
  <1>5. CASE InspectAgain(a) \/ ReviewPayments(a) \/ ConfirmLifecycle(a)
    BY <1>5, AsideFollows DEF InspectAgain, ReviewPayments, ConfirmLifecycle, Aside, IInv, Workers
  <1>6. CASE AdminFault(a)
    <2>1. Aside(a)
      BY <1>6 DEF AdminFault, Aside
    <2> QED BY <2>1, AsideFollows DEF IInv, Workers
  <1> QED BY <1>1, <1>2, <1>3, <1>4, <1>5, <1>6 DEF AdminActs, AdminStep

LEMMA OutsideFollows ==
  ASSUME StatusFollowsPayments, UNCHANGED <<status, rows, torn, pc>>
  PROVE  StatusFollowsPayments'
  PROOF BY DEF StatusFollowsPayments, Projected, Paid

\* Between projections the order says what its payments say, in whatever order
\* webhooks and reconciliations store them and however late a preference is.
THEOREM StatusIsItsPayments == Spec => []StatusFollowsPayments
  <1> DEFINE Follows == StatusFollowsPayments /\ BuyersElsewhere
  <1>1. Init => Follows
    BY DEF Init, StatusFollowsPayments, BuyersElsewhere, Workers
  <1>2. ASSUME IInv, Follows, Next PROVE Follows'
    <2>1. ASSUME NEW h \in Hooks, HookActs(h) PROVE Follows'
      <3>1. BuyersElsewhere'
        BY <1>2, <2>1, HookFrame, KindsAssumption DEF BuyersElsewhere, IInv, TypeOK, Workers
      <3> QED BY <1>2, <2>1, <3>1, HookFollows
    <2>2. ASSUME NEW a \in Admins, AdminActs(a) PROVE Follows'
      <3>1. BuyersElsewhere'
        BY <1>2, <2>2, AdminFrame, KindsAssumption DEF BuyersElsewhere, IInv, TypeOK, Workers
      <3> QED BY <1>2, <2>2, <3>1, AdminFollows
    <2>3. CASE Outside
      <3>1. UNCHANGED <<status, torn>>
        BY <2>3 DEF Outside, MercadoPago, CreatePreference, RefusePreference, Pay, Resolve,
             Refund, PaymentBecomes, NotifyOther, EventAges, WindowCloses, orderRow
      <3> QED BY <1>2, <2>3, <3>1, OutsideFrame, OutsideFollows DEF BuyersElsewhere
    <2> QED BY <1>2, <2>1, <2>2, <2>3, Cases, BuyerFollows
  <1>3. ASSUME Follows, UNCHANGED vars PROVE Follows'
    BY <1>3, OutsideFollows DEF vars, orderRow, BuyersElsewhere
  <1>4. IInv /\ Follows /\ [Next]_vars => Follows'
    BY <1>2, <1>3
  <1>5. Follows => StatusFollowsPayments
    OBVIOUS
  <1> QED BY <1>1, <1>4, <1>5, Invariance, PTL DEF Spec

-----------------------------------------------------------------------------
(* The refinement *)

\* The refinement mapping, as ImplementsOutcome has it.
Goods == CASE reservation = "confirmed" -> "held"
           [] reservation = "released"  -> "released"
           [] reservation = "finalized" -> "delivered"
Money == {real[p] : p \in Payments} \cap {"pending", "approved", "refunded"}

LEMMA MoneyMoves ==
  ASSUME IInv, NEW p \in Payments, NEW s \in PayStates, Moves(real[p], s),
         PaymentBecomes(p, s), reservation # "released"
  PROVE  Outcome!Move
  <1>1. real \in [Payments -> PayStates] /\ real' = [real EXCEPT ![p] = s]
        /\ UNCHANGED reservation
    BY DEF IInv, TypeOK, PaymentBecomes, goods
  <1>2. /\ real'[p] = s /\ \A q \in Payments : q # p => real'[q] = real[q]
    BY <1>1
  <1>3. "approved" \in Money => Money' \cap {"approved", "refunded"} # {}
    <2>1. ASSUME NEW q \in Payments, real[q] = "approved"
          PROVE  real'[q] \in {"approved", "refunded"}
      BY <1>2, <2>1 DEF Moves
    <2> QED BY <2>1 DEF Money
  <1>4. "refunded" \in Money => "refunded" \in Money'
    <2>1. ASSUME NEW q \in Payments, real[q] = "refunded"
          PROVE  real'[q] = "refunded"
      BY <1>2, <2>1 DEF Moves
    <2> QED BY <2>1 DEF Money
  <1>5. Money' \in SUBSET {"pending", "approved", "refunded"}
    BY DEF Money
  <1>6. Goods # "released" /\ Goods' = Goods
    BY <1>1 DEF Goods, IInv, TypeOK
  <1> QED BY <1>3, <1>4, <1>5, <1>6
          DEF Outcome!Move, Outcome!Statuses, Goods, Money

LEMMA ConfirmMaps ==
  ASSUME IInv, IInv', NEW a \in Admins, ConfirmLifecycle(a)
  PROVE  Outcome!Release \/ Outcome!Deliver \/ UNCHANGED <<Goods, Money>>
  <1>1. UNCHANGED real
    BY DEF ConfirmLifecycle, provider
  <1>2. Money' = Money
    BY <1>1 DEF Money
  <1>3. CASE UNCHANGED reservation
    BY <1>2, <1>3 DEF Goods
  <1>4. CASE reservation = "confirmed" /\ reservation' = "released"
    <2>1. Goods = "held" /\ Goods' = "released"
      BY <1>4 DEF Goods
    <2>2. \A p \in Payments : real[p] \notin {"pending", "approved"}
      BY <1>1, <1>4 DEF IInv, Released
    <2>3. Money \cap {"pending", "approved"} = {}
      BY <2>2 DEF Money
    <2> QED BY <1>2, <2>1, <2>3 DEF Outcome!Release, Goods, Money
  <1>5. CASE /\ reservation = "confirmed" /\ reservation' = "finalized"
             /\ desk[a].intent = "finalize" /\ FinancialGuard(a)
    <2>1. Goods = "held" /\ Goods' = "delivered"
      BY <1>5 DEF Goods
    <2>2. Approved # {}
      BY <1>5, FS_EmptySet DEF FinancialGuard
    <2>3. PICK p \in Payments : rows[p] = "approved"
      BY <2>2 DEF Approved
    <2>4. real[p] \in {"approved", "refunded"}
      BY <2>3 DEF IInv, Readings, Known
    <2>5. Money \cap {"approved", "refunded"} # {}
      BY <2>4 DEF Money
    <2> QED BY <1>2, <2>1, <2>5 DEF Outcome!Deliver, Goods, Money
  <1>6. \/ UNCHANGED reservation
        \/ /\ reservation = "confirmed" /\ reservation' = "released"
        \/ /\ reservation = "confirmed" /\ reservation' = "finalized"
           /\ desk[a].intent = "finalize" /\ FinancialGuard(a)
    BY DEF ConfirmLifecycle, FinancialGuard, goods
  <1> QED BY <1>3, <1>4, <1>5, <1>6

\* Goods are delivered against money only, and nobody pays for goods that were
\* released: the rows and the provider implement SaleOutcome.
THEOREM KeepsOutcome == Spec => ImplementsOutcome
  <1>1. Init => Outcome!Init
    <2> SUFFICES ASSUME Init PROVE Outcome!Init
      OBVIOUS
    <2>1. Goods = "held"
      BY DEF Init, Goods
    <2>2. Money = {}
      BY DEF Init, Money
    <2> QED BY <2>1, <2>2 DEF Outcome!Init, Goods, Money
  <1>2. ASSUME IInv, IInv', Next
        PROVE  Outcome!Next \/ UNCHANGED <<Goods, Money>>
    <2>1. CASE UNCHANGED <<reservation, real>>
      BY <2>1 DEF Goods, Money
    <2>2. ASSUME NEW a \in Admins, ConfirmLifecycle(a)
          PROVE  Outcome!Next \/ UNCHANGED <<Goods, Money>>
      BY <1>2, <2>2, ConfirmMaps DEF Outcome!Next
    <2>3. CASE UNCHANGED reservation /\ Outside
      <3>1. ASSUME NEW p \in Payments, NEW s \in PayStates, Moves(real[p], s),
                   PaymentBecomes(p, s),
                   real[p] = "none" => \E n \in shown : Open(n)
            PROVE  Outcome!Next
        <4>1. reservation # "released"
          BY <1>2, <3>1 DEF IInv, Released, Moves
        <4> QED BY <1>2, <3>1, <4>1, MoneyMoves DEF Outcome!Next
      <3>2. CASE UNCHANGED real
        BY <2>1, <2>3, <3>2
      <3> QED BY <1>2, <2>3, <3>1, <3>2, OutsideMoves DEF IInv
    <2>4. CASE UNCHANGED goods
      BY <1>2, <2>1, <2>3, <2>4, Cases, BuyerFrame, HookFrame, AdminFrame
         DEF goods, provider
    <2> QED BY <1>2, <2>2, <2>4, GoodsMove
  <1>3. UNCHANGED vars => UNCHANGED <<Goods, Money>>
    BY DEF vars, goods, provider, Goods, Money
  <1>4. [Next]_vars /\ IInv /\ IInv' => [Outcome!Next]_<<Goods, Money>>
    BY <1>2, <1>3
  <1> QED BY <1>1, <1>4, Invariance, PTL
          DEF Spec, ImplementsOutcome, Outcome!Spec, Goods, Money

=============================================================================
