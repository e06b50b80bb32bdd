----------------------------- MODULE OrdersDesk -----------------------------
(***************************************************************************)
(* The page of reports and orders of the administrator (pages/AdminPage):  *)
(* the report of the section and period, the order that is open beside the *)
(* list, and the decisions on it: approving or rejecting an order of the   *)
(* former WhatsApp channel, verifying the payment of one of Checkout Pro.  *)
(*                                                                         *)
(* The server is reduced to a count of the changes of its orders and to    *)
(* which WhatsApp orders are pending.  An answer carries the count it was  *)
(* read at.  A render and its effects are one step; a request a newer one  *)
(* replaced is aborted, but its answer may already be on its way.  An      *)
(* expired session unmounts the page and is left to AdminConsole.          *)
(***************************************************************************)
EXTENDS Naturals, FiniteSets

CONSTANTS
  WhatsApp, CheckoutPro,  \* the orders, by channel
  Filters,                \* periods and states a report can be asked for
  None,
  MaxReads,    \* bound: requests for reports and for details
  MaxActions,  \* bound: decisions sent
  MaxChanges   \* bound: changes of orders, the decisions' own included

DeskAssumption ==
  /\ WhatsApp \cap CheckoutPro = {} /\ None \notin WhatsApp \cup CheckoutPro \cup Nat
  /\ None \notin {"orders", "summary", "other", "approve", "reject", "reconcile", "sent", "done", "refused"}
  /\ MaxReads \in Nat /\ MaxActions \in Nat /\ MaxChanges \in Nat

VARIABLES
  pending,    \* server: the WhatsApp orders nobody has resolved
  world,      \* server: changes of orders so far
  section,    \* "orders", "summary", or "other" (sections without a report)
  filter,     \* submittedRange
  report,     \* the report and whether one is loading
  desk,       \* the open order: selected, detail, error, loading, confirming
  action,     \* orderAction and the request behind it
  reads,      \* requests of reports and details on their way
  count,      \* bounds: reads and actions made
  ended,      \* history: the count when the last decision that ended took effect
  listed,     \* history: the same, of the last decision that succeeded
  asked       \* history: the order whose rejection was asked for

vars == <<pending, world, section, filter, report, desk, action, reads, count, ended, listed, asked>>
serverVars == <<pending, world>>
history == <<ended, listed, asked>>

Orders     == WhatsApp \cup CheckoutPro
HasReport(s) == s # "other"
NoReport   == [section |-> None, filter |-> None, at |-> 0]
NoDetail   == [id |-> None, at |-> 0, pending |-> FALSE]
NoAction   == [kind |-> None, id |-> None, state |-> None, at |-> 0, pending |-> FALSE]
Fresh      == [selected |-> None, detail |-> NoDetail, error |-> FALSE, loading |-> FALSE, confirming |-> FALSE]

-----------------------------------------------------------------------------
(* The requests for reports and details *)

Read(kind, what, of) == [kind |-> kind, what |-> what, of |-> of, n |-> count.reads + 1,
                         live |-> TRUE, got |-> None, pending |-> FALSE]
Aborted(kinds) == {IF r.kind \in kinds THEN [r EXCEPT !.live = FALSE] ELSE r : r \in reads}

\* The effect of [reportRefresh, section, submittedRange]: the former request
\* is aborted, and a new one goes out when the section has a report.
LoadReport(s, f, others) ==
  IF HasReport(s)
  THEN /\ report' = [shown |-> NoReport, loading |-> TRUE]
       /\ reads' = others \cup {Read("report", s, f)}
       /\ count' = [count EXCEPT !.reads = @ + 1]
  ELSE report' = report /\ reads' = others /\ UNCHANGED count

\* The effect of [detailRefresh, section, selectedOrderId].
LoadDetail(o, kept) ==
  /\ desk' = [kept EXCEPT !.selected = o, !.detail = NoDetail, !.error = FALSE, !.loading = TRUE]
  /\ reads' = Aborted({"detail"}) \cup {Read("detail", o, None)}
  /\ count' = [count EXCEPT !.reads = @ + 1]

MayRead == count.reads < MaxReads

\* The server reads what it was asked for.
Serve ==
  \E r \in reads :
    /\ r.got = None
    /\ reads' = (reads \ {r}) \cup {[r EXCEPT !.got = world, !.pending = r.what \in pending]}
    /\ UNCHANGED <<serverVars, section, filter, report, desk, action, count, history>>

\* signal.aborted
Counts(r) == r.live

\* The answer to a report; a part that failed leaves its issue in the report.
ReportAnswer ==
  \E r \in reads :
    /\ r.kind = "report" /\ r.got # None
    /\ reads' = reads \ {r}
    /\ report' = IF Counts(r) THEN [shown |-> [section |-> r.what, filter |-> r.of, at |-> r.got], loading |-> FALSE]
                 ELSE report
    /\ UNCHANGED <<serverVars, section, filter, desk, action, count, history>>

\* The detail arrives, or it cannot be read (refused, lost, unusable).
DetailAnswer ==
  \E r \in reads :
    /\ r.kind = "detail"
    /\ reads' = reads \ {r}
    /\ \/ /\ r.got # None
          /\ desk' = IF Counts(r)
                     THEN [desk EXCEPT !.detail = [id |-> r.what, at |-> r.got, pending |-> r.pending], !.loading = FALSE]
                     ELSE desk
       \/ desk' = IF Counts(r) THEN [desk EXCEPT !.error = TRUE, !.loading = FALSE] ELSE desk
    /\ UNCHANGED <<serverVars, section, filter, report, action, count, history>>

-----------------------------------------------------------------------------
(* The person *)

\* Another section is selected.  Leaving the orders closes the open one.
GoTo(s) ==
  /\ s # section /\ (HasReport(s) => MayRead)
  /\ section' = s
  /\ desk' = IF s = "orders" THEN desk ELSE Fresh
  /\ LoadReport(s, filter, Aborted({"report", "detail"}))
  /\ UNCHANGED <<serverVars, filter, action, ended, listed>>
  /\ asked' = IF s = "orders" THEN asked ELSE None

\* The form of the period; disabled while a report loads.
SubmitPeriod(f) ==
  /\ HasReport(section) /\ ~report.loading /\ f # filter /\ MayRead
  /\ filter' = f
  /\ LoadReport(section, f, Aborted({"report"}))
  /\ UNCHANGED <<serverVars, section, desk, action, history>>

\* "Volver a cargar" under a report with issues.
RetryReport ==
  /\ HasReport(section) /\ ~report.loading /\ report.shown.section = section /\ MayRead
  /\ LoadReport(section, filter, Aborted({"report"}))
  /\ UNCHANGED <<serverVars, section, filter, desk, action, history>>

\* What openOrderDetail clears.
Opened == Fresh

\* openOrderDetail, from the list that is shown.
Open(o) ==
  /\ section = "orders" /\ ~report.loading /\ report.shown.section = "orders"
  /\ action.kind = None /\ desk.selected # o /\ MayRead
  /\ LoadDetail(o, Opened)
  /\ asked' = None
  /\ UNCHANGED <<serverVars, section, filter, report, action, ended, listed>>

\* closeOrderDetail: only the selection goes.
Close ==
  /\ desk.selected # None /\ action.kind = None
  /\ desk' = [desk EXCEPT !.selected = None]
  /\ reads' = Aborted({"detail"})
  /\ asked' = None
  /\ UNCHANGED <<serverVars, section, filter, report, action, count, ended, listed>>

RetryDetail ==
  /\ desk.selected # None /\ desk.error /\ ~desk.loading /\ action.kind = None /\ MayRead
  /\ LoadDetail(desk.selected, desk)
  /\ UNCHANGED <<serverVars, section, filter, report, action, history>>

\* "Rechazar" and "Cancelar".
MayResolve == desk.selected # None /\ desk.detail.id \in WhatsApp /\ desk.detail.pending /\ action.kind = None

AskReject ==
  /\ MayResolve
  /\ desk' = [desk EXCEPT !.confirming = ~@]
  /\ asked' = IF desk.confirming THEN None ELSE desk.selected
  /\ UNCHANGED <<serverVars, section, filter, report, action, reads, count, ended, listed>>

Send(kind) ==
  /\ count.actions < MaxActions
  /\ count' = [count EXCEPT !.actions = @ + 1]
  /\ action' = [kind |-> kind, id |-> desk.selected, state |-> "sent", at |-> 0, pending |-> FALSE]
  /\ UNCHANGED <<serverVars, section, filter, report, desk, reads, history>>

\* transitionOrder; the dialog stands in for the buttons while it is open.
Approve == MayResolve /\ ~desk.confirming /\ Send("approve")
Reject  == MayResolve /\ desk.confirming /\ Send("reject")

\* reconcileOrder
Reconcile == desk.selected # None /\ desk.detail.id \in CheckoutPro /\ action.kind = None /\ Send("reconcile")

-----------------------------------------------------------------------------
(* A decision at the server, and its answer *)

\* resolveWhatsappOrder acts on a pending order only; reconcileMercadoPagoOrder
\* changes what Mercado Pago says has changed.
Perform ==
  /\ action.state = "sent"
  /\ \/ /\ action.kind = "reconcile" \/ action.id \in pending
        /\ world < MaxChanges
        /\ world' = world + 1 /\ pending' = pending \ {action.id}
        /\ action' = [action EXCEPT !.state = "done", !.at = world + 1, !.pending = FALSE]
     \/ /\ action.kind = "reconcile"
        /\ action' = [action EXCEPT !.state = "done", !.at = world] /\ UNCHANGED serverVars
     \/ /\ action.kind # "reconcile" /\ action.id \notin pending
        /\ action' = [action EXCEPT !.state = "refused", !.at = world] /\ UNCHANGED serverVars
  /\ UNCHANGED <<section, filter, report, desk, reads, count, history>>

\* setReportRefresh after a decision that succeeded.
ListAgain == LoadReport(section, filter, Aborted({"report"}))

\* The answer: the detail it brings is shown and the list is read again.
Succeed ==
  /\ action.state = "done" /\ MayRead
  /\ desk' = [desk EXCEPT !.detail = [id |-> action.id, at |-> action.at, pending |-> action.pending],
                          !.confirming = IF action.kind = "reconcile" THEN @ ELSE FALSE]
  /\ ListAgain
  /\ ended' = action.at /\ listed' = action.at /\ asked' = None
  /\ action' = NoAction
  /\ UNCHANGED <<serverVars, section, filter>>

\* setDetailRefresh after a decision that did not.
DetailAgain ==
  IF desk.selected # None /\ section = "orders" THEN LoadDetail(desk.selected, desk)
  ELSE UNCHANGED <<desk, reads, count>>

\* A refusal, an error after the change (the audit record could not be
\* written, the answer was lost) or before it.
Fail ==
  /\ action.kind # None /\ MayRead
  /\ DetailAgain
  /\ ended' = IF action.state = "sent" THEN ended ELSE action.at
  /\ action' = NoAction
  /\ UNCHANGED <<serverVars, section, filter, report, listed, asked>>

\* A webhook, another administrator or an expiry changes an order.
OthersChange ==
  /\ world < MaxChanges
  /\ world' = world + 1
  /\ \/ UNCHANGED pending
     \/ \E o \in pending : pending' = pending \ {o}
  /\ UNCHANGED <<section, filter, report, desk, action, reads, count, history>>

-----------------------------------------------------------------------------
Init ==
  /\ pending = WhatsApp /\ world = 0
  /\ section = "orders" /\ filter \in Filters
  /\ report = [shown |-> NoReport, loading |-> TRUE]
  /\ desk = Fresh /\ action = NoAction
  /\ count = [reads |-> 1, actions |-> 0]
  /\ reads = {[kind |-> "report", what |-> "orders", of |-> filter, n |-> 1,
               live |-> TRUE, got |-> None, pending |-> FALSE]}
  /\ ended = 0 /\ listed = 0 /\ asked = None

Next ==
  \/ Serve \/ ReportAnswer \/ DetailAnswer
  \/ \E s \in {"orders", "summary", "other"} : GoTo(s)
  \/ \E f \in Filters : SubmitPeriod(f)
  \/ RetryReport \/ \E o \in Orders : Open(o)
  \/ Close \/ RetryDetail \/ AskReject \/ Approve \/ Reject \/ Reconcile
  \/ Perform \/ Succeed \/ Fail \/ OthersChange

Spec == Init /\ [][Next]_vars

-----------------------------------------------------------------------------
TypeOK ==
  /\ pending \subseteq WhatsApp /\ world \in 0..MaxChanges
  /\ section \in {"orders", "summary", "other"} /\ filter \in Filters
  /\ desk.selected \in Orders \cup {None} /\ desk.detail.id \in Orders \cup {None}
  /\ action.kind \in {None, "approve", "reject", "reconcile"}
  /\ action.kind # None => action.id \in Orders
  /\ ended <= world /\ listed <= world

\* The order the person decides on is the one that is open, and once a
\* decision has ended, well or badly, what is shown of it was read afterwards
\* (AdminPage.tsx:298-370; "Revisa su estado actualizado antes de continuar").
DetailIsCurrent ==
  (desk.selected # None /\ desk.detail.id # None) =>
    /\ desk.detail.id = desk.selected
    /\ action.kind = None => desk.detail.at >= ended

\* The report that is shown is the one of the section and period that were
\* asked for last, whatever order the answers came in, and it shows what the
\* decisions that succeeded did.
ReportIsCurrent ==
  (report.shown.section = section /\ ~report.loading) =>
    report.shown.filter = filter /\ report.shown.at >= listed

\* The panel of an open order never stays empty: there is a detail, an error
\* with its retry, or a request that is still to be answered.
OpenOrderShowsSomething ==
  /\ desk.selected # None =>
       \/ desk.detail.id # None \/ desk.error
       \/ desk.loading /\ \E r \in reads : r.kind = "detail" /\ r.live /\ r.what = desk.selected
  /\ HasReport(section) =>
       \/ report.shown.section = section
       \/ report.loading /\ \E r \in reads : r.kind = "report" /\ r.live /\ r.what = section

\* An order is rejected only when its rejection was asked for while it was
\* open: the dialog of one order never carries over to the next.
RejectionsAreAsked ==
  [][action'.kind = "reject" /\ action.kind = None => asked = desk.selected]_vars
=============================================================================
