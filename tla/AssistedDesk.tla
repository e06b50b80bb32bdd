---------------------------- MODULE AssistedDesk ----------------------------
(***************************************************************************)
(* The administrator's web requests (admin/WebOrderRequestsPanel) and the  *)
(* panel that prepares and closes one of them (AssistedCheckoutAdminPanel).*)
(*                                                                         *)
(* The list and the request that is open are read together whenever one    *)
(* of them is asked for again.  An accepted request shows the panel, which *)
(* keeps what it read of the request, the administrator's confirmation     *)
(* that the reservation was checked in Dux, and the questions that are     *)
(* open; it has no key of its own, so only its unmounting resets it.       *)
(*                                                                         *)
(* The server is reduced to where each request stands; its guards are those*)
(* of WebRequests, DirectCheckout and OrderPayment.  A rejected or a       *)
(* cancelled payment is no payment here, and a preparation that cannot be  *)
(* resumed has failed.  An expired session unmounts both panels and is     *)
(* left to AdminConsole.                                                   *)
(***************************************************************************)
EXTENDS Naturals, FiniteSets

CONSTANTS
  Requests, None,
  MaxReads,    \* bound: readings of the list and of the panel
  MaxActions,  \* bound: decisions sent
  MaxChanges   \* bound: changes of requests, the decisions' own included

AssistedDeskAssumption ==
  /\ None \notin Requests /\ MaxReads \in Nat /\ MaxActions \in Nat /\ MaxChanges \in Nat
  /\ None \notin {"submitted", "accepted", "rejected", "load", "resolve", "prepare", "resume", "release",
                  "finalize", "sent", "done", "refused"}

VARIABLES
  request,  \* server: where each request stands
  world,    \* server: changes so far
  list,     \* open, selected, rows shown, error, detail, confirmation
  pane,     \* the panel: shown, confirmed, confirming, lifecycleConfirmation
  op,       \* the operation under way; busyRef of both panels
  reads,    \* requests of the list's effect on their way
  count,    \* bounds: reads and actions made
  effect,   \* history: when the last operation that succeeded took effect
  meant     \* history: what the administrator has confirmed, of what reading

vars == <<request, world, list, pane, op, reads, count, effect, meant>>
serverVars == <<request, world>>

Prepared == [stage |-> "prepared", reservation |-> "confirmed", payment |-> "none", review |-> FALSE]
Previewed == [Prepared EXCEPT !.stage = "preview"]
Stages == [stage : {"preview", "preparing", "review", "failed", "prepared"},
           reservation : {"confirmed", "released", "finalized"},
           payment : {"none", "pending", "approved", "refunded"}, review : BOOLEAN]

NoDetail == [id |-> None, status |-> None]
NoView   == [of |-> None, n |-> 0, at |-> 0, view |-> Previewed]
NoOp     == [kind |-> None, of |-> None, arg |-> None, state |-> None, at |-> 0]
NotMeant == [kind |-> None, of |-> None, n |-> 0]

\* The panel as it is mounted.
NewPane == [shown |-> NoView, confirmed |-> FALSE, confirming |-> FALSE, lifecycle |-> None, error |-> FALSE]
Mounted == list.open /\ list.detail.status = "accepted"
Idle    == op.kind = None

-----------------------------------------------------------------------------
(* The server *)

\* readAssistedCheckoutAdminState: the payment of a prepared order also needs
\* review when it and the reservation contradict each other.
View(s) ==
  [s EXCEPT !.review = \/ s.review
                       \/ s.payment = "approved" /\ s.reservation = "released"
                       \/ s.payment = "refunded" /\ s.reservation # "released"]

\* lifecycleActionFor
LifecycleFor(v) ==
  IF v.stage # "prepared" \/ v.reservation # "confirmed" THEN None
  ELSE IF v.payment = "approved" THEN IF v.review THEN None ELSE "finalize"
  ELSE IF v.payment = "pending" \/ (v.review /\ v.payment # "refunded") THEN None
  ELSE "release"

\* advanceDirectCheckout and resumeDirectCheckout: where a preparation that
\* can go on may get to.
Resumable == {"preparing", "review"}
Advanced(s) == {[s EXCEPT !.stage = t] : t \in {"preparing", "review", "failed", "prepared"}}

\* What an operation may do to its request; nothing when it is refused.
Performed(o) ==
  LET r == request[o.of]  now == r.now
  IN  CASE o.kind = "resolve" -> IF r.status = "submitted" /\ now.stage = "preview"
                                 THEN {[r EXCEPT !.status = o.arg]} ELSE {}
        [] o.kind = "prepare" -> IF r.status = "accepted" /\ now \in {Previewed, Prepared}
                                 THEN {[r EXCEPT !.now = Prepared]} ELSE {}
        [] o.kind = "resume"  -> IF now.stage \in Resumable
                                 THEN {[r EXCEPT !.now = s] : s \in Advanced(now)} ELSE {}
        [] o.kind = "release" -> IF now.stage = "prepared" /\ now.payment \in {"none", "refunded"}
                                      /\ now.reservation # "finalized"
                                 THEN {[r EXCEPT !.now = [@ EXCEPT !.reservation = "released"]]} ELSE {}
        [] o.kind = "finalize" -> IF now.stage = "prepared" /\ now.payment = "approved"
                                      /\ ~View(now).review /\ now.reservation # "released"
                                  THEN {[r EXCEPT !.now = [@ EXCEPT !.reservation = "finalized"]]} ELSE {}

\* The buyer's direct checkout, payments, and another administrator.
Decided(r) ==
  IF r.status = "submitted" /\ r.now.stage = "preview"
  THEN {[r EXCEPT !.status = t] : t \in {"accepted", "rejected"}}
       \cup {[r EXCEPT !.now = [@ EXCEPT !.stage = "preparing"]]}
  ELSE {}
Continued(r) ==
  IF r.now.stage \in Resumable THEN {[r EXCEPT !.status = "accepted", !.now = s] : s \in Advanced(r.now)} ELSE {}
Charged(r) ==
  IF r.status = "accepted" /\ r.now.stage = "preview" THEN {[r EXCEPT !.now = Prepared]} ELSE {}
Payments == [payment : {"none", "pending", "approved", "refunded"}, review : BOOLEAN]
Paid(r) ==
  IF r.now.stage = "prepared"
  THEN {[r EXCEPT !.now = [@ EXCEPT !.payment = x.payment, !.review = x.review]] : x \in Payments} ELSE {}
Elsewhere(r) == Decided(r) \cup Continued(r) \cup Charged(r) \cup Paid(r)

Becomes(k, r) ==
  /\ request' = [request EXCEPT ![k] = r]
  /\ world' = IF r = request[k] THEN world ELSE world + 1

OthersChange ==
  \E k \in Requests : \E r \in Elsewhere(request[k]) :
    /\ r # request[k] /\ world < MaxChanges
    /\ Becomes(k, r)
    /\ UNCHANGED <<list, pane, op, reads, count, effect, meant>>

-----------------------------------------------------------------------------
(* The list and the open request *)

Abort(rs) == {[r EXCEPT !.live = FALSE] : r \in rs}
MayRead   == count.reads < MaxReads

\* What the effect clears before it reads.
Cleared(selected) ==
  [open |-> TRUE, selected |-> selected, rows |-> FALSE, error |-> FALSE, detail |-> NoDetail, confirmation |-> None]

\* The effect of [open, offset, revision, selected].
Reload(open, selected) ==
  /\ IF open
     THEN /\ list' = Cleared(selected)
          /\ reads' = Abort(reads) \cup {[of |-> selected, n |-> count.reads + 1, live |-> TRUE, got |-> NoDetail]}
          /\ count' = [count EXCEPT !.reads = @ + 1]
     ELSE /\ list' = [list EXCEPT !.open = FALSE] /\ reads' = Abort(reads) /\ UNCHANGED count
  /\ pane' = IF open /\ list'.detail.status = "accepted" THEN pane ELSE NewPane
  /\ meant' = IF open /\ list'.detail.status = "accepted" THEN meant ELSE NotMeant

Toggle ==
  /\ Idle /\ MayRead
  /\ Reload(~list.open, list.selected)
  /\ UNCHANGED <<serverVars, op, effect>>

\* "Ver solicitud", from the rows that are shown.
Select(k) ==
  /\ Idle /\ list.open /\ list.rows /\ ~list.error /\ k # list.selected /\ MayRead
  /\ Reload(TRUE, k)
  /\ UNCHANGED <<serverVars, op, effect>>

\* "Actualizar solicitudes", and the next and former pages.
Refresh ==
  /\ Idle /\ list.open /\ MayRead
  /\ Reload(TRUE, list.selected)
  /\ UNCHANGED <<serverVars, op, effect>>

\* The server reads the request that is open.
Serve ==
  \E r \in reads :
    /\ r.of # None /\ r.got = NoDetail
    /\ reads' = (reads \ {r}) \cup {[r EXCEPT !.got = [id |-> r.of, status |-> request[r.of].status]]}
    /\ UNCHANGED <<serverVars, list, pane, op, count, effect, meant>>

\* signal.aborted
Counts(r) == r.live

\* Both answers arrive, or one of them fails and the error stands for both.
Answer ==
  \E r \in reads :
    /\ reads' = reads \ {r}
    /\ \/ /\ r.of # None => r.got # NoDetail
          /\ list' = IF Counts(r) THEN [list EXCEPT !.rows = TRUE, !.detail = r.got] ELSE list
       \/ list' = IF Counts(r) THEN [list EXCEPT !.error = TRUE] ELSE list
    /\ UNCHANGED <<serverVars, pane, op, count, effect, meant>>

-----------------------------------------------------------------------------
(* Accepting and rejecting *)

Begin(kind, arg) ==
  /\ count.actions < MaxActions
  /\ count' = [count EXCEPT !.actions = @ + 1]
  /\ op' = [kind |-> kind, of |-> list.detail.id, arg |-> arg, state |-> "sent", at |-> 0]

AskResolution(status) ==
  /\ Idle /\ list.open /\ list.detail.status = "submitted" /\ list.confirmation = None
  /\ list' = [list EXCEPT !.confirmation = status]
  /\ meant' = [kind |-> "resolve", of |-> list.detail.id, n |-> 0]
  /\ UNCHANGED <<serverVars, pane, op, reads, count, effect>>

\* "Volver sin cambiar", Escape.
TakeBack ==
  /\ Idle /\ list.confirmation # None
  /\ list' = [list EXCEPT !.confirmation = None]
  /\ meant' = NotMeant
  /\ UNCHANGED <<serverVars, pane, op, reads, count, effect>>

ResolveRequest ==
  /\ Idle /\ list.open /\ list.confirmation # None /\ list.detail.status = "submitted"
  /\ Begin("resolve", list.confirmation)
  /\ list' = [list EXCEPT !.error = FALSE]
  /\ UNCHANGED <<serverVars, pane, reads, effect, meant>>

\* The decision is confirmed and everything is read again.
Resolved ==
  /\ op.kind = "resolve" /\ op.state = "done" /\ MayRead
  /\ Reload(TRUE, list.selected)
  /\ effect' = [effect EXCEPT ![op.of] = op.at]
  /\ op' = NoOp
  /\ UNCHANGED serverVars

Unresolved ==
  /\ op.kind = "resolve"
  /\ list' = [list EXCEPT !.confirmation = None, !.error = TRUE]
  /\ meant' = NotMeant
  /\ op' = NoOp
  /\ UNCHANGED <<serverVars, pane, reads, count, effect>>

-----------------------------------------------------------------------------
(* The panel of an accepted request *)

Reading(k) == [of |-> k, n |-> count.reads + 1, at |-> world, view |-> View(request[k].now)]

\* Mutant: a new preview finds the box ticked as it was.
TickStays(v) == pane.confirmed

\* A preview that was just read has not been checked against Dux.
Ticked(v) == pane.confirmed /\ v.view.stage # "preview"

\* load, and its answer or its failure.
Load ==
  /\ Idle /\ Mounted /\ MayRead
  /\ op' = [NoOp EXCEPT !.kind = "load", !.of = list.detail.id]
  /\ pane' = [pane EXCEPT !.error = FALSE]
  /\ UNCHANGED <<serverVars, list, reads, count, effect, meant>>

Loaded ==
  /\ op.kind = "load" /\ MayRead
  /\ LET v == Reading(op.of)
     IN  \/ /\ pane' = [shown |-> v, confirmed |-> Ticked(v), confirming |-> FALSE, lifecycle |-> None, error |-> FALSE]
            /\ meant' = IF Ticked(v) THEN meant ELSE NotMeant
         \/ pane' = [pane EXCEPT !.error = TRUE] /\ UNCHANGED meant
  /\ count' = [count EXCEPT !.reads = @ + 1]
  /\ op' = NoOp
  /\ UNCHANGED <<serverVars, list, reads, effect>>

\* The box "verifiqué en Dux", by hand.
Tick ==
  /\ Idle /\ Mounted /\ pane.shown.of # None /\ pane.shown.view.stage = "preview"
  /\ pane' = [pane EXCEPT !.confirmed = ~@]
  /\ meant' = IF pane.confirmed THEN NotMeant
              ELSE [kind |-> "prepare", of |-> list.detail.id, n |-> pane.shown.n]
  /\ UNCHANGED <<serverVars, list, op, reads, count, effect>>

\* "Preparar cobro" opens the question; the form may be completed in between.
AskPreparation ==
  /\ Idle /\ Mounted /\ pane.shown.of # None /\ pane.shown.view.stage = "preview"
  /\ pane.confirmed /\ ~pane.confirming
  /\ pane' = [pane EXCEPT !.error = FALSE, !.confirming = TRUE]
  /\ UNCHANGED <<serverVars, list, op, reads, count, effect, meant>>

AskLifecycle ==
  /\ Idle /\ Mounted /\ pane.shown.of # None /\ LifecycleFor(pane.shown.view) # None /\ pane.lifecycle = None
  /\ pane' = [pane EXCEPT !.error = FALSE, !.lifecycle = LifecycleFor(pane.shown.view)]
  /\ meant' = [kind |-> LifecycleFor(pane.shown.view), of |-> list.detail.id, n |-> pane.shown.n]
  /\ UNCHANGED <<serverVars, list, op, reads, count, effect>>

\* cancelConfirmation
CancelConfirmation ==
  /\ Idle /\ Mounted /\ (pane.confirming \/ pane.lifecycle # None)
  /\ pane' = [pane EXCEPT !.confirming = FALSE, !.lifecycle = None]
  /\ meant' = IF pane.lifecycle # None THEN NotMeant ELSE meant
  /\ UNCHANGED <<serverVars, list, op, reads, count, effect>>

\* prepare; the form is complete or the panel says so and sends nothing.
Prepare ==
  /\ Idle /\ Mounted /\ pane.confirming /\ pane.shown.view.stage = "preview"
  /\ \/ /\ pane.confirmed
        /\ Begin("prepare", None)
        /\ pane' = [pane EXCEPT !.error = FALSE]
     \/ /\ pane' = [pane EXCEPT !.confirming = FALSE, !.error = TRUE]
        /\ UNCHANGED <<op, count>>
  /\ UNCHANGED <<serverVars, list, reads, effect, meant>>

ResumeDirect ==
  /\ Idle /\ Mounted /\ pane.shown.of # None /\ pane.shown.view.stage \in Resumable
  /\ Begin("resume", None)
  /\ pane' = [pane EXCEPT !.error = FALSE]
  /\ UNCHANGED <<serverVars, list, reads, effect, meant>>

ConfirmLifecycle ==
  /\ Idle /\ Mounted /\ pane.lifecycle # None /\ LifecycleFor(pane.shown.view) = pane.lifecycle
  /\ Begin(pane.lifecycle, None)
  /\ pane' = [pane EXCEPT !.error = FALSE]
  /\ UNCHANGED <<serverVars, list, reads, effect, meant>>

-----------------------------------------------------------------------------
(* An operation at the server, and what the panel makes of it *)

Perform ==
  /\ op.state = "sent"
  /\ \/ \E r \in Performed(op) :
          /\ r # request[op.of] => world < MaxChanges
          /\ Becomes(op.of, r)
          /\ op' = [op EXCEPT !.state = "done", !.at = world']
     \/ /\ op' = [op EXCEPT !.state = "refused"] /\ UNCHANGED serverVars
  /\ UNCHANGED <<list, pane, reads, count, effect, meant>>

InPanel == op.kind \in {"prepare", "resume", "release", "finalize"}
Answered == op.state \in {"done", "refused"}

\* reloadPreparedState
Reloaded(k) == Reading(k)

\* What a lifecycle operation must have left to be believed.
Expected(v) ==
  /\ op.kind = "release"  => v.view.reservation = "released"
  /\ op.kind = "finalize" => v.view.reservation = "finalized"

\* It succeeded, and the persisted state was read again.
Succeed ==
  /\ InPanel /\ op.state = "done" /\ MayRead
  /\ LET v == IF op.kind = "resume" THEN Reading(op.of) ELSE Reloaded(op.of)
     IN  /\ Expected(v)
         /\ pane' = [pane EXCEPT !.shown = v, !.confirming = FALSE, !.lifecycle = None]
  /\ count' = [count EXCEPT !.reads = @ + 1]
  /\ effect' = [effect EXCEPT ![op.of] = op.at]
  /\ meant' = IF op.kind = "prepare" THEN meant ELSE NotMeant
  /\ op' = NoOp
  /\ UNCHANGED <<serverVars, list, reads>>

\* The operation was refused, its answer was lost, or the second reading
\* failed or contradicts it: the questions close.  Only a resumption reads
\* the state again, and keeps what it had when that fails as well.
Fail ==
  /\ InPanel
  /\ \/ pane' = [pane EXCEPT !.confirming = FALSE, !.lifecycle = None, !.error = TRUE] /\ UNCHANGED count
     \/ /\ op.kind = "resume" /\ MayRead
        /\ pane' = [pane EXCEPT !.shown = Reading(op.of), !.error = TRUE]
        /\ count' = [count EXCEPT !.reads = @ + 1]
  /\ meant' = IF op.kind = "prepare" THEN meant ELSE NotMeant
  /\ op' = NoOp
  /\ UNCHANGED <<serverVars, list, reads, effect>>

-----------------------------------------------------------------------------
Init ==
  /\ request \in [Requests -> {[status |-> s, now |-> Previewed] : s \in {"submitted", "accepted"}}]
  /\ world = 0
  /\ list = [open |-> FALSE, selected |-> None, rows |-> FALSE, error |-> FALSE,
              detail |-> NoDetail, confirmation |-> None]
  /\ pane = NewPane /\ op = NoOp /\ reads = {}
  /\ count = [reads |-> 0, actions |-> 0]
  /\ effect = [k \in Requests |-> 0] /\ meant = NotMeant

Next ==
  \/ OthersChange
  \/ Toggle \/ (\E k \in Requests : Select(k)) \/ Refresh \/ Serve \/ Answer
  \/ (\E s \in {"accepted", "rejected"} : AskResolution(s)) \/ TakeBack
  \/ ResolveRequest \/ Resolved \/ Unresolved
  \/ Load \/ Loaded \/ Tick \/ AskPreparation \/ AskLifecycle \/ CancelConfirmation
  \/ Prepare \/ ResumeDirect \/ ConfirmLifecycle \/ Perform \/ Succeed \/ Fail

Spec == Init /\ [][Next]_vars

-----------------------------------------------------------------------------
TypeOK ==
  /\ \A k \in Requests : request[k].now \in Stages
  /\ world \in 0..MaxChanges
  /\ list.selected \in Requests \cup {None} /\ list.detail.id \in Requests \cup {None}
  /\ pane.shown.of \in Requests \cup {None} /\ pane.lifecycle \in {None, "release", "finalize"}
  /\ op.kind \in {None, "load", "resolve", "prepare", "resume", "release", "finalize"}

\* Everything on screen is about the request that is selected: its detail, the
\* state its panel shows, and the operation under way (the panel is reused
\* without a key, WebOrderRequestsPanel.tsx:114).
OneRequestOnScreen ==
  list.open =>
    /\ list.detail.id # None => list.detail.id = list.selected
    /\ pane.shown.of # None => pane.shown.of = list.detail.id
    /\ op.kind # None => op.of = list.selected

\* What the panel shows after an operation that succeeded was read from what
\* the server keeps, after the operation took effect
\* (AssistedCheckoutAdminPanel.tsx:109, 151-155).
ShownIsPersisted ==
  (Mounted /\ Idle /\ pane.shown.of # None) => pane.shown.at >= effect[pane.shown.of]

\* Accepting, rejecting, preparing, releasing and finalizing are sent only of
\* the request the administrator confirmed it of; a preparation, only when the
\* box was ticked on the very preview that is shown ("verifique en Dux este
\* pedido, las cantidades exactas y la reserva").
ConfirmedHere ==
  [][ (op.kind = None /\ op'.kind \in {"resolve", "prepare", "release", "finalize"}) =>
        /\ meant.kind = op'.kind /\ meant.of = op'.of
        /\ op'.kind # "resolve" => meant.n = pane.shown.n ]_vars
=============================================================================
