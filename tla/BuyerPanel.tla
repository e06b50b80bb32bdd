----------------------------- MODULE BuyerPanel -----------------------------
(***************************************************************************)
(* The purchase panel of the cart page (commerce/WebOrderRequestSection),  *)
(* the identity the tabs of a browser share in IndexedDB                   *)
(* (commerce/web-request-session) and the calls it makes                   *)
(* (commerce/web-request-api).                                             *)
(*                                                                         *)
(* The server is what the panel can see of it: a request is in one of a    *)
(* few classes of receipts and moves on its own.  Every call has a moment  *)
(* at which the server answers, a later one at which the answer arrives,   *)
(* and may fail before or after the server has done it.  A handler and the *)
(* render and effects it causes are one step.  Time is counted in ticks    *)
(* for the pace of the preparation only; the pace of plain status reads,   *)
(* the visibility of the page and its analytics are left out.              *)
(***************************************************************************)
EXTENDS Naturals, FiniteSets

CONSTANTS
  PanelTabs,
  MaxKeys,      \* bound: identities this browser draws
  MaxVersion,   \* bound: changes of a request the panel can see
  MaxChecks,    \* MAX_AUTOMATIC_CHECKS, or 120 while preparing
  Interval,     \* DIRECT_CHECK_INTERVAL_MS in ticks
  None

VARIABLES
  active,    \* the identity under KEY in IndexedDB
  keysDrawn, \* how many identities were drawn
  created,   \* identities whose creation was sent: it may still reach the server
  request,   \* what a receipt of each identity's request says now
  panel,     \* WebOrderRequestSection in each tab
  visit,     \* history of each tab since the section was mounted
  surprised  \* history: Mercado Pago was opened by itself when it should not

panelVars == <<active, keysDrawn, created, request, panel, visit, surprised>>

Keys     == 1..MaxKeys
\* preparing: also uncertain.  waiting: staff has to answer, or the payment is
\* pending.  closed: failed without a total, rejected, released or finalized.
Statuses == {"absent", "preparing", "waiting", "ready", "review", "paid", "closed"}
Receipts == [status : Statuses, version : 0..MaxVersion]

ASSUME PanelAssumption ==
  /\ MaxKeys \in Nat \ {0} /\ MaxVersion \in Nat \ {0} /\ MaxChecks \in Nat /\ Interval \in Nat \ {0}
  /\ None \notin Nat /\ None \notin Receipts

Absent   == [status |-> "absent", version |-> 0]

\* What the server may make of a request between two reads of it.
Moves(status) ==
  CASE status = "preparing" -> {"preparing", "ready", "review", "closed"}
    [] status = "waiting"   -> {"waiting", "ready", "paid", "closed"}
    [] status = "ready"     -> {"waiting", "closed"}
    [] status = "review"    -> {"preparing", "closed"}
    [] status = "paid"      -> {"closed"}
    [] OTHER                -> {}

\* shouldWatchRequest, directPreparing, checkoutAvailable, canPrepareAnother.
ShouldWatch(r) == r # None /\ r.status \in {"preparing", "waiting"}
Direct(r)      == r # None /\ r.status = "preparing"
CanPay(r)      == r # None /\ r.status = "ready"
\* Mutant: a purchase in review does not stop another one.
AnotherInReview(r) == r # None /\ r.status \in {"closed", "review"}

CanPrepareAnother(r) == r # None /\ r.status = "closed"

NoCall == [kind |-> "idle", answer |-> None]
Call(kind) == [kind |-> kind, answer |-> None]
NoLoop == [call |-> NoCall, checks |-> 0, state |-> "watching", stopped |-> FALSE, wait |-> 0]

\* key is the identity of the panel, or of the link it was opened with.
Unmounted ==
  [mounted |-> FALSE, link |-> FALSE, key |-> None, receipt |-> None, op |-> NoCall,
   needsRecovery |-> FALSE, missingLink |-> FALSE, url |-> FALSE, error |-> FALSE,
   continue |-> FALSE, attempted |-> {}, since |-> None, loop |-> NoLoop]
NoVisit == [asked |-> {}, started |-> {}, gap |-> Interval]

PanelInit ==
  /\ active = None /\ keysDrawn = 0 /\ created = {}
  /\ request = [k \in Keys |-> Absent]
  /\ panel = [t \in PanelTabs |-> Unmounted]
  /\ visit = [t \in PanelTabs |-> NoVisit]
  /\ surprised = FALSE

Recovering(b) == b.op.kind = "mount"
Busy(b)       == b.op.kind \notin {"idle", "mount"}

-----------------------------------------------------------------------------
(* The server and the clock *)

ServerCreates(k) ==
  /\ k \in created /\ request[k] = Absent
  /\ \E status \in {"preparing", "waiting"} :
       request' = [request EXCEPT ![k] = [status |-> status, version |-> 1]]
  /\ UNCHANGED <<active, keysDrawn, created, panel, visit, surprised>>

ServerMoves(k) ==
  /\ request[k].version \in 1..(MaxVersion - 1)
  /\ \E status \in Moves(request[k].status) :
       request' = [request EXCEPT ![k] = [status |-> status, version |-> @.version + 1]]
  /\ UNCHANGED <<active, keysDrawn, created, panel, visit, surprised>>

\* The server answers a call that is on its way. A creation is answered once
\* it is stored, a link or a recovery also when there is nothing.
Answered(call, k) ==
  /\ call.kind # "idle" /\ call.answer = None /\ k # None
  /\ call.kind = "create" => request[k] # Absent
Serve(t) ==
  LET b == panel[t] IN
  /\ \/ /\ Answered(b.op, b.key)
        /\ panel' = [panel EXCEPT ![t].op.answer = request[b.key]]
     \/ /\ Answered(b.loop.call, b.key)
        /\ panel' = [panel EXCEPT ![t].loop.call.answer = request[b.key]]
  /\ UNCHANGED <<active, keysDrawn, created, request, visit, surprised>>

Tick ==
  /\ panel' = [t \in PanelTabs |->
       [panel[t] EXCEPT !.since = IF @ = None \/ @ = Interval THEN @ ELSE @ + 1,
                        !.loop.wait = IF @ = 0 THEN 0 ELSE @ - 1]]
  /\ visit' = [t \in PanelTabs |-> [visit[t] EXCEPT !.gap = IF @ = Interval THEN @ ELSE @ + 1]]
  /\ <<panel, visit>>' # <<panel, visit>>
  /\ UNCHANGED <<active, keysDrawn, created, request, surprised>>

-----------------------------------------------------------------------------
(* The panel *)

\* The refresh effect starts anew: what was in flight is aborted.
Watch(b) ==
  [b EXCEPT !.loop = IF ~ShouldWatch(b.receipt) THEN [NoLoop EXCEPT !.state = b.loop.state]
                     ELSE [NoLoop EXCEPT !.wait = IF ~Direct(b.receipt) THEN 0
                                                  ELSE IF b.since = None THEN Interval
                                                  ELSE Interval - b.since]]

\* setReceipt, with the effect when one of its dependencies changed.
Shown(b, r) ==
  LET c == [b EXCEPT !.receipt = r]
  IN IF ShouldWatch(r) = ShouldWatch(b.receipt) /\ Direct(r) = Direct(b.receipt) THEN c ELSE Watch(c)

Stays == UNCHANGED <<active, keysDrawn, created, request, surprised>>

\* The section mounts: with the token of a link, or reading IndexedDB.
Mount(t) ==
  /\ ~panel[t].mounted
  /\ visit' = [visit EXCEPT ![t] = NoVisit]
  /\ \/ \E k \in Keys :
          /\ request[k] # Absent
          /\ panel' = [panel EXCEPT ![t] = [Unmounted EXCEPT
               !.mounted = TRUE, !.link = TRUE, !.key = k, !.needsRecovery = TRUE, !.op = Call("mount")]]
     \/ panel' = [panel EXCEPT ![t] = [Unmounted EXCEPT
               !.mounted = TRUE, !.key = active, !.needsRecovery = active # None,
               !.op = IF active = None THEN NoCall ELSE Call("mount")]]
     \/ panel' = [panel EXCEPT ![t] = [Unmounted EXCEPT !.mounted = TRUE, !.error = TRUE]]
  /\ Stays

\* The page is left, or the cart was emptied in another tab and the section is
\* rendered in another place. Its calls may still reach the server.
Unmount(t) ==
  /\ panel[t].mounted
  /\ panel' = [panel EXCEPT ![t] = Unmounted]
  /\ visit' = [visit EXCEPT ![t] = NoVisit]
  /\ Stays

Mounted(t) ==
  LET b == panel[t]
      c == [b EXCEPT !.op = NoCall]
  IN
  /\ Recovering(b)
  /\ panel' = [panel EXCEPT ![t] =
       IF b.op.answer = None THEN [c EXCEPT !.error = TRUE]
       ELSE IF b.op.answer # Absent THEN Shown(c, b.op.answer)
       ELSE IF b.link THEN [c EXCEPT !.missingLink = TRUE]
       ELSE [c EXCEPT !.needsRecovery = FALSE]]
  /\ UNCHANGED visit /\ Stays

\* Mutant: an operation leaves the refresh in flight.
OperatingOn(b, kind) == [b EXCEPT !.op = Call(kind), !.error = FALSE]

\* operate begins: the effect is restarted and the error cleared.
Operating(b, kind) == Watch([b EXCEPT !.op = Call(kind), !.error = FALSE])
MayOperate(b) == b.mounted /\ b.op.kind = "idle"

\* What the section renders.
Preparing(b) ==
  \/ Direct(b.receipt) /\ b.loop.state = "watching" /\ ~b.error
  \/ Busy(b) /\ b.receipt = None /\ b.continue
AutomaticCheckout(b) == b.continue /\ CanPay(b.receipt) /\ ~b.error
SimpleProgress(b) == Preparing(b) \/ AutomaticCheckout(b)
CanStartAnother(b) == ~b.link /\ b.key # None /\ CanPrepareAnother(b.receipt)
ShowRecovery(b) ==
  /\ b.needsRecovery /\ ~Recovering(b) /\ ~b.missingLink /\ ~SimpleProgress(b) /\ ~b.url
  /\ ~CanPay(b.receipt) /\ ~CanStartAnother(b)
ShowCreate(b) == b.receipt = None /\ ~b.link /\ ~SimpleProgress(b) /\ ~b.needsRecovery
ShowPay(b)    == CanPay(b.receipt) /\ ~b.url /\ ~SimpleProgress(b)

\* Every button is also disabled while an operation runs.
Create(t) ==
  LET b == panel[t] IN
  /\ MayOperate(b) /\ ShowCreate(b)
  /\ \/ /\ active = None /\ keysDrawn < MaxKeys
        /\ keysDrawn' = keysDrawn + 1 /\ active' = keysDrawn'
     \/ active # None /\ UNCHANGED <<active, keysDrawn>>
  /\ created' = created \cup {active'}
  /\ panel' = [panel EXCEPT ![t] = [Operating(b, "create") EXCEPT
       !.key = active', !.needsRecovery = TRUE, !.continue = TRUE, !.since = 0]]
  /\ visit' = [visit EXCEPT ![t].asked = @ \cup {active'}, ![t].gap = 0]
  /\ UNCHANGED <<request, surprised>>

\* The browser cannot keep the identity.
CreateUnstored(t) ==
  LET b == panel[t] IN
  /\ MayOperate(b) /\ ShowCreate(b)
  /\ panel' = [panel EXCEPT ![t] = Watch([b EXCEPT !.error = TRUE])]
  /\ UNCHANGED visit /\ Stays

Recover(t) ==
  LET b == panel[t] IN
  /\ MayOperate(b) /\ ShowRecovery(b)
  /\ panel' = [panel EXCEPT ![t] = Operating(b, "recover")]
  /\ UNCHANGED visit /\ Stays

Another(t) ==
  LET b == panel[t] IN
  /\ MayOperate(b) /\ CanStartAnother(b)
  /\ panel' = [panel EXCEPT ![t] = Operating(b, "new")]
  /\ UNCHANGED visit /\ Stays

\* The answer of a creation or a recovery arrives, or an error does.
Operated(t) ==
  LET b == panel[t]
      c == [b EXCEPT !.op = NoCall]
  IN
  /\ b.op.kind \in {"create", "recover"}
  /\ panel' = [panel EXCEPT ![t] =
       IF b.op.answer = None THEN [c EXCEPT !.error = TRUE]
       ELSE IF b.op.answer # Absent THEN Shown(c, b.op.answer)
       ELSE IF b.link THEN [c EXCEPT !.missingLink = TRUE]
       ELSE IF b.receipt = None THEN [c EXCEPT !.needsRecovery = FALSE]
       ELSE [c EXCEPT !.error = TRUE]]
  /\ UNCHANGED visit /\ Stays

\* finishWebRequestIdentity takes away the identity it was given, no other one.
Finish(k) == active' = IF active = k THEN None ELSE active

Renewed(t) ==
  LET b == panel[t]
      c == [b EXCEPT !.op = NoCall]
  IN
  /\ b.op.kind = "new"
  /\ \/ /\ CanPrepareAnother(b.op.answer)
        /\ Finish(b.key)
        /\ panel' = [panel EXCEPT ![t] = [c EXCEPT
             !.continue = FALSE, !.since = None, !.key = None, !.receipt = None, !.url = FALSE,
             !.needsRecovery = FALSE, !.loop = [NoLoop EXCEPT !.state = b.loop.state]]]
     \/ /\ UNCHANGED active
        /\ panel' = [panel EXCEPT ![t] = [c EXCEPT !.error = TRUE]]
  /\ UNCHANGED <<keysDrawn, created, request, visit, surprised>>

\* startCheckout, by the button or by the effect.
Starts(t, automatic) ==
  LET b == panel[t] IN
  /\ panel' = [panel EXCEPT ![t].op = Call("checkout"), ![t].error = FALSE, ![t].attempted = @ \cup {b.key}]
  /\ visit' = [visit EXCEPT ![t].started = @ \cup {b.key}]
  /\ surprised' = (surprised \/ (automatic /\ (b.key \in visit[t].started \/ b.key \notin visit[t].asked)))
  /\ UNCHANGED <<active, keysDrawn, created, request>>
Pay(t) ==
  /\ MayOperate(panel[t]) /\ ShowPay(panel[t])
  /\ Starts(t, FALSE)
\* Only the buyer's gesture of this visit makes it go on by itself.
Continue(b) == b.continue /\ CanPay(b.receipt) /\ b.key \notin b.attempted
PayAutomatically(t) ==
  /\ MayOperate(panel[t]) /\ Continue(panel[t])
  /\ Starts(t, TRUE)

\* The page leaves for Mercado Pago, and may come back as it was.
CheckoutAnswers(t) ==
  /\ panel[t].op.kind = "checkout"
  /\ \/ /\ CanPay(panel[t].op.answer)
        /\ panel' = [panel EXCEPT ![t].op = NoCall, ![t].url = TRUE]
     \/ panel' = [panel EXCEPT ![t].op = NoCall, ![t].error = TRUE]
  /\ UNCHANGED visit /\ Stays

-----------------------------------------------------------------------------
(* The refresh effect *)

LoopAlive(b) == ShouldWatch(b.receipt) /\ ~b.loop.stopped

Refresh(t) ==
  LET b == panel[t] IN
  /\ b.mounted /\ LoopAlive(b) /\ b.loop.call = NoCall /\ ~Busy(b) /\ b.loop.wait = 0
  /\ IF b.loop.checks >= MaxChecks
     THEN /\ panel' = [panel EXCEPT ![t].loop.stopped = TRUE, ![t].loop.state = "paused"]
          /\ UNCHANGED visit
     ELSE LET next == [b EXCEPT !.loop.checks = @ + 1] IN
          IF Direct(b.receipt)
          THEN /\ panel' = [panel EXCEPT ![t] = [next EXCEPT !.loop.call = Call("prepare"), !.since = 0]]
               /\ visit' = [visit EXCEPT ![t].gap = 0]
          ELSE /\ panel' = [panel EXCEPT ![t] = [next EXCEPT !.loop.call = Call("read")]]
               /\ UNCHANGED visit
  /\ Stays

\* The loop goes on: the time the answer took counts.
Paced(b) ==
  [b EXCEPT !.loop.call = NoCall, !.loop.wait = IF Direct(b.receipt) THEN Interval - b.since ELSE 0]

Refreshed(t) ==
  LET b == panel[t] IN
  /\ b.loop.call.kind \in {"prepare", "read"} /\ b.loop.call.answer # None
  /\ panel' = [panel EXCEPT ![t] = Shown(Paced(b), b.loop.call.answer)]
  /\ UNCHANGED visit /\ Stays

\* An error of a preparation is followed by a read: the server may have stored
\* a review before it answered.
Stopped(b) == [b EXCEPT !.loop.call = NoCall, !.loop.stopped = TRUE, !.loop.state = "error", !.error = TRUE]

RefreshFails(t) ==
  LET b == panel[t] IN
  /\ b.loop.call.kind # "idle"
  /\ panel' = [panel EXCEPT ![t] =
       IF b.loop.call.kind = "prepare" THEN [b EXCEPT !.loop.call = Call("after")] ELSE Stopped(b)]
  /\ UNCHANGED visit /\ Stays

ReadAfter(t) ==
  LET b == panel[t]
      r == b.loop.call.answer
      inReview == r.status = "review"
  IN
  /\ b.loop.call.kind = "after" /\ r # None
  /\ panel' = [panel EXCEPT ![t] = Shown(
       [Stopped(b) EXCEPT !.loop.state = IF inReview THEN "paused" ELSE @, !.error = ~inReview], r)]
  /\ UNCHANGED visit /\ Stays

PanelNext ==
  \/ \E k \in Keys : ServerCreates(k) \/ ServerMoves(k)
  \/ Tick
  \/ \E t \in PanelTabs :
       \/ Serve(t) \/ Mount(t) \/ Mounted(t) \/ Unmount(t)
       \/ Create(t) \/ CreateUnstored(t) \/ Recover(t) \/ Operated(t) \/ Another(t) \/ Renewed(t)
       \/ Pay(t) \/ PayAutomatically(t) \/ CheckoutAnswers(t)
       \/ Refresh(t) \/ Refreshed(t) \/ RefreshFails(t) \/ ReadAfter(t)

PanelSpec == PanelInit /\ [][PanelNext]_panelVars

-----------------------------------------------------------------------------
(* Properties *)

\* The variables keep their types, and a panel shows receipts of its identity.
PanelTypeOK ==
  /\ active \in Keys \cup {None} /\ keysDrawn \in 0..MaxKeys /\ created \subseteq Keys
  /\ request \in [Keys -> Receipts]
  /\ \A t \in PanelTabs :
       /\ panel[t].receipt \in Receipts \cup {None} /\ panel[t].receipt # None => panel[t].key \in Keys
       /\ panel[t].loop.checks \in 0..MaxChecks /\ panel[t].loop.wait \in 0..Interval
       /\ panel[t].since \in 0..Interval \cup {None}
       /\ panel[t].attempted \subseteq Keys

\* However many tabs buy, retry and start over, and however late a creation
\* arrives, this browser has one request at most that is not closed
\* (getOrCreateWebRequestIdentity, finishWebRequestIdentity, canPrepareAnother).
OneLiveRequest ==
  Cardinality({k \in Keys : request[k].status \notin {"absent", "closed"}}) <= 1

\* Mercado Pago is opened by the panel itself only for a purchase the buyer
\* asked for in this visit, and not again after one attempt of this visit.
NeverSurprised == ~surprised

\* A panel is never a dead end: while it shows progress something is running,
\* and when nothing is there is a button, a link or a final message.
SomethingToDo ==
  \A t \in PanelTabs : LET b == panel[t] IN b.mounted =>
    IF SimpleProgress(b) THEN Busy(b) \/ LoopAlive(b) \/ b.url \/ Continue(b)
    ELSE \/ Busy(b) \/ Recovering(b) \/ b.url \/ b.missingLink
         \/ ShowCreate(b) \/ ShowRecovery(b) \/ ShowPay(b) \/ CanStartAnother(b)

\* This browser has one request under way at most, Mercado Pago opens by itself
\* only once for a purchase asked for here, and no panel is a dead end.
PurchaseIsLed == PanelTypeOK /\ OneLiveRequest /\ NeverSurprised /\ SomethingToDo

\* What a panel shows of a purchase never goes back: an answer that was asked
\* for before the one on the screen does not replace it.
ShownForward ==
  [][\A t \in PanelTabs : LET b == panel[t] c == panel'[t] IN
       b.receipt # None /\ c.receipt # None /\ b.key = c.key => c.receipt.version >= b.receipt.version]_panelVars

\* Two calls of a visit that make the server advance a preparation start at
\* least the interval apart, whatever restarts the loop in between.
PreparesSpaced ==
  [][\A t \in PanelTabs : panel'[t].loop.call.kind = "prepare" /\ panel[t].loop.call = NoCall =>
       visit[t].gap = Interval]_panelVars

\* What a panel shows never goes back, and a visit paces the calls that make the
\* server advance a preparation.
PanelGoesForward == ShownForward /\ PreparesSpaced
=============================================================================
