--------------------------- MODULE DirectCheckout ---------------------------
(***************************************************************************)
(* One direct purchase of server/direct-checkout.ts: the row of            *)
(* checkout_intents, the local order with its Dux link and its reserve     *)
(* operation, and the provider that keeps the real order.  Every call of   *)
(* advanceDirectCheckout (the buyer's POST .../prepare, the first POST of  *)
(* the request, the administrator's resume) is a worker that claims the    *)
(* row, makes at most one provider call and leaves.  A worker may stall at *)
(* any await for longer than its lease, fail, or die; its statements are   *)
(* single D1 statements or D1 batches, which are atomic.                   *)
(*                                                                         *)
(* Time.  The code compares the clock with two instants only.  The lease   *)
(* is the flag leaseLive (lease_until_ms > now).  The age of a reading is  *)
(* counted in epochs, an epoch being MAX_QUOTE_AGE_MS: what was read in an *)
(* earlier epoch is too old.                                               *)
(***************************************************************************)
EXTENDS Naturals, Sequences

CONSTANTS
  Workers,    \* invocations of the endpoint that can be under way at once
  Items,      \* number of lines of the purchase
  MaxEpoch,   \* bound: how often readings can grow old
  MaxFaults,  \* bound: exceptions, failed calls, stalls past the lease, deaths
  NoOne       \* direct_checkout_claim_token IS NULL

ASSUME ItemsAssumption  == Items \in Nat \ {0}
ASSUME BoundsAssumption == MaxEpoch \in Nat /\ MaxFaults \in Nat
ASSUME NoOneAssumption  == NoOne \notin Workers

VARIABLES
  request,    \* checkout_intents.web_request_status
  prep,       \* checkout_intents.direct_checkout_state
  claim,      \* the worker whose direct_checkout_claim_token is stored
  leaseLive,  \* direct_checkout_lease_until_ms > now
  progress,   \* direct_checkout_progress_json
  order,      \* orders.status of the local order
  op,         \* dux_order_operations row 'automatic-reserve:<order>'
  link,       \* dux_order_links row of the order
  dux,        \* the provider's order with this purchase's reference
  wire,       \* a POST /v2/pedidos is on its way to the provider
  posts,      \* history: POSTs sent for this purchase
  epoch,      \* coarse clock, see above
  faults,     \* counter for MaxFaults
  pc,         \* where each worker is
  mine,       \* what each worker holds: the row as RETURNING gave it to it
  outcome     \* how a failing worker's error changes direct_checkout_state

row      == <<request, prep, claim, leaseLive, progress>>
ledger   == <<order, op, link>>
provider == <<dux, wire, posts>>
local    == <<pc, mine, outcome>>
clocks   == <<epoch, faults>>
vars     == <<row, ledger, provider, clocks, local>>

-----------------------------------------------------------------------------
(* Types *)

DuxIds   == 0..2      \* 0 is no order; 2 is an order staff typed in again
Labels   == {"idle", "claimed", "quote", "draft", "unsent", "gate", "send",
             "posting", "uncertain", "sent", "keep_order", "confirm", "close",
             "expire", "failing", "leaving"}
Outcomes == {"keep", "failed", "requires_review"}

\* directQuoteValue: the lines, each by the epoch it was observed in, and
\* whether the marketing offer is part of the price.
Quotes   == [lines : Seq(Nat), promo : BOOLEAN]
Progress == [quote : Quotes, order : DuxIds, after : Nat, afterAt : Nat,
             review : DuxIds]
NoQuote  == [lines |-> <<>>, promo |-> FALSE]
Empty    == [quote |-> NoQuote, order |-> 0, after |-> 0, afterAt |-> 0,
             review |-> 0]
Nothing  == [at |-> 0, saved |-> Empty, annulled |-> FALSE]

\* Every variable has its type: the columns' CHECK constraints and the
\* workers' locals.
TypeOK ==
  /\ request \in {"submitted", "accepted", "rejected"}
  /\ prep \in {"none", "preparing", "uncertain", "prepared", "failed",
               "requires_review"}
  /\ claim \in Workers \cup {NoOne}
  /\ leaseLive \in BOOLEAN
  /\ progress \in Progress
  /\ order \in {"none", "preference_pending", "failed"}
  /\ op \in [status : {"none", "pending", "uncertain", "confirmed"},
             attempted : BOOLEAN, quote : Quotes, dux : DuxIds]
  /\ link \in [state : {"none", "not_attempted", "pending", "uncertain",
                        "confirmed"}, dux : DuxIds]
  /\ dux \in [id : DuxIds, active : BOOLEAN]
  /\ wire \in BOOLEAN
  /\ posts \in Nat
  /\ epoch \in Nat /\ faults \in Nat
  /\ pc \in [Workers -> Labels]
  /\ mine \in [Workers -> [at : Nat, saved : Progress, annulled : BOOLEAN]]
  /\ outcome \in [Workers -> Outcomes]

Init ==
  /\ request = "submitted" /\ prep = "none"
  /\ claim = NoOne /\ leaseLive = FALSE
  /\ progress = Empty
  /\ order = "none"
  /\ op = [status |-> "none", attempted |-> FALSE, quote |-> NoQuote,
           dux |-> 0]
  /\ link = [state |-> "none", dux |-> 0]
  /\ dux = [id |-> 0, active |-> FALSE] /\ wire = FALSE /\ posts = 0
  /\ epoch = 0 /\ faults = 0
  /\ pc = [w \in Workers |-> "idle"]
  /\ mine = [w \in Workers |-> Nothing]
  /\ outcome = [w \in Workers |-> "keep"]

-----------------------------------------------------------------------------
(* Helpers *)

Goto(w, l)  == /\ pc' = [pc EXCEPT ![w] = l]
               /\ UNCHANGED <<mine, outcome>>
Throw(w, o) == /\ pc' = [pc EXCEPT ![w] = "failing"]
               /\ outcome' = [outcome EXCEPT ![w] = o]
               /\ UNCHANGED mine

\* A reading of an earlier epoch is older than MAX_QUOTE_AGE_MS.
Old(lines, t) == \E i \in DOMAIN lines : lines[i] < t

\* A statement compares the lease with the clock its worker read just before:
\* against a live lease that holds, against an expired one it still may.
LeaseReadings == IF leaseLive THEN {TRUE} ELSE BOOLEAN

\* direct_checkout_claim_token = ? AND direct_checkout_lease_until_ms > ?
Fenced(w, valid) == claim = w /\ valid

\* saveProgress; zero rows changed is the 409 of a worker that lost its claim.
SaveProgress(w, p, next, result) ==
  \E valid \in LeaseReadings :
    \/ /\ Fenced(w, valid)
       /\ progress' = p
       /\ pc' = [pc EXCEPT ![w] = next]
       /\ outcome' = [outcome EXCEPT ![w] = result]
    \/ /\ ~Fenced(w, valid)
       /\ pc' = [pc EXCEPT ![w] = "failing"]
       /\ outcome' = [outcome EXCEPT ![w] = "keep"]
       /\ UNCHANGED progress

-----------------------------------------------------------------------------
(* advanceDirectCheckout up to the phase it continues in *)

\* Mutant: the administrator resumes whatever needs review, sent or not, and
\* prepares what was closed.
ClaimGuardLoose(resume) ==
  /\ ~leaseLive
  /\ request # "rejected"
  /\ \/ prep \in {"preparing", "uncertain", "failed"}
     \/ prep = "none" /\ request = "submitted"
     \/ resume /\ prep = "requires_review"

ClaimGuard(resume) ==
  /\ ~leaseLive
  /\ request # "rejected"
  /\ \/ prep \in {"preparing", "uncertain"}
     \/ prep = "none" /\ request = "submitted"
     \/ /\ resume /\ prep = "requires_review"
        /\ op.attempted /\ op.status \in {"pending", "uncertain"}

\* The UPDATE ... RETURNING that takes the lease and reads the row.
Claim(w, resume) ==
  /\ pc[w] = "idle"
  /\ ClaimGuard(resume)
  /\ prep' = IF prep \in {"none", "requires_review"} THEN "preparing" ELSE prep
  /\ claim' = w /\ leaseLive' = TRUE
  /\ mine' = [mine EXCEPT ![w] = [at |-> epoch, saved |-> progress,
                                  annulled |-> dux.id # 0 /\ ~dux.active]]
  /\ pc' = [pc EXCEPT ![w] = "claimed"]
  /\ UNCHANGED <<request, progress, ledger, provider, clocks, outcome>>

\* readOperation, then advanceReservation's check of the stored quote.
ReadOperation(w) ==
  /\ pc[w] = "claimed"
  /\ \/ op.status = "none" /\ Goto(w, "quote")
     \/ op.status # "none" /\ op.quote # mine[w].saved.quote
        /\ Throw(w, "requires_review")
     \/ /\ op.status # "none" /\ op.quote = mine[w].saved.quote
        /\ Goto(w, IF op.status = "confirmed" THEN "leaving"
                   ELSE IF op.attempted THEN "sent" ELSE "unsent")
  /\ UNCHANGED <<row, ledger, provider, clocks>>

-----------------------------------------------------------------------------
(* Quoting: one reading of the provider per claim *)

\* assertDuxProductsPublished, or the trigger behind an INSERT or UPDATE.
Unpublished(w) ==
  /\ pc[w] \in {"quote", "draft", "unsent", "gate"}
  /\ Goto(w, "close")
  /\ UNCHANGED <<row, ledger, provider, clocks>>

\* The quote the claim continues: without an operation an old one is dropped.
Kept(w) == IF Old(mine[w].saved.quote.lines, mine[w].at) THEN NoQuote
           ELSE mine[w].saved.quote

QuoteLine(w) ==
  /\ pc[w] = "quote"
  /\ Len(Kept(w).lines) < Items
  /\ SaveProgress(w, [Empty EXCEPT !.quote =
                       [Kept(w) EXCEPT !.lines = Append(@, epoch)]],
                  "leaving", "keep")
  /\ UNCHANGED <<request, prep, claim, leaseLive, ledger, provider, clocks, mine>>

\* Not enough stock, a changed product, a coupon or a campaign that no longer
\* applies: the purchase fails.
QuoteRefused(w) ==
  /\ pc[w] \in {"quote", "draft"}
  /\ Throw(w, "failed")
  /\ UNCHANGED <<row, ledger, provider, clocks>>

\* parseDirectProgress admits no reading with a negative reserved stock, which
\* readItem lets through: evidence invalid, before there is any order.
QuoteInadmissible(w) ==
  /\ pc[w] = "quote"
  /\ Len(Kept(w).lines) < Items
  /\ Throw(w, "requires_review")
  /\ UNCHANGED <<row, ledger, provider, clocks>>

\* readMarketingQuote: a quote that has an offer, or had one, is saved again.
PriceOffer(w) ==
  /\ pc[w] = "quote"
  /\ Len(Kept(w).lines) = Items
  /\ \E promo \in BOOLEAN :
       LET p == [Empty EXCEPT !.quote = [Kept(w) EXCEPT !.promo = promo]]
       IN /\ mine' = [mine EXCEPT ![w].saved = p]
          /\ \/ /\ promo \/ Kept(w).promo
                /\ SaveProgress(w, p, "draft", "keep")
             \/ /\ ~promo /\ ~Kept(w).promo
                /\ pc' = [pc EXCEPT ![w] = "draft"]
                /\ UNCHANGED <<progress, outcome>>
  /\ UNCHANGED <<request, prep, claim, leaseLive, ledger, provider, clocks>>

\* createDraft: one batch, aborted as a whole when the claim is lost.
CreateDraft(w) ==
  /\ pc[w] = "draft"
  /\ \E valid \in LeaseReadings :
       \/ /\ Fenced(w, valid) /\ request = "submitted" /\ order = "none"
          /\ request' = "accepted"
          /\ order' = "preference_pending"
          /\ op' = [status |-> "pending", attempted |-> FALSE,
                    quote |-> mine[w].saved.quote, dux |-> 0]
          /\ link' = [state |-> "not_attempted", dux |-> 0]
          /\ Goto(w, "leaving")
       \/ /\ ~(Fenced(w, valid) /\ request = "submitted" /\ order = "none")
          /\ Throw(w, "keep")
          /\ UNCHANGED <<request, ledger>>
  /\ UNCHANGED <<prep, claim, leaseLive, progress, provider, clocks>>

-----------------------------------------------------------------------------
(* advanceReservation before the POST *)

\* The publication holds; an old quote closes the draft, a fresh one goes on
\* to the provider's request gate.
CheckQuoteAge(w) ==
  /\ pc[w] = "unsent"
  /\ Goto(w, IF Old(mine[w].saved.quote.lines, epoch) THEN "expire" ELSE "gate")
  /\ UNCHANGED <<row, ledger, provider, clocks>>

\* The first statement of the batch does not look at the claim.
ExpireDraft(w) ==
  /\ pc[w] = "expire"
  /\ order' = IF ~op.attempted THEN "failed" ELSE order
  /\ prep' = IF claim = w /\ ~op.attempted THEN "failed" ELSE prep
  /\ Goto(w, "leaving")
  /\ UNCHANGED <<request, claim, leaseLive, progress, op, link, provider, clocks>>

AttemptGuard(w, valid) == Fenced(w, valid) /\ ~op.attempted

\* Mutant: nobody looks at how many rows the batch changed.
AttemptUnchecked(w) ==
  /\ pc[w] = "gate"
  /\ \E valid \in LeaseReadings :
       IF AttemptGuard(w, valid)
         THEN /\ op' = [op EXCEPT !.attempted = TRUE]
              /\ link' = [link EXCEPT !.state = "pending"]
         ELSE UNCHANGED <<op, link>>
  /\ Goto(w, "send")
  /\ UNCHANGED <<row, order, provider, clocks>>

\* beforeSend: the batch that claims the POST, just before it is sent.
Attempt(w) ==
  /\ pc[w] = "gate"
  /\ \E valid \in LeaseReadings :
       \/ /\ AttemptGuard(w, valid)
          /\ op' = [op EXCEPT !.attempted = TRUE]
          /\ link' = [link EXCEPT !.state = "pending"]
          /\ Goto(w, "send")
       \/ /\ ~AttemptGuard(w, valid)
          /\ Throw(w, "keep")
          /\ UNCHANGED <<op, link>>
  /\ UNCHANGED <<row, order, provider, clocks>>

\* The batch commits and its answer is lost: the worker never sends.
AttemptAnswerLost(w) ==
  /\ pc[w] = "gate" /\ faults < MaxFaults
  /\ \E valid \in LeaseReadings : AttemptGuard(w, valid)
  /\ op' = [op EXCEPT !.attempted = TRUE]
  /\ link' = [link EXCEPT !.state = "pending"]
  /\ Throw(w, "keep")
  /\ faults' = faults + 1
  /\ UNCHANGED <<row, order, provider, epoch>>

SendPost(w) ==
  /\ pc[w] = "send"
  /\ wire' = TRUE /\ posts' = posts + 1
  /\ Goto(w, "posting")
  /\ UNCHANGED <<row, ledger, dux, clocks>>

PostAnswered(w) ==
  /\ pc[w] = "posting" /\ dux.id # 0
  /\ Goto(w, "leaving")
  /\ UNCHANGED <<row, ledger, provider, clocks>>

\* Timeout, a transport error, a bad status or an answer that does not match.
PostUnknown(w) ==
  /\ pc[w] \in {"send", "posting"}
  /\ Goto(w, "uncertain")
  /\ UNCHANGED <<row, ledger, provider, clocks>>

MarkUncertain(w) ==
  /\ pc[w] = "uncertain"
  /\ op' = IF op.status = "pending" THEN [op EXCEPT !.status = "uncertain"] ELSE op
  /\ link' = IF link.state = "pending" THEN [link EXCEPT !.state = "uncertain"]
             ELSE link
  /\ prep' = IF claim = w THEN "uncertain" ELSE prep
  /\ Goto(w, "leaving")
  /\ UNCHANGED <<request, claim, leaseLive, progress, order, provider, clocks>>

-----------------------------------------------------------------------------
(* advanceReservation after the POST: recovered by reference only *)

\* findOrder while no order is stored; None, another order than the one under
\* review, an annulled one, or the purchase's.
FindOrder(w) ==
  /\ pc[w] = "sent" /\ mine[w].saved.order = 0
  /\ \/ /\ dux.id = 0
        /\ Goto(w, "uncertain")
     \/ /\ dux.id # 0
        /\ ~dux.active \/ mine[w].saved.review \notin {0, dux.id}
        /\ Throw(w, "requires_review")
     \/ /\ dux.id # 0 /\ dux.active
        /\ mine[w].saved.review \in {0, dux.id}
        /\ mine' = [mine EXCEPT ![w].saved.order = dux.id]
        /\ pc' = [pc EXCEPT ![w] = "keep_order"]
        /\ UNCHANGED outcome
  /\ UNCHANGED <<row, ledger, provider, clocks>>

KeepOrder(w) ==
  /\ pc[w] = "keep_order"
  /\ SaveProgress(w, mine[w].saved, "leaving", "keep")
  /\ UNCHANGED <<request, prep, claim, leaseLive, ledger, provider, clocks, mine>>


Stale(p) == p.after > 0 /\ p.afterAt < epoch

\* The progress with the quote it has and this evidence: the order found,
\* stockAfter, stockObservedAt and the order under review.
Evidence(p, o, n, t, r) ==
  [p EXCEPT !.order = o, !.after = n, !.afterAt = t, !.review = r]

\* Stock evidence gathered before a long pause is read again from the start.
DropStockEvidence(w) ==
  /\ pc[w] = "sent" /\ mine[w].saved.order # 0
  /\ Stale(mine[w].saved)
  /\ LET p == mine[w].saved
     IN SaveProgress(w, Evidence(p, p.order, 0, 0, p.review), "leaving", "keep")
  /\ UNCHANGED <<request, prep, claim, leaseLive, ledger, provider, clocks, mine>>

\* readItem of the next line: hasPhysicalReservation holds, or it does not and
\* the reading is kept for review while the order must be found again.
ReadStock(w) ==
  /\ pc[w] = "sent" /\ mine[w].saved.order # 0
  /\ ~Stale(mine[w].saved) /\ mine[w].saved.after < Items
  /\ LET p == mine[w].saved
         first == IF p.after = 0 THEN epoch ELSE p.afterAt
     IN \/ SaveProgress(w, Evidence(p, p.order, p.after + 1, first, 0),
                        "leaving", "keep")
        \/ SaveProgress(w, Evidence(p, 0, 0, 0, p.order),
                        "failing", "requires_review")
  /\ UNCHANGED <<request, prep, claim, leaseLive, ledger, provider, clocks, mine>>

\* Mutant: the last findOrder only looks at the identity of the order.
SameOrderAnnulled(w) == dux.id # 0 /\ dux.id = mine[w].saved.order

SameOrder(w) == dux.id # 0 /\ dux.id = mine[w].saved.order /\ dux.active

\* With all the evidence the order is looked up once more.
ReconfirmOrder(w) ==
  /\ pc[w] = "sent" /\ mine[w].saved.order # 0
  /\ ~Stale(mine[w].saved) /\ mine[w].saved.after = Items
  /\ \/ SameOrder(w) /\ Goto(w, "confirm")
     \/ ~SameOrder(w) /\ Throw(w, "requires_review")
  /\ UNCHANGED <<row, ledger, provider, clocks>>

\* Mutant: the link is forgotten.
ConfirmWithoutLink(w) ==
  /\ pc[w] = "confirm"
  /\ \E valid \in LeaseReadings :
       \/ /\ Fenced(w, valid) /\ op.status \in {"pending", "uncertain"}
          /\ op' = [op EXCEPT !.status = "confirmed", !.dux = mine[w].saved.order]
          /\ prep' = "prepared"
          /\ Goto(w, "leaving")
       \/ ~Fenced(w, valid) /\ Throw(w, "keep") /\ UNCHANGED <<op, prep>>
  /\ UNCHANGED <<request, claim, leaseLive, progress, order, link, provider, clocks>>

\* One batch; all three of its statements repeat the fence.
Confirm(w) ==
  /\ pc[w] = "confirm"
  /\ \E valid \in LeaseReadings :
       \/ /\ Fenced(w, valid)
          /\ op.status \in {"pending", "uncertain"}
          /\ op' = [op EXCEPT !.status = "confirmed", !.dux = mine[w].saved.order]
          /\ link' = [state |-> "confirmed", dux |-> mine[w].saved.order]
          /\ prep' = "prepared"
          /\ Goto(w, "leaving")
       \/ /\ ~Fenced(w, valid)
          /\ Throw(w, "keep")
          /\ UNCHANGED <<op, link, prep>>
  /\ UNCHANGED <<request, claim, leaseLive, progress, order, provider, clocks>>

-----------------------------------------------------------------------------
(* The catch and finally blocks *)

\* closeUnpublishedDraft: a draft that never claimed the POST ends with it.
CloseUnpublishedDraft(w) ==
  /\ pc[w] = "close"
  /\ LET closes == claim = w /\ ~op.attempted
     IN /\ order' = IF closes /\ order = "preference_pending" THEN "failed"
                    ELSE order
        /\ prep' = IF closes THEN "failed" ELSE prep
  /\ Goto(w, "leaving")
  /\ UNCHANGED <<request, claim, leaseLive, progress, op, link, provider, clocks>>

RecordFailure(w) ==
  /\ pc[w] = "failing"
  /\ prep' = IF claim = w /\ outcome[w] # "keep" THEN outcome[w] ELSE prep
  /\ Goto(w, "leaving")
  /\ UNCHANGED <<request, claim, leaseLive, progress, ledger, provider, clocks>>

Gone(w) == /\ pc' = [pc EXCEPT ![w] = "idle"]
           /\ mine' = [mine EXCEPT ![w] = Nothing]
           /\ outcome' = [outcome EXCEPT ![w] = "keep"]

Leave(w) ==
  /\ pc[w] = "leaving"
  /\ leaseLive' = (leaseLive /\ claim # w)
  /\ Gone(w)
  /\ UNCHANGED <<request, prep, claim, progress, ledger, provider, clocks>>

\* An await throws: a failed D1 or provider call, a busy request gate.
Fault(w) ==
  /\ faults < MaxFaults /\ faults' = faults + 1
  /\ \/ /\ pc[w] \in {"claimed", "quote", "draft", "unsent", "gate", "expire",
                      "uncertain", "sent", "keep_order", "confirm"}
        /\ Throw(w, "keep")
     \/ /\ pc[w] \in {"close", "failing"}
        /\ Goto(w, "leaving")
  /\ UNCHANGED <<row, ledger, provider, epoch>>

\* The invocation is killed, or its finally statement fails.
Crash(w) ==
  /\ faults < MaxFaults /\ faults' = faults + 1
  /\ pc[w] # "idle"
  /\ Gone(w)
  /\ UNCHANGED <<row, ledger, provider, epoch>>

-----------------------------------------------------------------------------
(* resolveWebOrderRequest, the provider and the clock *)

AdminReject ==
  /\ request = "submitted"
  /\ \/ prep = "none"
     \/ prep \in {"preparing", "failed"} /\ ~leaseLive /\ order = "none"
  /\ request' = "rejected"
  /\ prep' = IF prep = "none" THEN "none" ELSE "failed"
  /\ claim' = NoOne /\ leaseLive' = FALSE
  /\ UNCHANGED <<progress, ledger, provider, clocks, local>>

AdminAccept ==
  /\ request = "submitted" /\ prep = "none"
  /\ request' = "accepted"
  /\ claim' = NoOne /\ leaseLive' = FALSE
  /\ UNCHANGED <<prep, progress, ledger, provider, clocks, local>>

DeliverPost ==
  /\ wire /\ wire' = FALSE
  /\ dux.id = 0 /\ dux' = [id |-> 1, active |-> TRUE]
  /\ UNCHANGED <<row, ledger, posts, clocks, local>>

LosePost ==
  /\ wire /\ wire' = FALSE
  /\ UNCHANGED <<row, ledger, dux, posts, clocks, local>>

StaffAnnuls ==
  /\ dux.active /\ dux' = [dux EXCEPT !.active = FALSE]
  /\ UNCHANGED <<row, ledger, wire, posts, clocks, local>>

\* The annulled order gives way to one typed in with the same reference.
StaffReplaces ==
  /\ dux.id = 1 /\ ~dux.active /\ dux' = [id |-> 2, active |-> TRUE]
  /\ UNCHANGED <<row, ledger, wire, posts, clocks, local>>

\* LEASE_MS pass: the holder died, or it stalls at an await (a fault).
LeaseExpires ==
  /\ leaseLive /\ leaseLive' = FALSE
  /\ \/ /\ \E w \in Workers : claim = w /\ pc[w] # "idle"
        /\ faults < MaxFaults /\ faults' = faults + 1
     \/ /\ ~ \E w \in Workers : claim = w /\ pc[w] # "idle"
        /\ UNCHANGED faults
  /\ UNCHANGED <<request, prep, claim, progress, ledger, provider, epoch, local>>

\* What was read so far grows older than MAX_QUOTE_AGE_MS; that can happen
\* while a worker that did not read it holds the lease.
Tick ==
  /\ epoch < MaxEpoch /\ epoch' = epoch + 1
  /\ UNCHANGED <<row, ledger, provider, faults, local>>

-----------------------------------------------------------------------------
(* The system *)

Step(w) ==
  \/ ReadOperation(w) \/ Unpublished(w) \/ QuoteLine(w) \/ QuoteRefused(w)
  \/ QuoteInadmissible(w) \/ PriceOffer(w) \/ CreateDraft(w)
  \/ CheckQuoteAge(w) \/ ExpireDraft(w) \/ Attempt(w)
  \/ SendPost(w) \/ PostAnswered(w) \/ PostUnknown(w) \/ MarkUncertain(w)
  \/ FindOrder(w) \/ KeepOrder(w) \/ DropStockEvidence(w) \/ ReadStock(w)
  \/ ReconfirmOrder(w) \/ Confirm(w)
  \/ CloseUnpublishedDraft(w) \/ RecordFailure(w) \/ Leave(w)

Environment ==
  \/ AdminReject \/ AdminAccept
  \/ DeliverPost \/ LosePost \/ StaffAnnuls \/ StaffReplaces
  \/ LeaseExpires \/ Tick

Next ==
  \/ \E w \in Workers : \/ Step(w)
                        \/ Claim(w, FALSE) \/ Claim(w, TRUE)
                        \/ AttemptAnswerLost(w) \/ Fault(w) \/ Crash(w)
  \/ Environment

Spec == Init /\ [][Next]_vars

-----------------------------------------------------------------------------
(* Properties *)

\* The provider is asked for one order at most, whatever is retried, resumed
\* or lost: "el POST de pedido se reclama persistentemente" (beforeSend).
OnePost == posts <= 1

\* A purchase shown as failed, or rejected, never claimed a POST and never
\* will: the buyer may start another without paying for two reservations.
ClosedNeverSent ==
  prep = "failed" \/ request = "rejected" => ~op.attempted /\ posts = 0

\* The operation, its link and the order move together although they are
\* three rows written by batches of several workers.
LedgerAgrees ==
  /\ order = "none" <=> op.status = "none"
  /\ op.status = "none" <=> link.state = "none"
  /\ op.attempted <=> link.state \in {"pending", "uncertain", "confirmed"}
  /\ op.attempted => op.status = link.state

\* Charging is enabled only on an order that Dux returned, the same one in
\* the operation, the link and the progress of the purchase.
PreparedIsReserved ==
  /\ prep = "prepared" <=> op.status = "confirmed"
  /\ prep = "prepared" => /\ op.attempted
                          /\ op.dux # 0
                          /\ link = [state |-> "confirmed", dux |-> op.dux]
                          /\ progress.order = op.dux

\* The quote in the operation is immutable; the row's stays equal to it, so no
\* later call stops at "evidence invalid".
StoredQuoteMatches == op.status # "none" => op.quote = progress.quote

\* What is charged is what was reserved: both of the above.
QuoteHolds == PreparedIsReserved /\ StoredQuoteMatches

\* A purchase left for review with an order can be resumed by the
\* administrator: its POST was claimed and its operation is open.
ReviewCanResume ==
  prep = "requires_review" /\ order # "none"
    => op.attempted /\ op.status \in {"pending", "uncertain"}

\* What the status of a purchase says of it, to the buyer and to the administrator: a
\* closed one was never sent to Dux, and one in review that has an order goes on.
StatusIsHonest == ClosedNeverSent /\ ReviewCanResume

\* What the rows say of a purchase agrees, however many workers write them and
\* whichever of them wrote late: with each other, with the quote the operation
\* was claimed with, and with what the buyer is told.
PurchaseAgrees == LedgerAgrees /\ QuoteHolds /\ StatusIsHonest

\* An order that was annulled before a worker began is not confirmed by it:
\* "una nueva consulta al pedido antes de confirmar".
AnnulledNotConfirmed ==
  [][prep # "prepared" /\ prep' = "prepared" => ~mine[claim].annulled]_vars

\* docs/DIRECT_CHECKOUT.md: an expired quote closes only the draft without a
\* reservation, so an order closed that way is not sent to Dux afterwards.
ExpiredDraftStaysUnreserved == order = "failed" => ~op.attempted

\* docs/DIRECT_CHECKOUT.md: a direct request that has no order yet can be
\* closed by the administrator's rejection, once no lease is live.
RejectableWithoutOrder ==
  request = "submitted" /\ order = "none" /\ ~leaseLive => ENABLED AdminReject

-----------------------------------------------------------------------------
(* What a purchase promises, implemented by the rows above *)

Stage == IF prep = "prepared" THEN "reserved"
         ELSE IF op.attempted THEN "reserving"
         ELSE IF prep \in {"failed", "requires_review"} \/ request = "rejected"
                 THEN "closed"
         ELSE "open"

Promise == INSTANCE PurchasePromise WITH stage <- Stage, asked <- posts

ImplementsPromise == Promise!Spec

=============================================================================
