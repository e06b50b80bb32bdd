------------------------ MODULE DirectCheckoutProofs ------------------------
(* Theorems about DirectCheckout, for every set of workers and every bound. *)
EXTENDS DirectCheckout, TLAPS

USE DEF Labels, Outcomes, DuxIds

LEMMA QuoteTypes ==
  /\ NoQuote \in Quotes
  /\ Empty \in Progress
  /\ Nothing \in [at : Nat, saved : Progress, annulled : BOOLEAN]
  PROOF BY DEF NoQuote, Quotes, Empty, Progress, Nothing

OpTypes == [status : {"none", "pending", "uncertain", "confirmed"},
            attempted : BOOLEAN, quote : Quotes, dux : DuxIds]

LEMMA EmptyOrder ==
  ASSUME NEW q PROVE [Empty EXCEPT !.quote = q].order = 0
  PROOF BY DEF Empty

LEMMA InitTypeOK == Init => TypeOK
  <1> SUFFICES ASSUME Init PROVE TypeOK
    OBVIOUS
  <1>1. op \in OpTypes
    BY QuoteTypes DEF Init, OpTypes
  <1>2. /\ link \in [state : {"none", "not_attempted", "pending", "uncertain",
                             "confirmed"}, dux : DuxIds]
        /\ dux \in [id : DuxIds, active : BOOLEAN]
    BY DEF Init
  <1>3. mine \in [Workers -> [at : Nat, saved : Progress, annulled : BOOLEAN]]
    BY QuoteTypes DEF Init
  <1> QED BY <1>1, <1>2, <1>3, QuoteTypes DEF Init, TypeOK, OpTypes

LEMMA SaveType ==
  ASSUME TypeOK, NEW w \in Workers, NEW p \in Progress, NEW next \in Labels,
         NEW result \in Outcomes, SaveProgress(w, p, next, result)
  PROVE  /\ progress' \in Progress
         /\ pc' \in [Workers -> Labels]
         /\ outcome' \in [Workers -> Outcomes]
  PROOF BY DEF SaveProgress, TypeOK

LEMMA KeptType ==
  ASSUME TypeOK, NEW w \in Workers
  PROVE  Kept(w) \in Quotes
  PROOF BY QuoteTypes DEF Kept, TypeOK, Progress

LEMMA EvidenceType ==
  ASSUME NEW p \in Progress, NEW o \in DuxIds, NEW n \in Nat, NEW t \in Nat,
         NEW r \in DuxIds
  PROVE  Evidence(p, o, n, t, r) \in Progress
  PROOF BY DEF Progress, Evidence

LEMMA QuoteLineType ==
  ASSUME TypeOK, NEW w \in Workers
  PROVE  [Empty EXCEPT !.quote = [Kept(w) EXCEPT !.lines = Append(@, epoch)]]
           \in Progress
  <1>1. Kept(w).lines \in Seq(Nat) /\ epoch \in Nat
    BY KeptType DEF Quotes, TypeOK
  <1>2. Append(Kept(w).lines, epoch) \in Seq(Nat)
    BY <1>1
  <1>3. [Kept(w) EXCEPT !.lines = Append(@, epoch)] \in Quotes
    BY <1>2, KeptType DEF Quotes
  <1> QED BY <1>3, QuoteTypes DEF Progress

LEMMA PriceOfferType ==
  ASSUME TypeOK, NEW w \in Workers, NEW promo \in BOOLEAN
  PROVE  [Empty EXCEPT !.quote = [Kept(w) EXCEPT !.promo = promo]] \in Progress
  <1>1. [Kept(w) EXCEPT !.promo = promo] \in Quotes
    BY KeptType DEF Quotes
  <1> QED BY <1>1, QuoteTypes DEF Progress

LEMMA StockEvidenceType ==
  ASSUME TypeOK, NEW w \in Workers
  PROVE  LET p == mine[w].saved
             first == IF p.after = 0 THEN epoch ELSE p.afterAt
             good == Evidence(p, p.order, p.after + 1, first, 0)
             bad == Evidence(p, 0, 0, 0, p.order)
         IN /\ good \in Progress /\ good.quote = p.quote /\ good.order = p.order
            /\ bad \in Progress /\ bad.quote = p.quote /\ bad.order = 0
  <1> DEFINE p == mine[w].saved
             first == IF p.after = 0 THEN epoch ELSE p.afterAt
             n == p.after + 1
  <1>1. /\ p \in Progress /\ p.order \in DuxIds
        /\ n \in Nat /\ first \in Nat
    BY DEF TypeOK, Progress
  <1>2. 0 \in DuxIds /\ 0 \in Nat
    OBVIOUS
  <1> HIDE DEF p, first, n
  <1> DEFINE good == Evidence(p, p.order, n, first, 0)
             bad == Evidence(p, 0, 0, 0, p.order)
  <1>3. good \in Progress /\ good.quote = p.quote /\ good.order = p.order
    <2>1. good \in Progress
      BY <1>1, <1>2, EvidenceType
    <2>2. good.quote = p.quote
      BY <1>1 DEF Evidence, Progress
    <2>3. good.order = p.order
      BY <1>1 DEF Evidence, Progress
    <2> QED BY <2>1, <2>2, <2>3
  <1>4. bad \in Progress /\ bad.quote = p.quote /\ bad.order = 0
    <2>1. bad \in Progress
      BY <1>1, <1>2, EvidenceType
    <2>2. bad.quote = p.quote
      BY <1>1 DEF Evidence, Progress
    <2>3. bad.order = 0
      BY <1>1 DEF Evidence, Progress
    <2> QED BY <2>1, <2>2, <2>3
  <1> QED BY <1>3, <1>4 DEF p, first, n

LEMMA StepTypeOK == ASSUME TypeOK, NEW w \in Workers, Step(w) PROVE TypeOK'
  <1>1. CASE ReadOperation(w)
    BY <1>1 DEF ReadOperation, TypeOK, Goto, Throw, row, ledger, provider, clocks
  <1>2. CASE Unpublished(w)
    BY <1>2 DEF Unpublished, TypeOK, Goto, row, ledger, provider, clocks
  <1>3. CASE QuoteLine(w)
    <2> DEFINE p == [Empty EXCEPT !.quote =
                       [Kept(w) EXCEPT !.lines = Append(@, epoch)]]
    <2>1. p \in Progress
      BY QuoteLineType
    <2>2. SaveProgress(w, p, "leaving", "keep")
      BY <1>3 DEF QuoteLine
    <2> HIDE DEF p
    <2> QED BY <1>3, <2>1, <2>2, SaveType DEF QuoteLine, TypeOK, ledger, provider, clocks
  <1>4. CASE QuoteRefused(w) \/ QuoteInadmissible(w)
    BY <1>4 DEF QuoteRefused, QuoteInadmissible, TypeOK, Throw, row, ledger, provider, clocks
  <1>5. CASE PriceOffer(w)
    <2>1. PICK promo \in BOOLEAN :
            LET p == [Empty EXCEPT !.quote = [Kept(w) EXCEPT !.promo = promo]]
            IN /\ mine' = [mine EXCEPT ![w].saved = p]
               /\ \/ SaveProgress(w, p, "draft", "keep")
                  \/ /\ pc' = [pc EXCEPT ![w] = "draft"]
                     /\ UNCHANGED <<progress, outcome>>
      BY <1>5 DEF PriceOffer
    <2> DEFINE p == [Empty EXCEPT !.quote = [Kept(w) EXCEPT !.promo = promo]]
    <2>2. p \in Progress
      BY PriceOfferType
    <2>3. mine' = [mine EXCEPT ![w].saved = p]
      BY <2>1
    <2>4. SaveProgress(w, p, "draft", "keep")
          \/ (pc' = [pc EXCEPT ![w] = "draft"] /\ UNCHANGED <<progress, outcome>>)
      BY <2>1
    <2> HIDE DEF p
    <2>5. /\ progress' \in Progress
          /\ pc' \in [Workers -> Labels]
          /\ outcome' \in [Workers -> Outcomes]
      BY <2>2, <2>4, SaveType DEF TypeOK
    <2>6. mine' \in [Workers -> [at : Nat, saved : Progress, annulled : BOOLEAN]]
      BY <2>2, <2>3 DEF TypeOK
    <2> QED BY <1>5, <2>5, <2>6 DEF PriceOffer, TypeOK, ledger, provider, clocks
  <1>6. CASE CreateDraft(w)
    <2>1. mine[w].saved.quote \in Quotes
      BY DEF TypeOK, Progress
    <2>2. op' \in OpTypes
      <3>1. \/ op' = op
            \/ op' = [status |-> "pending", attempted |-> FALSE,
                      quote |-> mine[w].saved.quote, dux |-> 0]
        BY <1>6 DEF CreateDraft, ledger
      <3>2. op \in OpTypes
        BY DEF TypeOK, OpTypes
      <3>3. [status |-> "pending", attempted |-> FALSE,
             quote |-> mine[w].saved.quote, dux |-> 0] \in OpTypes
        BY <2>1 DEF OpTypes
      <3> QED BY <3>1, <3>2, <3>3
    <2>3. /\ link' \in [state : {"none", "not_attempted", "pending",
                                 "uncertain", "confirmed"}, dux : DuxIds]
          /\ pc' \in [Workers -> Labels]
          /\ outcome' \in [Workers -> Outcomes]
          /\ mine' = mine
      BY <1>6 DEF CreateDraft, TypeOK, Goto, Throw, ledger
    <2> QED BY <1>6, <2>2, <2>3 DEF OpTypes, CreateDraft, TypeOK, Goto, Throw, ledger, provider, clocks
  <1>7. CASE CheckQuoteAge(w)
    <2>1. pc' = [pc EXCEPT ![w] = "expire"] \/ pc' = [pc EXCEPT ![w] = "gate"]
      BY <1>7 DEF CheckQuoteAge, Goto
    <2> QED BY <1>7, <2>1 DEF CheckQuoteAge, TypeOK, Goto, row, ledger, provider, clocks
  <1>8. CASE ExpireDraft(w)
    BY <1>8 DEF ExpireDraft, TypeOK, Goto, provider, clocks
  <1>9. CASE Attempt(w)
    BY <1>9 DEF Attempt, TypeOK, Goto, Throw, row, provider, clocks
  <1>10. CASE SendPost(w)
    BY <1>10 DEF SendPost, TypeOK, Goto, row, ledger, clocks
  <1>11. CASE PostAnswered(w)
    BY <1>11 DEF PostAnswered, TypeOK, Goto, row, ledger, provider, clocks
  <1>12. CASE PostUnknown(w)
    BY <1>12 DEF PostUnknown, TypeOK, Goto, row, ledger, provider, clocks
  <1>13. CASE MarkUncertain(w)
    BY <1>13 DEF MarkUncertain, TypeOK, Goto, provider, clocks
  <1>14. CASE FindOrder(w)
    <2>1. CASE UNCHANGED mine
      BY <1>14, <2>1 DEF FindOrder, TypeOK, Goto, Throw, row, ledger, provider, clocks
    <2>2. CASE mine' = [mine EXCEPT ![w].saved.order = dux.id]
      <3>1. [mine[w].saved EXCEPT !.order = dux.id] \in Progress
        BY DEF TypeOK, Progress
      <3>2. mine' = [mine EXCEPT ![w] = [mine[w] EXCEPT !.saved =
                       [mine[w].saved EXCEPT !.order = dux.id]]]
        BY <2>2
      <3>3. mine'  \in [Workers -> [at : Nat, saved : Progress, annulled : BOOLEAN]]
        BY <3>1, <3>2 DEF TypeOK
      <3> QED BY <1>14, <3>3 DEF FindOrder, TypeOK, Goto, Throw, row, ledger, provider, clocks
    <2> QED BY <1>14, <2>1, <2>2 DEF FindOrder, Goto, Throw
  <1>15. CASE KeepOrder(w)
    <2>1. mine[w].saved \in Progress
      BY DEF TypeOK
    <2>2. SaveProgress(w, mine[w].saved, "leaving", "keep")
      BY <1>15 DEF KeepOrder
    <2> QED BY <1>15, <2>1, <2>2, SaveType DEF KeepOrder, TypeOK, ledger, provider, clocks
  <1>16. CASE DropStockEvidence(w)
    <2> DEFINE p == mine[w].saved
               q == Evidence(p, p.order, 0, 0, p.review)
    <2>1. p \in Progress /\ p.order \in DuxIds /\ p.review \in DuxIds
      BY DEF TypeOK, Progress
    <2>2. q \in Progress
      BY <2>1, EvidenceType
    <2>3. SaveProgress(w, q, "leaving", "keep")
      BY <1>16 DEF DropStockEvidence
    <2> HIDE DEF q
    <2> QED BY <1>16, <2>2, <2>3, SaveType
            DEF DropStockEvidence, TypeOK, ledger, provider, clocks
  <1>17. CASE ReadStock(w)
    <2> DEFINE p == mine[w].saved
               first == IF p.after = 0 THEN epoch ELSE p.afterAt
               good == Evidence(p, p.order, p.after + 1, first, 0)
               bad == Evidence(p, 0, 0, 0, p.order)
    <2>2. good \in Progress /\ bad \in Progress
      BY StockEvidenceType
    <2>3. SaveProgress(w, good, "leaving", "keep")
          \/ SaveProgress(w, bad, "failing", "requires_review")
      BY <1>17 DEF ReadStock
    <2> HIDE DEF good, bad
    <2> QED BY <1>17, <2>2, <2>3, SaveType
            DEF ReadStock, TypeOK, ledger, provider, clocks
  <1>18. CASE ReconfirmOrder(w)
    BY <1>18 DEF ReconfirmOrder, TypeOK, Goto, Throw, row, ledger, provider, clocks
  <1>19. CASE Confirm(w)
    <2>1. mine[w].saved.order \in DuxIds
      BY DEF TypeOK, Progress
    <2>2. op' \in OpTypes
      BY <1>19, <2>1 DEF Confirm, TypeOK, OpTypes
    <2>3. /\ link' \in [state : {"none", "not_attempted", "pending",
                                 "uncertain", "confirmed"}, dux : DuxIds]
          /\ pc' \in [Workers -> Labels]
          /\ outcome' \in [Workers -> Outcomes]
          /\ mine' = mine
      BY <1>19, <2>1 DEF Confirm, TypeOK, Goto, Throw
    <2> QED BY <1>19, <2>2, <2>3 DEF OpTypes, Confirm, TypeOK, Goto, Throw, provider, clocks
  <1>20. CASE CloseUnpublishedDraft(w)
    BY <1>20 DEF CloseUnpublishedDraft, TypeOK, Goto, provider, clocks
  <1>21. CASE RecordFailure(w)
    BY <1>21 DEF RecordFailure, TypeOK, Goto, ledger, provider, clocks
  <1>22. CASE Leave(w)
    BY <1>22, QuoteTypes DEF Leave, Gone, TypeOK, ledger, provider, clocks
  <1> QED BY <1>1, <1>2, <1>3, <1>4, <1>5, <1>6, <1>7, <1>8, <1>9, <1>10, <1>11,
             <1>12, <1>13, <1>14, <1>15, <1>16, <1>17, <1>18, <1>19, <1>20,
             <1>21, <1>22 DEF Step

LEMMA NextTypeOK == TypeOK /\ [Next]_vars => TypeOK'
  <1> SUFFICES ASSUME TypeOK, [Next]_vars PROVE TypeOK'
    OBVIOUS
  <1>1. ASSUME NEW w \in Workers, Step(w) PROVE TypeOK'
    BY <1>1, StepTypeOK
  <1>2. ASSUME NEW w \in Workers, NEW resume \in BOOLEAN, Claim(w, resume)
        PROVE  TypeOK'
    <2>1. PICK gone \in BOOLEAN :
            mine' = [mine EXCEPT ![w] = [at |-> epoch, saved |-> progress,
                                         annulled |-> gone]]
      <3>1. (dux.id # 0 /\ ~dux.active) \in BOOLEAN
        OBVIOUS
      <3> QED BY <1>2, <3>1, Zenon DEF Claim
    <2>2. mine' \in [Workers -> [at : Nat, saved : Progress, annulled : BOOLEAN]]
      BY <2>1 DEF TypeOK
    <2>3. pc' \in [Workers -> Labels] /\ claim' \in Workers /\ leaseLive' = TRUE
      BY <1>2 DEF Claim, TypeOK
    <2>4. prep' \in {"none", "preparing", "uncertain", "prepared", "failed",
                    "requires_review"}
      BY <1>2 DEF Claim, TypeOK
    <2>5. UNCHANGED <<request, progress, order, op, link, dux, wire, posts,
                      epoch, faults, outcome>>
      BY <1>2 DEF Claim, ledger, provider, clocks
    <2> QED BY <2>2, <2>3, <2>4, <2>5 DEF TypeOK
  <1>3. ASSUME NEW w \in Workers, AttemptAnswerLost(w) PROVE TypeOK'
    <2>1. op' \in OpTypes
      <3>1. op \in OpTypes
        BY DEF TypeOK, OpTypes
      <3>2. op' = [op EXCEPT !.attempted = TRUE]
        BY <1>3 DEF AttemptAnswerLost
      <3> QED BY <3>1, <3>2 DEF OpTypes
    <2>2. link' \in [state : {"none", "not_attempted", "pending", "uncertain",
                             "confirmed"}, dux : DuxIds]
      BY <1>3 DEF AttemptAnswerLost, TypeOK
    <2>3. /\ pc' \in [Workers -> Labels] /\ outcome' \in [Workers -> Outcomes]
          /\ mine' = mine /\ faults' \in Nat
      BY <1>3 DEF AttemptAnswerLost, Throw, TypeOK
    <2>4. UNCHANGED <<request, prep, claim, leaseLive, progress, order, dux,
                      wire, posts, epoch>>
      BY <1>3 DEF AttemptAnswerLost, row, provider
    <2> QED BY <2>1, <2>2, <2>3, <2>4 DEF TypeOK, OpTypes
  <1>4. ASSUME NEW w \in Workers, Fault(w) PROVE TypeOK'
    BY <1>4 DEF Fault, Throw, Goto, TypeOK, row, ledger, provider
  <1>5. ASSUME NEW w \in Workers, Crash(w) PROVE TypeOK'
    BY <1>5, QuoteTypes DEF Crash, Gone, TypeOK, row, ledger, provider
  <1>6. CASE AdminReject \/ AdminAccept
    <2>1. /\ request' \in {"accepted", "rejected"}
          /\ prep' \in {prep, "none", "failed"}
          /\ claim' = NoOne /\ leaseLive' = FALSE
          /\ UNCHANGED <<progress, order, op, link, dux, wire, posts, epoch,
                         faults, pc, mine, outcome>>
      BY <1>6 DEF AdminReject, AdminAccept, ledger, provider, clocks, local
    <2>2. prep' \in {"none", "preparing", "uncertain", "prepared", "failed",
                    "requires_review"}
      BY <2>1 DEF TypeOK
    <2>3. request' \in {"submitted", "accepted", "rejected"}
          /\ claim' \in Workers \cup {NoOne} /\ leaseLive' \in BOOLEAN
      BY <2>1
    <2> QED BY <2>1, <2>2, <2>3 DEF TypeOK
  <1>7. CASE DeliverPost \/ LosePost \/ StaffAnnuls \/ StaffReplaces
    <2>1. dux' \in [id : DuxIds, active : BOOLEAN]
      <3> HIDE DEF DuxIds
      <3>1. dux \in [id : DuxIds, active : BOOLEAN]
        BY DEF TypeOK
      <3>2. \/ dux' = dux
            \/ dux' = [id |-> 1, active |-> TRUE]
            \/ dux' = [id |-> 2, active |-> TRUE]
            \/ dux' = [dux EXCEPT !.active = FALSE]
        BY <1>7 DEF DeliverPost, LosePost, StaffAnnuls, StaffReplaces
      <3>3. 1 \in DuxIds /\ 2 \in DuxIds
        BY DEF DuxIds
      <3>4. \A i \in DuxIds : [id |-> i, active |-> TRUE]
                              \in [id : DuxIds, active : BOOLEAN]
        BY Zenon
      <3>5. [dux EXCEPT !.active = FALSE] \in [id : DuxIds, active : BOOLEAN]
        BY <3>1, Zenon
      <3> QED BY <3>1, <3>2, <3>3, <3>4, <3>5
    <2>2. /\ wire' \in BOOLEAN /\ posts' = posts
          /\ UNCHANGED <<row, ledger, clocks, local>>
      BY <1>7 DEF DeliverPost, LosePost, StaffAnnuls, StaffReplaces, TypeOK
    <2> QED BY <2>1, <2>2 DEF TypeOK, row, ledger, clocks, local
  <1>8. CASE LeaseExpires \/ Tick
    <2>1. /\ leaseLive' \in BOOLEAN /\ epoch' \in Nat /\ faults' \in Nat
      <3>1. leaseLive \in BOOLEAN /\ epoch \in Nat /\ faults \in Nat
        BY DEF TypeOK
      <3>2. /\ leaseLive' = leaseLive \/ leaseLive' = FALSE
            /\ epoch' = epoch \/ epoch' = epoch + 1
            /\ faults' = faults \/ faults' = faults + 1
        BY <1>8 DEF LeaseExpires, Tick, row
      <3>3. leaseLive' \in BOOLEAN
        BY <3>1, <3>2, Zenon
      <3>4. epoch' \in Nat /\ faults' \in Nat
        BY <3>1, <3>2
      <3> QED BY <3>3, <3>4
    <2>2. UNCHANGED <<request, prep, claim, progress, order, op, link, dux,
                      wire, posts, pc, mine, outcome>>
      BY <1>8 DEF LeaseExpires, Tick, row, ledger, provider, local
    <2> QED BY <2>1, <2>2 DEF TypeOK
  <1>9. CASE UNCHANGED vars
    BY <1>9 DEF vars, row, ledger, provider, clocks, local, TypeOK
  <1> QED BY <1>1, <1>2, <1>3, <1>4, <1>5, <1>6, <1>7, <1>8, <1>9
             DEF Next, Environment

\* Every column, message and local of the purchase keeps its type.
THEOREM TypeCorrect == Spec => []TypeOK
  <1>1. Init => TypeOK
    BY InitTypeOK
  <1>2. TypeOK /\ [Next]_vars => TypeOK'
    BY NextTypeOK
  <1> QED BY <1>1, <1>2, PTL DEF Spec

-----------------------------------------------------------------------------
(* The inductive invariant: the rows that the properties speak of, what the  *)
(* holder of the claim knows of them, and where the only POST can be.        *)

Active(w) == pc[w] \notin {"idle", "leaving"}

\* The rows of the purchase agree; the first five lines are properties.
Rows ==
  /\ LedgerAgrees
  /\ PreparedIsReserved
  /\ StoredQuoteMatches
  /\ ReviewCanResume
  /\ prep = "failed" \/ request = "rejected" => ~op.attempted
  /\ ~op.attempted => op.status \in {"none", "pending"}
  /\ op.status # "none" => request = "accepted" /\ prep # "none"

\* While w holds the claim nobody else changes what w has read.
HolderKnows(w) ==
  /\ prep \in {"preparing", "uncertain"} /\ request # "rejected"
  /\ pc[w] \in {"claimed", "quote", "sent", "confirm"} => mine[w].saved = progress
  /\ pc[w] \in {"draft", "keep_order"} => mine[w].saved.quote = progress.quote
  /\ pc[w] \in {"quote", "draft"} => op.status = "none"
  /\ pc[w] \in {"sent", "keep_order", "confirm"}
       => op.status \in {"pending", "uncertain"}
  /\ pc[w] = "failing" /\ outcome[w] = "failed" => op.status = "none"
  /\ pc[w] = "failing" /\ outcome[w] = "requires_review"
       => \/ op.status = "none"
          \/ op.attempted /\ op.status \in {"pending", "uncertain"}

Holders == \A w \in Workers : claim = w /\ Active(w) => HolderKnows(w)

\* What is behind every worker, whoever holds the claim.
Behind(w) ==
  /\ pc[w] \in {"unsent", "gate", "expire"} => op.status # "none"
  /\ pc[w] \in {"posting", "uncertain", "sent", "keep_order", "confirm"}
       => op.attempted
  /\ pc[w] = "send" => op.attempted /\ posts = 0
  /\ pc[w] = "confirm" => mine[w].saved.order # 0
  /\ mine[w].saved.order # 0 => posts = 1

Pasts == \A w \in Workers : Behind(w)

\* Every sign of an order stems from the one POST.
Evidences ==
  /\ posts \in {0, 1}
  /\ ~op.attempted => posts = 0
  /\ wire => posts = 1
  /\ dux.id # 0 => posts = 1
  /\ progress.order # 0 => posts = 1
  /\ \A v, w \in Workers : pc[v] = "send" /\ pc[w] = "send" => v = w

IInv == TypeOK /\ Rows /\ Holders /\ Pasts /\ Evidences

LEMMA InitIInv == Init => IInv
  <1> SUFFICES ASSUME Init PROVE IInv
    OBVIOUS
  <1>1. Rows
    <2>1. /\ request = "submitted" /\ prep = "none" /\ order = "none"
          /\ op.status = "none" /\ link.state = "none" /\ ~op.attempted
      BY DEF Init
    <2>2. LedgerAgrees
      BY <2>1 DEF LedgerAgrees
    <2> QED BY <2>1, <2>2 DEF Rows, PreparedIsReserved, StoredQuoteMatches,
                              ReviewCanResume
  <1>2. Holders
    BY NoOneAssumption DEF Init, Holders, Active
  <1>3. Pasts /\ Evidences
    BY DEF Init, Pasts, Behind, Evidences, Nothing, Empty
  <1> QED BY <1>1, <1>2, <1>3, InitTypeOK DEF IInv

\* A saveProgress of the holder keeps the invariant when the quote it saves
\* is the stored one, or nothing depends on it yet.
LEMMA SaveInv ==
  ASSUME IInv, NEW w \in Workers, NEW p \in Progress, NEW next, NEW result,
         SaveProgress(w, p, next, result),
         \/ next = "leaving" /\ result = "keep"
         \/ next = "failing" /\ result = "requires_review" /\ pc[w] = "sent",
         pc[w] \in {"quote", "sent", "keep_order"},
         claim = w => op.status = "none" \/ p.quote = progress.quote,
         p.order # 0 => posts = 1,
         UNCHANGED <<request, prep, claim, leaseLive, ledger, provider, mine>>
  PROVE  Rows' /\ Holders' /\ Pasts' /\ Evidences'
  <1> USE DEF SaveProgress, Fenced, LeaseReadings, ledger, provider
  <1>1. Rows'
    BY DEF IInv, Rows, Holders, HolderKnows, Active, LedgerAgrees,
           PreparedIsReserved, StoredQuoteMatches, ReviewCanResume, TypeOK
  <1>2. Holders'
    BY DEF IInv, Rows, LedgerAgrees, Holders, HolderKnows, Pasts, Behind,
           Active, TypeOK
  <1>3. Pasts' /\ Evidences'
    BY DEF IInv, Pasts, Behind, Evidences, TypeOK
  <1> QED BY <1>1, <1>2, <1>3

AttemptMade(w) ==
  /\ claim = w /\ ~op.attempted
  /\ op' = [op EXCEPT !.attempted = TRUE]
  /\ link' = [link EXCEPT !.state = "pending"]

\* The batch of beforeSend keeps the rows in agreement.
LEMMA AttemptRows ==
  ASSUME IInv, NEW w \in Workers, AttemptMade(w), pc[w] = "gate",
         UNCHANGED <<request, prep, progress, order>>
  PROVE  Rows'
  <1>1. /\ op'.status = op.status /\ op'.attempted = TRUE
        /\ op'.quote = op.quote /\ op'.dux = op.dux /\ link'.state = "pending"
    BY DEF AttemptMade, IInv, TypeOK
  <1>2. op.status = "pending" /\ order # "none"
    BY DEF AttemptMade, IInv, Rows, Pasts, Behind, LedgerAgrees
  <1>3. prep \in {"preparing", "uncertain"} /\ request = "accepted"
    BY <1>2 DEF AttemptMade, IInv, Holders, HolderKnows, Active, Rows
  <1>4. LedgerAgrees'
    BY <1>1, <1>2 DEF LedgerAgrees
  <1>5. StoredQuoteMatches'
    BY <1>1 DEF IInv, Rows, StoredQuoteMatches
  <1> QED BY <1>1, <1>2, <1>3, <1>4, <1>5
          DEF Rows, PreparedIsReserved, ReviewCanResume

LEMMA StepInv ==
  ASSUME IInv, NEW w \in Workers, Step(w)
  PROVE  Rows' /\ Holders' /\ Pasts' /\ Evidences'
  <1> USE DEF Goto, Throw, Gone, Fenced, LeaseReadings, row, ledger, provider,
              clocks
  <1>1. CASE ReadOperation(w)
    <2>1. Rows'
      BY <1>1 DEF ReadOperation, IInv, Rows, Holders, HolderKnows, Pasts, Behind, Active, LedgerAgrees,
             PreparedIsReserved, StoredQuoteMatches, ReviewCanResume, TypeOK
    <2>2. Holders'
      BY <1>1 DEF ReadOperation, IInv, Rows, Holders, HolderKnows, Pasts, Behind, Active,
             LedgerAgrees, StoredQuoteMatches, TypeOK
    <2>3. Pasts' /\ Evidences'
      BY <1>1 DEF ReadOperation, IInv, Rows, Holders, HolderKnows, Pasts, Behind,
             Evidences, LedgerAgrees, Active, TypeOK
    <2> QED BY <2>1, <2>2, <2>3
  <1>2. CASE Unpublished(w)
    <2>1. Rows'
      BY <1>2 DEF Unpublished, IInv, Rows, Holders, HolderKnows, Pasts, Behind, Active, LedgerAgrees,
             PreparedIsReserved, StoredQuoteMatches, ReviewCanResume, TypeOK
    <2>2. Holders'
      BY <1>2 DEF Unpublished, IInv, Rows, Holders, HolderKnows, Pasts, Behind, Active, LedgerAgrees,
             StoredQuoteMatches, TypeOK
    <2>3. Pasts' /\ Evidences'
      BY <1>2 DEF Unpublished, IInv, Rows, Holders, HolderKnows, Pasts, Behind, Evidences, LedgerAgrees,
             Active, TypeOK
    <2> QED BY <2>1, <2>2, <2>3
  <1>3. CASE QuoteLine(w)
    <2> DEFINE p == [Empty EXCEPT !.quote =
                       [Kept(w) EXCEPT !.lines = Append(@, epoch)]]
    <2>1. p \in Progress /\ p.order = 0
      BY QuoteLineType, EmptyOrder DEF IInv
    <2>2. SaveProgress(w, p, "leaving", "keep") /\ pc[w] = "quote"
      BY <1>3 DEF QuoteLine
    <2>3. claim = w => op.status = "none"
      BY <2>2 DEF IInv, Holders, HolderKnows, Active
    <2> HIDE DEF p
    <2> QED BY <1>3, <2>1, <2>2, <2>3, SaveInv DEF QuoteLine
  <1>4. CASE QuoteRefused(w) \/ QuoteInadmissible(w)
    <2>1. Rows'
      BY <1>4 DEF QuoteRefused, QuoteInadmissible, IInv, Rows, Holders, HolderKnows, Pasts, Behind, Active, LedgerAgrees,
             PreparedIsReserved, StoredQuoteMatches, ReviewCanResume, TypeOK
    <2>2. Holders'
      BY <1>4 DEF QuoteRefused, QuoteInadmissible, IInv, Rows, Holders, HolderKnows, Pasts, Behind, Active, LedgerAgrees,
             StoredQuoteMatches, TypeOK
    <2>3. Pasts' /\ Evidences'
      <3>1. /\ pc'[w] = "failing" /\ \A v \in Workers \ {w} : pc'[v] = pc[v]
            /\ UNCHANGED <<mine, op, posts, wire, dux, progress>>
        BY <1>4 DEF QuoteRefused, QuoteInadmissible, IInv, TypeOK
      <3> QED BY <3>1 DEF IInv, Pasts, Behind, Evidences
    <2> QED BY <2>1, <2>2, <2>3
  <1>5. CASE PriceOffer(w)
    <2>1. PICK promo \in BOOLEAN :
            LET p == [Empty EXCEPT !.quote = [Kept(w) EXCEPT !.promo = promo]]
            IN /\ mine' = [mine EXCEPT ![w].saved = p]
               /\ \/ SaveProgress(w, p, "draft", "keep")
                  \/ /\ ~promo /\ ~Kept(w).promo
                     /\ pc' = [pc EXCEPT ![w] = "draft"]
                     /\ UNCHANGED <<progress, outcome>>
      BY <1>5 DEF PriceOffer
    <2> DEFINE p == [Empty EXCEPT !.quote = [Kept(w) EXCEPT !.promo = promo]]
    <2>2. p \in Progress /\ p.order = 0
      BY PriceOfferType, EmptyOrder DEF IInv
    <2>3. /\ mine' = [mine EXCEPT ![w].saved = p]
          /\ \/ SaveProgress(w, p, "draft", "keep")
             \/ /\ ~promo /\ ~Kept(w).promo
                /\ pc' = [pc EXCEPT ![w] = "draft"]
                /\ UNCHANGED <<progress, outcome>>
      BY <2>1
    <2>4. ~promo /\ ~Kept(w).promo => p.quote = mine[w].saved.quote
      <3>1. Kept(w) = mine[w].saved.quote
        BY <1>5, ItemsAssumption DEF PriceOffer, Kept, NoQuote
      <3>2. Kept(w) \in Quotes
        BY KeptType DEF IInv
      <3>3. ~promo /\ ~Kept(w).promo => [Kept(w) EXCEPT !.promo = promo] = Kept(w)
        BY <3>2, Zenon DEF Quotes
      <3>4. p.quote = [Kept(w) EXCEPT !.promo = promo]
        BY DEF Empty
      <3> QED BY <3>1, <3>3, <3>4
    <2>5. claim = w => /\ op.status = "none"
                       /\ mine[w].saved = progress
                       /\ prep \in {"preparing", "uncertain"}
      BY <1>5 DEF PriceOffer, IInv, Holders, HolderKnows, Active
    <2>6. /\ pc[w] = "quote"
          /\ UNCHANGED <<request, prep, claim, leaseLive, order, op, link, dux,
                         wire, posts>>
      BY <1>5 DEF PriceOffer
    <2>7. mine'[w].saved = p /\ \A v \in Workers \ {w} : mine'[v] = mine[v]
      BY <2>3 DEF IInv, TypeOK
    <2>8. CASE SaveProgress(w, p, "draft", "keep")
      <3> HIDE DEF p
      <3> USE <2>2, <2>5, <2>6, <2>7, <2>8 DEF SaveProgress
      <3>1. Rows'
        BY DEF IInv, Rows, LedgerAgrees, PreparedIsReserved, StoredQuoteMatches,
               ReviewCanResume, TypeOK
      <3>2. Holders'
        BY DEF IInv, Holders, HolderKnows, Active, TypeOK
      <3>3. Pasts' /\ Evidences'
        BY DEF IInv, Pasts, Behind, Evidences, TypeOK
      <3> QED BY <3>1, <3>2, <3>3
    <2>9. CASE /\ ~promo /\ ~Kept(w).promo
               /\ pc' = [pc EXCEPT ![w] = "draft"]
               /\ UNCHANGED <<progress, outcome>>
      <3>1. p.quote = mine[w].saved.quote
        BY <2>4, <2>9
      <3> HIDE DEF p
      <3> USE <2>2, <2>5, <2>6, <2>7, <2>9, <3>1
      <3>2. Rows'
        BY DEF IInv, Rows, LedgerAgrees, PreparedIsReserved, StoredQuoteMatches,
               ReviewCanResume
      <3>3. Holders'
        BY DEF IInv, Holders, HolderKnows, Active, TypeOK
      <3>4. Pasts' /\ Evidences'
        BY DEF IInv, Pasts, Behind, Evidences, TypeOK
      <3> QED BY <3>2, <3>3, <3>4
    <2> QED BY <2>3, <2>8, <2>9
  <1>6. CASE CreateDraft(w)
    <2>1. Rows'
      <3>1. CASE UNCHANGED <<request, ledger>>
        BY <1>6, <3>1 DEF CreateDraft, IInv, Rows, LedgerAgrees,
             PreparedIsReserved, StoredQuoteMatches, ReviewCanResume
      <3>2. CASE /\ claim = w /\ request' = "accepted"
                 /\ order' = "preference_pending"
                 /\ op' = [status |-> "pending", attempted |-> FALSE,
                           quote |-> mine[w].saved.quote, dux |-> 0]
                 /\ link' = [state |-> "not_attempted", dux |-> 0]
        <4>1. prep' \in {"preparing", "uncertain"} /\ progress' = progress
          BY <1>6, <3>2 DEF CreateDraft, IInv, Holders, HolderKnows, Active
        <4>2. mine[w].saved.quote = progress.quote
          BY <1>6, <3>2 DEF CreateDraft, IInv, Holders, HolderKnows, Active
        <4>3. LedgerAgrees'
          BY <3>2 DEF LedgerAgrees
        <4> QED BY <3>2, <4>1, <4>2, <4>3 DEF Rows, PreparedIsReserved,
                   StoredQuoteMatches, ReviewCanResume
      <3> QED BY <1>6, <3>1, <3>2 DEF CreateDraft
    <2>2. Holders'
      BY <1>6 DEF CreateDraft, IInv, Rows, Holders, HolderKnows, Pasts, Behind, Active, LedgerAgrees,
             StoredQuoteMatches, TypeOK
    <2>3. Pasts' /\ Evidences'
      BY <1>6 DEF CreateDraft, IInv, Rows, Holders, HolderKnows, Pasts, Behind, Evidences, LedgerAgrees,
             Active, TypeOK
    <2> QED BY <2>1, <2>2, <2>3
  <1>7. CASE CheckQuoteAge(w)
    <2>1. Rows'
      BY <1>7 DEF CheckQuoteAge, IInv, Rows, Holders, HolderKnows, Pasts, Behind, Active, LedgerAgrees,
             PreparedIsReserved, StoredQuoteMatches, ReviewCanResume, TypeOK
    <2>2. Holders'
      BY <1>7 DEF CheckQuoteAge, IInv, Rows, Holders, HolderKnows, Pasts, Behind, Active, LedgerAgrees,
             StoredQuoteMatches, TypeOK
    <2>3. Pasts' /\ Evidences'
      BY <1>7 DEF CheckQuoteAge, IInv, Rows, Holders, HolderKnows, Pasts, Behind, Evidences, LedgerAgrees,
             Active, TypeOK
    <2> QED BY <2>1, <2>2, <2>3
  <1>8. CASE ExpireDraft(w)
    <2>1. Rows'
      BY <1>8 DEF ExpireDraft, IInv, Rows, Holders, HolderKnows, Pasts, Behind, Active, LedgerAgrees,
             PreparedIsReserved, StoredQuoteMatches, ReviewCanResume, TypeOK
    <2>2. Holders'
      BY <1>8 DEF ExpireDraft, IInv, Rows, Holders, HolderKnows, Pasts, Behind, Active, LedgerAgrees,
             StoredQuoteMatches, TypeOK
    <2>3. Pasts' /\ Evidences'
      BY <1>8 DEF ExpireDraft, IInv, Rows, Holders, HolderKnows, Pasts, Behind, Evidences, LedgerAgrees,
             Active, TypeOK
    <2> QED BY <2>1, <2>2, <2>3
  <1>9. CASE Attempt(w)
    <2>1. Rows'
      <3>1. CASE UNCHANGED <<op, link>>
        BY <1>9, <3>1 DEF Attempt, IInv, Rows, LedgerAgrees,
             PreparedIsReserved, StoredQuoteMatches, ReviewCanResume
      <3>2. CASE AttemptMade(w)
        BY <1>9, <3>2, AttemptRows DEF Attempt
      <3> QED BY <1>9, <3>1, <3>2 DEF Attempt, AttemptGuard, AttemptMade
    <2>2. Holders'
      BY <1>9 DEF Attempt, AttemptGuard, IInv, Rows, Holders, HolderKnows, Pasts, Behind, Active, LedgerAgrees,
             StoredQuoteMatches, TypeOK
    <2>3. Pasts' /\ Evidences'
      BY <1>9 DEF Attempt, AttemptGuard, IInv, Rows, Holders, HolderKnows, Pasts, Behind, Evidences, LedgerAgrees,
             Active, TypeOK
    <2> QED BY <2>1, <2>2, <2>3
  <1>10. CASE SendPost(w)
    <2>1. Rows'
      BY <1>10 DEF SendPost, IInv, Rows, Holders, HolderKnows, Pasts, Behind, Active, LedgerAgrees,
             PreparedIsReserved, StoredQuoteMatches, ReviewCanResume, TypeOK
    <2>2. Holders'
      BY <1>10 DEF SendPost, IInv, Rows, Holders, HolderKnows, Pasts, Behind, Active, LedgerAgrees,
             StoredQuoteMatches, TypeOK
    <2>3. Pasts' /\ Evidences'
      BY <1>10 DEF SendPost, IInv, Rows, Holders, HolderKnows, Pasts, Behind, Evidences, LedgerAgrees,
             Active, TypeOK
    <2> QED BY <2>1, <2>2, <2>3
  <1>11. CASE PostAnswered(w)
    <2>1. Rows'
      BY <1>11 DEF PostAnswered, IInv, Rows, Holders, HolderKnows, Pasts, Behind, Active, LedgerAgrees,
             PreparedIsReserved, StoredQuoteMatches, ReviewCanResume, TypeOK
    <2>2. Holders'
      BY <1>11 DEF PostAnswered, IInv, Rows, Holders, HolderKnows, Pasts, Behind, Active, LedgerAgrees,
             StoredQuoteMatches, TypeOK
    <2>3. Pasts' /\ Evidences'
      BY <1>11 DEF PostAnswered, IInv, Rows, Holders, HolderKnows, Pasts, Behind, Evidences, LedgerAgrees,
             Active, TypeOK
    <2> QED BY <2>1, <2>2, <2>3
  <1>12. CASE PostUnknown(w)
    <2>1. Rows'
      BY <1>12 DEF PostUnknown, IInv, Rows, Holders, HolderKnows, Pasts, Behind, Active, LedgerAgrees,
             PreparedIsReserved, StoredQuoteMatches, ReviewCanResume, TypeOK
    <2>2. Holders'
      BY <1>12 DEF PostUnknown, IInv, Rows, Holders, HolderKnows, Pasts, Behind, Active, LedgerAgrees,
             StoredQuoteMatches, TypeOK
    <2>3. Pasts' /\ Evidences'
      BY <1>12 DEF PostUnknown, IInv, Rows, Holders, HolderKnows, Pasts, Behind, Evidences, LedgerAgrees,
             Active, TypeOK
    <2> QED BY <2>1, <2>2, <2>3
  <1>13. CASE MarkUncertain(w)
    <2>1. Rows'
      BY <1>13 DEF MarkUncertain, IInv, Rows, Holders, HolderKnows, Pasts, Behind, Active, LedgerAgrees,
             PreparedIsReserved, StoredQuoteMatches, ReviewCanResume, TypeOK
    <2>2. Holders'
      BY <1>13 DEF MarkUncertain, IInv, Rows, Holders, HolderKnows, Pasts, Behind, Active, LedgerAgrees,
             StoredQuoteMatches, TypeOK
    <2>3. Pasts' /\ Evidences'
      BY <1>13 DEF MarkUncertain, IInv, Rows, Holders, HolderKnows, Pasts, Behind, Evidences, LedgerAgrees,
             Active, TypeOK
    <2> QED BY <2>1, <2>2, <2>3
  <1>14. CASE FindOrder(w)
    <2>1. Rows'
      BY <1>14 DEF FindOrder, IInv, Rows, Holders, HolderKnows, Pasts, Behind, Active, LedgerAgrees,
             PreparedIsReserved, StoredQuoteMatches, ReviewCanResume, TypeOK
    <2>2. Holders'
      <3>1. CASE UNCHANGED mine
        BY <1>14, <3>1 DEF FindOrder, IInv, Holders, HolderKnows, Pasts, Behind,
             Active, TypeOK
      <3>2. CASE /\ mine' = [mine EXCEPT ![w].saved.order = dux.id]
                 /\ pc' = [pc EXCEPT ![w] = "keep_order"]
        <4>1. mine'[w].saved.quote = mine[w].saved.quote
          BY <3>2 DEF IInv, TypeOK, Progress
        <4>2. \A v \in Workers \ {w} : /\ mine'[v] = mine[v] /\ pc'[v] = pc[v]
                                      /\ outcome'[v] = outcome[v]
          BY <1>14, <3>2 DEF FindOrder, IInv, TypeOK
        <4>3. pc'[w] = "keep_order" /\ UNCHANGED <<row, ledger>>
          BY <1>14, <3>2 DEF FindOrder, IInv, TypeOK
        <4>4. pc[w] = "sent"
          BY <1>14 DEF FindOrder
        <4> QED BY <4>1, <4>2, <4>3, <4>4 DEF IInv, Holders, HolderKnows, Active
      <3> QED BY <1>14, <3>1, <3>2 DEF FindOrder
    <2>3. Pasts' /\ Evidences'
      BY <1>14 DEF FindOrder, IInv, Rows, Holders, HolderKnows, Pasts, Behind, Evidences, LedgerAgrees,
             Active, TypeOK
    <2> QED BY <2>1, <2>2, <2>3
  <1>15. CASE KeepOrder(w)
    <2> DEFINE p == mine[w].saved
    <2>1. /\ p \in Progress
          /\ claim = w => p.quote = progress.quote
          /\ p.order # 0 => posts = 1
      BY <1>15 DEF KeepOrder, IInv, TypeOK, Holders, HolderKnows, Active, Pasts,
                  Behind
    <2>2. SaveProgress(w, p, "leaving", "keep") /\ pc[w] = "keep_order"
      BY <1>15 DEF KeepOrder
    <2> HIDE DEF p
    <2> QED BY <1>15, <2>1, <2>2, SaveInv DEF KeepOrder
  <1>16. CASE DropStockEvidence(w)
    <2> DEFINE p == mine[w].saved
               q == Evidence(p, p.order, 0, 0, p.review)
    <2>1. /\ p \in Progress /\ p.order \in DuxIds /\ p.review \in DuxIds
          /\ claim = w => p.quote = progress.quote
          /\ p.order # 0 => posts = 1
      BY <1>16 DEF DropStockEvidence, IInv, TypeOK, Progress, Holders,
                  HolderKnows, Active, Pasts, Behind
    <2>2. q \in Progress /\ q.quote = p.quote /\ q.order = p.order
      <3> HIDE DEF p
      <3>1. 0 \in DuxIds /\ 0 \in Nat
        OBVIOUS
      <3>2. q \in Progress
        BY <2>1, <3>1, EvidenceType
      <3> QED BY <2>1, <3>2 DEF Evidence, Progress
    <2>3. SaveProgress(w, q, "leaving", "keep") /\ pc[w] = "sent"
      BY <1>16 DEF DropStockEvidence
    <2> HIDE DEF p, q
    <2> QED BY <1>16, <2>1, <2>2, <2>3, SaveInv DEF DropStockEvidence
  <1>17. CASE ReadStock(w)
    <2> DEFINE p == mine[w].saved
               first == IF p.after = 0 THEN epoch ELSE p.afterAt
               good == Evidence(p, p.order, p.after + 1, first, 0)
               bad == Evidence(p, 0, 0, 0, p.order)
    <2>1. /\ claim = w => p.quote = progress.quote
          /\ p.order # 0 => posts = 1
      BY <1>17 DEF ReadStock, IInv, Holders, HolderKnows, Active, Pasts, Behind
    <2>2. /\ good \in Progress /\ good.quote = p.quote /\ good.order = p.order
          /\ bad \in Progress /\ bad.quote = p.quote /\ bad.order = 0
      BY StockEvidenceType DEF IInv
    <2>3. /\ \/ SaveProgress(w, good, "leaving", "keep")
             \/ SaveProgress(w, bad, "failing", "requires_review")
          /\ pc[w] = "sent"
      BY <1>17 DEF ReadStock
    <2>4. UNCHANGED <<request, prep, claim, leaseLive, ledger, provider, mine>>
      BY <1>17 DEF ReadStock
    <2> HIDE DEF p, good, bad
    <2>5. CASE SaveProgress(w, good, "leaving", "keep")
      BY <2>1, <2>2, <2>3, <2>4, <2>5, SaveInv
    <2>6. CASE SaveProgress(w, bad, "failing", "requires_review")
      BY <2>1, <2>2, <2>3, <2>4, <2>6, SaveInv
    <2> QED BY <2>3, <2>5, <2>6
  <1>18. CASE ReconfirmOrder(w)
    <2>1. Rows'
      BY <1>18 DEF ReconfirmOrder, SameOrder, IInv, Rows, Holders, HolderKnows, Pasts, Behind, Active, LedgerAgrees,
             PreparedIsReserved, StoredQuoteMatches, ReviewCanResume, TypeOK
    <2>2. Holders'
      BY <1>18 DEF ReconfirmOrder, SameOrder, IInv, Rows, Holders, HolderKnows, Pasts, Behind, Active, LedgerAgrees,
             StoredQuoteMatches, TypeOK
    <2>3. Pasts' /\ Evidences'
      BY <1>18 DEF ReconfirmOrder, SameOrder, IInv, Rows, Holders, HolderKnows, Pasts, Behind, Evidences, LedgerAgrees,
             Active, TypeOK
    <2> QED BY <2>1, <2>2, <2>3
  <1>19. CASE Confirm(w)
    <2>1. Rows'
      <3>1. CASE UNCHANGED <<op, link, prep>>
        BY <1>19, <3>1 DEF Confirm, IInv, Rows, LedgerAgrees,
             PreparedIsReserved, StoredQuoteMatches, ReviewCanResume
      <3>2. CASE /\ claim = w /\ prep' = "prepared"
                 /\ op' = [op EXCEPT !.status = "confirmed",
                                     !.dux = mine[w].saved.order]
                 /\ link' = [state |-> "confirmed",
                             dux |-> mine[w].saved.order]
        <4>1. /\ op'.status = "confirmed" /\ op'.attempted = op.attempted
              /\ op'.dux = mine[w].saved.order /\ op'.quote = op.quote
          BY <3>2 DEF IInv, TypeOK
        <4>2. /\ mine[w].saved = progress /\ mine[w].saved.order # 0
              /\ op.attempted /\ op.status # "none"
              /\ UNCHANGED <<request, order, progress>>
          BY <1>19, <3>2 DEF Confirm, IInv, Holders, HolderKnows, Active,
                             Pasts, Behind
        <4>3. request = "accepted" /\ order # "none" /\ op.quote = progress.quote
          BY <4>2 DEF IInv, Rows, LedgerAgrees, StoredQuoteMatches
        <4>4. LedgerAgrees'
          BY <3>2, <4>1, <4>2, <4>3 DEF LedgerAgrees
        <4>5. PreparedIsReserved'
          BY <3>2, <4>1, <4>2 DEF PreparedIsReserved
        <4> QED BY <3>2, <4>1, <4>2, <4>3, <4>4, <4>5
                DEF Rows, StoredQuoteMatches, ReviewCanResume
      <3> QED BY <1>19, <3>1, <3>2 DEF Confirm
    <2>2. Holders'
      BY <1>19 DEF Confirm, IInv, Rows, Holders, HolderKnows, Pasts, Behind, Active, LedgerAgrees,
             StoredQuoteMatches, TypeOK
    <2>3. Pasts' /\ Evidences'
      <3>1. /\ op'.attempted = op.attempted /\ op'.status # "none"
            /\ pc'[w] \in {"leaving", "failing"}
            /\ \A v \in Workers \ {w} : pc'[v] = pc[v]
            /\ UNCHANGED <<mine, posts, wire, dux, progress>>
        BY <1>19 DEF Confirm, IInv, TypeOK, Pasts, Behind, Rows, LedgerAgrees
      <3> QED BY <3>1 DEF IInv, Pasts, Behind, Evidences
    <2> QED BY <2>1, <2>2, <2>3
  <1>20. CASE CloseUnpublishedDraft(w)
    <2>1. Rows'
      BY <1>20 DEF CloseUnpublishedDraft, IInv, Rows, Holders, HolderKnows, Pasts, Behind, Active, LedgerAgrees,
             PreparedIsReserved, StoredQuoteMatches, ReviewCanResume, TypeOK
    <2>2. Holders'
      BY <1>20 DEF CloseUnpublishedDraft, IInv, Rows, Holders, HolderKnows, Pasts, Behind, Active, LedgerAgrees,
             StoredQuoteMatches, TypeOK
    <2>3. Pasts' /\ Evidences'
      BY <1>20 DEF CloseUnpublishedDraft, IInv, Rows, Holders, HolderKnows, Pasts, Behind, Evidences, LedgerAgrees,
             Active, TypeOK
    <2> QED BY <2>1, <2>2, <2>3
  <1>21. CASE RecordFailure(w)
    <2>1. Rows'
      BY <1>21 DEF RecordFailure, IInv, Rows, Holders, HolderKnows, Pasts, Behind, Active, LedgerAgrees,
             PreparedIsReserved, StoredQuoteMatches, ReviewCanResume, TypeOK
    <2>2. Holders'
      BY <1>21 DEF RecordFailure, IInv, Rows, Holders, HolderKnows, Pasts, Behind, Active, LedgerAgrees,
             StoredQuoteMatches, TypeOK
    <2>3. Pasts' /\ Evidences'
      BY <1>21 DEF RecordFailure, IInv, Rows, Holders, HolderKnows, Pasts, Behind, Evidences, LedgerAgrees,
             Active, TypeOK
    <2> QED BY <2>1, <2>2, <2>3
  <1>22. CASE Leave(w)
    <2>1. Rows'
      BY <1>22 DEF Leave, Nothing, Empty, IInv, Rows, Holders, HolderKnows, Pasts, Behind, Active, LedgerAgrees,
             PreparedIsReserved, StoredQuoteMatches, ReviewCanResume, TypeOK
    <2>2. Holders'
      BY <1>22 DEF Leave, Nothing, Empty, IInv, Rows, Holders, HolderKnows, Pasts, Behind, Active, LedgerAgrees,
             StoredQuoteMatches, TypeOK
    <2>3. Pasts' /\ Evidences'
      BY <1>22 DEF Leave, Nothing, Empty, IInv, Rows, Holders, HolderKnows, Pasts, Behind, Evidences, LedgerAgrees,
             Active, TypeOK
    <2> QED BY <2>1, <2>2, <2>3
  <1> QED BY <1>1, <1>2, <1>3, <1>4, <1>5, <1>6, <1>7, <1>8, <1>9, <1>10, <1>11,
             <1>12, <1>13, <1>14, <1>15, <1>16, <1>17, <1>18, <1>19, <1>20, <1>21, <1>22 DEF Step

LEMMA NextInv == IInv /\ [Next]_vars => IInv'
  <1> SUFFICES ASSUME IInv, [Next]_vars
               PROVE  Rows' /\ Holders' /\ Pasts' /\ Evidences'
    BY NextTypeOK DEF IInv
  <1> USE DEF Goto, Throw, Gone, Fenced, LeaseReadings, row, ledger, provider,
              clocks, local
  <1>1. ASSUME NEW w \in Workers, Step(w)
        PROVE  Rows' /\ Holders' /\ Pasts' /\ Evidences'
    BY <1>1, StepInv
  <1>2. ASSUME NEW w \in Workers, NEW resume \in BOOLEAN, Claim(w, resume)
        PROVE  Rows' /\ Holders' /\ Pasts' /\ Evidences'
    <2>1. /\ prep' \in {"preparing", "uncertain"} /\ request # "rejected"
          /\ prep \notin {"prepared", "failed"}
          /\ prep = "none" => request = "submitted"
      BY <1>2 DEF Claim, ClaimGuard
    <2>2. /\ mine'[w].saved = progress /\ pc'[w] = "claimed" /\ claim' = w
          /\ \A v \in Workers \ {w} : mine'[v] = mine[v] /\ pc'[v] = pc[v]
          /\ UNCHANGED <<request, progress, order, op, link, dux, wire, posts,
                         outcome>>
      BY <1>2 DEF Claim, IInv, TypeOK
    <2>3. Rows'
      BY <2>1, <2>2 DEF IInv, Rows, LedgerAgrees, PreparedIsReserved,
                        StoredQuoteMatches, ReviewCanResume
    <2>4. Holders'
      BY <2>1, <2>2 DEF Holders, HolderKnows, Active
    <2>5. Pasts' /\ Evidences'
      BY <2>2 DEF IInv, Pasts, Behind, Evidences
    <2> QED BY <2>3, <2>4, <2>5
  <1>3. ASSUME NEW w \in Workers, AttemptAnswerLost(w)
        PROVE  Rows' /\ Holders' /\ Pasts' /\ Evidences'
    <2>1. AttemptMade(w) /\ pc[w] = "gate"
      BY <1>3 DEF AttemptAnswerLost, AttemptMade, AttemptGuard
    <2>2. /\ pc'[w] = "failing" /\ outcome'[w] = "keep"
          /\ \A v \in Workers \ {w} : /\ pc'[v] = pc[v]
                                      /\ outcome'[v] = outcome[v]
          /\ UNCHANGED <<request, prep, claim, progress, order, mine, dux, wire,
                         posts>>
      BY <1>3 DEF AttemptAnswerLost, IInv, TypeOK
    <2>3. Rows'
      BY <2>1, <2>2, AttemptRows
    <2>4. op'.attempted = TRUE /\ op'.status = op.status
      BY <2>1 DEF AttemptMade, IInv, TypeOK
    <2>5. Holders'
      BY <2>1, <2>2, <2>4 DEF AttemptMade, IInv, Holders, HolderKnows, Active
    <2>6. Pasts' /\ Evidences'
      BY <2>2, <2>4 DEF IInv, Pasts, Behind, Evidences
    <2> QED BY <2>3, <2>5, <2>6
  <1>4. ASSUME NEW w \in Workers, Fault(w) \/ Crash(w)
        PROVE  Rows' /\ Holders' /\ Pasts' /\ Evidences'
    <2>1. /\ UNCHANGED <<row, ledger, provider>>
          /\ \A v \in Workers \ {w} : /\ pc'[v] = pc[v] /\ mine'[v] = mine[v]
                                      /\ outcome'[v] = outcome[v]
      BY <1>4 DEF Fault, Crash, IInv, TypeOK
    <2>2. \/ /\ pc'[w] = "failing" /\ outcome'[w] = "keep"
             /\ mine'[w] = mine[w] /\ pc[w] \notin {"idle", "leaving"}
          \/ /\ pc'[w] = "leaving" /\ mine'[w] = mine[w]
          \/ /\ pc'[w] = "idle" /\ mine'[w].saved.order = 0
      BY <1>4 DEF Fault, Crash, IInv, TypeOK, Nothing, Empty
    <2>3. Rows'
      BY <2>1 DEF IInv, Rows, LedgerAgrees, PreparedIsReserved,
                  StoredQuoteMatches, ReviewCanResume
    <2>4. Holders'
      BY <2>1, <2>2 DEF IInv, Holders, HolderKnows, Active
    <2>5. Pasts' /\ Evidences'
      BY <2>1, <2>2 DEF IInv, Pasts, Behind, Evidences
    <2> QED BY <2>3, <2>4, <2>5
  <1>5. CASE AdminReject \/ AdminAccept
    <2>1. /\ request = "submitted" /\ claim' = NoOne
          /\ request' \in {"accepted", "rejected"}
          /\ prep' = IF prep = "none" THEN "none" ELSE "failed"
          /\ UNCHANGED <<progress, order, op, link, dux, wire, posts, pc, mine,
                         outcome>>
      BY <1>5 DEF AdminReject, AdminAccept
    <2>2. Rows'
      BY <2>1 DEF IInv, Rows, LedgerAgrees, PreparedIsReserved,
                  StoredQuoteMatches, ReviewCanResume
    <2>3. Holders'
      BY <2>1, NoOneAssumption DEF Holders
    <2>4. Pasts' /\ Evidences'
      BY <2>1 DEF IInv, Pasts, Behind, Evidences
    <2> QED BY <2>2, <2>3, <2>4
  <1>6. CASE DeliverPost \/ LosePost \/ StaffAnnuls \/ StaffReplaces
    <2>1. /\ UNCHANGED <<row, ledger, posts, pc, mine, outcome>>
          /\ wire' => wire
          /\ dux'.id # 0 => wire \/ dux.id # 0
      <3>1. wire' => wire
        BY <1>6 DEF DeliverPost, LosePost, StaffAnnuls, StaffReplaces
      <3>2. dux'.id # 0 => wire \/ dux.id # 0
        <4>1. CASE DeliverPost
          BY <4>1 DEF DeliverPost
        <4>2. CASE LosePost
          BY <4>2 DEF LosePost
        <4>3. CASE StaffReplaces
          BY <4>3 DEF StaffReplaces
        <4>4. CASE StaffAnnuls
          <5>1. dux'.id = dux.id
            BY <4>4 DEF StaffAnnuls, IInv, TypeOK
          <5> QED BY <5>1
        <4> QED BY <1>6, <4>1, <4>2, <4>3, <4>4
      <3> QED BY <1>6, <3>1, <3>2
              DEF DeliverPost, LosePost, StaffAnnuls, StaffReplaces
    <2>2. Rows' /\ Holders'
      BY <2>1 DEF IInv, Rows, LedgerAgrees, PreparedIsReserved,
                  StoredQuoteMatches, ReviewCanResume, Holders, HolderKnows,
                  Active
    <2>3. Pasts' /\ Evidences'
      BY <2>1 DEF IInv, Pasts, Behind, Evidences
    <2> QED BY <2>2, <2>3
  <1>7. CASE LeaseExpires \/ Tick \/ UNCHANGED vars
    <2>1. UNCHANGED <<request, prep, claim, progress, order, op, link, dux,
                      wire, posts, pc, mine, outcome>>
      BY <1>7 DEF LeaseExpires, Tick, vars
    <2>2. Rows' /\ Holders'
      BY <2>1 DEF IInv, Rows, LedgerAgrees, PreparedIsReserved,
                  StoredQuoteMatches, ReviewCanResume, Holders, HolderKnows,
                  Active
    <2>3. Pasts' /\ Evidences'
      BY <2>1 DEF IInv, Pasts, Behind, Evidences
    <2> QED BY <2>2, <2>3
  <1> QED BY <1>1, <1>2, <1>3, <1>4, <1>5, <1>6, <1>7 DEF Next, Environment

THEOREM Invariance == Spec => []IInv
  BY InitIInv, NextInv, PTL DEF Spec

\* One POST at most, by any number of workers and after any failures.
THEOREM AtMostOnePost == Spec => []OnePost
  <1>1. IInv => OnePost
    BY DEF IInv, Evidences, OnePost
  <1> QED BY <1>1, Invariance, PTL

\* A purchase shown as failed or rejected never reached the provider and never
\* will; one left in review with an order has a POST behind it and goes on.
THEOREM ClosedUnsentReviewGoesOn == Spec => []StatusIsHonest
  <1>1. IInv => StatusIsHonest
    BY DEF IInv, Rows, Evidences, StatusIsHonest, ClosedNeverSent, ReviewCanResume
  <1> QED BY <1>1, Invariance, PTL

\* Operation, link and order agree although three workers write the three rows.
THEOREM RowsAgree == Spec => []LedgerAgrees
  <1>1. IInv => LedgerAgrees
    BY DEF IInv, Rows
  <1> QED BY <1>1, Invariance, PTL

\* What a prepared purchase charges is what Dux reserved, at the quote that
\* the operation was claimed with.
THEOREM QuoteIsKept == Spec => []QuoteHolds
  <1>1. IInv => QuoteHolds
    BY DEF IInv, Rows, QuoteHolds
  <1> QED BY <1>1, Invariance, PTL

\* The three together: the rows of a purchase never contradict each other, its
\* quote, or what its buyer and the administrator are told.
THEOREM RowsNeverDisagree == Spec => []PurchaseAgrees
  <1>1. LedgerAgrees /\ QuoteHolds /\ StatusIsHonest => PurchaseAgrees
    BY DEF PurchaseAgrees
  <1> QED BY <1>1, RowsAgree, QuoteIsKept, ClosedUnsentReviewGoesOn, PTL

-----------------------------------------------------------------------------
(* The rows implement PurchasePromise *)

Quiet == /\ op'.attempted = op.attempted
         /\ UNCHANGED <<request, prep, posts>>

LEMMA QuietStutters == Quiet => UNCHANGED <<Stage, posts>>
  PROOF BY DEF Quiet, Stage

\* A purchase the holder still works on, unsent, is open.
LEMMA HolderIsOpen ==
  ASSUME IInv, NEW w \in Workers, claim = w, Active(w), ~op.attempted
  PROVE  Stage = "open"
  PROOF BY DEF IInv, Holders, HolderKnows, Stage

LEMMA StepPromise ==
  ASSUME IInv, NEW w \in Workers, Step(w)
  PROVE  [Promise!Next]_<<Stage, posts>>
  <1> USE DEF row, ledger, provider, Goto, Throw, Fenced
  <1>1. CASE \/ ReadOperation(w) \/ Unpublished(w) \/ QuoteLine(w)
             \/ QuoteRefused(w) \/ QuoteInadmissible(w) \/ PriceOffer(w)
             \/ CheckQuoteAge(w)
             \/ PostAnswered(w) \/ PostUnknown(w) \/ FindOrder(w)
             \/ KeepOrder(w) \/ DropStockEvidence(w) \/ ReadStock(w)
             \/ ReconfirmOrder(w) \/ Leave(w)
    <2>1. Quiet
      BY <1>1 DEF Quiet, ReadOperation, Unpublished, QuoteLine, QuoteRefused,
           QuoteInadmissible, PriceOffer, CheckQuoteAge, PostAnswered, PostUnknown, FindOrder,
           KeepOrder, DropStockEvidence, ReadStock, ReconfirmOrder, Leave
    <2> QED BY <2>1, QuietStutters
  <1>2. CASE CreateDraft(w)
    <2>1. /\ UNCHANGED <<prep, posts>>
          /\ \/ UNCHANGED <<request, op>>
             \/ /\ request = "submitted" /\ request' = "accepted"
                /\ order = "none" /\ ~op'.attempted
      BY <1>2 DEF CreateDraft
    <2>2. order = "none" => ~op.attempted
      BY DEF IInv, Rows, LedgerAgrees
    <2> QED BY <2>1, <2>2 DEF Stage
  <1>3. CASE ExpireDraft(w) \/ CloseUnpublishedDraft(w)
    <2>1. /\ UNCHANGED <<request, op, posts>> /\ Active(w)
          /\ prep' = IF claim = w /\ ~op.attempted THEN "failed" ELSE prep
      BY <1>3 DEF ExpireDraft, CloseUnpublishedDraft, Active
    <2>2. CASE claim = w /\ ~op.attempted
      <3>1. Stage = "open" /\ Stage' = "closed"
        BY <2>1, <2>2, HolderIsOpen DEF Stage
      <3> QED BY <2>1, <3>1 DEF Promise!Next, Promise!Close
    <2>3. CASE ~(claim = w /\ ~op.attempted)
      BY <2>1, <2>3, QuietStutters DEF Quiet
    <2> QED BY <2>2, <2>3
  <1>4. CASE Attempt(w)
    <2>1. CASE AttemptMade(w)
      <3>1. Stage = "open"
        BY <1>4, <2>1, HolderIsOpen DEF AttemptMade, Attempt, Active
      <3>2. op'.attempted = TRUE
        BY <2>1 DEF AttemptMade, IInv, TypeOK
      <3>3. UNCHANGED <<prep, posts>> /\ prep # "prepared"
        BY <1>4, <3>1 DEF Attempt, Stage
      <3>4. Stage' = "reserving"
        BY <3>2, <3>3 DEF Stage
      <3> QED BY <3>1, <3>3, <3>4 DEF Promise!Next, Promise!Commit
    <2>2. CASE UNCHANGED <<op, link>>
      BY <1>4, <2>2, QuietStutters DEF Attempt, Quiet
    <2> QED BY <1>4, <2>1, <2>2 DEF Attempt, AttemptGuard, AttemptMade
  <1>5. CASE SendPost(w)
    <2>1. op.attempted /\ posts = 0
      BY <1>5 DEF SendPost, IInv, Pasts, Behind
    <2>2. prep # "prepared"
      BY <2>1 DEF IInv, Rows, PreparedIsReserved, Evidences
    <2>3. posts' = 1 /\ UNCHANGED <<request, prep, op>>
      BY <1>5, <2>1 DEF SendPost
    <2>4. Stage = "reserving" /\ Stage' = Stage
      BY <2>1, <2>2, <2>3 DEF Stage
    <2> QED BY <2>1, <2>3, <2>4 DEF Promise!Next, Promise!Ask
  <1>6. CASE MarkUncertain(w)
    <2>1. /\ UNCHANGED <<request, posts>> /\ Active(w)
          /\ prep' = IF claim = w THEN "uncertain" ELSE prep
          /\ op.attempted
      BY <1>6 DEF MarkUncertain, Active, IInv, Pasts, Behind
    <2>2. op'.attempted = op.attempted
      BY <1>6 DEF MarkUncertain, IInv, TypeOK
    <2>3. claim = w => prep \in {"preparing", "uncertain"}
      BY <2>1 DEF IInv, Holders, HolderKnows
    <2> QED BY <2>1, <2>2, <2>3 DEF Stage
  <1>7. CASE Confirm(w)
    <2>1. CASE UNCHANGED <<op, prep>>
      BY <1>7, <2>1, QuietStutters DEF Confirm, Quiet
    <2>2. CASE claim = w /\ prep' = "prepared"
      <3>1. /\ posts = 1 /\ posts' = posts /\ op.attempted
            /\ prep \in {"preparing", "uncertain"}
        BY <1>7, <2>2 DEF Confirm, IInv, Pasts, Behind, Holders, HolderKnows,
                          Active
      <3>2. Stage = "reserving" /\ Stage' = "reserved"
        BY <2>2, <3>1 DEF Stage
      <3> QED BY <3>1, <3>2 DEF Promise!Next, Promise!Reserve
    <2> QED BY <1>7, <2>1, <2>2 DEF Confirm
  <1>8. CASE RecordFailure(w)
    <2>1. UNCHANGED <<request, op, posts>> /\ Active(w) /\ pc[w] = "failing"
      BY <1>8 DEF RecordFailure, Active
    <2>2. CASE claim = w /\ outcome[w] = "failed"
      <3>1. prep' = "failed" /\ op.status = "none"
        BY <1>8, <2>2 DEF RecordFailure, IInv, Holders, HolderKnows, Active
      <3>2. ~op.attempted
        BY <3>1 DEF IInv, Rows, LedgerAgrees
      <3>3. Stage = "open" /\ Stage' = "closed"
        BY <2>1, <2>2, <3>1, <3>2, HolderIsOpen DEF Stage
      <3> QED BY <2>1, <3>3 DEF Promise!Next, Promise!Close
    <2>3. CASE claim = w /\ outcome[w] = "requires_review"
      <3>1. /\ prep' = "requires_review"
            /\ prep \in {"preparing", "uncertain"}
        BY <1>8, <2>3 DEF RecordFailure, IInv, Holders, HolderKnows, Active
      <3>2. CASE op.attempted
        BY <2>1, <3>1, <3>2 DEF Stage
      <3>3. CASE ~op.attempted
        <4>1. Stage = "open" /\ Stage' = "closed"
          BY <2>1, <2>3, <3>1, <3>3, HolderIsOpen DEF Stage
        <4> QED BY <2>1, <4>1 DEF Promise!Next, Promise!Close
      <3> QED BY <3>2, <3>3
    <2>4. CASE claim # w \/ outcome[w] = "keep"
      BY <1>8, <2>1, <2>4, QuietStutters DEF RecordFailure, Quiet
    <2>5. outcome[w] \in Outcomes
      BY DEF IInv, TypeOK
    <2> QED BY <2>2, <2>3, <2>4, <2>5
  <1> QED BY <1>1, <1>2, <1>3, <1>4, <1>5, <1>6, <1>7, <1>8 DEF Step

LEMMA NextPromise == IInv /\ [Next]_vars => [Promise!Next]_<<Stage, posts>>
  <1> SUFFICES ASSUME IInv, [Next]_vars
               PROVE  [Promise!Next]_<<Stage, posts>>
    OBVIOUS
  <1> USE DEF row, ledger, provider
  <1>1. ASSUME NEW w \in Workers, Step(w)
        PROVE  [Promise!Next]_<<Stage, posts>>
    BY <1>1, StepPromise
  <1>2. ASSUME NEW w \in Workers, NEW resume \in BOOLEAN, Claim(w, resume)
        PROVE  [Promise!Next]_<<Stage, posts>>
    <2>1. /\ UNCHANGED <<request, op, posts>>
          /\ prep \notin {"prepared", "failed"}
          /\ prep = "requires_review" => op.attempted
          /\ prep' \notin {"prepared", "failed", "requires_review"}
      BY <1>2 DEF Claim, ClaimGuard
    <2> QED BY <2>1 DEF Stage
  <1>3. ASSUME NEW w \in Workers, AttemptAnswerLost(w)
        PROVE  [Promise!Next]_<<Stage, posts>>
    <2>1. AttemptMade(w) /\ Active(w) /\ UNCHANGED <<prep, posts>>
      BY <1>3 DEF AttemptAnswerLost, AttemptGuard, Fenced, AttemptMade, Active
    <2>2. Stage = "open"
      BY <2>1, HolderIsOpen DEF AttemptMade
    <2>3. op'.attempted = TRUE
      BY <2>1 DEF AttemptMade, IInv, TypeOK
    <2>4. Stage' = "reserving"
      BY <2>1, <2>2, <2>3 DEF Stage
    <2> QED BY <2>1, <2>2, <2>4 DEF Promise!Next, Promise!Commit
  <1>4. ASSUME NEW w \in Workers, Fault(w) \/ Crash(w)
        PROVE  [Promise!Next]_<<Stage, posts>>
    BY <1>4, QuietStutters DEF Fault, Crash, Quiet
  <1>5. CASE AdminReject \/ AdminAccept
    <2>1. /\ request = "submitted"
          /\ \/ request' = "rejected"
             \/ prep = "none" /\ prep' = prep /\ request' = "accepted"
          /\ prep' = IF prep = "none" THEN "none" ELSE "failed"
          /\ UNCHANGED <<op, posts>>
      BY <1>5 DEF AdminReject, AdminAccept
    <2>2. op.status = "none" /\ ~op.attempted /\ prep # "prepared"
      BY <2>1 DEF IInv, Rows, LedgerAgrees, PreparedIsReserved
    <2>3. Stage \in {"open", "closed"}
      BY <2>2 DEF Stage
    <2>4. CASE request' = "rejected"
      <3>1. Stage' = "closed"
        BY <2>1, <2>2, <2>4 DEF Stage
      <3> QED BY <2>1, <2>3, <3>1 DEF Promise!Next, Promise!Close
    <2>5. CASE request' = "accepted"
      BY <2>1, <2>5 DEF Stage
    <2> QED BY <2>1, <2>4, <2>5
  <1>6. CASE \/ DeliverPost \/ LosePost \/ StaffAnnuls \/ StaffReplaces
             \/ LeaseExpires \/ Tick \/ UNCHANGED vars
    BY <1>6, QuietStutters DEF DeliverPost, LosePost, StaffAnnuls,
         StaffReplaces, LeaseExpires, Tick, vars, Quiet
  <1> QED BY <1>1, <1>2, <1>3, <1>4, <1>5, <1>6 DEF Next, Environment

\* Whatever workers, administrators and the provider do, a purchase behaves
\* as PurchasePromise says: decided once, asked once, reserved after asking.
THEOREM KeepsPromise == Spec => ImplementsPromise
  <1>1. Init => Promise!Init
    BY DEF Init, Promise!Init, Stage
  <1>2. IInv /\ [Next]_vars => [Promise!Next]_<<Stage, posts>>
    BY NextPromise
  <1> QED BY <1>1, <1>2, Invariance, PTL
          DEF Spec, ImplementsPromise, Promise!Spec

-----------------------------------------------------------------------------
(* An order annulled before a claim is not confirmed by it *)

\* Numbers of orders only grow; who began with the order annulled meets it
\* annulled, or meets another one than the one it has stored.
KnowsAnnulled(w) ==
  /\ mine[w].saved.order <= dux.id
  /\ mine[w].annulled /\ pc[w] # "idle" => dux.id # 0
  /\ mine[w].annulled /\ pc[w] \in {"claimed", "sent"} /\ dux.active
       => mine[w].saved.order < dux.id
  /\ pc[w] = "confirm" => ~mine[w].annulled

AnnulledKnown == progress.order <= dux.id
                 /\ \A w \in Workers : KnowsAnnulled(w)

LEMMA AnnulledStep ==
  ASSUME TypeOK, AnnulledKnown, NEW w \in Workers, Step(w)
  PROVE  AnnulledKnown'
  <1> USE DEF row, ledger, provider, clocks, Goto, Throw, AnnulledKnown,
              KnowsAnnulled
  <1>0. dux.id \in 0..2 /\ \A v \in Workers : mine[v].saved.order \in 0..2
    BY DEF TypeOK, Progress
  <1>1. CASE \/ ReadOperation(w) \/ Unpublished(w) \/ QuoteRefused(w)
             \/ QuoteInadmissible(w)
             \/ CreateDraft(w) \/ CheckQuoteAge(w) \/ ExpireDraft(w)
             \/ Attempt(w) \/ SendPost(w) \/ PostAnswered(w) \/ PostUnknown(w)
             \/ MarkUncertain(w) \/ Confirm(w) \/ CloseUnpublishedDraft(w)
             \/ RecordFailure(w)
    <2>1. /\ UNCHANGED <<progress, dux, mine>>
          /\ pc'[w] \notin {"idle", "confirm", "claimed"}
          /\ pc'[w] = "sent" => pc[w] = "claimed"
          /\ pc[w] # "idle"
          /\ \A v \in Workers \ {w} : pc'[v] = pc[v]
      BY <1>1 DEF TypeOK, ReadOperation, Unpublished, QuoteRefused,
           QuoteInadmissible,
           CreateDraft, CheckQuoteAge, ExpireDraft, Attempt, SendPost,
           PostAnswered, PostUnknown, MarkUncertain, Confirm,
           CloseUnpublishedDraft, RecordFailure
    <2> QED BY <2>1
  <1>2. ASSUME NEW p \in Progress, NEW next, NEW result,
               SaveProgress(w, p, next, result), p.order <= dux.id,
               next \in {"leaving", "failing", "draft"}, pc[w] # "idle",
               UNCHANGED <<mine, dux>>
        PROVE  AnnulledKnown'
    BY <1>2 DEF SaveProgress, TypeOK
  <1>3. CASE QuoteLine(w)
    <2> DEFINE p == [Empty EXCEPT !.quote =
                       [Kept(w) EXCEPT !.lines = Append(@, epoch)]]
    <2>1. p \in Progress /\ p.order <= dux.id
      BY <1>0, QuoteLineType, EmptyOrder
    <2>2. SaveProgress(w, p, "leaving", "keep")
      BY <1>3 DEF QuoteLine
    <2> HIDE DEF p
    <2> QED BY <1>2, <1>3, <2>1, <2>2 DEF QuoteLine
  <1>4. CASE PriceOffer(w)
    <2>1. PICK promo \in BOOLEAN :
            LET p == [Empty EXCEPT !.quote = [Kept(w) EXCEPT !.promo = promo]]
            IN /\ mine' = [mine EXCEPT ![w].saved = p]
               /\ \/ SaveProgress(w, p, "draft", "keep")
                  \/ /\ pc' = [pc EXCEPT ![w] = "draft"]
                     /\ UNCHANGED progress
      BY <1>4 DEF PriceOffer
    <2> DEFINE p == [Empty EXCEPT !.quote = [Kept(w) EXCEPT !.promo = promo]]
    <2>2. p.order = 0
      BY EmptyOrder
    <2>3. /\ mine' = [mine EXCEPT ![w].saved = p]
          /\ \/ SaveProgress(w, p, "draft", "keep")
             \/ /\ pc' = [pc EXCEPT ![w] = "draft"]
                /\ UNCHANGED progress
      BY <2>1
    <2> HIDE DEF p
    <2>4. /\ mine'[w].saved = p /\ mine'[w].annulled = mine[w].annulled
          /\ \A v \in Workers \ {w} : mine'[v] = mine[v] /\ pc'[v] = pc[v]
          /\ pc'[w] \in {"draft", "failing"} /\ pc[w] # "idle"
          /\ progress' \in {p, progress} /\ UNCHANGED dux
      BY <1>4, <2>3 DEF PriceOffer, SaveProgress, TypeOK
    <2> QED BY <1>0, <2>2, <2>4
  <1>5. CASE FindOrder(w)
    <2>1. CASE UNCHANGED mine
      BY <1>5, <2>1 DEF FindOrder, TypeOK
    <2>2. CASE /\ mine' = [mine EXCEPT ![w].saved.order = dux.id]
               /\ pc' = [pc EXCEPT ![w] = "keep_order"]
      <3>1. /\ mine'[w].saved.order = dux.id
            /\ mine'[w].annulled = mine[w].annulled
            /\ \A v \in Workers \ {w} : mine'[v] = mine[v] /\ pc'[v] = pc[v]
            /\ pc'[w] = "keep_order" /\ pc[w] = "sent"
            /\ UNCHANGED <<progress, dux>>
        BY <1>5, <2>2 DEF FindOrder, TypeOK, Progress
      <3> QED BY <1>0, <3>1
    <2> QED BY <1>5, <2>1, <2>2 DEF FindOrder
  <1>6. CASE KeepOrder(w)
    <2>1. mine[w].saved \in Progress
      BY DEF TypeOK
    <2> QED BY <1>2, <1>6, <2>1 DEF KeepOrder
  <1>7. CASE DropStockEvidence(w)
    <2> DEFINE p == mine[w].saved
               q == Evidence(p, p.order, 0, 0, p.review)
    <2>1. p \in Progress /\ p.order \in DuxIds /\ p.review \in DuxIds
      BY DEF TypeOK, Progress
    <2>2. q \in Progress
      BY <2>1, EvidenceType
    <2>3. q.order = p.order
      BY <2>1 DEF Evidence, Progress
    <2>4. SaveProgress(w, q, "leaving", "keep") /\ UNCHANGED <<mine, dux>>
          /\ pc[w] = "sent"
      BY <1>7 DEF DropStockEvidence
    <2>5. q.order <= dux.id
      BY <2>3
    <2> HIDE DEF q
    <2> QED BY <1>2, <2>2, <2>4, <2>5
  <1>8. CASE ReadStock(w)
    <2> DEFINE p == mine[w].saved
               first == IF p.after = 0 THEN epoch ELSE p.afterAt
               good == Evidence(p, p.order, p.after + 1, first, 0)
               bad == Evidence(p, 0, 0, 0, p.order)
    <2>1. /\ good \in Progress /\ good.order = p.order
          /\ bad \in Progress /\ bad.order = 0
      BY StockEvidenceType
    <2>2. /\ \/ SaveProgress(w, good, "leaving", "keep")
             \/ SaveProgress(w, bad, "failing", "requires_review")
          /\ pc[w] = "sent" /\ UNCHANGED <<mine, dux>>
      BY <1>8 DEF ReadStock
    <2>3. p.order <= dux.id
      OBVIOUS
    <2> HIDE DEF p, good, bad
    <2>4. CASE SaveProgress(w, good, "leaving", "keep")
      BY <1>2, <2>1, <2>2, <2>3, <2>4
    <2>5. CASE SaveProgress(w, bad, "failing", "requires_review")
      BY <1>0, <1>2, <2>1, <2>2, <2>5
    <2> QED BY <2>2, <2>4, <2>5
  <1>9. CASE ReconfirmOrder(w)
    <2>1. pc'[w] \in {"confirm", "failing"} /\ pc[w] = "sent"
          /\ UNCHANGED <<progress, dux, mine>>
          /\ \A v \in Workers \ {w} : pc'[v] = pc[v]
      BY <1>9 DEF ReconfirmOrder, TypeOK
    <2>2. pc'[w] = "confirm" => ~mine[w].annulled
      BY <1>0, <1>9 DEF ReconfirmOrder, SameOrder, TypeOK
    <2> QED BY <2>1, <2>2
  <1>10. CASE Leave(w)
    <2>1. /\ pc'[w] = "idle" /\ mine'[w].saved.order = 0
          /\ \A v \in Workers \ {w} : pc'[v] = pc[v] /\ mine'[v] = mine[v]
          /\ UNCHANGED <<progress, dux>>
      BY <1>10 DEF Leave, Gone, Nothing, Empty, TypeOK
    <2> QED BY <1>0, <2>1
  <1> QED BY <1>1, <1>3, <1>4, <1>5, <1>6, <1>7, <1>8, <1>9, <1>10 DEF Step

LEMMA AnnulledNext == TypeOK /\ AnnulledKnown /\ [Next]_vars => AnnulledKnown'
  <1> SUFFICES ASSUME TypeOK, AnnulledKnown, [Next]_vars PROVE AnnulledKnown'
    OBVIOUS
  <1> USE DEF row, ledger, provider, clocks, local, AnnulledKnown, KnowsAnnulled
  <1>0. dux.id \in 0..2 /\ \A v \in Workers : mine[v].saved.order \in 0..2
    BY DEF TypeOK, Progress
  <1>1. ASSUME NEW w \in Workers, Step(w) PROVE AnnulledKnown'
    BY <1>1, AnnulledStep
  <1>2. ASSUME NEW w \in Workers, NEW resume \in BOOLEAN, Claim(w, resume)
        PROVE  AnnulledKnown'
    <2>1. /\ mine'[w].saved = progress /\ pc'[w] = "claimed"
          /\ mine'[w].annulled => dux.id # 0 /\ ~dux.active
          /\ \A v \in Workers \ {w} : pc'[v] = pc[v] /\ mine'[v] = mine[v]
          /\ UNCHANGED <<progress, dux>>
      BY <1>2 DEF Claim, TypeOK
    <2> QED BY <2>1
  <1>3. ASSUME NEW w \in Workers, AttemptAnswerLost(w) \/ Fault(w)
        PROVE  AnnulledKnown'
    <2>1. /\ UNCHANGED <<progress, dux, mine>>
          /\ pc'[w] \in {"failing", "leaving"} /\ pc[w] # "idle"
          /\ \A v \in Workers \ {w} : pc'[v] = pc[v]
      BY <1>3 DEF AttemptAnswerLost, Fault, Throw, Goto, TypeOK
    <2> QED BY <2>1
  <1>4. ASSUME NEW w \in Workers, Crash(w) PROVE AnnulledKnown'
    <2>1. /\ pc'[w] = "idle" /\ mine'[w].saved.order = 0
          /\ \A v \in Workers \ {w} : pc'[v] = pc[v] /\ mine'[v] = mine[v]
          /\ UNCHANGED <<progress, dux>>
      BY <1>4 DEF Crash, Gone, Nothing, Empty, TypeOK
    <2> QED BY <1>0, <2>1
  <1>5. CASE DeliverPost \/ StaffReplaces
    <2>1. /\ UNCHANGED <<progress, pc, mine>> /\ dux'.id = dux.id + 1
          /\ dux.id = 0 \/ ~dux.active
      BY <1>5 DEF DeliverPost, StaffReplaces
    <2>2. progress.order \in 0..2
      BY DEF TypeOK, Progress
    <2> QED BY <1>0, <2>1, <2>2
  <1>6. CASE StaffAnnuls
    <2>1. /\ UNCHANGED <<progress, pc, mine>> /\ dux'.id = dux.id
          /\ dux'.active = FALSE
      BY <1>6 DEF StaffAnnuls, TypeOK
    <2> QED BY <2>1
  <1>7. CASE \/ AdminReject \/ AdminAccept \/ LosePost \/ LeaseExpires \/ Tick
             \/ UNCHANGED vars
    BY <1>7 DEF AdminReject, AdminAccept, LosePost, LeaseExpires, Tick, vars
  <1> QED BY <1>1, <1>2, <1>3, <1>4, <1>5, <1>6, <1>7 DEF Next, Environment

\* Reading the order again before charging is enough: a worker that began
\* when the order was annulled never makes the purchase prepared.
THEOREM AnnulledIsNotConfirmed == Spec => AnnulledNotConfirmed
  <1>1. Init => AnnulledKnown
    BY DEF Init, AnnulledKnown, KnowsAnnulled, Nothing, Empty
  <1>2. TypeOK /\ AnnulledKnown /\ [Next]_vars => AnnulledKnown'
    BY AnnulledNext
  <1>3. TypeOK /\ AnnulledKnown /\ [Next]_vars
        => [prep # "prepared" /\ prep' = "prepared" => ~mine[claim].annulled]_vars
    <2> SUFFICES ASSUME TypeOK, AnnulledKnown, [Next]_vars,
                        prep # "prepared", prep' = "prepared"
                 PROVE  ~mine[claim].annulled
      OBVIOUS
    <2>1. ASSUME NEW w \in Workers, Step(w) PROVE Confirm(w)
      <3>1. CASE prep' = prep
        BY <3>1
      <3>2. CASE MarkUncertain(w) \/ CloseUnpublishedDraft(w) \/ ExpireDraft(w)
        BY <3>2 DEF MarkUncertain, CloseUnpublishedDraft, ExpireDraft
      <3>3. CASE RecordFailure(w)
        <4>1. outcome[w] \in Outcomes
          BY DEF TypeOK
        <4> QED BY <3>3, <4>1 DEF RecordFailure
      <3>4. CASE \/ ReadOperation(w) \/ Unpublished(w) \/ QuoteLine(w)
                 \/ QuoteRefused(w) \/ QuoteInadmissible(w) \/ PriceOffer(w)
                 \/ CreateDraft(w) \/ CheckQuoteAge(w)
        BY <3>4 DEF ReadOperation, Unpublished, QuoteLine, QuoteRefused,
             QuoteInadmissible,
             PriceOffer, CreateDraft, CheckQuoteAge, row
      <3>5. CASE \/ Attempt(w) \/ SendPost(w) \/ PostAnswered(w)
                 \/ PostUnknown(w) \/ FindOrder(w) \/ KeepOrder(w)
                 \/ DropStockEvidence(w) \/ ReadStock(w) \/ ReconfirmOrder(w)
                 \/ Leave(w)
        BY <3>5 DEF Attempt, SendPost, PostAnswered, PostUnknown, FindOrder,
             KeepOrder, DropStockEvidence, ReadStock, ReconfirmOrder, Leave,
             row
      <3> QED BY <2>1, <3>2, <3>3, <3>4, <3>5 DEF Step
    <2>2. ASSUME NEW w \in Workers, NEW resume \in BOOLEAN, Claim(w, resume)
          PROVE  FALSE
      BY <2>2 DEF Claim
    <2>3. ASSUME NEW w \in Workers,
                 AttemptAnswerLost(w) \/ Fault(w) \/ Crash(w)
          PROVE  FALSE
      BY <2>3 DEF AttemptAnswerLost, Fault, Crash, row
    <2>4. ASSUME Environment \/ UNCHANGED vars PROVE FALSE
      BY <2>4 DEF Environment, AdminReject, AdminAccept, DeliverPost,
           LosePost, StaffAnnuls, StaffReplaces, LeaseExpires, Tick, vars, row
    <2>5. PICK w \in Workers : Confirm(w)
      BY <2>1, <2>2, <2>3, <2>4 DEF Next
    <2>6. claim = w /\ pc[w] = "confirm"
      BY <2>5 DEF Confirm, Fenced
    <2> QED BY <2>6 DEF AnnulledKnown, KnowsAnnulled
  <1> QED BY <1>1, <1>2, <1>3, TypeCorrect, PTL DEF Spec, AnnulledNotConfirmed

=============================================================================
