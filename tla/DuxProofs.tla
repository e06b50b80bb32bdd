------------------------------ MODULE DuxProofs ------------------------------
(***************************************************************************)
(* Theorems about the programs that carry a synchronisation (DuxRelay), the*)
(* editorial links (EditorialLinks), the connection with Mercado Libre     *)
(* (MercadoLibreConnection), the gate of the requests to Dux               *)
(* (DuxRequestGate), one reading of Dux (DuxReads) and the catalogue that  *)
(* is published of it (ProductCatalog): for every number of requests,      *)
(* callers, codes, pages, pairs of tokens, administrators, pictures and    *)
(* faults, every size of a page, budget, time and deadline, every skew the *)
(* interval leaves room for and every length of the queue.                 *)
(***************************************************************************)
EXTENDS DuxRequestGate, ProductCatalog, DuxRelay, EditorialLinks, MercadoLibreConnection, DuxReads,
        FiniteSetTheorems, SequenceTheorems, TLAPS

-----------------------------------------------------------------------------
(* The programs that carry a synchronisation: their invariant *)

\* What a runner heard of is behind what the operation passed, it reports once
\* it is over, and keeps what it reported true.
RelayInv ==
  /\ RelayTypeOK /\ RelayIsHonest
  /\ stage <= Publication /\ seen <= Len(Checkpoints)
  /\ phase # "over" => outcome = "none"

LEMMA Reported ==
  /\ Len(Checkpoints) \in Nat /\ Publication \in Nat /\ Publication >= 1
  /\ DOMAIN Checkpoints = 1..Len(Checkpoints)
  /\ \A i \in 1..Len(Checkpoints) : Checkpoints[i] \in CheckpointRecords
  BY RelayAssumption DEF RelayAssumption, Publication

\* A runner never finds the next report to go back on the one it heard of.
LEMMA ReportsFollow ==
  ASSUME NEW s \in 1..Len(Checkpoints), NEW old \in Nat, old <= s
  PROVE  ProgressFollows(s, old)
  <1>1. Checkpoints[s].total = -1 \/ Checkpoints[s].processed <= Checkpoints[s].total
    BY RelayAssumption, Reported DEF RelayAssumption
  <1>2. old # 0 => GoesOn(Checkpoints[s], Checkpoints[old])
    BY RelayAssumption, Reported DEF RelayAssumption
  <1> QED BY <1>1, <1>2 DEF ProgressFollows, GoesOn

\* The work of a request takes the operation forward, and not past its end.
LEMMA WorkGoesOn ==
  ASSUME RelayInv, NEW s \in Worked
  PROVE  s \in Nat /\ stage <= s /\ s <= Publication
  <1> DEFINE ahead == IF stage = 0 THEN 2 ELSE stage + 1
  <1>1. stage \in Nat /\ ahead \in Nat /\ stage <= Publication
    BY DEF RelayInv, RelayTypeOK
  <1>2. s \in stage..Smaller(Publication, ahead)
    BY DEF Worked
  <1> HIDE DEF ahead
  <1> QED BY <1>1, <1>2, Reported DEF Smaller

\* An answer comes within the time that is left.
LEMMA AnswerFits ==
  ASSUME RelayInv, NEW t \in Durations
  PROVE  elapsed + t \in Nat /\ elapsed + t <= Deadline
  <1>1. Deadline \in Nat /\ Timeout \in Nat
    BY RelayAssumption DEF RelayAssumption
  <1>2. elapsed \in Nat /\ elapsed <= Deadline
    BY DEF RelayInv, RelayTypeOK, RelayIsHonest, RelayIsBounded
  <1>3. t \in 0..Smaller(Timeout, Remaining)
    BY DEF Durations
  <1> QED BY <1>1, <1>2, <1>3 DEF Smaller, Remaining

LEMMA RelayStarts == RelayInit => RelayInv
  <1> SUFFICES ASSUME RelayInit PROVE RelayInv
    OBVIOUS
  <1>1. Budget[runner] \in Nat /\ Deadline \in Nat
    BY RelayAssumption DEF RelayInit, RelayAssumption
  <1> QED BY <1>1, Reported
          DEF RelayInit, RelayInv, RelayTypeOK, RelayIsHonest, ReportsAreTrue, RelayIsBounded

LEMMA RelayGoesOn == RelayInv /\ [RelayNext]_relayVars => RelayInv'
  <1> SUFFICES ASSUME RelayInv, [RelayNext]_relayVars PROVE RelayInv'
    OBVIOUS
  <1> USE DEF RelayInv, RelayTypeOK, RelayIsHonest, ReportsAreTrue, RelayIsBounded
  <1>0. /\ Deadline \in Nat /\ Breath \in Nat /\ Budget[runner] \in Nat
        /\ RetryWaits[runner] \subseteq Nat
    BY RelayAssumption DEF RelayAssumption
  <1>1. CASE Request
    BY <1>0, <1>1 DEF Request, End, Remaining
  <1>2. CASE Resume
    <2>1. elapsed' \in Nat /\ elapsed' <= Deadline
      BY <1>0, <1>2 DEF Resume, Remaining, Smaller
    <2> QED BY <1>2, <2>1 DEF Resume, End
  <1>3. CASE LateWork
    BY <1>3, WorkGoesOn DEF LateWork
  <1>4. CASE Progress
    <2> PICK s \in Worked, t \in Durations :
          /\ s \in 1..Len(Checkpoints)
          /\ stage' = s /\ elapsed' = elapsed + t
          /\ IF OutOfTime(t) THEN End("deadline") /\ UNCHANGED <<seen, attempt, rest>>
             ELSE IF ~ProgressFollows(s, seen) THEN End("invalid") /\ UNCHANGED <<seen, attempt, rest>>
             ELSE /\ seen' = s /\ attempt' = 1
                  /\ IF runner = "cron" /\ requests >= Budget[runner]
                     THEN End("steps") /\ UNCHANGED rest
                     ELSE Rest(Breath) /\ UNCHANGED outcome
      BY <1>4 DEF Progress
    <2>1. ProgressFollows(s, seen) /\ s \in Nat /\ stage <= s /\ s <= Publication
      BY WorkGoesOn, ReportsFollow
    <2>2. elapsed' \in Nat /\ elapsed' <= Deadline
      BY AnswerFits
    <2>3. UNCHANGED <<runner, requests, late>> /\ outcome = "none"
      BY <1>4 DEF Progress
    <2>4. CASE OutOfTime(t)
      BY <2>1, <2>2, <2>3, <2>4 DEF End
    <2>5. CASE ~OutOfTime(t)
      BY <1>0, <2>1, <2>2, <2>3, <2>5 DEF End, Rest
    <2> QED BY <2>4, <2>5
  <1>5. CASE Completed
    <2>1. Publication \in Worked /\ stage' = Publication /\ elapsed' \in Nat /\ elapsed' <= Deadline
      BY <1>5, AnswerFits DEF Completed
    <2> QED BY <1>5, <2>1, Reported DEF Completed, End
  <1>6. CASE Refused
    <2>1. elapsed' \in Nat /\ elapsed' <= Deadline
      BY <1>6, AnswerFits DEF Refused
    <2> QED BY <1>6, <2>1 DEF Refused, End, Refusals
  <1>7. CASE Uncertain
    <2>1. /\ stage' \in Nat /\ stage <= stage' /\ stage' <= Publication
          /\ elapsed' \in Nat /\ elapsed' <= Deadline
      BY <1>7, AnswerFits, WorkGoesOn DEF Uncertain
    <2> QED BY <1>0, <1>7, <2>1 DEF Uncertain, Retry, End, Rest
  <1>8. CASE Garbled
    <2>1. /\ stage' \in Nat /\ stage <= stage' /\ stage' <= Publication
          /\ elapsed' \in Nat /\ elapsed' <= Deadline
      BY <1>8, AnswerFits, WorkGoesOn DEF Garbled
    <2> QED BY <1>8, <2>1 DEF Garbled, End
  <1>9. CASE Lost
    <2>1. /\ stage' \in Nat /\ stage <= stage' /\ stage' <= Publication
          /\ elapsed' \in Nat /\ elapsed' <= Deadline /\ late' \in Nat
      BY <1>9, AnswerFits, WorkGoesOn DEF Lost
    <2> QED BY <1>0, <1>9, <2>1 DEF Lost, Retry, End, Rest
  <1>10. CASE UNCHANGED relayVars
    BY <1>10 DEF relayVars
  <1> QED BY <1>1, <1>2, <1>3, <1>4, <1>5, <1>6, <1>7, <1>8, <1>9, <1>10 DEF RelayNext

\* Whatever is lost, retried or done late, both runners report a publication
\* only when there was one, keep to their requests and their time, and never
\* take what the endpoint reports for impossible (dux-cron.ts,
\* run-dux-reconcile.mjs).
THEOREM RunnersAreHonest == RelaySpec => []RelayIsHonest
  <1>1. RelayInv => RelayIsHonest
    BY DEF RelayInv
  <1> QED BY <1>1, RelayStarts, RelayGoesOn, PTL DEF RelaySpec

-----------------------------------------------------------------------------
(* The editorial links: their invariant *)

\* The rows of the bulk are the ones approved.
BulkIsAsApproved ==
  \A c \in Cases : \A i \in DOMAIN links[c] : links[c][i].batch = "links" =>
    c \in Bulk /\ links[c][i].local = Confirmed[c] /\ links[c][i].use = ConfirmedUse[c]

\* The cases of the bulk are never resolved, and none is there before its import.
CasesStand ==
  /\ \A c \in Bulk : triage[c].state \in {"absent", "auto_confirmed"}
  /\ "triage" \notin imports => \A c \in Cases : triage[c].state = "absent" /\ triage[c].version = 0

\* What a request that goes on found.
RequestsStand ==
  \A a \in Reviewers :
    /\ at[a] = "stored" => "links" \in imports
    /\ at[a] = "review" => /\ review[a].decision # "deactivate" => review[a].code \in Manual
                           /\ review[a].state # "absent"

\* What links a code has and how its case stands decide what is shown of it.
Stands(c, rows, case) ==
  LET on == {i \in DOMAIN rows : rows[i].active} IN
    /\ \A i, j \in on : i = j
    /\ case.state = "approved" =>
         /\ c \in Manual /\ case.local \in Candidates[c] /\ case.link \in on
         /\ rows[case.link].local = case.local /\ rows[case.link].use = case.use
    /\ case.state \in {"pending", "rejected", "discarded"} => on = {}
    /\ case.state \in {"auto_confirmed", "absent"} => \A i \in on : rows[i].batch = "links"

\* No page is lent to two codes.
PagesApart ==
  \A c, d \in Cases : \A i \in ActiveRows(links, c), j \in ActiveRows(links, d) :
    links[c][i].local = links[d][j].local => c = d

LinksInv ==
  /\ LinksTypeOK /\ PagesApart /\ \A c \in Cases : Stands(c, links[c], triage[c])
  /\ AnswersAreKept /\ BulkIsAsApproved /\ CasesStand /\ RequestsStand

\* The manifests: the codes of the bulk are cases and none of them is manual.
LEMMA Manifests ==
  /\ Bulk \subseteq Cases /\ Manual \subseteq Cases /\ \A c \in Manual : c \notin Bulk
  /\ \A c \in Bulk : Confirmed[c] \in Locals /\ ConfirmedUse[c] \subseteq Parts
  /\ \A c, d \in Bulk : Confirmed[c] = Confirmed[d] => c = d
  /\ Cases # {} /\ Locals # {} /\ \A c \in Cases : Candidates[c] \subseteq Locals
  <1>1. /\ Confirmed \in [Bulk -> Locals] /\ ConfirmedUse \in [Bulk -> SUBSET Parts]
        /\ Candidates \in [Cases -> SUBSET Locals] /\ Manual \subseteq Cases \ Bulk
        /\ Bulk \subseteq Cases /\ \A c, d \in Bulk : Confirmed[c] = Confirmed[d] => c = d
        /\ Cases # {} /\ Locals # {}
    BY LinksAssumption DEF LinksAssumption
  <1>2. \A c \in Bulk : Confirmed[c] \in Locals /\ ConfirmedUse[c] \in SUBSET Parts
    BY <1>1
  <1>3. \A c \in Cases : Candidates[c] \in SUBSET Locals
    BY <1>1
  <1> QED BY <1>1, <1>2, <1>3

LEMMA ConfirmedRows ==
  ASSUME NEW c \in Bulk
  PROVE  /\ ConfirmedRow(c) \in LinkRows
         /\ ConfirmedRow(c).local = Confirmed[c] /\ ConfirmedRow(c).use = ConfirmedUse[c]
         /\ ConfirmedRow(c).batch = "links" /\ ConfirmedRow(c).active
  BY Manifests DEF ConfirmedRow, LinkRows, Batches

LEMMA RowTypes ==
  ASSUME LinksTypeOK, NEW c \in Cases
  PROVE  /\ links[c] \in Seq(LinkRows) /\ DOMAIN links[c] = 1..Len(links[c]) /\ Len(links[c]) \in Nat
         /\ \A i \in DOMAIN links[c] : links[c][i] \in LinkRows
         /\ triage[c] \in CaseRows
  BY DEF LinksTypeOK

\* A row appended to the rows of a code.
LEMMA Appended ==
  ASSUME NEW rows \in Seq(LinkRows), NEW row \in LinkRows
  PROVE  /\ Append(rows, row) \in Seq(LinkRows)
         /\ DOMAIN Append(rows, row) = DOMAIN rows \cup {Len(rows) + 1}
         /\ Len(rows) + 1 \notin DOMAIN rows
         /\ Append(rows, row)[Len(rows) + 1] = row
         /\ \A i \in DOMAIN rows : Append(rows, row)[i] = rows[i]
  OBVIOUS

LEMMA LinksStart == LinksInit => LinksInv
  <1> SUFFICES ASSUME LinksInit PROVE LinksInv
    OBVIOUS
  <1>1. LinksTypeOK
    <2>1. links \in [Cases -> Seq(LinkRows)]
      BY DEF LinksInit
    <2>2. triage \in [Cases -> CaseRows]
      BY DEF LinksInit, CaseRow, CaseRows, States
    <2>3. review \in [Reviewers -> Reviews]
      <3>1. NoReview.code \in Cases /\ NoReview.local \in Locals
        BY Manifests DEF NoReview
      <3>2. NoReview \in Reviews
        BY <3>1 DEF NoReview, Reviews, Decisions, States
      <3> QED BY <3>2 DEF LinksInit
    <2> QED BY <2>1, <2>2, <2>3 DEF LinksInit, LinksTypeOK
  <1>2. \A c \in Cases : links[c] = << >> /\ triage[c].state = "absent" /\ triage[c].version = 0
    BY DEF LinksInit, CaseRow
  <1>3. \A c \in Cases : DOMAIN links[c] = {}
    BY <1>2
  <1>4. PagesApart /\ \A c \in Cases : Stands(c, links[c], triage[c])
    BY <1>2, <1>3 DEF PagesApart, ActiveRows, Stands
  <1>5. AnswersAreKept /\ BulkIsAsApproved /\ CasesStand /\ RequestsStand
    BY <1>2, <1>3, Manifests
       DEF LinksInit, AnswersAreKept, BulkIsAsApproved, CasesStand, RequestsStand
  <1> QED BY <1>1, <1>4, <1>5 DEF LinksInv

\* A step that touches neither the rows nor the cases.
LEMMA OnlyRequestsHold ==
  ASSUME LinksInv, UNCHANGED <<imports, links, triage, told>>,
         vouched' \subseteq imports, LinksTypeOK', RequestsStand'
  PROVE  LinksInv'
  <1>1. PagesApart' /\ \A c \in Cases : Stands(c, links[c], triage[c])'
    BY DEF LinksInv, PagesApart, ActiveRows
  <1>2. AnswersAreKept' /\ BulkIsAsApproved' /\ CasesStand'
    BY DEF LinksInv, AnswersAreKept, BulkIsAsApproved, CasesStand
  <1> QED BY <1>1, <1>2 DEF LinksInv

LEMMA AskLinksHolds ==
  ASSUME LinksInv, NEW a \in Reviewers, AskLinks(a)
  PROVE  LinksInv'
  <1>1. vouched' \subseteq imports
    BY DEF AskLinks, LinksInv, AnswersAreKept
  <1>2. LinksTypeOK' /\ RequestsStand'
    BY <1>1 DEF AskLinks, LinksInv, LinksTypeOK, RequestsStand, Go
  <1> QED BY <1>1, <1>2, OnlyRequestsHold DEF AskLinks

LEMMA CheckLinksHolds ==
  ASSUME LinksInv, NEW a \in Reviewers, CheckLinks(a)
  PROVE  LinksInv'
  <1>1. \E place \in {"idle", "insert"} : Go(a, place)
    BY DEF CheckLinks
  <1>2. LinksTypeOK' /\ RequestsStand'
    BY <1>1 DEF CheckLinks, LinksInv, LinksTypeOK, RequestsStand, Go
  <1> QED BY <1>2, OnlyRequestsHold DEF CheckLinks, LinksInv, AnswersAreKept

LEMMA AssertLinksHolds ==
  ASSUME LinksInv, NEW a \in Reviewers, AssertLinks(a)
  PROVE  LinksInv'
  <1>1. vouched' \subseteq imports /\ "links" \in imports
    BY DEF AssertLinks, LinksInv, AnswersAreKept, RequestsStand
  <1>2. LinksTypeOK' /\ RequestsStand'
    BY <1>1 DEF AssertLinks, LinksInv, LinksTypeOK, RequestsStand, Go
  <1> QED BY <1>1, <1>2, OnlyRequestsHold DEF AssertLinks

LEMMA AskTriageHolds ==
  ASSUME LinksInv, NEW a \in Reviewers, AskTriage(a)
  PROVE  LinksInv'
  <1>1. vouched' \subseteq imports
    BY DEF AskTriage, LinksInv, AnswersAreKept
  <1>2. LinksTypeOK' /\ RequestsStand'
    BY <1>1 DEF AskTriage, LinksInv, LinksTypeOK, RequestsStand, Go
  <1> QED BY <1>1, <1>2, OnlyRequestsHold DEF AskTriage

LEMMA LoseHolds ==
  ASSUME LinksInv, NEW a \in Reviewers, Lose(a)
  PROVE  LinksInv'
  <1>1. NoReview \in Reviews
    <2>1. NoReview.code \in Cases /\ NoReview.local \in Locals
      BY Manifests DEF NoReview
    <2> QED BY <2>1 DEF NoReview, Reviews, Decisions, States
  <1>2. LinksTypeOK' /\ RequestsStand'
    BY <1>1 DEF Lose, LinksInv, LinksTypeOK, RequestsStand, Go
  <1> QED BY <1>2, OnlyRequestsHold DEF Lose, LinksInv, AnswersAreKept

LEMMA AskReviewHolds ==
  ASSUME LinksInv, NEW a \in Reviewers, AskReview(a)
  PROVE  LinksInv'
  <1> PICK c \in Cases, decision \in Decisions, local \in Locals, use \in SUBSET Parts :
        /\ Reviewable(c, decision)
        /\ review' = [review EXCEPT ![a] =
             [code |-> c, decision |-> decision, local |-> local, use |-> use,
              state |-> triage[c].state, version |-> triage[c].version,
              link |-> ActiveLink(links, c)]]
    BY DEF AskReview
  <1>1. ActiveLink(links, c) \in Nat
    <2>1. ActiveRows(links, c) \subseteq Nat
      BY RowTypes DEF LinksInv, ActiveRows
    <2> QED BY <2>1 DEF ActiveLink
  <1>2. LinksTypeOK'
    <2>1. triage[c].state \in States /\ triage[c].version \in Nat
      BY RowTypes DEF LinksInv, CaseRows
    <2>2. review' \in [Reviewers -> Reviews]
      BY <1>1, <2>1 DEF LinksInv, LinksTypeOK, Reviews
    <2> QED BY <2>2 DEF AskReview, LinksInv, LinksTypeOK, Go
  <1>3. RequestsStand'
    <2>1. /\ review'[a].decision # "deactivate" => review'[a].code \in Manual
          /\ review'[a].state # "absent"
      BY DEF Reviewable, LinksInv, LinksTypeOK
    <2>2. \A b \in Reviewers \ {a} : review'[b] = review[b] /\ at'[b] = at[b]
      BY DEF AskReview, LinksInv, LinksTypeOK, Go
    <2>3. at'[a] = "review" /\ imports' = imports
      BY DEF AskReview, LinksInv, LinksTypeOK, Go
    <2> QED BY <2>1, <2>2, <2>3 DEF LinksInv, RequestsStand
  <1> QED BY <1>2, <1>3, OnlyRequestsHold DEF AskReview, LinksInv, AnswersAreKept

\* One batch adds the rows of the bulk, none of which meets another.
LEMMA InsertLinksHolds ==
  ASSUME LinksInv, NEW a \in Reviewers, InsertLinks(a)
  PROVE  LinksInv'
  <1>1. CASE BulkRefused
    <2>1. /\ at' = [at EXCEPT ![a] = "idle"]
          /\ UNCHANGED <<imports, links, triage, review, vouched, told>>
      BY <1>1 DEF InsertLinks, Go
    <2>2. LinksTypeOK' /\ RequestsStand'
      BY <2>1 DEF LinksInv, LinksTypeOK, RequestsStand
    <2> QED BY <2>1, <2>2, OnlyRequestsHold DEF LinksInv, AnswersAreKept
  <1>2. CASE ~BulkRefused
    <2>1. /\ imports' = imports \cup {"links"} /\ at' = [at EXCEPT ![a] = "stored"]
          /\ links' = [c \in Cases |-> IF c \in Bulk THEN Append(links[c], ConfirmedRow(c))
                                                     ELSE links[c]]
          /\ UNCHANGED <<triage, review, vouched, told>>
      BY <1>2 DEF InsertLinks, Go
    <2>2. \A c \in Bulk : ConfirmedRow(c) \in LinkRows
      BY ConfirmedRows
    <2>3. /\ \A c \in Bulk : links'[c] = Append(links[c], ConfirmedRow(c))
          /\ \A c \in Cases : c \notin Bulk => links'[c] = links[c]
      BY <2>1, Manifests
    <2>4. ASSUME NEW c \in Bulk
          PROVE  /\ links'[c] \in Seq(LinkRows)
                 /\ DOMAIN links'[c] = DOMAIN links[c] \cup {Len(links[c]) + 1}
                 /\ Len(links[c]) + 1 \notin DOMAIN links[c]
                 /\ links'[c][Len(links[c]) + 1] = ConfirmedRow(c)
                 /\ \A i \in DOMAIN links[c] : links'[c][i] = links[c][i]
      <3>1. links[c] \in Seq(LinkRows) /\ ConfirmedRow(c) \in LinkRows
        BY <2>2, RowTypes, Manifests DEF LinksInv
      <3>2. links'[c] = Append(links[c], ConfirmedRow(c))
        BY <2>3
      <3> QED BY <3>1, <3>2, Appended
    <2>5. LinksTypeOK'
      <3>1. links' \in [Cases -> Seq(LinkRows)]
        BY <2>1, <2>2, <2>3, <2>4, RowTypes DEF LinksInv
      <3> QED BY <2>1, <3>1 DEF LinksInv, LinksTypeOK, Batches
    <2>6. \A c \in Bulk : ActiveRows(links, c) = {}
      BY <1>2 DEF BulkRefused, Collides
    <2>7. \A c \in Bulk : ActiveRows(links', c) = {Len(links[c]) + 1}
      <3> SUFFICES ASSUME NEW c \in Bulk PROVE ActiveRows(links', c) = {Len(links[c]) + 1}
        OBVIOUS
      <3>1. links'[c][Len(links[c]) + 1].active
        BY <2>4, ConfirmedRows
      <3>2. \A i \in DOMAIN links[c] : ~links'[c][i].active
        BY <2>4, <2>6 DEF ActiveRows
      <3> QED BY <2>4, <3>1, <3>2 DEF ActiveRows
    <2>8. \A c \in Cases : c \notin Bulk =>
            ActiveRows(links', c) = ActiveRows(links, c)
      BY <2>3 DEF ActiveRows
    <2>9. \A c \in Cases : Stands(c, links'[c], triage'[c])
      <3> SUFFICES ASSUME NEW c \in Cases PROVE Stands(c, links'[c], triage'[c])
        OBVIOUS
      <3>1. CASE c \in Bulk
        <4>1. {i \in DOMAIN links'[c] : links'[c][i].active} = {Len(links[c]) + 1}
          BY <2>7, <3>1 DEF ActiveRows
        <4>2. triage'[c].state \in {"absent", "auto_confirmed"}
          BY <2>1, <3>1 DEF LinksInv, CasesStand
        <4>3. links'[c][Len(links[c]) + 1].batch = "links"
          BY <2>4, <3>1, ConfirmedRows
        <4> QED BY <4>1, <4>2, <4>3 DEF Stands
      <3>2. CASE c \notin Bulk
        BY <2>1, <2>3, <3>2 DEF LinksInv
      <3> QED BY <3>1, <3>2
    <2>10. PagesApart'
      <3> SUFFICES ASSUME NEW c \in Cases, NEW d \in Cases,
                          NEW i \in ActiveRows(links', c), NEW j \in ActiveRows(links', d),
                          links'[c][i].local = links'[d][j].local
                   PROVE  c = d
        BY DEF PagesApart
      <3>1. \A e \in Bulk : \A k \in ActiveRows(links', e) : links'[e][k].local = Confirmed[e]
        BY <2>4, <2>7, ConfirmedRows
      <3>2. \A e \in Bulk, f \in Cases : \A k \in ActiveRows(links, f) :
               links[f][k].local # Confirmed[e]
        BY <1>2 DEF BulkRefused, Collides
      <3>3. CASE c \in Bulk /\ d \in Bulk
        BY <3>1, <3>3, Manifests
      <3>4. CASE c \in Bulk /\ d \notin Bulk
        BY <2>3, <2>8, <3>1, <3>2, <3>4
      <3>5. CASE c \notin Bulk /\ d \in Bulk
        BY <2>3, <2>8, <3>1, <3>2, <3>5
      <3>6. CASE c \notin Bulk /\ d \notin Bulk
        BY <2>3, <2>8, <3>6 DEF LinksInv, PagesApart
      <3> QED BY <3>3, <3>4, <3>5, <3>6
    <2>12. BulkIsAsApproved'
      <3> SUFFICES ASSUME NEW c \in Cases, NEW i \in DOMAIN links'[c], links'[c][i].batch = "links"
                   PROVE  /\ c \in Bulk /\ links'[c][i].local = Confirmed[c]
                          /\ links'[c][i].use = ConfirmedUse[c]
        BY DEF BulkIsAsApproved
      <3>1. CASE c \in Bulk
        BY <2>4, <3>1, ConfirmedRows DEF LinksInv, BulkIsAsApproved
      <3>2. CASE c \notin Bulk
        BY <2>3, <3>2 DEF LinksInv, BulkIsAsApproved
      <3> QED BY <3>1, <3>2
    <2>13. AnswersAreKept' /\ CasesStand' /\ RequestsStand'
      BY <2>1 DEF LinksInv, LinksTypeOK, AnswersAreKept, CasesStand, RequestsStand
    <2> QED BY <2>5, <2>9, <2>10, <2>12, <2>13 DEF LinksInv
  <1> QED BY <1>1, <1>2

\* One batch adds the cases, when none of them was there.
LEMMA InsertTriageHolds ==
  ASSUME LinksInv, NEW a \in Reviewers, InsertTriage(a)
  PROVE  LinksInv'
  <1>0. /\ at' = [at EXCEPT ![a] = "idle"] /\ UNCHANGED <<links, review, told>>
    BY DEF InsertTriage, Go
  <1>1. CASE "triage" \in imports
    <2>1. UNCHANGED <<imports, triage, vouched>>
      BY <1>1 DEF InsertTriage
    <2>2. LinksTypeOK' /\ RequestsStand'
      BY <1>0, <2>1 DEF LinksInv, LinksTypeOK, RequestsStand
    <2> QED BY <1>0, <2>1, <2>2, OnlyRequestsHold DEF LinksInv, AnswersAreKept
  <1>2. CASE "triage" \notin imports
    <2>1. /\ imports' = imports \cup {"triage"} /\ vouched' = vouched \cup {"triage"}
          /\ triage' = [c \in Cases |-> CaseRow(FirstState(c), 0)]
      BY <1>2 DEF InsertTriage
    <2>2. \A c \in Cases : /\ triage'[c] = CaseRow(FirstState(c), 0)
                           /\ triage'[c].state = FirstState(c) /\ triage'[c].version = 0
                           /\ triage'[c] \in CaseRows
      BY <2>1 DEF CaseRow, FirstState, CaseRows, States
    <2>3. LinksTypeOK'
      BY <1>0, <2>1, <2>2 DEF LinksInv, LinksTypeOK, Batches
    <2>4. ASSUME NEW c \in Cases
          PROVE  Stands(c, links'[c], triage'[c])
      <3>1. Stands(c, links[c], triage[c]) /\ triage[c].state = "absent"
        BY <1>2, <2>4 DEF LinksInv, CasesStand
      <3>2. \A i \in DOMAIN links[c] : links[c][i].active => links[c][i].batch = "links" /\ c \in Bulk
        BY <3>1 DEF Stands, LinksInv, BulkIsAsApproved
      <3> QED BY <1>0, <2>2, <3>1, <3>2 DEF Stands, FirstState
    <2>5. PagesApart'
      BY <1>0 DEF LinksInv, PagesApart, ActiveRows
    <2>7. AnswersAreKept'
      BY <1>0, <1>2, <2>1, <2>2 DEF LinksInv, AnswersAreKept, CasesStand
    <2>8. BulkIsAsApproved' /\ CasesStand' /\ RequestsStand'
      BY <1>0, <2>1, <2>2, Manifests
         DEF LinksInv, LinksTypeOK, BulkIsAsApproved, CasesStand, RequestsStand, FirstState
    <2> QED BY <2>3, <2>4, <2>5, <2>7, <2>8 DEF LinksInv
  <1> QED BY <1>1, <1>2

\* A review of a code whose rows and case stand after it, with no other code
\* touched.
Reviewed(a, c) ==
  /\ at' = [at EXCEPT ![a] = "idle"] /\ review' = [review EXCEPT ![a] = NoReview]
  /\ UNCHANGED <<imports, vouched>>
  /\ \A d \in Cases \ {c} : links'[d] = links[d] /\ triage'[d] = triage[d] /\ told'[d] = told[d]
  /\ links' = [d \in Cases |-> links'[d]] /\ links'[c] \in Seq(LinkRows)
  /\ triage' = [d \in Cases |-> triage'[d]] /\ triage'[c] \in CaseRows
  /\ told' = [d \in Cases |-> told'[d]] /\ told'[c] = told[c] + 1
  /\ triage'[c].version = triage[c].version + 1 /\ triage[c].state # "absent"
  /\ c \in Bulk => triage'[c].state = triage[c].state
  /\ Stands(c, links'[c], triage'[c])
  /\ \A i \in DOMAIN links'[c] : links'[c][i].batch = "links" =>
       /\ i \in DOMAIN links[c] /\ links[c][i].batch = "links"
       /\ links'[c][i].local = links[c][i].local /\ links'[c][i].use = links[c][i].use
  /\ \A i \in ActiveRows(links', c) : \A d \in Cases \ {c} : \A j \in ActiveRows(links, d) :
       links'[c][i].local # links[d][j].local

LEMMA ReviewHolds ==
  ASSUME LinksInv, NEW a \in Reviewers, NEW c \in Cases, Reviewed(a, c)
  PROVE  LinksInv'
  <1> USE DEF Reviewed
  <1>1. LinksTypeOK'
    <2>1. NoReview \in Reviews
      <3>1. NoReview.code \in Cases /\ NoReview.local \in Locals
        BY Manifests DEF NoReview
      <3> QED BY <3>1 DEF NoReview, Reviews, Decisions, States
    <2>2. links' \in [Cases -> Seq(LinkRows)]
      BY RowTypes DEF LinksInv
    <2>3. triage' \in [Cases -> CaseRows]
      BY RowTypes DEF LinksInv
    <2>4. told' \in [Cases -> Nat]
      BY DEF LinksInv, LinksTypeOK
    <2> QED BY <2>1, <2>2, <2>3, <2>4 DEF LinksInv, LinksTypeOK
  <1>2. \A d \in Cases : Stands(d, links'[d], triage'[d])
    <2> SUFFICES ASSUME NEW d \in Cases, d # c PROVE Stands(d, links'[d], triage'[d])
      OBVIOUS
    <2> QED BY DEF LinksInv
  <1>3. PagesApart'
    <2> SUFFICES ASSUME NEW d \in Cases, NEW e \in Cases,
                        NEW i \in ActiveRows(links', d), NEW j \in ActiveRows(links', e),
                        links'[d][i].local = links'[e][j].local
                 PROVE  d = e
      BY DEF PagesApart
    <2>1. \A f \in Cases \ {c} : ActiveRows(links', f) = ActiveRows(links, f) /\ links'[f] = links[f]
      BY DEF ActiveRows
    <2>2. CASE d # c /\ e # c
      BY <2>1, <2>2 DEF LinksInv, PagesApart
    <2>3. CASE d = c /\ e # c
      BY <2>1, <2>3
    <2>4. CASE d # c /\ e = c
      BY <2>1, <2>4
    <2> QED BY <2>2, <2>3, <2>4
  <1>4. AnswersAreKept'
    <2>1. \A d \in Cases : told'[d] = triage'[d].version
      BY DEF LinksInv, AnswersAreKept
    <2> QED BY <2>1 DEF LinksInv, AnswersAreKept
  <1>5. BulkIsAsApproved'
    BY DEF LinksInv, BulkIsAsApproved
  <1>6. CasesStand'
    BY Manifests DEF LinksInv, CasesStand
  <1>7. RequestsStand'
    BY DEF LinksInv, LinksTypeOK, RequestsStand
  <1> QED BY <1>1, <1>2, <1>3, <1>4, <1>5, <1>6, <1>7 DEF LinksInv

LEMMA DecideHolds ==
  ASSUME LinksInv, NEW a \in Reviewers, Decide(a)
  PROVE  LinksInv'
  <1> DEFINE r == review[a]
             c == r.code
  <1>1. /\ at[a] = "review" /\ r \in Reviews /\ c \in Cases /\ r.state # "absent"
        /\ r.decision # "deactivate" => c \in Manual
    BY DEF Decide, LinksInv, LinksTypeOK, RequestsStand, Reviews
  <1>2. /\ at' = [at EXCEPT ![a] = "idle"] /\ review' = [review EXCEPT ![a] = NoReview]
        /\ UNCHANGED <<imports, vouched>>
    BY DEF Decide, Go
  <1>3. ASSUME UNCHANGED <<links, triage, told>>
        PROVE  LinksInv'
    <2>1. NoReview \in Reviews
      <3>1. NoReview.code \in Cases /\ NoReview.local \in Locals
        BY Manifests DEF NoReview
      <3> QED BY <3>1 DEF NoReview, Reviews, Decisions, States
    <2>2. LinksTypeOK' /\ RequestsStand'
      BY <1>2, <1>3, <2>1 DEF LinksInv, LinksTypeOK, RequestsStand
    <2> QED BY <1>2, <1>3, <2>2, OnlyRequestsHold DEF LinksInv, AnswersAreKept
  <1>4. CASE Aborted(r)
    BY <1>3, <1>4 DEF Decide
  <1>5. CASE ~Aborted(r) /\ ~SameCase(r)
    <2>1. links' = links /\ told' = told
      BY <1>5 DEF Decide, LinksAfter
    <2>2. triage' = triage
      BY <1>1, <1>5 DEF Decide, CaseAfter, LinksInv, LinksTypeOK
    <2> QED BY <1>3, <2>1, <2>2
  <1>6. CASE ~Aborted(r) /\ SameCase(r)
    <2>1. /\ links' = LinksAfter(r)
          /\ triage' = [triage EXCEPT ![c] = CaseAfter(r)]
          /\ told' = [told EXCEPT ![c] = told[c] + 1]
      BY <1>6 DEF Decide
    <2>2. /\ triage[c].state = r.state /\ triage[c].version = r.version /\ r.version \in Nat
          /\ triage[c].state # "absent" /\ triage[c].state \in States
      BY <1>1, <1>6, RowTypes DEF SameCase, Reviews, LinksInv, CaseRows
    <2>3. /\ triage' = [d \in Cases |-> triage'[d]] /\ triage'[c] = CaseAfter(r)
          /\ told' = [d \in Cases |-> told'[d]] /\ told'[c] = told[c] + 1
          /\ \A d \in Cases \ {c} : triage'[d] = triage[d] /\ told'[d] = told[d]
      BY <1>1, <2>1 DEF LinksInv, LinksTypeOK
    <2>4. /\ links[c] \in Seq(LinkRows) /\ \A i \in DOMAIN links[c] : links[c][i] \in LinkRows
          /\ DOMAIN links[c] = 1..Len(links[c]) /\ Len(links[c]) \in Nat
          /\ links = [d \in Cases |-> links[d]] /\ DOMAIN links = Cases
      BY <1>1, RowTypes DEF LinksInv, LinksTypeOK
    <2>5. CASE r.decision = "approve"
      <3> DEFINE row == [local |-> r.local, use |-> r.use, batch |-> "triage", active |-> TRUE]
                 n == Len(links[c]) + 1
      <3>1. row \in LinkRows /\ row.active /\ row.batch = "triage" /\ row.local = r.local /\ row.use = r.use
        BY <1>1 DEF LinkRows, Batches, Reviews
      <3>2. links' = [links EXCEPT ![c] = Append(links[c], row)]
        BY <1>6, <2>1, <2>5 DEF LinksAfter
      <3>3. /\ links'[c] = Append(links[c], row) /\ links' = [d \in Cases |-> links'[d]]
            /\ \A d \in Cases \ {c} : links'[d] = links[d]
        BY <1>1, <2>4, <3>2
      <3> HIDE DEF row
      <3>4. /\ links'[c] \in Seq(LinkRows) /\ DOMAIN links'[c] = DOMAIN links[c] \cup {n}
            /\ n \notin DOMAIN links[c] /\ links'[c][n] = row /\ n \in Nat
            /\ \A i \in DOMAIN links[c] : links'[c][i] = links[c][i]
        BY <2>4, <3>1, <3>3, Appended
      <3>5. ~Collides(links, c, r.local) /\ r.local \in Candidates[c]
        BY <1>6, <2>5 DEF Aborted
      <3>6. \A i \in DOMAIN links[c] : ~links[c][i].active
        BY <3>5 DEF Collides, ActiveRows
      <3>7. {i \in DOMAIN links'[c] : links'[c][i].active} = {n}
        BY <3>1, <3>4, <3>6
      <3>8. ActiveLink(links', c) = n
        BY <3>7 DEF ActiveLink, ActiveRows
      <3>9. triage'[c] = [state |-> "approved", local |-> r.local, use |-> r.use, link |-> n,
                          version |-> r.version + 1]
        BY <1>6, <2>1, <2>3, <2>5, <3>8 DEF CaseAfter
      <3>10. /\ triage'[c].state = "approved" /\ triage'[c].local = r.local /\ triage'[c].use = r.use
             /\ triage'[c].link = n /\ triage'[c].version = triage[c].version + 1
        BY <2>2, <3>9
      <3>11. triage'[c] \in CaseRows
        BY <1>1, <2>2, <3>4, <3>9 DEF CaseRows, Reviews, States
      <3>12. Stands(c, links'[c], triage'[c])
        BY <1>1, <2>5, <3>1, <3>4, <3>5, <3>7, <3>10 DEF Stands
      <3>13. \A i \in DOMAIN links'[c] : links'[c][i].batch = "links" =>
                i \in DOMAIN links[c] /\ links[c][i].batch = "links"
                /\ links'[c][i].local = links[c][i].local /\ links'[c][i].use = links[c][i].use
        BY <3>1, <3>4
      <3>14. \A i \in ActiveRows(links', c) : \A d \in Cases \ {c} : \A j \in ActiveRows(links, d) :
                links'[c][i].local # links[d][j].local
        <4>1. \A i \in ActiveRows(links', c) : links'[c][i].local = r.local
          BY <3>1, <3>4, <3>7 DEF ActiveRows
        <4>2. \A d \in Cases : \A j \in ActiveRows(links, d) : links[d][j].local # r.local
          BY <3>5 DEF Collides
        <4> QED BY <4>1, <4>2
      <3>15. c \notin Bulk
        BY <1>1, <2>5, Manifests
      <3>16. c \in Bulk => triage'[c].state = triage[c].state
        BY <3>15
      <3>17. triage'[c].version = triage[c].version + 1 /\ links'[c] \in Seq(LinkRows)
        BY <3>4, <3>10
      <3>18. Reviewed(a, c)
        BY <1>2, <2>2, <2>3, <3>3, <3>11, <3>12, <3>13, <3>14, <3>16, <3>17 DEF Reviewed
      <3> QED BY <1>1, <3>18, ReviewHolds
    <2>6. ASSUME r.decision # "approve", links' = [d \in Cases |-> links'[d]],
                 \A d \in Cases \ {c} : links'[d] = links[d],
                 links'[c] \in Seq(LinkRows), DOMAIN links'[c] = DOMAIN links[c],
                 \A i \in DOMAIN links[c] : /\ links'[c][i].batch = links[c][i].batch
                                            /\ links'[c][i].local = links[c][i].local
                                            /\ links'[c][i].use = links[c][i].use
          PROVE  LinksInv'
      <3>1. ActiveRows(links', c) = {}
        BY <1>6, <2>1, <2>6 DEF Aborted
      <3>2. triage'[c] = CaseRow(StateAfter(r), r.version + 1)
        BY <1>6, <2>3, <2>6 DEF CaseAfter
      <3>3. /\ StateAfter(r) \in States \ {"approved", "absent"}
            /\ c \in Bulk => StateAfter(r) = triage[c].state
        <4>1. r.decision \in {"reject", "discard", "deactivate"}
          BY <1>1, <2>6 DEF Reviews, Decisions
        <4>2. c \notin Manual => triage[c].state # "approved"
          BY <1>1 DEF LinksInv, Stands
        <4>3. CASE r.decision = "deactivate"
          BY <2>2, <4>2, <4>3, Manifests DEF StateAfter, States
        <4>4. CASE r.decision # "deactivate"
          BY <1>1, <4>1, <4>4, Manifests DEF StateAfter, States
        <4> QED BY <4>3, <4>4
      <3>4. /\ triage'[c].state = StateAfter(r) /\ triage'[c].version = triage[c].version + 1
            /\ triage'[c] \in CaseRows
        BY <2>2, <3>2, <3>3 DEF CaseRow, CaseRows
      <3>5. Stands(c, links'[c], triage'[c])
        BY <3>1, <3>3, <3>4 DEF Stands, ActiveRows
      <3>6. Reviewed(a, c)
        BY <1>2, <2>2, <2>3, <2>6, <3>1, <3>3, <3>4, <3>5 DEF Reviewed
      <3> QED BY <1>1, <3>6, ReviewHolds
    <2>7. CASE r.decision = "deactivate" /\ r.link \in DOMAIN links[c]
      <3>1. links' = [links EXCEPT ![c][r.link].active = FALSE]
        BY <1>6, <2>1, <2>7 DEF LinksAfter
      <3>2. /\ links' = [d \in Cases |-> links'[d]] /\ \A d \in Cases \ {c} : links'[d] = links[d]
            /\ links'[c] = [links[c] EXCEPT ![r.link].active = FALSE]
        BY <1>1, <2>4, <3>1
      <3>3. DOMAIN links'[c] = DOMAIN links[c]
        BY <3>2
      <3>4. /\ links'[c][r.link] = [links[c][r.link] EXCEPT !.active = FALSE]
            /\ \A i \in DOMAIN links[c] : i # r.link => links'[c][i] = links[c][i]
        BY <2>7, <3>2
      <3>5. /\ [links[c][r.link] EXCEPT !.active = FALSE] \in LinkRows
            /\ links'[c][r.link].batch = links[c][r.link].batch
            /\ links'[c][r.link].local = links[c][r.link].local
            /\ links'[c][r.link].use = links[c][r.link].use
        BY <2>4, <2>7, <3>4 DEF LinkRows
      <3>6. links'[c] \in Seq(LinkRows)
        <4>1. links'[c] = [links[c] EXCEPT ![r.link] = [links[c][r.link] EXCEPT !.active = FALSE]]
          BY <3>2
        <4> DEFINE ended == [links[c][r.link] EXCEPT !.active = FALSE]
        <4>2. ended \in LinkRows /\ r.link \in 1..Len(links[c])
          BY <2>4, <2>7, <3>5
        <4> HIDE DEF ended
        <4>3. [links[c] EXCEPT ![r.link] = ended] \in Seq(LinkRows)
          BY <2>4, <4>2, ExceptSeq
        <4> QED BY <4>1, <4>3 DEF ended
      <3> QED BY <2>6, <2>7, <3>2, <3>3, <3>4, <3>5, <3>6
    <2>8. CASE r.decision # "approve" /\ ~(r.decision = "deactivate" /\ r.link \in DOMAIN links[c])
      <3>1. links' = links
        BY <1>6, <2>1, <2>8 DEF LinksAfter
      <3> QED BY <2>4, <2>6, <2>8, <3>1
    <2> QED BY <2>5, <2>7, <2>8
  <1> QED BY <1>4, <1>5, <1>6

LEMMA LinksGoOn == LinksInv /\ [LinksNext]_linkVars => LinksInv'
  <1>1. ASSUME LinksInv, UNCHANGED linkVars PROVE LinksInv'
    <2>1. LinksTypeOK' /\ RequestsStand' /\ vouched' \subseteq imports
      BY <1>1 DEF linkVars, LinksInv, LinksTypeOK, RequestsStand, AnswersAreKept
    <2> QED BY <1>1, <2>1, OnlyRequestsHold DEF linkVars
  <1> QED BY <1>1, AskLinksHolds, CheckLinksHolds, InsertLinksHolds, AssertLinksHolds, AskTriageHolds,
             InsertTriageHolds, AskReviewHolds, DecideHolds, LoseHolds
          DEF LinksNext

\* How rows and cases stand is what is shown of each code.
LEMMA StandsIsShown ==
  ASSUME LinksInv
  PROVE  LinksFollowReviews
  <1>1. \A c \in Cases : ActiveRows(links, c) = {i \in DOMAIN links[c] : links[c][i].active}
    BY DEF ActiveRows
  <1>2. \A c \in Cases : triage[c].state \in States
    BY RowTypes DEF CaseRows, LinksInv
  <1>3. \A c \in Cases : \A i, j \in ActiveRows(links, c) : i = j
    BY <1>1 DEF LinksInv, Stands
  <1>4. LinksAreOneToOne
    BY <1>3 DEF LinksInv, PagesApart, LinksAreOneToOne
  <1>5. ApprovedIsLinked /\ ResolvedIsUnlinked
    BY <1>1 DEF LinksInv, Stands, ApprovedIsLinked, ResolvedIsUnlinked
  <1>6. ActiveIsListed
    <2> SUFFICES ASSUME NEW c \in Cases, NEW i \in ActiveRows(links, c)
                 PROVE  i \in Listed(c)
      BY DEF ActiveIsListed
    <2>1. CASE triage[c].state = "approved"
      BY <1>3, <1>5, <2>1 DEF ApprovedIsLinked, Listed
    <2>2. CASE triage[c].state \in {"auto_confirmed", "absent"}
      BY <1>1, <2>2 DEF LinksInv, Stands, Listed
    <2>3. CASE triage[c].state \in {"pending", "rejected", "discarded"}
      BY <1>5, <2>3 DEF ResolvedIsUnlinked
    <2> QED BY <1>2, <2>1, <2>2, <2>3 DEF States
  <1>7. LentIsDecided
    <2> SUFFICES ASSUME NEW c \in Cases, NEW page \in Pages, NEW lent \in Lent(c, page)
                 PROVE  \/ /\ triage[c].state = "approved"
                           /\ lent[1] = triage[c].local /\ lent[2] \in triage[c].use
                        \/ /\ triage[c].state \in {"absent", "auto_confirmed"} /\ c \in Bulk
                           /\ lent[1] = Confirmed[c] /\ lent[2] \in ConfirmedUse[c]
      BY DEF LentIsDecided
    <2>1. PICK i \in Listed(c) : links[c][i].local = lent[1] /\ lent[2] \in links[c][i].use
      BY DEF Lent
    <2>2. i \in DOMAIN links[c]
      BY <2>1 DEF Listed, ActiveRows
    <2>3. CASE triage[c].state = "approved" /\ triage[c].link = i
      BY <1>5, <2>1, <2>3 DEF ApprovedIsLinked
    <2>4. CASE triage[c].state \in {"auto_confirmed", "absent"} /\ links[c][i].batch = "links"
      BY <2>1, <2>2, <2>4 DEF LinksInv, BulkIsAsApproved
    <2> QED BY <2>1, <2>3, <2>4 DEF Listed
  <1> QED BY <1>4, <1>5, <1>6, <1>7 DEF LinksInv, LinksFollowReviews

\* What the shop shows of a code follows the decision on it, whatever imports
\* and reviews ran together, were lost between their reading and their batch, or
\* wrote on what another had changed (dux-editorial-links.ts,
\* dux-editorial-triage.ts).
THEOREM LinksAreAsDecided == LinksSpec => []LinksFollowReviews
  <1> QED BY LinksStart, LinksGoOn, StandsIsShown, PTL DEF LinksSpec

-----------------------------------------------------------------------------
(* The connection with Mercado Libre: its invariant *)

\* A request holds a pair the provider issued to it and nobody stored yet.
Holds(x) == visit[x] \in {"verify", "store"}

\* A pair bound for the row: an authorization's, or that of the renewal whose
\* the lock is.
Bound(x) == Holds(x) /\ (x \in Callbacks \/ conn.owner = x)

\* Nothing went wrong so far, but for renewals that gave up the lock.
Unslipped == slips \subseteq {"released"}

\* A pair held is its request's alone: nobody stored it and nobody read it.
HeldApart ==
  \A x \in Requesters : Holds(x) =>
    /\ got[x] # 0 /\ got[x] # conn.pair
    /\ \A y \in Requesters : found[y] # got[x]
    /\ \A y \in Requesters : x # y /\ Holds(y) => got[x] # got[y]

\* A renewal under the lock holds a later pair than the one stored.
RenewsOnward == \A c \in Readers : conn.owner = c /\ Holds(c) => got[c] > conn.pair

\* A renewal that lost its lock to a new connection does not present the token
\* of that one.
LostPresentsOld ==
  Unslipped => \A c \in Readers : visit[c] = "renew" /\ conn.owner # c => found[c] # conn.pair

\* The row has a pair the provider accepts, or one is bound for it.
KeptOrBound ==
  Unslipped /\ conn.pair # 0 =>
    conn.pair \in good \/ \E x \in Requesters : Bound(x) /\ got[x] \in good

\* A pair bound for the row that the provider revoked is behind the one of the
\* authorization that revoked it, or a later one: stored, or bound for it.
RevokedAreBehind ==
  Unslipped => \A x \in Requesters : Bound(x) /\ got[x] \notin good =>
    \/ conn.pair > got[x]
    \/ \E d \in Callbacks : Holds(d) /\ got[d] \in good /\ got[d] > got[x]

\* Who waits for a renewal that ended well finds another pair.
WaitersFindNew ==
  \A c \in Readers :
    visit[c] = "wait" /\ conn.owner = Nobody /\ conn.pair = found[c] => slips # {}

\* Who claims the lock or waits for it has a look left.
PollsLeft == \A c \in Readers : visit[c] \in {"claim", "wait"} => polls[c] < Polls

ConnInv ==
  /\ ConnTypeOK /\ LockIsHeld /\ WaitersAreServed
  /\ HeldApart /\ RenewsOnward /\ LostPresentsOld
  /\ KeptOrBound /\ RevokedAreBehind /\ WaitersFindNew /\ PollsLeft

\* Readers, callbacks and those who hold no lock are apart.
LEMMA RequestersApart ==
  /\ Readers \subseteq Requesters /\ Callbacks \subseteq Requesters
  /\ \A x \in Readers : x \notin Callbacks
  /\ \A x \in Requesters : x \in Readers \/ x \in Callbacks
  /\ Nobody \notin Requesters /\ Dead \notin Requesters /\ Nobody # Dead
  /\ Polls \in Nat /\ Polls # 0 /\ MaxPairs \in Nat
  BY ConnectionAssumption DEF ConnectionAssumption, Requesters

\* What a pair issued changes.
LEMMA IssueHolds ==
  ASSUME ConnInv, NEW accepted \in SUBSET good, Issue(accepted)
  PROVE  /\ issued' = issued + 1 /\ issued + 1 <= MaxPairs /\ issued' \in Nat
         /\ good' = accepted \cup {issued + 1}
         /\ good' \subseteq 1..issued' /\ ending' \subseteq 1..issued'
  <1>1. /\ issued \in Nat /\ good \subseteq 1..issued /\ ending \subseteq 1..issued
    BY DEF ConnInv, ConnTypeOK
  <1>2. ending' = ending \/ ending' = ending \cup {issued + 1}
    BY DEF Issue
  <1>3. issued' = issued + 1 /\ issued + 1 <= MaxPairs /\ good' = accepted \cup {issued + 1}
    BY <1>1, RequestersApart DEF Issue
  <1>4. issued' \in Nat /\ 1..issued \subseteq 1..issued' /\ issued + 1 \in 1..issued'
    BY <1>1, <1>3
  <1>5. good' \subseteq 1..issued' /\ ending' \subseteq 1..issued'
    BY <1>1, <1>2, <1>3, <1>4
  <1> QED BY <1>3, <1>4, <1>5

LEMMA ConnStarts == ConnInit => ConnInv
  <1> SUFFICES ASSUME ConnInit PROVE ConnInv
    OBVIOUS
  <1>1. ConnTypeOK
    BY RequestersApart DEF ConnInit, ConnTypeOK, NoConnection, Visits
  <1>2. LockIsHeld /\ WaitersAreServed /\ PollsLeft
    BY RequestersApart DEF ConnInit, NoConnection, LockIsHeld, WaitersAreServed, PollsLeft
  <1>3. HeldApart /\ RenewsOnward /\ LostPresentsOld /\ KeptOrBound /\ RevokedAreBehind /\ WaitersFindNew
    BY RequestersApart DEF ConnInit, NoConnection, HeldApart, Holds, Bound, RenewsOnward, LostPresentsOld,
         KeptOrBound, RevokedAreBehind, WaitersFindNew
  <1> QED BY <1>1, <1>2, <1>3 DEF ConnInv

LEMMA WearHolds ==
  ASSUME ConnInv, Wear
  PROVE  ConnInv'
  <1> USE RequestersApart DEF ConnInv, ConnTypeOK, Wear
  <1>1. ConnTypeOK'
    <2>1. conn' \in [pair : 0..issued', owner : Readers \cup {Nobody, Dead}, long : BOOLEAN]
      OBVIOUS
    <2>2. issued' \in 0..MaxPairs /\ good' \subseteq 1..issued' /\ ending' \subseteq 1..issued'
      OBVIOUS
    <2>3. oauth' \in [OauthStates -> {"unmade", "open", "spent", "over"}] /\ slips' \subseteq Slips
      BY DEF Slips
    <2>4. visit' \in [Requesters -> Visits]
      BY DEF Visits
    <2>5. /\ found' \in [Requesters -> 0..issued'] /\ got' \in [Requesters -> 0..issued']
          /\ polls' \in [Requesters -> 0..Polls]
      BY DEF PollsLeft
    <2> QED BY <2>1, <2>2, <2>3, <2>4, <2>5
  <1>2. LockIsHeld'
    BY DEF LockIsHeld
  <1>3. WaitersAreServed' /\ WaitersFindNew' /\ PollsLeft'
    BY DEF WaitersAreServed, WaitersFindNew, PollsLeft, HeldApart, Holds
  <1>4. HeldApart'
    BY DEF HeldApart, Holds
  <1>5. RenewsOnward'
    BY DEF RenewsOnward, Holds
  <1>6. LostPresentsOld'
    BY DEF LostPresentsOld, Unslipped, HeldApart, Holds
  <1>7. KeptOrBound'
    BY DEF KeptOrBound, Unslipped, Bound, Holds, RevokedAreBehind, HeldApart, RenewsOnward, LostPresentsOld
  <1>8. RevokedAreBehind'
    BY DEF RevokedAreBehind, Unslipped, Bound, Holds, HeldApart, RenewsOnward
  <1> QED BY <1>1, <1>2, <1>3, <1>4, <1>5, <1>6, <1>7, <1>8

LEMMA AuthorizeHolds ==
  ASSUME ConnInv, NEW s \in OauthStates, Authorize(s)
  PROVE  ConnInv'
  <1> USE RequestersApart DEF ConnInv, ConnTypeOK, Authorize
  <1>1. ConnTypeOK'
    BY DEF Visits, Slips
  <1>2. LockIsHeld'
    BY DEF LockIsHeld
  <1>3. WaitersAreServed' /\ WaitersFindNew' /\ PollsLeft'
    BY DEF WaitersAreServed, WaitersFindNew, PollsLeft, HeldApart, Holds
  <1>4. HeldApart'
    BY DEF HeldApart, Holds
  <1>5. RenewsOnward'
    BY DEF RenewsOnward, Holds
  <1>6. LostPresentsOld'
    BY DEF LostPresentsOld, Unslipped, HeldApart, Holds
  <1>7. KeptOrBound'
    BY DEF KeptOrBound, Unslipped, Bound, Holds, RevokedAreBehind, HeldApart, RenewsOnward, LostPresentsOld
  <1>8. RevokedAreBehind'
    BY DEF RevokedAreBehind, Unslipped, Bound, Holds, HeldApart, RenewsOnward
  <1> QED BY <1>1, <1>2, <1>3, <1>4, <1>5, <1>6, <1>7, <1>8

LEMMA ReturnHolds ==
  ASSUME ConnInv, NEW b \in Callbacks, NEW s \in OauthStates, Return(b, s)
  PROVE  ConnInv'
  <1> USE RequestersApart DEF ConnInv, ConnTypeOK, Return, Move
  <1>1. ConnTypeOK'
    BY DEF Visits, Slips
  <1>2. LockIsHeld'
    BY DEF LockIsHeld
  <1>3. WaitersAreServed' /\ WaitersFindNew' /\ PollsLeft'
    BY DEF WaitersAreServed, WaitersFindNew, PollsLeft, HeldApart, Holds
  <1>4. HeldApart'
    BY DEF HeldApart, Holds
  <1>5. RenewsOnward'
    BY DEF RenewsOnward, Holds
  <1>6. LostPresentsOld'
    BY DEF LostPresentsOld, Unslipped, HeldApart, Holds
  <1>7. KeptOrBound'
    BY DEF KeptOrBound, Unslipped, Bound, Holds, RevokedAreBehind, HeldApart, RenewsOnward, LostPresentsOld
  <1>8. RevokedAreBehind'
    BY DEF RevokedAreBehind, Unslipped, Bound, Holds, HeldApart, RenewsOnward
  <1> QED BY <1>1, <1>2, <1>3, <1>4, <1>5, <1>6, <1>7, <1>8

LEMMA ExchangeHolds ==
  ASSUME ConnInv, NEW b \in Callbacks, Exchange(b)
  PROVE  ConnInv'
  <1> USE RequestersApart DEF ConnInv, ConnTypeOK
  <1>0. /\ visit[b] = "exchange" /\ b \in Requesters /\ UNCHANGED <<conn, oauth>>
        /\ issued' = issued \/ (issued' = issued + 1 /\ issued + 1 <= MaxPairs)
    <2>1. ASSUME NEW accepted \in {good, {}}, Issue(accepted)
          PROVE  issued' = issued + 1 /\ issued + 1 <= MaxPairs
      BY <2>1, IssueHolds
    <2>2. issued' = issued \/ (issued' = issued + 1 /\ issued + 1 <= MaxPairs)
      BY <2>1 DEF Exchange
    <2> QED BY <2>2 DEF Exchange
  <1>1. ConnTypeOK'
    <2>1. issued' \in 0..MaxPairs /\ 0..issued \subseteq 0..issued'
      BY <1>0
    <2>2. good' \subseteq 1..issued' /\ ending' \subseteq 1..issued'
      BY IssueHolds DEF Exchange
    <2>3. slips' \subseteq Slips
      BY DEF Exchange, Slips, Slip
    <2>4. visit' \in [Requesters -> Visits]
      BY <1>0 DEF Exchange, Receive, Quit, Move, Visits
    <2>5. /\ found' \in [Requesters -> 0..issued'] /\ polls' \in [Requesters -> 0..Polls]
      BY <1>0, <2>1 DEF Exchange, Quit
    <2>6. got' \in [Requesters -> 0..issued']
      BY <1>0, <2>1 DEF Exchange, Receive, Quit, Issue
    <2> QED BY <1>0, <2>1, <2>2, <2>3, <2>4, <2>5, <2>6
  <1>2. ASSUME NEW accepted \in {good, {}}, Issue(accepted), Receive(b), UNCHANGED <<found, polls, slips>>
        PROVE  ConnInv'
    <2>1. /\ got'[b] = issued + 1 /\ visit'[b] = "verify" /\ issued + 1 \in good'
          /\ \A x \in Requesters \ {b} : got'[x] = got[x] /\ visit'[x] = visit[x]
          /\ \A x \in Requesters : found'[x] = found[x] /\ polls'[x] = polls[x]
      BY <1>0, <1>2 DEF Receive, Move, Issue
    <2>2. LockIsHeld' /\ WaitersAreServed' /\ WaitersFindNew' /\ PollsLeft'
      BY <1>0, <1>2, <2>1 DEF LockIsHeld, WaitersAreServed, WaitersFindNew, PollsLeft
    <2>3. HeldApart' /\ RenewsOnward' /\ LostPresentsOld'
      BY <1>0, <1>2, <2>1 DEF HeldApart, RenewsOnward, LostPresentsOld, Holds, Unslipped
    <2>4. KeptOrBound'
      BY <1>0, <2>1 DEF KeptOrBound, Bound, Holds
    <2>5. RevokedAreBehind'
      <3> SUFFICES ASSUME NEW x \in Requesters, Bound(x)', got'[x] \notin good'
                   PROVE  Holds(b)' /\ got'[b] \in good' /\ got'[b] > got'[x]
        BY DEF RevokedAreBehind
      <3> QED BY <2>1 DEF Holds
    <2> QED BY <1>1, <2>2, <2>3, <2>4, <2>5
  <1>3. ASSUME Quit(b), UNCHANGED slips \/ slips' = slips \cup {"unanswered"},
               UNCHANGED good \/ ~Unslipped'
        PROVE  ConnInv'
    <2>1. /\ visit'[b] = "idle"
          /\ \A x \in Requesters \ {b} : /\ got'[x] = got[x] /\ visit'[x] = visit[x]
                                         /\ found'[x] = found[x] /\ polls'[x] = polls[x]
          /\ got'[b] = 0 /\ found'[b] = 0 /\ (Unslipped' => Unslipped /\ UNCHANGED good)
      BY <1>0, <1>3 DEF Quit, Move, Unslipped
    <2>2. \A x \in Requesters : (Holds(x)' <=> Holds(x)) /\ (Bound(x)' <=> Bound(x))
      BY <1>0, <2>1 DEF Holds, Bound
    <2>3. LockIsHeld' /\ WaitersAreServed' /\ WaitersFindNew' /\ PollsLeft'
      BY <1>0, <1>3, <2>1 DEF LockIsHeld, WaitersAreServed, WaitersFindNew, PollsLeft
    <2>4. HeldApart' /\ RenewsOnward' /\ LostPresentsOld'
      BY <1>0, <2>1, <2>2 DEF HeldApart, RenewsOnward, LostPresentsOld, Holds
    <2>5. KeptOrBound' /\ RevokedAreBehind'
      BY <1>0, <1>3, <2>1, <2>2 DEF KeptOrBound, RevokedAreBehind, Holds, Bound
    <2> QED BY <1>1, <2>3, <2>4, <2>5
  <1> QED BY <1>2, <1>3 DEF Exchange, Slip, Unslipped

LEMMA ConnectHolds ==
  ASSUME ConnInv, NEW b \in Callbacks, Connect(b)
  PROVE  ConnInv'
  <1> USE RequestersApart DEF ConnInv, ConnTypeOK
  <1>0. /\ visit[b] = "store" /\ visit'[b] = "idle" /\ Holds(b) /\ Bound(b)
        /\ conn'.pair = got[b] /\ conn'.owner = Nobody
        /\ got'[b] = 0 /\ found'[b] = 0 /\ polls'[b] = 0
        /\ \A x \in Requesters \ {b} : /\ visit'[x] = visit[x] /\ got'[x] = got[x]
                                       /\ found'[x] = found[x] /\ polls'[x] = polls[x]
        /\ UNCHANGED <<issued, good>> /\ b \in Requesters
    BY DEF Connect, Quit, Move, Holds, Bound
  <1>1. ConnTypeOK'
    <2>1. conn' \in [pair : 0..issued', owner : Readers \cup {Nobody, Dead}, long : BOOLEAN]
      BY DEF Connect
    <2>2. visit' \in [Requesters -> Visits]
      BY DEF Connect, Quit, Move, Visits
    <2>3. /\ found' \in [Requesters -> 0..issued'] /\ got' \in [Requesters -> 0..issued']
          /\ polls' \in [Requesters -> 0..Polls]
      BY DEF Connect, Quit
    <2> QED BY <2>1, <2>2, <2>3 DEF Connect, Slip, Slips
  <1>2. /\ Unslipped' => Unslipped /\ got[b] >= conn.pair
        /\ slips \subseteq slips'
    BY DEF Connect, Slip, Unslipped
  <1>3. LockIsHeld' /\ WaitersAreServed' /\ WaitersFindNew' /\ PollsLeft'
    BY <1>0, <1>2 DEF LockIsHeld, WaitersAreServed, WaitersFindNew, PollsLeft, HeldApart, Holds
  <1>4. \A x \in Requesters : Holds(x)' <=> Holds(x) /\ x # b
    BY <1>0 DEF Holds
  <1>5. HeldApart' /\ RenewsOnward' /\ LostPresentsOld'
    BY <1>0, <1>2, <1>4 DEF HeldApart, RenewsOnward, LostPresentsOld, Holds
  <1>6. KeptOrBound'
    <2> SUFFICES ASSUME Unslipped', got[b] \notin good
                 PROVE  \E x \in Requesters : Bound(x)' /\ got'[x] \in good'
      BY <1>0 DEF KeptOrBound
    <2>1. PICK d \in Callbacks : Holds(d) /\ got[d] \in good
      BY <1>0, <1>2 DEF RevokedAreBehind
    <2> QED BY <1>0, <1>4, <2>1 DEF Bound
  <1>7. RevokedAreBehind'
    <2> SUFFICES ASSUME Unslipped', NEW x \in Requesters, Bound(x)', got'[x] \notin good'
                 PROVE  \/ conn'.pair > got'[x]
                        \/ \E d \in Callbacks : Holds(d)' /\ got'[d] \in good' /\ got'[d] > got'[x]
      BY DEF RevokedAreBehind
    <2>1. x # b /\ Bound(x) /\ got'[x] = got[x] /\ got[x] \notin good
      BY <1>0, <1>4 DEF Bound
    <2>2. CASE conn.pair > got[x]
      BY <1>0, <1>2, <2>1, <2>2
    <2>3. CASE \E d \in Callbacks : Holds(d) /\ got[d] \in good /\ got[d] > got[x]
      BY <1>0, <1>4, <2>1, <2>3
    <2> QED BY <1>2, <2>1, <2>2, <2>3 DEF RevokedAreBehind
  <1> QED BY <1>1, <1>3, <1>5, <1>6, <1>7

LEMMA LookHolds ==
  ASSUME ConnInv, NEW c \in Readers, Look(c)
  PROVE  ConnInv'
  <1> USE RequestersApart DEF ConnInv, ConnTypeOK, Look, Quit, Move
  <1>1. ConnTypeOK'
    BY DEF Visits, Slips
  <1>2. LockIsHeld'
    BY DEF LockIsHeld
  <1>3. WaitersAreServed' /\ WaitersFindNew' /\ PollsLeft'
    BY DEF WaitersAreServed, WaitersFindNew, PollsLeft, HeldApart, Holds
  <1>4. HeldApart'
    BY DEF HeldApart, Holds
  <1>5. RenewsOnward'
    BY DEF RenewsOnward, Holds
  <1>6. LostPresentsOld'
    BY DEF LostPresentsOld, Unslipped, HeldApart, Holds
  <1>7. KeptOrBound'
    BY DEF KeptOrBound, Unslipped, Bound, Holds, RevokedAreBehind, HeldApart, RenewsOnward, LostPresentsOld
  <1>8. RevokedAreBehind'
    BY DEF RevokedAreBehind, Unslipped, Bound, Holds, HeldApart, RenewsOnward
  <1> QED BY <1>1, <1>2, <1>3, <1>4, <1>5, <1>6, <1>7, <1>8

LEMMA TakeLockHolds ==
  ASSUME ConnInv, NEW c \in Readers, TakeLock(c)
  PROVE  ConnInv'
  <1> USE RequestersApart DEF ConnInv, ConnTypeOK
  <1>0. /\ visit[c] = "claim" /\ UNCHANGED <<issued, good, ending, oauth, found, got, polls>>
        /\ c \in Requesters /\ visit'[c] \in {"renew", "wait"}
        /\ \A x \in Requesters \ {c} : visit'[x] = visit[x]
        /\ conn'.pair = conn.pair /\ slips \subseteq slips'
    BY DEF TakeLock, Move, Slip
  <1>1. ConnTypeOK'
    <2>1. conn' \in [pair : 0..issued', owner : Readers \cup {Nobody, Dead}, long : BOOLEAN]
      <3>1. conn' = [conn EXCEPT !.owner = c, !.long = FALSE] \/ UNCHANGED conn
        BY DEF TakeLock
      <3> QED BY <1>0, <3>1
    <2>2. visit' \in [Requesters -> Visits]
      BY DEF TakeLock, Move, Visits
    <2> QED BY <1>0, <2>1, <2>2 DEF TakeLock, Slip, Slips
  <1>2. \A x \in Requesters : Holds(x)' <=> Holds(x)
    BY <1>0 DEF Holds
  <1>3. HeldApart' /\ WaitersAreServed' /\ PollsLeft' /\ (Unslipped' => Unslipped)
    BY <1>0, <1>2 DEF HeldApart, WaitersAreServed, PollsLeft, Unslipped
  <1>4. CASE LockFree
    <2>1. /\ conn'.owner = c /\ visit'[c] = "renew" /\ ~Holds(c)
          /\ conn.owner \in Readers => "late" \in slips'
      BY <1>0, <1>4 DEF TakeLock, Move, Slip, Holds
    <2>2. Unslipped' => conn.owner \notin Readers
      BY <2>1 DEF Unslipped
    <2>3. LockIsHeld' /\ WaitersFindNew'
      BY <1>0, <2>1 DEF LockIsHeld, WaitersFindNew
    <2>4. RenewsOnward' /\ LostPresentsOld'
      BY <1>0, <1>2, <1>3, <2>1, <2>2 DEF RenewsOnward, LostPresentsOld
    <2>5. \A x \in Requesters : Unslipped' => (Bound(x)' <=> Bound(x))
      BY <1>2, <2>1, <2>2 DEF Bound
    <2>6. KeptOrBound' /\ RevokedAreBehind'
      BY <1>0, <1>2, <1>3, <2>5 DEF KeptOrBound, RevokedAreBehind
    <2> QED BY <1>1, <1>3, <2>3, <2>4, <2>6
  <1>5. CASE ~LockFree
    <2>1. UNCHANGED <<conn, slips>> /\ visit'[c] = "wait" /\ conn.owner # Nobody
      BY <1>0, <1>5 DEF TakeLock, LockFree, Move
    <2>2. \A x \in Requesters : Bound(x)' <=> Bound(x)
      BY <1>2, <2>1 DEF Bound
    <2>3. LockIsHeld' /\ WaitersFindNew'
      BY <1>0, <2>1 DEF LockIsHeld, WaitersFindNew
    <2>4. RenewsOnward' /\ LostPresentsOld' /\ KeptOrBound' /\ RevokedAreBehind'
      BY <1>0, <1>2, <1>3, <2>1, <2>2
         DEF RenewsOnward, LostPresentsOld, KeptOrBound, RevokedAreBehind
    <2> QED BY <1>1, <1>3, <2>3, <2>4
  <1> QED BY <1>4, <1>5

LEMMA AwaitHolds ==
  ASSUME ConnInv, NEW c \in Readers, Await(c)
  PROVE  ConnInv'
  <1> USE RequestersApart DEF ConnInv, ConnTypeOK, Await, Move, Quit
  <1>1. ConnTypeOK'
    <2>1. conn' \in [pair : 0..issued', owner : Readers \cup {Nobody, Dead}, long : BOOLEAN]
      OBVIOUS
    <2>2. issued' \in 0..MaxPairs /\ good' \subseteq 1..issued' /\ ending' \subseteq 1..issued'
      OBVIOUS
    <2>3. oauth' \in [OauthStates -> {"unmade", "open", "spent", "over"}] /\ slips' \subseteq Slips
      BY DEF Slips
    <2>4. visit' \in [Requesters -> Visits]
      BY DEF Visits
    <2>5. /\ found' \in [Requesters -> 0..issued'] /\ got' \in [Requesters -> 0..issued']
          /\ polls' \in [Requesters -> 0..Polls]
      BY DEF PollsLeft
    <2> QED BY <2>1, <2>2, <2>3, <2>4, <2>5
  <1>2. LockIsHeld'
    BY DEF LockIsHeld
  <1>3. WaitersAreServed' /\ WaitersFindNew' /\ PollsLeft'
    BY DEF WaitersAreServed, WaitersFindNew, PollsLeft, HeldApart, Holds
  <1>4. HeldApart'
    BY DEF HeldApart, Holds
  <1>5. RenewsOnward'
    BY DEF RenewsOnward, Holds
  <1>6. LostPresentsOld'
    BY DEF LostPresentsOld, Unslipped, HeldApart, Holds
  <1>7. KeptOrBound'
    BY DEF KeptOrBound, Unslipped, Bound, Holds, RevokedAreBehind, HeldApart, RenewsOnward, LostPresentsOld
  <1>8. RevokedAreBehind'
    BY DEF RevokedAreBehind, Unslipped, Bound, Holds, HeldApart, RenewsOnward
  <1> QED BY <1>1, <1>2, <1>3, <1>4, <1>5, <1>6, <1>7, <1>8

LEMMA RenewHolds ==
  ASSUME ConnInv, NEW c \in Readers, Renew(c)
  PROVE  ConnInv'
  <1> USE RequestersApart DEF ConnInv, ConnTypeOK
  <1>0. /\ visit[c] = "renew" /\ c \in Requesters /\ ~Holds(c)
        /\ UNCHANGED <<conn, oauth, found, polls>>
        /\ visit'[c] \in {"verify", "release"}
        /\ \A x \in Requesters \ {c} : visit'[x] = visit[x] /\ got'[x] = got[x]
        /\ issued' = issued \/ (issued' = issued + 1 /\ issued + 1 <= MaxPairs)
    <2>1. ASSUME Issue(good \ {found[c]})
          PROVE  issued' = issued + 1 /\ issued + 1 <= MaxPairs
      BY <2>1, IssueHolds
    <2>2. issued' = issued \/ (issued' = issued + 1 /\ issued + 1 <= MaxPairs)
      BY <2>1 DEF Renew
    <2> QED BY <2>2 DEF Renew, Receive, Move, Holds
  <1>1. ConnTypeOK'
    <2>1. issued' \in 0..MaxPairs /\ 0..issued \subseteq 0..issued'
      BY <1>0
    <2>2. good' \subseteq 1..issued' /\ ending' \subseteq 1..issued'
      BY IssueHolds DEF Renew
    <2>3. visit' \in [Requesters -> Visits] /\ slips' \subseteq Slips
      BY DEF Renew, Receive, Move, Visits, Slip, Slips
    <2>4. found' \in [Requesters -> 0..issued'] /\ got' \in [Requesters -> 0..issued']
      BY <1>0, <2>1 DEF Renew, Receive, Issue
    <2> QED BY <1>0, <2>1, <2>2, <2>3, <2>4
  <1>2. /\ LockIsHeld' /\ WaitersAreServed' /\ WaitersFindNew' /\ PollsLeft'
    BY <1>0 DEF LockIsHeld, WaitersAreServed, WaitersFindNew, PollsLeft, Renew, Slip
  <1>3. ASSUME Issue(good \ {found[c]}), Receive(c), UNCHANGED slips
        PROVE  ConnInv'
    <2>1. /\ got'[c] = issued + 1 /\ visit'[c] = "verify"
          /\ good' = (good \ {found[c]}) \cup {issued + 1}
      BY <1>0, <1>3 DEF Receive, Move, Issue
    <2>2. HeldApart' /\ RenewsOnward' /\ LostPresentsOld'
      BY <1>0, <1>3, <2>1 DEF HeldApart, RenewsOnward, LostPresentsOld, Holds, Unslipped
    <2>3. \A x \in Requesters \ {c} : /\ Bound(x)' <=> Bound(x)
                                      /\ Holds(x)' <=> Holds(x)
                                      /\ Holds(x) => (got'[x] \in good' <=> got[x] \in good)
      BY <1>0, <2>1 DEF Bound, Holds, HeldApart
    <2>4. KeptOrBound'
      <3>1. CASE conn.owner = c
        BY <1>0, <2>1, <3>1 DEF KeptOrBound, Bound, Holds
      <3>2. CASE conn.owner # c
        <4> SUFFICES ASSUME Unslipped', conn.pair # 0, conn.pair \notin good'
                     PROVE  \E x \in Requesters : Bound(x)' /\ got'[x] \in good'
          BY <1>0 DEF KeptOrBound
        <4>1. conn.pair \notin good
          BY <1>0, <1>3, <2>1, <3>2 DEF LostPresentsOld, Unslipped
        <4>2. PICK x \in Requesters : Bound(x) /\ got[x] \in good
          BY <1>3, <4>1 DEF KeptOrBound, Unslipped
        <4> QED BY <1>0, <2>3, <4>2 DEF Bound
      <3> QED BY <3>1, <3>2
    <2>5. RevokedAreBehind'
      <3> SUFFICES ASSUME Unslipped', NEW x \in Requesters, Bound(x)', got'[x] \notin good'
                   PROVE  \/ conn'.pair > got'[x]
                          \/ \E d \in Callbacks : Holds(d)' /\ got'[d] \in good' /\ got'[d] > got'[x]
        BY DEF RevokedAreBehind
      <3>1. x # c
        BY <2>1
      <3>2. Bound(x) /\ got'[x] = got[x] /\ got[x] \notin good /\ Unslipped
        BY <1>0, <1>3, <2>3, <3>1 DEF Bound, Unslipped
      <3>3. \A d \in Callbacks : d # c /\ got'[d] = got[d]
        BY <1>0
      <3> QED BY <1>0, <2>3, <3>2, <3>3 DEF RevokedAreBehind
    <2> QED BY <1>1, <1>2, <2>2, <2>4, <2>5
  <1>4. ASSUME Move(c, "release"), UNCHANGED <<good, slips>> \/ "unanswered" \in slips',
               UNCHANGED got, slips \subseteq slips'
        PROVE  ConnInv'
    <2>1. visit'[c] = "release" /\ (Unslipped' => Unslipped /\ UNCHANGED good)
      BY <1>0, <1>4 DEF Move, Unslipped
    <2>2. \A x \in Requesters : (Holds(x)' <=> Holds(x)) /\ (Bound(x)' <=> Bound(x))
      BY <1>0, <2>1 DEF Holds, Bound
    <2>3. HeldApart' /\ RenewsOnward' /\ LostPresentsOld' /\ KeptOrBound' /\ RevokedAreBehind'
      BY <1>0, <1>4, <2>1, <2>2
         DEF HeldApart, RenewsOnward, LostPresentsOld, KeptOrBound, RevokedAreBehind
    <2> QED BY <1>1, <1>2, <2>3
  <1> QED BY <1>3, <1>4 DEF Renew, Slip

LEMMA StoreHolds ==
  ASSUME ConnInv, NEW c \in Readers, Store(c)
  PROVE  ConnInv'
  <1> USE RequestersApart DEF ConnInv, ConnTypeOK
  <1>0. /\ visit[c] = "store" /\ c \in Requesters /\ Holds(c)
        /\ UNCHANGED <<issued, good, ending, oauth, slips>>
        /\ visit'[c] \in {"idle", "release"} /\ visit' \in [Requesters -> Visits]
        /\ \A x \in Requesters \ {c} : /\ visit'[x] = visit[x] /\ got'[x] = got[x]
                                       /\ found'[x] = found[x] /\ polls'[x] = polls[x]
    BY DEF Store, Quit, Move, Holds, Visits
  <1>1. ConnTypeOK'
    <2>1. conn' = [pair |-> got[c], owner |-> Nobody, long |-> FALSE] \/ UNCHANGED conn
      BY DEF Store
    <2>2. conn' \in [pair : 0..issued', owner : Readers \cup {Nobody, Dead}, long : BOOLEAN]
      <3>1. got[c] \in 0..issued' /\ issued' = issued
        BY <1>0
      <3>2. CASE UNCHANGED conn
        BY <3>1, <3>2
      <3>3. CASE conn' = [pair |-> got[c], owner |-> Nobody, long |-> FALSE]
        BY <3>1, <3>3
      <3> QED BY <2>1, <3>2, <3>3
    <2>3. /\ found' \in [Requesters -> 0..issued'] /\ got' \in [Requesters -> 0..issued']
          /\ polls' \in [Requesters -> 0..Polls]
      BY <1>0 DEF Store, Quit
    <2> QED BY <1>0, <2>2, <2>3
  <1>2. \A x \in Requesters : Holds(x)' <=> Holds(x) /\ x # c
    BY <1>0 DEF Holds
  <1>3. CASE MayStore(c)
    <2>1. /\ conn.owner = c /\ conn'.pair = got[c] /\ conn'.owner = Nobody
          /\ visit'[c] = "idle" /\ got'[c] = 0 /\ found'[c] = 0 /\ polls'[c] = 0
          /\ got[c] > conn.pair /\ Bound(c)
      BY <1>0, <1>3 DEF Store, MayStore, Quit, Move, RenewsOnward, Bound
    <2>2. LockIsHeld' /\ WaitersAreServed' /\ WaitersFindNew' /\ PollsLeft'
      BY <1>0, <2>1 DEF LockIsHeld, WaitersAreServed, WaitersFindNew, PollsLeft, HeldApart
    <2>3. HeldApart' /\ RenewsOnward' /\ LostPresentsOld'
      BY <1>0, <1>2, <2>1 DEF HeldApart, RenewsOnward, LostPresentsOld
    <2>4. KeptOrBound'
      <3> SUFFICES ASSUME Unslipped', got[c] \notin good
                   PROVE  \E x \in Requesters : Bound(x)' /\ got'[x] \in good'
        BY <1>0, <2>1 DEF KeptOrBound
      <3>1. PICK d \in Callbacks : Holds(d) /\ got[d] \in good
        BY <1>0, <2>1 DEF RevokedAreBehind, Unslipped
      <3> QED BY <1>0, <1>2, <3>1 DEF Bound
    <2>5. RevokedAreBehind'
      <3> SUFFICES ASSUME Unslipped', NEW x \in Requesters, Bound(x)', got'[x] \notin good'
                   PROVE  \/ conn'.pair > got'[x]
                          \/ \E d \in Callbacks : Holds(d)' /\ got'[d] \in good' /\ got'[d] > got'[x]
        BY DEF RevokedAreBehind
      <3>1. x # c /\ Bound(x) /\ got'[x] = got[x] /\ got[x] \notin good /\ Unslipped
        BY <1>0, <1>2, <2>1 DEF Bound, Unslipped
      <3> QED BY <1>0, <1>2, <2>1, <3>1 DEF RevokedAreBehind
    <2> QED BY <1>1, <2>2, <2>3, <2>4, <2>5
  <1>4. CASE ~MayStore(c)
    <2>1. /\ UNCHANGED <<conn, found, got, polls>> /\ visit'[c] = "release" /\ conn.owner # c
          /\ c \notin Callbacks
      BY <1>0, <1>4 DEF Store, MayStore, Move
    <2>2. \A x \in Requesters : Bound(x)' <=> Bound(x)
      BY <1>2, <2>1 DEF Bound
    <2>3. LockIsHeld' /\ WaitersAreServed' /\ WaitersFindNew' /\ PollsLeft'
      BY <1>0, <2>1 DEF LockIsHeld, WaitersAreServed, WaitersFindNew, PollsLeft
    <2>4. HeldApart' /\ RenewsOnward' /\ LostPresentsOld'
      BY <1>0, <1>2, <2>1 DEF HeldApart, RenewsOnward, LostPresentsOld, Unslipped
    <2>5. KeptOrBound' /\ RevokedAreBehind'
      BY <1>0, <1>2, <2>1, <2>2 DEF KeptOrBound, RevokedAreBehind, Unslipped
    <2> QED BY <1>1, <2>3, <2>4, <2>5
  <1> QED BY <1>3, <1>4

LEMMA ReleaseHolds ==
  ASSUME ConnInv, NEW c \in Readers, Release(c)
  PROVE  ConnInv'
  <1> USE RequestersApart DEF ConnInv, ConnTypeOK, Release, Slip, Quit, Move
  <1>1. ConnTypeOK'
    <2>1. conn' \in [pair : 0..issued', owner : Readers \cup {Nobody, Dead}, long : BOOLEAN]
      OBVIOUS
    <2>2. issued' \in 0..MaxPairs /\ good' \subseteq 1..issued' /\ ending' \subseteq 1..issued'
      OBVIOUS
    <2>3. oauth' \in [OauthStates -> {"unmade", "open", "spent", "over"}] /\ slips' \subseteq Slips
      BY DEF Slips
    <2>4. visit' \in [Requesters -> Visits]
      BY DEF Visits
    <2>5. /\ found' \in [Requesters -> 0..issued'] /\ got' \in [Requesters -> 0..issued']
          /\ polls' \in [Requesters -> 0..Polls]
      BY DEF PollsLeft
    <2> QED BY <2>1, <2>2, <2>3, <2>4, <2>5
  <1>2. LockIsHeld'
    BY DEF LockIsHeld
  <1>3. WaitersAreServed' /\ WaitersFindNew' /\ PollsLeft'
    BY DEF WaitersAreServed, WaitersFindNew, PollsLeft, HeldApart, Holds
  <1>4. HeldApart'
    BY DEF HeldApart, Holds
  <1>5. RenewsOnward'
    BY DEF RenewsOnward, Holds
  <1>6. LostPresentsOld'
    BY DEF LostPresentsOld, Unslipped, HeldApart, Holds
  <1>7. KeptOrBound'
    BY DEF KeptOrBound, Unslipped, Bound, Holds, RevokedAreBehind, HeldApart, RenewsOnward, LostPresentsOld
  <1>8. RevokedAreBehind'
    BY DEF RevokedAreBehind, Unslipped, Bound, Holds, HeldApart, RenewsOnward
  <1> QED BY <1>1, <1>2, <1>3, <1>4, <1>5, <1>6, <1>7, <1>8

LEMMA VerifyHolds ==
  ASSUME ConnInv, NEW x \in Requesters, Verify(x)
  PROVE  ConnInv'
  <1> USE RequestersApart DEF ConnInv, ConnTypeOK
  <1>0. /\ visit[x] = "verify" /\ UNCHANGED <<conn, issued, good, ending, oauth>>
        /\ \A y \in Requesters \ {x} : /\ visit'[y] = visit[y] /\ got'[y] = got[y]
                                       /\ found'[y] = found[y] /\ polls'[y] = polls[y]
        /\ slips \subseteq slips'
    BY DEF Verify, Move, Quit, Slip
  <1>1. ConnTypeOK'
    <2>1. visit' \in [Requesters -> Visits]
      BY DEF Verify, Move, Quit, Visits
    <2>3. slips' \subseteq Slips
      BY DEF Verify, Slip, Slips
    <2>2. /\ found' \in [Requesters -> 0..issued'] /\ got' \in [Requesters -> 0..issued']
          /\ polls' \in [Requesters -> 0..Polls]
      BY <1>0 DEF Verify, Quit
    <2> QED BY <1>0, <2>1, <2>2, <2>3
  <1>2. LockIsHeld' /\ WaitersAreServed' /\ WaitersFindNew' /\ PollsLeft'
    BY <1>0 DEF LockIsHeld, WaitersAreServed, WaitersFindNew, PollsLeft, Verify, Move, Quit, Slip
  <1>3. HeldApart' /\ RenewsOnward'
    BY <1>0 DEF HeldApart, RenewsOnward, Holds, Verify, Move, Quit
  <1>4. CASE Move(x, "store") /\ UNCHANGED <<found, got, polls, slips>>
    <2>1. \A y \in Requesters : (Holds(y)' <=> Holds(y)) /\ (Bound(y)' <=> Bound(y))
      BY <1>0, <1>4 DEF Move, Holds, Bound
    <2>2. LostPresentsOld' /\ KeptOrBound' /\ RevokedAreBehind'
      BY <1>0, <1>4, <2>1 DEF Move, LostPresentsOld, KeptOrBound, RevokedAreBehind, Unslipped
    <2> QED BY <1>1, <1>2, <1>3, <2>2
  <1>5. CASE Slip("unverified")
    <2>1. ~Unslipped'
      BY <1>5 DEF Slip, Unslipped
    <2> QED BY <1>1, <1>2, <1>3, <2>1 DEF LostPresentsOld, KeptOrBound, RevokedAreBehind
  <1> QED BY <1>4, <1>5 DEF Verify

LEMMA DieHolds ==
  ASSUME ConnInv, NEW x \in Requesters, Die(x)
  PROVE  ConnInv'
  <1> USE RequestersApart DEF ConnInv, ConnTypeOK, Die, Quit, Move, Slip
  <1>1. ConnTypeOK'
    BY DEF Visits, Slips
  <1>2. LockIsHeld'
    BY DEF LockIsHeld
  <1>3. WaitersAreServed' /\ WaitersFindNew' /\ PollsLeft'
    BY DEF WaitersAreServed, WaitersFindNew, PollsLeft, HeldApart, Holds
  <1>4. HeldApart'
    BY DEF HeldApart, Holds
  <1>5. RenewsOnward'
    BY DEF RenewsOnward, Holds
  <1>6. LostPresentsOld'
    BY DEF LostPresentsOld, Unslipped, HeldApart, Holds
  <1>7. KeptOrBound'
    BY DEF KeptOrBound, Unslipped, Bound, Holds, RevokedAreBehind, HeldApart, RenewsOnward, LostPresentsOld
  <1>8. RevokedAreBehind'
    BY DEF RevokedAreBehind, Unslipped, Bound, Holds, HeldApart, RenewsOnward
  <1> QED BY <1>1, <1>2, <1>3, <1>4, <1>5, <1>6, <1>7, <1>8

LEMMA ConnGoesOn == ConnInv /\ [ConnNext]_connVars => ConnInv'
  <1> SUFFICES ASSUME ConnInv, [ConnNext]_connVars PROVE ConnInv'
    OBVIOUS
  <1>1. CASE UNCHANGED connVars
    BY <1>1 DEF connVars, ConnInv, ConnTypeOK, LockIsHeld, WaitersAreServed, HeldApart, Holds, Bound,
         RenewsOnward, LostPresentsOld, KeptOrBound, RevokedAreBehind, WaitersFindNew, PollsLeft, Unslipped
  <1> QED BY <1>1, WearHolds, AuthorizeHolds, ReturnHolds, ExchangeHolds, ConnectHolds, LookHolds,
             TakeLockHolds, AwaitHolds, RenewHolds, StoreHolds, ReleaseHolds, VerifyHolds, DieHolds
          DEF ConnNext

\* The shop stays connected however many readings renew at once and whatever
\* an administrator connects meanwhile: it keeps a pair the provider accepts
\* while every answer came and was stored in time, and no lock outlives its
\* renewal (mercado-libre.ts).
THEOREM ConnectionIsNeverLost == ConnSpec => []ConnectionHolds
  <1>1. ConnInv => ConnectionHolds
    BY RequestersApart DEF ConnInv, ConnectionHolds, KeptOrBound, ConnectionIsKept, Unslipped, Bound, Holds
  <1> QED BY <1>1, ConnStarts, ConnGoesOn, PTL DEF ConnSpec

-----------------------------------------------------------------------------
(* The gate *)

USE TimesAssumption DEF clocks, history, Goto, Clock, Leave

-----------------------------------------------------------------------------
(* The gate: its inductive invariant *)

\* The turns that are waited for lie an interval apart, the row an interval
\* behind the last of them.
Turns ==
  /\ \A c \in Callers : pc[c] = "turn" => slot[c] + Interval <= next
  /\ \A c, d \in Callers : c # d /\ pc[c] = "turn" /\ pc[d] = "turn" =>
       slot[c] + Interval <= slot[d] \/ slot[d] + Interval <= slot[c]

\* A turn that is waited for is clear of the last permission: it starts late
\* enough after it, or its window is over on every clock.
Ahead(s) == s >= lastPermit + Interval - Window
Over(s)  == s + Window < lastPermit

Clear ==
  /\ lastPermit <= now /\ now >= Interval
  /\ lastPermit = 0 \/ Ahead(next)
  /\ \A c \in Callers : pc[c] = "turn" => Ahead(slot[c]) \/ Over(slot[c])

\* What was read of the clock is not ahead of it.
Stamps ==
  /\ now <= Interval + MaxTime
  /\ \A c \in Callers : /\ stamp[c] <= now + MaxSkew
                        /\ pc[c] = "claim" => stamp[c] >= Interval

IInv == TypeOK /\ Turns /\ Clear /\ Stamps /\ QueueBounded

-----------------------------------------------------------------------------
(* The gate: its steps *)

LEMMA LaterType ==
  ASSUME NEW s \in Nat, NEW t \in Nat
  PROVE  /\ Later(s, t) \in Nat /\ Later(s, t) >= s /\ Later(s, t) >= t
         /\ Later(s, t) \in {s, t}
  PROOF BY DEF Later

LEMMA InitIInv == Init => IInv
  <1> SUFFICES ASSUME Init PROVE IInv
    OBVIOUS
  <1>1. TypeOK
    BY DEF Init, TypeOK, Horizon, Labels
  <1>2. Turns /\ Clear /\ Stamps /\ QueueBounded
    BY DEF Init, Turns, Clear, Stamps, QueueBounded
  <1> QED BY <1>1, <1>2 DEF IInv

\* A turn is reserved, for a caller that waits for it or for one that is gone.
LEMMA ClaimKeeps ==
  ASSUME IInv, NEW c \in Callers, Claim(c)
  PROVE  IInv'
  <1> DEFINE s == Later(next, stamp[c])
  <1>1. /\ next \in Nat /\ stamp[c] \in Nat /\ next <= Horizon
        /\ now \in Nat /\ lastPermit \in Nat /\ slot \in [Callers -> 0..Horizon]
        /\ \A d \in Callers : stamp[d] \in Nat /\ slot[d] \in Nat
    BY DEF IInv, TypeOK, Horizon
  <1>2. /\ s \in Nat /\ s >= next /\ s >= stamp[c] /\ s \in {next, stamp[c]}
    BY <1>1, LaterType
  <1>3. /\ pc' = [pc EXCEPT ![c] = "turn"] /\ slot' = [slot EXCEPT ![c] = s]
        /\ next' = s + Interval /\ stamp' = [stamp EXCEPT ![c] = 0]
        /\ UNCHANGED <<now, skew, lastPermit, lastSend>>
        /\ pc[c] = "claim" /\ next <= stamp[c] + MaxQueue
    BY DEF Claim
  <1> HIDE DEF s
  <1>4. /\ pc'[c] = "turn" /\ slot'[c] = s /\ stamp'[c] = 0
        /\ \A d \in Callers : d # c =>
             pc'[d] = pc[d] /\ slot'[d] = slot[d] /\ stamp'[d] = stamp[d]
    BY <1>3 DEF IInv, TypeOK
  <1>5. s <= now + MaxSkew + MaxQueue /\ s <= Interval + MaxTime + MaxSkew + MaxQueue
    BY <1>1, <1>2, <1>3 DEF IInv, Stamps
  <1>6. TypeOK'
    <2>1. s \in 0..Horizon /\ s + Interval \in 0..Horizon
      BY <1>1, <1>2, <1>5 DEF Horizon
    <2> QED BY <1>3, <2>1 DEF IInv, TypeOK, Labels
  <1>7. Turns'
    <2>1. \A d \in Callers : pc[d] = "turn" => slot[d] + Interval <= s
      BY <1>1, <1>2 DEF IInv, Turns
    <2> QED BY <1>1, <1>2, <1>3, <1>4, <2>1 DEF IInv, Turns
  <1>8. Clear'
    <2>1. s >= Interval /\ Ahead(s) /\ Ahead(s + Interval)
      BY <1>1, <1>2, <1>3 DEF IInv, Clear, Ahead, Stamps
    <2> QED BY <1>1, <1>3, <1>4, <2>1 DEF IInv, Clear, Ahead, Over
  <1>9. Stamps'
    BY <1>1, <1>3, <1>4 DEF IInv, Stamps
  <1>10. QueueBounded'
    BY <1>1, <1>2, <1>3, <1>4, <1>5 DEF IInv, QueueBounded
  <1> QED BY <1>6, <1>7, <1>8, <1>9, <1>10 DEF IInv

\* The turn of a caller that is gone behaves like a turn without a caller.
LEMMA AbandonKeeps ==
  ASSUME IInv, NEW c \in Callers, Abandon(c)
  PROVE  IInv'
  <1>1. /\ next \in Nat /\ stamp[c] \in Nat /\ now \in Nat /\ lastPermit \in Nat
        /\ \A d \in Callers : stamp[d] \in Nat /\ slot[d] \in Nat
    BY DEF IInv, TypeOK, Horizon
  <1>2. /\ pc' = [pc EXCEPT ![c] = "idle"] /\ slot' = [slot EXCEPT ![c] = 0]
        /\ stamp' = [stamp EXCEPT ![c] = 0]
        /\ UNCHANGED <<now, skew, lastPermit, lastSend>>
    BY DEF Abandon
  <1>3. /\ pc'[c] = "idle" /\ slot'[c] = 0 /\ stamp'[c] = 0
        /\ \A d \in Callers : d # c =>
             pc'[d] = pc[d] /\ slot'[d] = slot[d] /\ stamp'[d] = stamp[d]
    BY <1>2 DEF IInv, TypeOK
  <1>4. next' \in 0..Horizon /\ next' >= next
        /\ next' <= now + MaxSkew + MaxQueue + Interval
    <2>1. CASE UNCHANGED next
      BY <1>1, <2>1 DEF IInv, TypeOK, QueueBounded
    <2>2. CASE /\ next <= stamp[c] + MaxQueue
               /\ next' = Later(next, stamp[c]) + Interval
      <3>1. /\ Later(next, stamp[c]) \in Nat /\ Later(next, stamp[c]) >= next
            /\ Later(next, stamp[c]) \in {next, stamp[c]}
        BY <1>1, LaterType
      <3>2. stamp[c] <= now + MaxSkew /\ now <= Interval + MaxTime
        BY DEF IInv, Stamps
      <3> QED BY <1>1, <2>2, <3>1, <3>2 DEF Horizon
    <2> QED BY <2>1, <2>2 DEF Abandon
  <1>5. TypeOK'
    BY <1>2, <1>4 DEF IInv, TypeOK, Labels, Horizon
  <1>6. Turns'
    BY <1>1, <1>3, <1>4 DEF IInv, Turns, Horizon
  <1>7. Clear'
    BY <1>1, <1>2, <1>3, <1>4 DEF IInv, Clear, Ahead, Over, Horizon
  <1>8. Stamps' /\ QueueBounded'
    BY <1>1, <1>2, <1>3, <1>4 DEF IInv, Stamps, QueueBounded
  <1> QED BY <1>5, <1>6, <1>7, <1>8 DEF IInv

\* Whoever is let through keeps the distance, and leaves the others clear of it.
LEMMA PermitKeeps ==
  ASSUME IInv, NEW c \in Callers, Permit(c)
  PROVE  IInv' /\ now >= lastPermit + Gap
  <1>1. /\ next \in Nat /\ now \in Nat /\ lastPermit \in Nat
        /\ skew[c] \in 0..MaxSkew /\ pc[c] = "turn"
        /\ \A d \in Callers : stamp[d] \in Nat /\ slot[d] \in Nat
    BY DEF IInv, TypeOK, Horizon, Permit
  <1>2. slot[c] <= now + skew[c] /\ now + skew[c] <= slot[c] + Window
    BY DEF Permit
  <1>3. ~Over(slot[c])
    BY <1>1, <1>2 DEF Over, IInv, Clear
  <1>4. now >= lastPermit + Gap
    BY <1>1, <1>2, <1>3 DEF IInv, Clear, Ahead, Gap
  <1>5. /\ slot' = [slot EXCEPT ![c] = 0] /\ lastPermit' = now
        /\ \E l \in {"read", "fence"} : pc' = [pc EXCEPT ![c] = l]
        /\ UNCHANGED <<now, skew, next, stamp, lastSend>>
    BY DEF Permit
  <1>6. /\ pc'[c] # "turn" /\ slot'[c] = 0 /\ pc'[c] # "claim"
        /\ \A d \in Callers : d # c => pc'[d] = pc[d] /\ slot'[d] = slot[d]
    BY <1>5 DEF IInv, TypeOK
  <1>7. TypeOK'
    BY <1>5 DEF IInv, TypeOK, Labels, Horizon
  <1>8. Turns'
    BY <1>5, <1>6 DEF IInv, Turns
  <1>9. Clear'
    <2>1. next >= now + Interval - Window
      BY <1>1, <1>2 DEF IInv, Turns
    <2>2. ASSUME NEW d \in Callers, d # c, pc[d] = "turn"
          PROVE  slot[d] >= now + Interval - Window \/ slot[d] + Window < now
      <3>1. slot[c] + Interval <= slot[d] \/ slot[d] + Interval <= slot[c]
        BY <1>1, <2>2 DEF IInv, Turns
      <3> QED BY <1>1, <1>2, <3>1
    <2> QED BY <1>1, <1>5, <1>6, <2>1, <2>2 DEF IInv, Clear, Ahead, Over
  <1>10. Stamps' /\ QueueBounded'
    BY <1>5, <1>6 DEF IInv, Stamps, QueueBounded
  <1> QED BY <1>4, <1>7, <1>8, <1>9, <1>10 DEF IInv

\* The clock is read.
LEMMA AskKeeps ==
  ASSUME IInv, NEW c \in Callers, Ask(c)
  PROVE  IInv'
  <1>1. /\ now \in Nat /\ skew[c] \in 0..MaxSkew /\ now + skew[c] \in Nat
        /\ now >= Interval
    BY DEF IInv, TypeOK, Clear
  <1>2. /\ pc' = [pc EXCEPT ![c] = "claim"]
        /\ stamp' = [stamp EXCEPT ![c] = now + skew[c]]
        /\ UNCHANGED <<now, skew, next, slot, lastPermit, lastSend>>
    BY DEF Ask
  <1>3. /\ pc'[c] = "claim" /\ stamp'[c] = now + skew[c]
        /\ \A d \in Callers : d # c => pc'[d] = pc[d] /\ stamp'[d] = stamp[d]
    BY <1>2 DEF IInv, TypeOK
  <1>4. TypeOK'
    BY <1>1, <1>2 DEF IInv, TypeOK, Labels, Horizon
  <1>5. Turns' /\ Clear' /\ QueueBounded'
    BY <1>2, <1>3 DEF IInv, Turns, Clear, Ahead, Over, QueueBounded
  <1>6. Stamps'
    BY <1>1, <1>2, <1>3 DEF IInv, Stamps
  <1> QED BY <1>4, <1>5, <1>6 DEF IInv

\* A call fails, or its request is sent and answered.
LEMMA OtherKeeps ==
  ASSUME IInv, NEW c \in Callers,
         ClaimRefused(c) \/ SlotBusy(c) \/ Send(c) \/ Answered(c)
  PROVE  IInv'
  <1>1. /\ UNCHANGED <<now, skew, next, lastPermit>>
        /\ lastSend' \in {lastSend, now}
        /\ \E l \in {"idle", "sent"} : pc' = [pc EXCEPT ![c] = l]
        /\ slot' = slot \/ slot' = [slot EXCEPT ![c] = 0]
        /\ stamp' = stamp \/ stamp' = [stamp EXCEPT ![c] = 0]
    BY DEF ClaimRefused, SlotBusy, Send, Answered
  <1>2. /\ pc'[c] \in {"idle", "sent"}
        /\ \A d \in Callers : d # c =>
             pc'[d] = pc[d] /\ slot'[d] = slot[d] /\ stamp'[d] = stamp[d]
        /\ stamp'[c] \in {stamp[c], 0}
    BY <1>1 DEF IInv, TypeOK
  <1>3. TypeOK'
    <2>1. 0 \in 0..Horizon /\ pc' \in [Callers -> Labels] /\ lastSend' \in Nat
      BY <1>1 DEF IInv, TypeOK, Labels, Horizon
    <2>2. slot' \in [Callers -> 0..Horizon] /\ stamp' \in [Callers -> Nat]
      BY <1>1, <2>1 DEF IInv, TypeOK
    <2> QED BY <1>1, <2>1, <2>2 DEF IInv, TypeOK, Horizon
  <1>4. Turns' /\ Clear' /\ QueueBounded'
    BY <1>1, <1>2 DEF IInv, Turns, Clear, Ahead, Over, QueueBounded
  <1>5. Stamps'
    <2>1. now \in Nat
      BY DEF IInv, TypeOK
    <2> QED BY <1>1, <1>2, <2>1 DEF IInv, Stamps
  <1> QED BY <1>3, <1>4, <1>5 DEF IInv

\* Time passes.
LEMMA TickKeeps == IInv /\ Tick => IInv'
  <1> SUFFICES ASSUME IInv, Tick PROVE IInv'
    OBVIOUS
  <1>1. now' = now + 1 /\ now < Interval + MaxTime /\ now \in Nat
        /\ UNCHANGED <<skew, next, pc, stamp, slot, lastPermit, lastSend>>
    BY DEF Tick, IInv, TypeOK
  <1>2. /\ next \in Nat /\ lastPermit \in Nat
        /\ \A d \in Callers : stamp[d] \in Nat /\ slot[d] \in Nat
    BY DEF IInv, TypeOK, Horizon
  <1>3. TypeOK'
    BY <1>1 DEF IInv, TypeOK, Horizon
  <1>4. Turns' /\ Clear'
    BY <1>1, <1>2 DEF IInv, Turns, Clear, Ahead, Over
  <1>5. Stamps' /\ QueueBounded'
    BY <1>1, <1>2 DEF IInv, Stamps, QueueBounded
  <1> QED BY <1>3, <1>4, <1>5 DEF IInv

\* The invariant holds in every state.
THEOREM Invariance == Spec => []IInv
  <1>1. ASSUME IInv, Next PROVE IInv'
    BY <1>1, ClaimKeeps, AbandonKeeps, PermitKeeps, AskKeeps, OtherKeeps,
       TickKeeps
       DEF Next, CallerStep
  <1>2. ASSUME IInv, UNCHANGED vars PROVE IInv'
    BY <1>2 DEF vars, IInv, TypeOK, Horizon, Turns, Clear, Ahead, Over, Stamps,
         QueueBounded
  <1> QED BY <1>1, <1>2, InitIInv, PTL DEF Spec

-----------------------------------------------------------------------------
(* The gate: its theorems *)

\* Every variable has its type, and no turn lies beyond the horizon.
THEOREM TypeCorrect == Spec => []TypeOK
  <1>1. IInv => TypeOK
    BY DEF IInv
  <1> QED BY <1>1, Invariance, PTL

\* The queue is bounded, whatever is abandoned in it.
THEOREM QueueIsBounded == Spec => []QueueBounded
  <1>1. IInv => QueueBounded
    BY DEF IInv
  <1> QED BY <1>1, Invariance, PTL

\* Two permissions of the gate are never closer than Gap.
THEOREM PermitsAreSpaced == Spec => PermitsSpaced
  <1> DEFINE Apart == \A c \in Callers :
        pc[c] = "turn" /\ pc'[c] \in {"read", "fence"} => now >= lastPermit + Gap
  <1>1. ASSUME IInv, Next PROVE Apart
    <2> SUFFICES ASSUME NEW c \in Callers, pc[c] = "turn",
                        pc'[c] \in {"read", "fence"}
                 PROVE  now >= lastPermit + Gap
      OBVIOUS
    <2>1. CASE Tick
      BY <2>1 DEF Tick
    <2>2. ASSUME NEW d \in Callers, CallerStep(d) PROVE Permit(c)
      <3>1. \/ Permit(d)
            \/ \E l \in Labels \ {"read", "fence"} : pc' = [pc EXCEPT ![d] = l]
        BY <2>2 DEF CallerStep, Ask, Claim, ClaimRefused, SlotBusy, Send, Answered,
             Abandon, Labels
      <3>2. Permit(d) => \E l \in {"read", "fence"} : pc' = [pc EXCEPT ![d] = l]
        BY DEF Permit
      <3>3. c = d
        <4>1. \E l \in Labels : pc' = [pc EXCEPT ![d] = l]
          BY <3>1, <3>2 DEF Labels
        <4>2. pc'[c] # pc[c]
          OBVIOUS
        <4>3. c # d => pc'[c] = pc[c]
          BY <1>1, <4>1 DEF IInv, TypeOK
        <4> QED BY <4>2, <4>3
      <3>4. ASSUME NEW l \in Labels, pc' = [pc EXCEPT ![c] = l] PROVE l = pc'[c]
        BY <1>1, <3>4 DEF IInv, TypeOK
      <3> QED BY <3>1, <3>3, <3>4
    <2> QED BY <1>1, <2>1, <2>2, PermitKeeps DEF Next
  <1>2. UNCHANGED vars => Apart
    BY DEF vars
  <1> QED BY <1>1, <1>2, Invariance, PTL DEF Spec, PermitsSpaced

\* The gate keeps its pace and its queue.
THEOREM GateAlwaysHolds == Spec => GateHolds
  BY PermitsAreSpaced, QueueIsBounded, PTL DEF GateHolds

-----------------------------------------------------------------------------
(* A reading of Dux: its invariant *)

\* The timers of a GET: it takes its turn an interval after the one before it
\* and after what its last answer called for, and it is given up at the deadline.
TimersAgree ==
  /\ asked.start >= 0 => nextAt = asked.start + RequestInterval
  /\ asked.start + asked.wait <= clock \/ getPc \in {"backoff", "done", "failed"}
  /\ Timed => clock <= until
  /\ getPc = "slot" => nextAt <= until /\ until < SyncDeadline
  /\ getPc = "flight" => asked.wait = 0 /\ GetsArePaced
  /\ getPc = "backoff" =>
       asked.start + asked.wait <= until /\ until < SyncDeadline /\ try + 1 < MaxGetAttempts

\* While Dux stays as the first page found it, what was read are some of the
\* items before the offset, each one once; and the length of the listing tells
\* whether items only came or only went.
PagesAgree ==
  getPc \notin {"done", "failed"} =>
    /\ read.page < MaxItemPages /\ (read.page > 0 => read.total \in Nat)
    /\ read.page = 0 => moved.kinds = {} /\ read.total = -1 /\ read.catalog = <<>>
    /\ Reading => kept \subseteq Members(listing)
    /\ moved.kinds = {} =>
         /\ read.page > 0 => Len(listing) = read.total
         /\ Once(read.catalog)
         /\ \A i \in 1..Len(read.catalog) : \E j \in 1..Len(listing) :
              j <= read.offset /\ read.catalog[i] = listing[j]
    /\ moved.kinds = {"in"} => Len(listing) > read.total
    /\ moved.kinds = {"out"} => Len(listing) < read.total

QuantitiesAgree ==
  /\ read.received = Len(read.catalog)
  /\ scoped => read.items = {[code |-> c, stock |-> Counts(c)] :
                               c \in {d \in Members(read.catalog) : Counts(d) # {}}}

ReadInv ==
  /\ ReadTypeOK /\ Once(listing)
  /\ TimersAgree /\ PagesAgree /\ QuantitiesAgree /\ ReadIsComplete

LEMMA Clocks ==
  /\ RequestInterval \in Nat /\ RequestTimeout \in Nat /\ SyncDeadline \in Nat
  /\ MaxTotalAttempts \in Nat /\ DefaultRetryDelay \in Nat /\ MaxRetryDelay \in Nat
  /\ MaxReadChanges \in Nat /\ ReadSlack \in Nat /\ RetryAfters \subseteq Nat
  /\ ItemPageLimit \in Nat /\ ItemPageLimit > 0 /\ MaxItemPages \in Nat /\ MaxItemPages > 0
  /\ MaxGetAttempts \in Nat /\ MaxGetAttempts > 0 /\ StockOf \in [ReadCodes -> SUBSET StockRows]
  BY ReadsAssumption DEF ReadsAssumption

LEMMA ThreeDirectories == Len(Directories) = 3
  BY DEF Directories

\* The steps of a GET that bring nothing to the reading.
LEMMA NothingRead ==
  ASSUME ReadInv, UNCHANGED <<listing, read, kept, moved, scoped>>,
         getPc \notin {"done", "failed"}, getPc' # "done"
  PROVE  Once(listing)' /\ PagesAgree' /\ QuantitiesAgree' /\ ReadIsComplete'
<1>1. Once(listing)'
  BY DEF ReadInv, Once
<1>2. PagesAgree'
  BY DEF ReadInv, PagesAgree, Reading, Members, Once
<1>3. QuantitiesAgree'
  BY DEF ReadInv, QuantitiesAgree, Members, Counts
<1>4. ReadIsComplete'
  BY DEF ReadIsComplete
<1> QED
  BY <1>1, <1>2, <1>3, <1>4

\* What the client and the clock are like between two steps.
GetTyped ==
  /\ clock \in 0..SyncDeadline + ReadSlack /\ step \in 0..Len(Directories)
  /\ getPc \in {"ready", "before", "slot", "flight", "backoff", "done", "failed"}
  /\ until \in 0..SyncDeadline + ReadSlack
  /\ try \in 0..MaxGetAttempts /\ attempts \in 0..MaxTotalAttempts
  /\ nextAt \in 0..SyncDeadline + RequestInterval /\ asked \in Gets

LEMMA ReadTickKeeps == ASSUME ReadInv, ReadTick PROVE (GetTyped /\ TimersAgree)'
  BY Clocks, ThreeDirectories
  DEF ReadInv, ReadTypeOK, GetTyped, TimersAgree, ReadTick, getVars, Timed, Due, GetsArePaced, Gets

LEMMA FailKeeps ==
  ASSUME ReadInv, Fail, getPc \notin {"done", "failed"} PROVE (GetTyped /\ TimersAgree)'
  BY Clocks, ThreeDirectories
  DEF ReadInv, ReadTypeOK, GetTyped, TimersAgree, Fail, AroundGet, Timed, GetsArePaced, Gets

LEMMA AttemptKeeps == ASSUME ReadInv, Attempt PROVE (GetTyped /\ TimersAgree)'
<1>1. CASE Fail
  BY <1>1, FailKeeps DEF Attempt
<1>2. CASE ~Fail
  <2>1. /\ getPc = "ready" /\ getPc' = "before" /\ attempts' = attempts + 1 /\ attempts < MaxTotalAttempts
        /\ UNCHANGED <<clock, step, until, try, nextAt, asked>>
    BY <1>2, Clocks DEF Attempt, AroundGet, ReadInv, ReadTypeOK
  <2> QED
    BY <2>1, Clocks DEF ReadInv, ReadTypeOK, GetTyped, TimersAgree, Timed, GetsArePaced, Gets
<1> QED
  BY <1>1, <1>2

LEMMA TakeSlotKeeps == ASSUME ReadInv, TakeSlot PROVE (GetTyped /\ TimersAgree)'
<1>1. CASE Fail
  BY <1>1, FailKeeps DEF TakeSlot
<1>2. CASE ~Fail
  <2>1. /\ getPc = "before" /\ getPc' = "slot" /\ until' < SyncDeadline
        /\ until' >= clock /\ until' >= nextAt /\ until' \in Nat
        /\ UNCHANGED <<clock, step, attempts, try, nextAt, asked>>
    BY <1>2, Clocks DEF TakeSlot, AroundGet, Wait, RemainingMs, ReadInv, ReadTypeOK
  <2> QED
    BY <2>1, Clocks DEF ReadInv, ReadTypeOK, GetTyped, TimersAgree, Timed, GetsArePaced, Gets
<1> QED
  BY <1>1, <1>2

LEMMA LaunchKeeps == ASSUME ReadInv, Launch PROVE (GetTyped /\ TimersAgree)'
<1>1. /\ getPc = "slot" /\ clock = until /\ clock \in Nat /\ clock < SyncDeadline /\ nextAt <= clock
      /\ asked.start \in Int /\ asked.wait \in Nat /\ asked.start + asked.wait <= clock
      /\ asked.start >= 0 => nextAt = asked.start + RequestInterval
  BY Clocks DEF ReadInv, ReadTypeOK, TimersAgree, Launch, Due, Timed, Gets
<1>2. /\ getPc' = "flight" /\ nextAt' = clock + RequestInterval
      /\ until' \in Nat /\ until' <= SyncDeadline /\ until' >= clock
      /\ UNCHANGED <<clock, step, try, attempts>>
  BY <1>1, Clocks DEF Launch, AttemptTimeout, RemainingMs, AroundGet
<1>3. asked' \in Gets /\ asked'.start = clock /\ asked'.wait = 0 /\ asked'.spaced /\ asked'.obeyed
  <2>1. (asked.start < 0 \/ clock >= asked.start + RequestInterval) = TRUE
    BY <1>1, Clocks
  <2>2. (clock >= asked.start + asked.wait) = TRUE
    BY <1>1
  <2> DEFINE respected == clock >= asked.start + asked.heard
  <2>3. respected \in BOOLEAN
    OBVIOUS
  <2>4. asked' = [start |-> clock, wait |-> 0, heard |-> 0,
                  spaced |-> TRUE, obeyed |-> TRUE, respected |-> respected]
    BY <2>1, <2>2 DEF Launch
  <2> HIDE DEF respected
  <2> QED
    BY <2>3, <2>4, <1>1 DEF Gets
<1>4. GetTyped'
  BY <1>1, <1>2, <1>3, Clocks DEF ReadInv, ReadTypeOK, GetTyped
<1>5. TimersAgree'
  BY <1>1, <1>2, <1>3, Clocks DEF TimersAgree, Timed, GetsArePaced
<1> QED
  BY <1>4, <1>5

LEMMA GetAgainKeeps == ASSUME ReadInv, GetAgain PROVE (GetTyped /\ TimersAgree)'
  BY Clocks, ThreeDirectories
  DEF ReadInv, ReadTypeOK, GetTyped, TimersAgree, GetAgain, AroundGet, Timed, Due, GetsArePaced, Gets

LEMMA GetRefusedKeeps == ASSUME ReadInv, GetRefused PROVE (GetTyped /\ TimersAgree)'
<1>1. PICK d \in RetryAfters \cup {0} :
        LET delay == IF d = 0 THEN DefaultRetryDelay ELSE RetryDelay(d) IN
        /\ asked' = [asked EXCEPT !.wait = clock - asked.start +
                                           (IF d = 0 THEN DefaultRetryDelay ELSE d)]
        /\ \/ RetryGet(delay)
           \/ /\ ~(try + 1 < MaxGetAttempts /\ delay < RemainingMs)
              /\ getPc' = "failed"
              /\ UNCHANGED <<AroundGet, until, try, attempts, nextAt, step, read, kept>>
  BY DEF GetRefused
<1> DEFINE delay == IF d = 0 THEN DefaultRetryDelay ELSE RetryDelay(d)
           called == IF d = 0 THEN DefaultRetryDelay ELSE d
<1>2. getPc = "flight" /\ clock \in Nat /\ asked \in Gets /\ asked.start \in Int /\ asked.start <= clock
  <2>1. getPc = "flight"
    BY DEF GetRefused
  <2> QED
    BY <2>1, Clocks DEF ReadInv, ReadTypeOK, TimersAgree, Gets
<1>3. called \in Nat /\ delay \in Nat /\ (delay >= called \/ ~(delay < RemainingMs))
  BY <1>2, Clocks DEF RetryDelay, RemainingMs
<1>4. clock - asked.start + called \in Nat
  BY <1>2, <1>3
<1>5. asked'.start = asked.start /\ asked'.wait = clock - asked.start + called /\ asked' \in Gets
  BY <1>1, <1>2, <1>4 DEF Gets
<1>6. CASE RetryGet(delay)
  <2>1. /\ getPc' = "backoff" /\ try + 1 < MaxGetAttempts /\ until' = clock + delay
        /\ until' < SyncDeadline /\ delay >= called
        /\ UNCHANGED <<clock, step, try, attempts, nextAt>>
    BY <1>2, <1>3, <1>6, Clocks DEF RetryGet, Wait, RemainingMs, AroundGet
  <2>2. asked'.start + asked'.wait <= until'
    BY <1>2, <1>3, <1>5, <2>1
  <2>3. GetTyped'
    BY <1>2, <1>3, <1>5, <2>1, Clocks DEF GetTyped, ReadInv, ReadTypeOK
  <2>4. TimersAgree'
    BY <1>2, <1>3, <1>5, <2>1, <2>2, Clocks DEF TimersAgree, Timed, ReadInv
  <2> QED
    BY <2>3, <2>4
<1>7. CASE getPc' = "failed" /\ UNCHANGED <<AroundGet, until, try, attempts, nextAt, step, read, kept>>
  BY <1>2, <1>5, <1>7, Clocks DEF ReadInv, ReadTypeOK, GetTyped, TimersAgree, AroundGet, Timed
<1> QED
  BY <1>1, <1>6, <1>7

LEMMA GetLostKeeps == ASSUME ReadInv, GetLost PROVE (GetTyped /\ TimersAgree)'
<1>1. CASE Fail
  BY <1>1, FailKeeps DEF GetLost
<1>2. ASSUME RetryGet(DefaultRetryDelay), NEW d \in RetryAfters \cup {0},
             asked' = [asked EXCEPT !.wait = clock - asked.start + DefaultRetryDelay, !.heard = d]
      PROVE  (GetTyped /\ TimersAgree)'
  <2>1. getPc = "flight" /\ clock \in Nat /\ asked \in Gets /\ asked.start \in Int /\ asked.start <= clock
    <3>1. getPc = "flight"
      BY DEF GetLost
    <3> QED
      BY <3>1, Clocks DEF ReadInv, ReadTypeOK, TimersAgree, Gets
  <2>2. d \in Nat /\ clock - asked.start + DefaultRetryDelay \in Nat
    BY <2>1, Clocks
  <2>3. /\ asked'.start = asked.start /\ asked'.wait = clock - asked.start + DefaultRetryDelay
        /\ asked' \in Gets
    BY <1>2, <2>1, <2>2 DEF Gets
  <2>4. /\ getPc' = "backoff" /\ try + 1 < MaxGetAttempts /\ until' = clock + DefaultRetryDelay
        /\ until' < SyncDeadline
        /\ UNCHANGED <<clock, step, try, attempts, nextAt>>
    BY <1>2, <2>1, Clocks DEF RetryGet, Wait, RemainingMs, AroundGet
  <2>5. asked'.start + asked'.wait <= until'
    BY <2>1, <2>3, <2>4, Clocks
  <2>6. GetTyped'
    BY <2>1, <2>3, <2>4, Clocks DEF GetTyped, ReadInv, ReadTypeOK
  <2>7. TimersAgree'
    BY <2>1, <2>3, <2>4, <2>5, Clocks DEF TimersAgree, Timed, ReadInv
  <2> QED
    BY <2>6, <2>7
<1> QED
  BY <1>1, <1>2 DEF GetLost

LEMMA VerifiedKeeps == ASSUME ReadInv, Verified PROVE (GetTyped /\ TimersAgree)'
  BY Clocks, ThreeDirectories
  DEF ReadInv, ReadTypeOK, GetTyped, TimersAgree, Verified, AroundGet, Timed, GetsArePaced, Gets

\* A step of a GET that brings nothing to the reading keeps the invariant.
LEMMA GetStepKeeps ==
  ASSUME ReadInv, (GetTyped /\ TimersAgree)', UNCHANGED <<listing, read, kept, moved, scoped>>,
         getPc \notin {"done", "failed"}, getPc' # "done"
  PROVE  ReadInv'
<1>1. ReadTypeOK'
  BY DEF ReadInv, ReadTypeOK, GetTyped
<1> QED
  BY <1>1, NothingRead DEF ReadInv

LEMMA GetStepsKeep ==
  ASSUME ReadInv, ReadTick \/ Attempt \/ TakeSlot \/ Launch \/ GetAgain \/ GetRefused \/ GetLost
                  \/ Unexpected \/ Unreadable \/ Partial \/ Verified
  PROVE  ReadInv'
<1>1. CASE ReadTick
  BY <1>1, ReadTickKeeps, GetStepKeeps DEF ReadTick, getVars
<1>2. CASE Attempt
  BY <1>2, AttemptKeeps, GetStepKeeps DEF Attempt, Fail, AroundGet
<1>3. CASE TakeSlot
  BY <1>3, TakeSlotKeeps, GetStepKeeps DEF TakeSlot, Fail, Wait, AroundGet
<1>4. CASE Launch
  BY <1>4, LaunchKeeps, GetStepKeeps DEF Launch, AroundGet
<1>5. CASE GetAgain
  BY <1>5, GetAgainKeeps, GetStepKeeps DEF GetAgain, AroundGet
<1>6. CASE GetRefused
  BY <1>6, GetRefusedKeeps, GetStepKeeps DEF GetRefused, RetryGet, Wait, AroundGet
<1>7. CASE GetLost
  BY <1>7, GetLostKeeps, GetStepKeeps DEF GetLost, Fail, RetryGet, Wait, AroundGet
<1>8. CASE Unexpected \/ Unreadable \/ Partial
  <2>1. getPc = "flight" /\ Fail
    BY <1>8 DEF Unexpected, Unreadable, Partial
  <2> QED
    BY <2>1, FailKeeps, GetStepKeeps DEF Fail, AroundGet
<1>9. CASE Verified
  BY <1>9, VerifiedKeeps, GetStepKeeps DEF Verified, AroundGet
<1> QED
  BY <1>1, <1>2, <1>3, <1>4, <1>5, <1>6, <1>7, <1>8, <1>9

\* What the listing becomes: an item enters once, or goes.
LEMMA Entered ==
  ASSUME NEW s \in Seq(ReadCodes), Once(s), NEW c \in ReadCodes \ Members(s), NEW i \in 0..Len(s)
  PROVE  LET t == SubSeq(s, 1, i) \o <<c>> \o SubSeq(s, i + 1, Len(s)) IN
         t \in Seq(ReadCodes) /\ Len(t) = Len(s) + 1 /\ Once(t)
<1> DEFINE a == SubSeq(s, 1, i)
           b == SubSeq(s, i + 1, Len(s))
<1>0. Len(s) \in Nat /\ \A k \in 1..Len(s) : s[k] \in ReadCodes
  BY LenProperties, ElementOfSeq
<1>1. a \in Seq(ReadCodes) /\ Len(a) = i /\ \A k \in 1..i : a[k] = s[k]
  BY <1>0, SubSeqProperties
<1>2. b \in Seq(ReadCodes) /\ Len(b) = Len(s) - i /\ \A k \in 1..Len(s) - i : b[k] = s[i + k]
  BY <1>0, SubSeqProperties
<1>3. <<c>> \in Seq(ReadCodes) /\ Len(<<c>>) = 1 /\ <<c>>[1] = c
  OBVIOUS
<1> HIDE DEF a, b
<1> DEFINE ac == a \o <<c>>
<1>4. /\ ac \in Seq(ReadCodes) /\ Len(ac) = i + 1
      /\ \A k \in 1..i + 1 : ac[k] = IF k <= i THEN s[k] ELSE c
  <2>1. /\ ac \in Seq(ReadCodes) /\ Len(ac) = i + 1
        /\ \A k \in 1..i + 1 : ac[k] = IF k <= i THEN a[k] ELSE <<c>>[k - i]
    BY <1>1, <1>3, ConcatProperties
  <2> QED
    BY <1>0, <1>1, <1>3, <2>1
<1> HIDE DEF ac
<1> DEFINE t == ac \o b
<1>5. /\ t \in Seq(ReadCodes) /\ Len(t) = Len(s) + 1
      /\ \A k \in 1..Len(s) + 1 : t[k] = IF k <= i THEN s[k] ELSE IF k = i + 1 THEN c ELSE s[k - 1]
  <2>1. /\ t \in Seq(ReadCodes) /\ Len(t) = (i + 1) + (Len(s) - i)
        /\ \A k \in 1..(i + 1) + (Len(s) - i) : t[k] = IF k <= i + 1 THEN ac[k] ELSE b[k - (i + 1)]
    <3>1. /\ t \in Seq(ReadCodes) /\ Len(t) = Len(ac) + Len(b)
          /\ \A k \in 1..Len(ac) + Len(b) : t[k] = IF k <= Len(ac) THEN ac[k] ELSE b[k - Len(ac)]
      BY <1>2, <1>4, ConcatProperties
    <3> QED
      BY <1>2, <1>4, <3>1
  <2> HIDE DEF t
  <2>2. ASSUME NEW k \in 1..Len(s) + 1
        PROVE  t[k] = IF k <= i THEN s[k] ELSE IF k = i + 1 THEN c ELSE s[k - 1]
    <3>1. CASE k <= i + 1
      BY <1>0, <1>4, <2>1, <3>1
    <3>2. CASE k > i + 1
      <4>1. k - (i + 1) \in 1..Len(s) - i /\ i + (k - (i + 1)) = k - 1
        BY <1>0, <3>2
      <4>2. k \in 1..(i + 1) + (Len(s) - i) /\ ~(k <= i + 1)
        BY <1>0, <3>2
      <4>3. t[k] = b[k - (i + 1)]
        BY <2>1, <4>2
      <4>4. b[k - (i + 1)] = s[k - 1]
        BY <1>2, <4>1
      <4> QED
        BY <1>0, <3>2, <4>3, <4>4
    <3> QED
      BY <1>0, <3>1, <3>2
  <2> QED
    BY <1>0, <2>1, <2>2
<1> HIDE DEF t
<1>6. \A k \in 1..Len(s) : s[k] # c
  BY DEF Members
<1>7. Once(t)
  <2> SUFFICES ASSUME NEW k \in 1..Len(s) + 1, NEW l \in 1..Len(s) + 1, t[k] = t[l]
               PROVE  k = l
    BY <1>5 DEF Once
  <2> DEFINE At(n) == IF n <= i THEN n ELSE n - 1
  <2>1. CASE k # i + 1 /\ l # i + 1
    <3>1. At(k) \in 1..Len(s) /\ At(l) \in 1..Len(s) /\ t[k] = s[At(k)] /\ t[l] = s[At(l)]
      BY <1>0, <1>5, <2>1
    <3>2. At(k) = At(l)
      BY <3>1 DEF Once
    <3> QED
      BY <1>0, <2>1, <3>2
  <2>2. CASE k = i + 1
    <3>1. ASSUME l # i + 1 PROVE FALSE
      <4>1. At(l) \in 1..Len(s) /\ t[l] = s[At(l)] /\ t[k] = c
        BY <1>0, <1>5, <2>2, <3>1
      <4> QED
        BY <1>6, <4>1
    <3> QED
      BY <2>2, <3>1
  <2>3. CASE l = i + 1
    <3>1. ASSUME k # i + 1 PROVE FALSE
      <4>1. At(k) \in 1..Len(s) /\ t[k] = s[At(k)] /\ t[l] = c
        BY <1>0, <1>5, <2>3, <3>1
      <4> QED
        BY <1>6, <4>1
    <3> QED
      BY <2>3, <3>1
  <2> QED
    BY <2>1, <2>2, <2>3
<1> QED
  BY <1>5, <1>7 DEF t, ac, a, b

LEMMA Shortened ==
  ASSUME NEW s \in Seq(ReadCodes), Once(s), NEW i \in 1..Len(s)
  PROVE  LET t == SubSeq(s, 1, i - 1) \o SubSeq(s, i + 1, Len(s)) IN
         t \in Seq(ReadCodes) /\ Len(t) = Len(s) - 1 /\ Once(t)
<1> DEFINE a == SubSeq(s, 1, i - 1)
           b == SubSeq(s, i + 1, Len(s))
<1>0. Len(s) \in Nat /\ \A k \in 1..Len(s) : s[k] \in ReadCodes
  BY LenProperties, ElementOfSeq
<1>1. a \in Seq(ReadCodes) /\ Len(a) = i - 1 /\ \A k \in 1..i - 1 : a[k] = s[k]
  BY <1>0, SubSeqProperties
<1>2. b \in Seq(ReadCodes) /\ Len(b) = Len(s) - i /\ \A k \in 1..Len(s) - i : b[k] = s[i + k]
  BY <1>0, SubSeqProperties
<1> HIDE DEF a, b
<1> DEFINE t == a \o b
<1>3. /\ t \in Seq(ReadCodes) /\ Len(t) = Len(s) - 1
      /\ \A k \in 1..Len(s) - 1 : t[k] = IF k <= i - 1 THEN s[k] ELSE s[k + 1]
  <2>1. /\ t \in Seq(ReadCodes) /\ Len(t) = (i - 1) + (Len(s) - i)
        /\ \A k \in 1..(i - 1) + (Len(s) - i) : t[k] = IF k <= i - 1 THEN a[k] ELSE b[k - (i - 1)]
    <3>1. a \in Seq(ReadCodes) /\ b \in Seq(ReadCodes) /\ Len(a) = i - 1 /\ Len(b) = Len(s) - i
      BY <1>1, <1>2
    <3>2. /\ t \in Seq(ReadCodes) /\ Len(t) = Len(a) + Len(b)
          /\ \A k \in 1..Len(a) + Len(b) : t[k] = IF k <= Len(a) THEN a[k] ELSE b[k - Len(a)]
      <4>1. a \in Seq(ReadCodes) /\ b \in Seq(ReadCodes)
        BY <3>1
      <4> QED
        BY ONLY <4>1, ConcatProperties
    <3> QED
      BY ONLY <3>1, <3>2
  <2> HIDE DEF t
  <2>2. ASSUME NEW k \in 1..Len(s) - 1
        PROVE  t[k] = IF k <= i - 1 THEN s[k] ELSE s[k + 1]
    <3>1. CASE k <= i - 1
      <4>1. k \in 1..i - 1 /\ k \in 1..(i - 1) + (Len(s) - i)
        BY <1>0, <3>1
      <4> QED
        BY <1>1, <2>1, <3>1, <4>1
    <3>2. CASE k > i - 1
      <4>1. k - (i - 1) \in 1..Len(s) - i /\ i + (k - (i - 1)) = k + 1
        BY <1>0, <3>2
      <4> QED
        BY <1>0, <1>2, <2>1, <3>2, <4>1
    <3> QED
      BY <1>0, <3>1, <3>2
  <2> QED
    BY <1>0, <2>1, <2>2
<1> HIDE DEF t
<1>4. Once(t)
  <2> SUFFICES ASSUME NEW k \in 1..Len(s) - 1, NEW l \in 1..Len(s) - 1, t[k] = t[l]
               PROVE  k = l
    BY <1>0, <1>3 DEF Once
  <2> QED
    BY <1>0, <1>3 DEF Once
<1> QED
  BY <1>3, <1>4 DEF t, a, b

\* A change of the items: the listing stays one of different codes, and tells by
\* its length which way it went.
LEMMA ChangeKeeps ==
  ASSUME ReadInv, NEW kind \in {"in", "out"}, NEW s \in Seq(ReadCodes), Once(s),
         Len(s) = IF kind = "in" THEN Len(listing) + 1 ELSE Len(listing) - 1,
         ItemsChange({kind}, s)
  PROVE  ReadInv'
<1>1. /\ listing' = s /\ moved'.n = moved.n + 1 /\ moved.n < MaxReadChanges
      /\ moved'.kinds = IF Reading THEN moved.kinds \cup {kind} ELSE moved.kinds
      /\ moved' \in [n : 0..MaxReadChanges, kinds : SUBSET {"in", "out"}]
      /\ kept' = IF Reading THEN kept \cap Members(s) ELSE kept
      /\ UNCHANGED <<clock, scoped, step, getVars, read>>
  BY Clocks DEF ItemsChange, ReadInv, ReadTypeOK
<1>2. UNCHANGED <<clock, scoped, step, getPc, until, try, attempts, nextAt, asked, read>>
  BY <1>1 DEF getVars
<1>3. ReadTypeOK'
  <2>1. kept' \subseteq ReadCodes
    BY <1>1 DEF ReadInv, ReadTypeOK
  <2> QED
    BY <1>1, <1>2, <2>1 DEF ReadInv, ReadTypeOK
<1>4. Once(listing)'
  BY <1>1
<1>5. TimersAgree'
  BY <1>2 DEF ReadInv, TimersAgree, Timed, GetsArePaced
<1>6. QuantitiesAgree'
  BY <1>2 DEF ReadInv, QuantitiesAgree, Members, Counts
<1>7. ReadIsComplete'
  <2>1. getPc = "done" => UNCHANGED <<moved.kinds, kept>>
    BY <1>1 DEF Reading
  <2> QED
    BY <1>2, <2>1 DEF ReadInv, ReadIsComplete, Members, Once, Counts
<1>8. PagesAgree'
  <2> SUFFICES ASSUME getPc \notin {"done", "failed"}
               PROVE  PagesAgree'
    BY <1>2 DEF PagesAgree
  <2>1. CASE read.page = 0
    <3>1. /\ ~Reading /\ moved'.kinds = {} /\ read.catalog = <<>> /\ Len(read.catalog) = 0
          /\ read.total = -1 /\ ~Reading' /\ kept' = kept
      BY <1>1, <1>2, <2>1 DEF ReadInv, PagesAgree, Reading
    <3>2. Once(read.catalog)'
      BY <3>1, <1>2 DEF Once
    <3> QED
      BY <1>1, <1>2, <2>1, <3>1, <3>2, Clocks DEF ReadInv, PagesAgree
  <2>2. CASE read.page # 0
    <3>1. Reading /\ Reading' /\ read.page > 0 /\ read.total \in Nat /\ Len(listing) \in Nat
      BY <1>2, <2>2, Clocks DEF Reading, ReadInv, ReadTypeOK, ReadRecords, PagesAgree
    <3>2. kept' \subseteq Members(listing')
      BY <1>1, <3>1
    <3>3. moved'.kinds = moved.kinds \cup {kind} /\ moved'.kinds # {}
      BY <1>1, <3>1
    <3>4. /\ moved.kinds = {} => Len(listing) = read.total
          /\ moved.kinds = {"in"} => Len(listing) > read.total
          /\ moved.kinds = {"out"} => Len(listing) < read.total
          /\ moved.kinds \subseteq {"in", "out"}
      BY <3>1 DEF ReadInv, PagesAgree, ReadTypeOK
    <3>5. /\ moved'.kinds = {"in"} => kind = "in" /\ moved.kinds \in {{}, {"in"}}
          /\ moved'.kinds = {"out"} => kind = "out" /\ moved.kinds \in {{}, {"out"}}
      BY <3>3, <3>4
    <3>6. /\ moved'.kinds = {"in"} => Len(s) > read.total
          /\ moved'.kinds = {"out"} => Len(s) < read.total
      BY <3>1, <3>4, <3>5
    <3>7. read.page < MaxItemPages
      BY DEF ReadInv, PagesAgree
    <3>8. UNCHANGED <<getPc, read>> /\ listing' = s
      BY <1>1, <1>2
    <3> QED
      BY <3>1, <3>2, <3>3, <3>6, <3>7, <3>8 DEF PagesAgree
  <2> QED
    BY <2>1, <2>2
<1> QED
  BY <1>3, <1>4, <1>5, <1>6, <1>7, <1>8 DEF ReadInv

LEMMA ItemsKeep == ASSUME ReadInv, ItemEnters \/ ItemLeaves PROVE ReadInv'
<1>0. listing \in Seq(ReadCodes) /\ Once(listing)
  BY DEF ReadInv, ReadTypeOK
<1>1. CASE ItemEnters
  <2>1. PICK c \in ReadCodes \ Members(listing), i \in 0..Len(listing) :
          ItemsChange({"in"}, SubSeq(listing, 1, i) \o <<c>> \o SubSeq(listing, i + 1, Len(listing)))
    BY <1>1 DEF ItemEnters
  <2> QED
    BY <1>0, <2>1, Entered, ChangeKeeps
<1>2. CASE ItemLeaves
  <2>1. PICK i \in 1..Len(listing) :
          ItemsChange({"out"}, SubSeq(listing, 1, i - 1) \o SubSeq(listing, i + 1, Len(listing)))
    BY <1>2 DEF ItemLeaves
  <2> QED
    BY <1>0, <2>1, Shortened, ChangeKeeps
<1> QED
  BY <1>1, <1>2

\* A page: items of the listing, in order, behind the offset and before the next.
LEMMA PageOfListing ==
  ASSUME ReadInv, NEW n \in 0..Len(Slice)
  PROVE  LET page == SubSeq(Slice, 1, n) IN
         /\ page \in Seq(ReadCodes) /\ Len(page) = n
         /\ \A i \in 1..n : /\ page[i] = listing[read.offset + i]
                            /\ read.offset + i \in 1..Len(listing) /\ i <= ItemPageLimit
<1>0. listing \in Seq(ReadCodes) /\ Len(listing) \in Nat /\ read.offset \in Nat
      /\ \A k \in 1..Len(listing) : listing[k] \in ReadCodes
  BY ElementOfSeq, LenProperties DEF ReadInv, ReadTypeOK, ReadRecords
<1>1. SliceEnd \in Nat /\ SliceEnd <= Len(listing) /\ SliceEnd <= read.offset + ItemPageLimit
  BY <1>0, Clocks DEF SliceEnd
<1>2. /\ Slice \in Seq(ReadCodes)
      /\ Len(Slice) = IF read.offset + 1 <= SliceEnd THEN SliceEnd - read.offset ELSE 0
      /\ \A k \in 1..SliceEnd - read.offset : Slice[k] = listing[read.offset + k]
  <2>1. /\ Slice \in Seq(ReadCodes)
        /\ Len(Slice) = IF read.offset + 1 <= SliceEnd THEN SliceEnd - (read.offset + 1) + 1 ELSE 0
        /\ \A k \in 1..SliceEnd - (read.offset + 1) + 1 : Slice[k] = listing[(read.offset + 1) + k - 1]
    BY <1>0, <1>1, SubSeqProperties DEF Slice
  <2> QED
    BY <1>0, <1>1, <2>1
<1>3. n \in Nat /\ n <= Len(Slice) /\ \A k \in 1..n : Slice[k] \in ReadCodes
  BY <1>2, ElementOfSeq, LenProperties
<1> HIDE DEF Slice
<1> DEFINE page == SubSeq(Slice, 1, n)
<1>4. page \in Seq(ReadCodes) /\ Len(page) = n /\ \A i \in 1..n : page[i] = Slice[i]
  <2>1. /\ page \in Seq(ReadCodes) /\ Len(page) = IF 1 <= n THEN n - 1 + 1 ELSE 0
        /\ \A i \in 1..n - 1 + 1 : page[i] = Slice[1 + i - 1]
    BY <1>3, SubSeqProperties
  <2> QED
    BY <1>3, <2>1
<1> HIDE DEF page
<1>5. ASSUME NEW i \in 1..n
      PROVE  /\ page[i] = listing[read.offset + i]
             /\ read.offset + i \in 1..Len(listing) /\ i <= ItemPageLimit
  <2>1. i \in 1..SliceEnd - read.offset
    BY <1>0, <1>1, <1>2, <1>3
  <2> QED
    <3>1. page[i] = listing[read.offset + i]
      BY <1>2, <1>4, <2>1
    <3>2. i <= SliceEnd - read.offset /\ i >= 1
      BY <1>0, <1>1, <2>1
    <3> QED
      BY <1>0, <1>1, <3>1, <3>2, Clocks
<1> QED
  BY <1>4, <1>5 DEF page

LEMMA MembersOfBoth ==
  ASSUME NEW s \in Seq(ReadCodes), NEW t \in Seq(ReadCodes)
  PROVE  Members(s \o t) = Members(s) \cup Members(t)
<1>0. Len(s) \in Nat /\ Len(t) \in Nat
  BY LenProperties
<1>1. /\ Len(s \o t) = Len(s) + Len(t)
      /\ \A i \in 1..Len(s) + Len(t) : (s \o t)[i] = IF i <= Len(s) THEN s[i] ELSE t[i - Len(s)]
  BY ConcatProperties
<1> DEFINE st == s \o t
<1> HIDE DEF st
<1>2. Members(st) \subseteq Members(s) \cup Members(t)
  <2> SUFFICES ASSUME NEW i \in 1..Len(st) PROVE st[i] \in Members(s) \cup Members(t)
    BY DEF Members
  <2>1. CASE i <= Len(s)
    BY <1>0, <1>1, <2>1 DEF Members, st
  <2>2. CASE i > Len(s)
    <3>1. i - Len(s) \in 1..Len(t) /\ st[i] = t[i - Len(s)]
      BY <1>0, <1>1, <2>2 DEF st
    <3> QED
      BY <3>1 DEF Members
  <2> QED
    BY <1>0, <1>1, <2>1, <2>2 DEF st
<1>3. Members(s) \subseteq Members(st)
  <2> SUFFICES ASSUME NEW i \in 1..Len(s) PROVE s[i] \in Members(st)
    BY DEF Members
  <2>1. i \in 1..Len(st) /\ st[i] = s[i]
    BY <1>0, <1>1 DEF st
  <2> QED
    BY <2>1 DEF Members
<1>4. Members(t) \subseteq Members(st)
  <2> SUFFICES ASSUME NEW i \in 1..Len(t) PROVE t[i] \in Members(st)
    BY DEF Members
  <2>1. Len(s) + i \in 1..Len(st) /\ ~(Len(s) + i <= Len(s)) /\ (Len(s) + i) - Len(s) = i
    BY <1>0, <1>1 DEF st
  <2>2. st[Len(s) + i] = t[i]
    BY <1>0, <1>1, <2>1 DEF st
  <2> QED
    BY <2>1, <2>2 DEF Members
<1> QED
  BY <1>2, <1>3, <1>4 DEF st

\* What is kept of a page has a type, and is what its codes count.
LEMMA KeptOfPage ==
  ASSUME ReadInv, NEW page \in Seq(ReadCodes)
  PROVE  /\ Keep(page) \subseteq [code : ReadCodes, stock : SUBSET StockRows]
         /\ scoped => Keep(page) = {[code |-> c, stock |-> Counts(c)] :
                                     c \in {d \in Members(page) : Counts(d) # {}}}
<1>0. Members(page) \subseteq ReadCodes
  BY ElementOfSeq DEF Members
<1>1. \A c \in Members(page) : Quantified(c) \subseteq StockRows
  BY <1>0, Clocks DEF Quantified, InScope
<1>2. ASSUME NEW c \in Members(page), scoped
      PROVE  Quantified(c) = Counts(c) /\ (Excluded(c) <=> Counts(c) = {})
  <2>1. StockOf[c] \subseteq StockRows
    BY <1>0, Clocks
  <2>2. \A r \in StockOf[c] : r[1] \in Authorized /\ r[2] = "counted" <=> r \in Authorized \X {"counted"}
    BY <2>1 DEF StockRows
  <2>3. Quantified(c) = Counts(c)
    BY <1>2, <2>2 DEF Quantified, InScope, Counts
  <2> QED
    BY <1>2, <2>3 DEF Excluded
<1>3. Keep(page) \subseteq [code : ReadCodes, stock : SUBSET StockRows]
  BY <1>0, <1>1 DEF Keep
<1>4. ASSUME scoped
      PROVE  Keep(page) = {[code |-> c, stock |-> Counts(c)] : c \in {d \in Members(page) : Counts(d) # {}}}
  BY <1>2, <1>4 DEF Keep
<1> QED
  BY <1>3, <1>4

\* What is read once, as many times as there are items, is all of them.
LEMMA AllRead ==
  ASSUME NEW s \in Seq(ReadCodes), NEW t \in Seq(ReadCodes), Once(s), Once(t),
         Members(t) \subseteq Members(s), Len(t) = Len(s)
  PROVE  Members(t) = Members(s)
<1>0. /\ Len(s) \in Nat /\ DOMAIN s = 1..Len(s) /\ s \in [1..Len(s) -> ReadCodes]
      /\ t \in [1..Len(s) -> ReadCodes]
  BY LenProperties
<1>1. s \in Bijection(1..Len(s), Members(s))
  BY <1>0 DEF Bijection, Injection, Surjection, IsInjective, Members, Once
<1>2. t \in Bijection(1..Len(s), Members(t))
  BY <1>0 DEF Bijection, Injection, Surjection, IsInjective, Members, Once
<1>3. IsFiniteSet(1..Len(s))
  BY <1>0, FS_Interval
<1>4. /\ IsFiniteSet(Members(s)) /\ Cardinality(Members(s)) = Cardinality(1..Len(s))
      /\ Cardinality(Members(t)) = Cardinality(1..Len(s))
  BY <1>1, <1>2, <1>3, FS_Bijection DEF ExistsBijection
<1> QED
  BY <1>4, FS_Subset

LEMMA ItemsPageKeeps == ASSUME ReadInv, ItemsPage PROVE ReadInv'
<1>1. PICK n \in 0..Len(Slice), more \in BOOLEAN :
        LET page == SubSeq(Slice, 1, n) IN
        IF ~Accepts(page, Len(listing), more) \/ (more /\ read.page + 1 = MaxItemPages) THEN Fail
        ELSE /\ read' = [offset |-> read.offset + ItemPageLimit, page |-> read.page + 1,
                         total |-> Len(listing), received |-> read.received + n,
                         items |-> read.items \cup Observe(page).items,
                         catalog |-> read.catalog \o Observe(page).catalog]
             /\ kept' = IF read.page = 0 THEN Members(listing) ELSE kept
             /\ getPc' = IF more THEN "ready" ELSE "done"
             /\ try' = 0
             /\ UNCHANGED <<AroundGet, until, attempts, nextAt, asked, step>>
  BY DEF ItemsPage
<1> DEFINE page == SubSeq(Slice, 1, n)
           refused == ~Accepts(page, Len(listing), more) \/ (more /\ read.page + 1 = MaxItemPages)
<1>2. getPc = "flight" /\ ~Due
  BY DEF ItemsPage
<1>3. CASE refused
  <2>1. Fail
    BY <1>1, <1>3
  <2> QED
    BY <1>2, <2>1, FailKeeps, GetStepKeeps DEF Fail, AroundGet
<1>4. CASE ~refused
  <2>1. /\ page \in Seq(ReadCodes) /\ Len(page) = n
        /\ \A i \in 1..n : /\ page[i] = listing[read.offset + i]
                           /\ read.offset + i \in 1..Len(listing) /\ i <= ItemPageLimit
    BY PageOfListing
  <2>2. /\ Keep(page) \subseteq [code : ReadCodes, stock : SUBSET StockRows]
        /\ scoped => Keep(page) = {[code |-> c, stock |-> Counts(c)] :
                                    c \in {d \in Members(page) : Counts(d) # {}}}
    BY <2>1, KeptOfPage
  <2>3. /\ read.total \in {-1, Len(listing)} /\ read.received + Len(page) <= Len(listing)
        /\ ~more => read.received + Len(page) = Len(listing)
        /\ more => read.page + 1 # MaxItemPages
    BY <1>4 DEF Accepts
  <2>4. /\ read'.offset = read.offset + ItemPageLimit /\ read'.page = read.page + 1
        /\ read'.total = Len(listing) /\ read'.received = read.received + n
        /\ read'.items = read.items \cup Keep(page) /\ read'.catalog = read.catalog \o page
        /\ read' = [offset |-> read.offset + ItemPageLimit, page |-> read.page + 1,
                    total |-> Len(listing), received |-> read.received + n,
                    items |-> read.items \cup Keep(page), catalog |-> read.catalog \o page]
        /\ kept' = IF read.page = 0 THEN Members(listing) ELSE kept
        /\ getPc' = IF more THEN "ready" ELSE "done"
        /\ try' = 0
        /\ UNCHANGED <<listing, clock, scoped, moved, until, attempts, nextAt, asked, step>>
    <3>1. Observe(page).items = Keep(page) /\ Observe(page).catalog = page
      BY DEF Observe
    <3>2. /\ read' = [offset |-> read.offset + ItemPageLimit, page |-> read.page + 1,
                      total |-> Len(listing), received |-> read.received + n,
                      items |-> read.items \cup Observe(page).items,
                      catalog |-> read.catalog \o Observe(page).catalog]
          /\ kept' = IF read.page = 0 THEN Members(listing) ELSE kept
          /\ getPc' = IF more THEN "ready" ELSE "done"
          /\ try' = 0
          /\ UNCHANGED <<AroundGet, until, attempts, nextAt, asked, step>>
      BY <1>1, <1>4
    <3> HIDE DEF page, refused
    <3>3. read' = [offset |-> read.offset + ItemPageLimit, page |-> read.page + 1,
                    total |-> Len(listing), received |-> read.received + n,
                    items |-> read.items \cup Keep(page), catalog |-> read.catalog \o page]
      BY <3>1, <3>2
    <3>4. UNCHANGED <<listing, clock, scoped, moved, until, attempts, nextAt, asked, step>>
      BY <3>2 DEF AroundGet
    <3>5. /\ read'.offset = read.offset + ItemPageLimit /\ read'.page = read.page + 1
          /\ read'.total = Len(listing) /\ read'.received = read.received + n
          /\ read'.items = read.items \cup Keep(page) /\ read'.catalog = read.catalog \o page
      BY <3>3
    <3> QED
      BY <3>2, <3>3, <3>4, <3>5
  <2> HIDE DEF page, refused
  <2>5. /\ listing \in Seq(ReadCodes) /\ Len(listing) \in Nat /\ Once(listing)
        /\ \A k \in 1..Len(listing) : listing[k] \in ReadCodes
        /\ read.offset \in Nat /\ read.page \in Nat /\ read.page < MaxItemPages
        /\ read.catalog \in Seq(ReadCodes) /\ Len(read.catalog) \in Nat
        /\ read.received = Len(read.catalog) /\ read.received \in Nat
        /\ read.items \subseteq [code : ReadCodes, stock : SUBSET StockRows]
        /\ kept \subseteq ReadCodes /\ n \in Nat
    BY <1>2, Clocks, ElementOfSeq, LenProperties
    DEF ReadInv, ReadTypeOK, ReadRecords, PagesAgree, QuantitiesAgree
  <2>6. /\ read'.catalog \in Seq(ReadCodes) /\ Len(read'.catalog) = Len(read.catalog) + n
        /\ \A i \in 1..Len(read.catalog) + n :
             read'.catalog[i] = IF i <= Len(read.catalog) THEN read.catalog[i]
                                ELSE page[i - Len(read.catalog)]
        /\ Members(read'.catalog) = Members(read.catalog) \cup Members(page)
    <3>1. /\ read.catalog \o page \in Seq(ReadCodes)
          /\ Len(read.catalog \o page) = Len(read.catalog) + Len(page)
          /\ \A i \in 1..Len(read.catalog) + Len(page) :
               (read.catalog \o page)[i] = IF i <= Len(read.catalog) THEN read.catalog[i]
                                           ELSE page[i - Len(read.catalog)]
          /\ Members(read.catalog \o page) = Members(read.catalog) \cup Members(page)
      <4>1. /\ read.catalog \o page \in Seq(ReadCodes)
            /\ Len(read.catalog \o page) = Len(read.catalog) + Len(page)
            /\ \A i \in 1..Len(read.catalog) + Len(page) :
                 (read.catalog \o page)[i] = IF i <= Len(read.catalog) THEN read.catalog[i]
                                             ELSE page[i - Len(read.catalog)]
        <5>1. read.catalog \in Seq(ReadCodes) /\ page \in Seq(ReadCodes)
          BY <2>1, <2>5
        <5> QED
          BY ONLY <5>1, ConcatProperties
      <4>2. Members(read.catalog \o page) = Members(read.catalog) \cup Members(page)
        BY <2>1, <2>5, MembersOfBoth, Zenon
      <4> QED
        BY <4>1, <4>2
    <3>2. read'.catalog = read.catalog \o page /\ Len(page) = n
      BY <2>1, <2>4
    <3> QED
      BY <3>1, <3>2
  <2>7. ReadTypeOK'
    <3>1. read' \in ReadRecords
      BY <2>2, <2>4, <2>5, <2>6, Clocks DEF ReadRecords
    <3>2. kept' \subseteq ReadCodes
      BY <2>4, <2>5 DEF Members
    <3> QED
      BY <2>4, <3>1, <3>2, Clocks DEF ReadInv, ReadTypeOK
  <2>8. Once(listing)'
    BY <2>4, <2>5
  <2>9. TimersAgree'
    BY <1>2, <2>4 DEF ReadInv, TimersAgree, Timed, GetsArePaced, ReadTypeOK, Gets
  <2>10. QuantitiesAgree'
    <3>1. read'.received = Len(read'.catalog)
      BY <2>4, <2>5, <2>6
    <3>2. ASSUME scoped
          PROVE  read'.items = {[code |-> c, stock |-> Counts(c)] :
                                  c \in {d \in Members(read'.catalog) : Counts(d) # {}}}
      BY <2>2, <2>4, <2>6, <3>2 DEF ReadInv, QuantitiesAgree
    <3> QED
      BY <2>4, <3>1, <3>2 DEF QuantitiesAgree, Counts, Members
  <2>11. moved.kinds = {} =>
           /\ Once(read'.catalog)
           /\ \A i \in 1..Len(read'.catalog) : \E j \in 1..Len(listing) :
                j <= read'.offset /\ read'.catalog[i] = listing[j]
    <3> SUFFICES ASSUME moved.kinds = {}
                 PROVE  /\ Once(read'.catalog)
                        /\ \A i \in 1..Len(read'.catalog) : \E j \in 1..Len(listing) :
                             j <= read'.offset /\ read'.catalog[i] = listing[j]
      OBVIOUS
    <3>1. /\ Once(read.catalog)
          /\ \A i \in 1..Len(read.catalog) : \E j \in 1..Len(listing) :
               j <= read.offset /\ read.catalog[i] = listing[j]
      BY <1>2 DEF ReadInv, PagesAgree
    <3>2. ASSUME NEW i \in Len(read.catalog) + 1..Len(read.catalog) + n
          PROVE  LET j == read.offset + (i - Len(read.catalog)) IN
                 /\ j \in 1..Len(listing) /\ j > read.offset /\ j <= read'.offset
                 /\ read'.catalog[i] = listing[j]
      <4>1. i - Len(read.catalog) \in 1..n /\ i \in 1..Len(read.catalog) + n /\ ~(i <= Len(read.catalog))
        BY <2>5
      <4>2. read'.catalog[i] = page[i - Len(read.catalog)]
        BY <2>6, <4>1
      <4> QED
        <5>1. /\ page[i - Len(read.catalog)] = listing[read.offset + (i - Len(read.catalog))]
              /\ read.offset + (i - Len(read.catalog)) \in 1..Len(listing)
              /\ i - Len(read.catalog) <= ItemPageLimit
          BY <2>1, <4>1
        <5>2. i - Len(read.catalog) \in Nat /\ i - Len(read.catalog) > 0
          BY <4>1, <2>5
        <5>3. read'.offset = read.offset + ItemPageLimit
          BY <2>4
        <5>4. /\ read.offset + (i - Len(read.catalog)) > read.offset
              /\ read.offset + (i - Len(read.catalog)) <= read'.offset
          <6>1. \A o, d, m \in Nat : d > 0 /\ d <= m => o + d > o /\ o + d <= o + m
            OBVIOUS
          <6> QED
            BY <2>5, <5>1, <5>2, <5>3, <6>1, Clocks
        <5> QED
          BY <4>2, <5>1, <5>4
    <3>3. ASSUME NEW i \in 1..Len(read.catalog)
          PROVE  read'.catalog[i] = read.catalog[i]
      BY <2>5, <2>6
    <3>4. ASSUME NEW i \in 1..Len(read'.catalog)
          PROVE  \E j \in 1..Len(listing) : j <= read'.offset /\ read'.catalog[i] = listing[j]
      <4>1. CASE i <= Len(read.catalog)
        <5>1. i \in 1..Len(read.catalog)
          BY <2>5, <2>6, <4>1
        <5>2. PICK j \in 1..Len(listing) : j <= read.offset /\ read.catalog[i] = listing[j]
          BY <3>1, <5>1
        <5>3. j <= read'.offset
          BY <2>4, <2>5, <5>2, Clocks
        <5> QED
          BY <3>3, <5>1, <5>2, <5>3
      <4>2. CASE i > Len(read.catalog)
        <5>1. i \in Len(read.catalog) + 1..Len(read.catalog) + n
          BY <2>5, <2>6, <4>2
        <5> QED
          BY <3>2, <5>1
      <4> QED
        BY <2>5, <2>6, <4>1, <4>2
    <3>5. ASSUME NEW i \in 1..Len(read.catalog), NEW k \in Len(read.catalog) + 1..Len(read.catalog) + n
          PROVE  read'.catalog[i] # read'.catalog[k]
      <4>1. PICK j \in 1..Len(listing) : j <= read.offset /\ read.catalog[i] = listing[j]
        BY <3>1
      <4> QED
        <5>1. PICK l \in 1..Len(listing) : l > read.offset /\ read'.catalog[k] = listing[l]
          BY <3>2
        <5>2. listing[j] # listing[l]
          BY <2>5, <4>1, <5>1 DEF Once
        <5> QED
          BY <3>3, <4>1, <5>1, <5>2
    <3>6. ASSUME NEW i \in Len(read.catalog) + 1..Len(read.catalog) + n,
                 NEW k \in Len(read.catalog) + 1..Len(read.catalog) + n,
                 read'.catalog[i] = read'.catalog[k]
          PROVE  i = k
      <4>1. read.offset + (i - Len(read.catalog)) = read.offset + (k - Len(read.catalog))
        BY <2>5, <3>2, <3>6 DEF Once
      <4> QED
        BY <2>5, <4>1
    <3>7. Once(read'.catalog)
      <4> SUFFICES ASSUME NEW i \in 1..Len(read'.catalog), NEW k \in 1..Len(read'.catalog),
                          read'.catalog[i] = read'.catalog[k]
                   PROVE  i = k
        BY DEF Once
      <4>1. CASE i \in 1..Len(read.catalog) /\ k \in 1..Len(read.catalog)
        BY <3>1, <3>3, <4>1 DEF Once
      <4>2. CASE i \in 1..Len(read.catalog) /\ k \in Len(read.catalog) + 1..Len(read.catalog) + n
        BY <3>5, <4>2
      <4>3. CASE k \in 1..Len(read.catalog) /\ i \in Len(read.catalog) + 1..Len(read.catalog) + n
        BY <3>5, <4>3
      <4>4. CASE /\ i \in Len(read.catalog) + 1..Len(read.catalog) + n
                 /\ k \in Len(read.catalog) + 1..Len(read.catalog) + n
        BY <3>6, <4>4
      <4> QED
        BY <2>5, <2>6, <4>1, <4>2, <4>3, <4>4
    <3> QED
      BY <3>4, <3>7
  <2>12. moved.kinds \in {{}, {"in", "out"}} /\ (read.page = 0 => moved.kinds = {})
    <3>1. CASE read.page = 0
      BY <1>2, <3>1 DEF ReadInv, PagesAgree
    <3>2. CASE read.page # 0
      <4>1. read.total \in Nat /\ read.total = Len(listing)
        BY <1>2, <2>3, <2>5, <3>2 DEF ReadInv, PagesAgree
      <4>2. moved.kinds # {"in"} /\ moved.kinds # {"out"} /\ moved.kinds \subseteq {"in", "out"}
        BY <1>2, <2>5, <4>1 DEF ReadInv, PagesAgree, ReadTypeOK
      <4> QED
        BY <3>2, <4>2
    <3> QED
      BY <3>1, <3>2
  <2>13. kept' \subseteq Members(listing)
    BY <1>2, <2>4, <2>5 DEF ReadInv, PagesAgree, Reading
  <2>14. PagesAgree'
    <3> SUFFICES ASSUME more PROVE PagesAgree'
      BY <2>4 DEF PagesAgree
    <3>1. read'.page < MaxItemPages /\ read'.page > 0 /\ read'.total \in Nat
      BY <2>3, <2>4, <2>5, Clocks
    <3> QED
      <4>1. /\ getPc' = "ready" /\ moved' = moved /\ listing' = listing
            /\ read'.total = Len(listing) /\ read'.page # 0
        BY <2>4, <3>1, Clocks
      <4>2. (kept \subseteq Members(listing))'
        BY <2>13, <4>1 DEF Members
      <4>3. moved.kinds # {"in"} /\ moved.kinds # {"out"}
        <5>1. "in" # "out" /\ {"in", "out"} # {"in"} /\ {"in", "out"} # {"out"} /\ {} # {"in"} /\ {} # {"out"}
          <6>1. "in" \in {"in"} /\ "out" \in {"out"} /\ "in" \notin {"out"} /\ "out" \notin {"in"}
                /\ "in" \in {"in", "out"} /\ "out" \in {"in", "out"}
            OBVIOUS
          <6> QED
            BY <6>1
        <5> QED
          BY <2>12, <5>1
      <4>4. moved'.kinds = {} =>
              /\ Len(listing') = read'.total /\ Once(read'.catalog)
              /\ \A i \in 1..Len(read'.catalog) : \E j \in 1..Len(listing') :
                   j <= read'.offset /\ read'.catalog[i] = listing'[j]
        BY <2>11, <4>1
      <4>5. Once(read.catalog)' <=> Once(read'.catalog)
        BY DEF Once
      <4> QED
        BY <3>1, <4>1, <4>2, <4>3, <4>4, <4>5 DEF PagesAgree
  <2>15. ReadIsComplete'
    <3> SUFFICES ASSUME ~more PROVE ReadIsComplete'
      BY <2>4 DEF ReadIsComplete
    <3>1. ASSUME moved.kinds = {}
          PROVE  kept' \subseteq Members(read'.catalog) /\ Once(read'.catalog)
      <4>1. Len(read'.catalog) = Len(listing)
        BY <2>1, <2>3, <2>5, <2>6
      <4>2. Members(read'.catalog) \subseteq Members(listing)
        BY <2>11, <3>1 DEF Members
      <4> QED
        BY <2>5, <2>6, <2>11, <2>13, <3>1, <4>1, <4>2, AllRead
    <3> QED
      BY <2>4, <2>10, <2>12, <3>1 DEF ReadIsComplete, QuantitiesAgree
  <2> QED
    BY <2>7, <2>8, <2>9, <2>10, <2>14, <2>15 DEF ReadInv
<1> QED
  BY <1>3, <1>4

LEMMA ReadInitInv == ReadInit => ReadInv
<1> SUFFICES ASSUME ReadInit PROVE ReadInv
  OBVIOUS
<1>1. PICK n \in 0..Cardinality(ReadCodes) : listing \in [1..n -> ReadCodes]
  BY DEF ReadInit
<1>2. listing \in Seq(ReadCodes)
  BY <1>1, Clocks, ReadsAssumption, FS_CardinalityType DEF ReadsAssumption
<1>3. Once(listing)
  BY DEF ReadInit
<1>4. /\ read = [offset |-> 0, page |-> 0, total |-> -1, received |-> 0, items |-> {}, catalog |-> <<>>]
      /\ asked = [start |-> -1, wait |-> 0, heard |-> 0,
                  spaced |-> TRUE, obeyed |-> TRUE, respected |-> TRUE]
      /\ moved = [n |-> 0, kinds |-> {}] /\ kept = {} /\ getPc = "ready" /\ clock = 0
      /\ scoped \in BOOLEAN /\ step = 0 /\ until = 0 /\ try = 0 /\ attempts = 0 /\ nextAt = 0
  BY DEF ReadInit
<1>5. ReadTypeOK
  BY <1>2, <1>4, Clocks, ThreeDirectories DEF ReadTypeOK, ReadRecords, Gets
<1>6. TimersAgree /\ ReadIsComplete
  BY <1>4, Clocks DEF TimersAgree, Timed, ReadIsComplete
<1>7. QuantitiesAgree /\ PagesAgree
  BY <1>4, Clocks DEF QuantitiesAgree, PagesAgree, Reading, Members, Once
<1> QED
  BY <1>3, <1>5, <1>6, <1>7 DEF ReadInv

\* The invariant holds of every reading.
THEOREM ReadInvariance == ReadSpec => []ReadInv
<1>1. ASSUME ReadInv, ReadNext PROVE ReadInv'
  BY <1>1, GetStepsKeep, ItemsKeep, ItemsPageKeeps DEF ReadNext
<1>2. ASSUME ReadInv, UNCHANGED readVars PROVE ReadInv'
  <2>1. /\ UNCHANGED <<listing, clock, scoped, step, read, kept, moved>>
        /\ UNCHANGED <<getPc, until, try, attempts, nextAt, asked>>
    BY <1>2 DEF readVars, getVars
  <2>2. ReadTypeOK' /\ Once(listing)'
    BY <1>2, <2>1 DEF ReadInv, ReadTypeOK, Once
  <2>3. TimersAgree'
    BY <1>2, <2>1 DEF ReadInv, TimersAgree, Timed, GetsArePaced
  <2>4. PagesAgree'
    BY <1>2, <2>1 DEF ReadInv, PagesAgree, Reading, Members, Once
  <2>5. QuantitiesAgree' /\ ReadIsComplete'
    BY <1>2, <2>1 DEF ReadInv, QuantitiesAgree, ReadIsComplete, Members, Once, Counts
  <2> QED
    BY <2>2, <2>3, <2>4, <2>5 DEF ReadInv
<1> QED
  BY <1>1, <1>2, ReadInitInv, PTL DEF ReadSpec

\* A reading of Dux that ends well holds every item that was there all along.
THEOREM ReadIsAlwaysWhole == ReadSpec => []ReadIsWhole
<1>1. ReadInv => ReadIsWhole
  BY DEF ReadInv, ReadIsWhole, TimersAgree, GetsArePaced
<1> QED
  BY <1>1, ReadInvariance, PTL

-----------------------------------------------------------------------------
(* The catalogue: any number of codes, administrators, pictures and faults *)

\* A request deletes by what it read some statements ago.  It may, because an
\* uploaded picture is written once, by the request that uploaded it, and a
\* picture no row refers to any more is never written again (Keys): "nothing
\* refers to it" cannot become false between check and deletion.


\* The request is about to write the picture it uploaded.
Writes(a) == admin[a].pc = "write" /\ admin[a].op = "replace"

\* A publication goes by the slugs of the snapshot that is there.
Slugs ==
  sync.pc = "write" =>
    \A c \in Codes : sync.slugs[c] = IF snapshot = None THEN None ELSE snapshot[c].slug

\* What a request carries at each label.
CatalogRequests ==
  \A a \in Admins :
    /\ admin[a].pc = "idle" => admin[a] = Idle
    /\ admin[a].pc # "idle" => admin[a].code \in Codes /\ admin[a].op \in Ops
    /\ admin[a].pc = "put" => admin[a].op = "replace" /\ admin[a].upload = 0
    /\ Writes(a) \/ admin[a].pc = "undo" => admin[a].upload # 0
    /\ admin[a].upload <= made
    /\ \A i, j \in admin[a].shown : i = j
    /\ \A i \in admin[a].shown \cap Uploads : i <= made

\* A key is uploaded once, and until its request writes it nobody has seen it.
Keys ==
  /\ \A a, b \in Admins : a # b /\ admin[a].upload # 0 => admin[a].upload # admin[b].upload
  /\ \A i \in Uploads : WebReferenced(i) => i <= made
  /\ \A a \in Admins : Writes(a) =>
       /\ ~WebReferenced(admin[a].upload)
       /\ \A b \in Admins : admin[a].upload \notin admin[b].shown

\* What the rows and the requests refer to is in R2, and what a request is about to
\* delete is an uploaded picture of no row.
Stored ==
  /\ Historic \subseteq bucket /\ objects \subseteq bucket
  /\ \A c \in Codes : imported[c] \in objects \cup {None}
  /\ \A i \in Uploads : WebReferenced(i) => i \in bucket
  /\ \A a \in Admins :
       /\ Writes(a) => admin[a].upload \in bucket
       /\ \A i \in admin[a].shown : i \in Uploads \/ i \in objects \/ \E c \in Codes : Preserved[c] = i
       /\ admin[a].pc = "delete" => \A i \in admin[a].shown : i \in Uploads /\ ~WebReferenced(i)

\* Without faults and overlaps a request knows the pictures of its product until it writes,
\* and every stored upload is in a row or in the hands of a request.
InHand(a, i) ==
  \/ Writes(a) /\ admin[a].upload = i
  \/ admin[a].pc \in {"cleanup", "delete"} /\ i \in admin[a].shown

Undisturbed ==
  ~disturbed =>
    /\ \A a, b \in Admins : a # b /\ admin[a].pc # "idle" /\ admin[b].pc # "idle"
                              => admin[a].code # admin[b].code
    /\ \A a \in Admins : admin[a].pc # "undo"
    /\ \A a \in Admins : admin[a].pc \in {"put", "write"} /\ settings[admin[a].code].images # None
                           => settings[admin[a].code].images = admin[a].shown
    /\ \A i \in bucket \cap Uploads : WebReferenced(i) \/ \E a \in Admins : InHand(a, i)

CatalogInv == CatalogTypes /\ Slugs /\ CatalogRequests /\ Keys /\ Stored /\ Undisturbed

Requested == [pc : {"idle", "put", "write", "undo", "cleanup", "delete"}, op : Ops \cup {"none"},
              code : Codes \cup {None}, shown : SUBSET Pictures, upload : {0} \cup Uploads]

-----------------------------------------------------------------------------
(* What is shown of a product *)

\* The pictures of a product are at most one, and each is a stored one of some kind.
LEMMA ShownPictures ==
  ASSUME CatalogInv, NEW c \in Codes
  PROVE  /\ Shown(c) \subseteq Pictures
         /\ \A i, j \in Shown(c) : i = j
         /\ \A i \in Shown(c) : i \in Uploads \/ i \in objects \/ \E d \in Codes : Preserved[d] = i
         /\ \A i \in Shown(c) \cap Uploads : WebReferenced(i)
         /\ settings[c].images # None => settings[c].images = Shown(c)
<1>1. settings[c].images \in {None, {}} \cup {{i} : i \in Uploads}
  BY DEF CatalogInv, CatalogTypes, Settings
<1>2. imported[c] \in Imported \cup {None} /\ imported[c] \in objects \cup {None}
  BY DEF CatalogInv, CatalogTypes, Stored
<1>3. Preserved[c] \in Historic \cup {None}
  BY CatalogAssumption
<1>4. CASE settings[c].images = None
  <2>1. Shown(c) = EditorialImages(c)
    BY <1>4 DEF Shown
  <2>2. CASE imported[c] = None
    <3>1. Shown(c) = {Preserved[c]} \ {None}
      BY <2>1, <2>2 DEF EditorialImages, PreservedImages
    <3> QED
      BY <1>3, <1>4, <3>1, KeysAssumption DEF Pictures
  <2>3. CASE imported[c] # None
    <3>1. Shown(c) = {imported[c]}
      BY <2>1, <2>3 DEF EditorialImages
    <3> QED
      BY <1>2, <1>4, <2>3, <3>1, KeysAssumption DEF Pictures
  <2> QED
    BY <2>2, <2>3
<1>5. CASE settings[c].images # None
  <2>1. Shown(c) = settings[c].images
    BY <1>5 DEF Shown
  <2> QED
    BY <1>1, <1>5, <2>1 DEF Pictures, WebReferenced
<1> QED
  BY <1>4, <1>5

\* An uploaded picture is referred to by the settings or by nothing.
LEMMA UploadReferenced ==
  ASSUME CatalogTypes, NEW i \in Uploads
  PROVE  Referenced(i) <=> WebReferenced(i)
<1>1. i \notin Historic /\ i \notin Imported /\ i # None
  BY KeysAssumption, CatalogAssumption
<1> QED
  BY <1>1, CatalogAssumption DEF Referenced, CatalogTypes

-----------------------------------------------------------------------------
(* Dux, the publication and the Mercado Libre content *)

LEMMA SnapshotKeeps ==
  ASSUME CatalogInv, ReadPrevious \/ Persist \/ Refuse \/ SetCollecting \/ DuxChanges
  PROVE  CatalogInv'
<1>1. UNCHANGED <<settings, objects, imported, bucket, admin, made, disturbed>>
  BY DEF ReadPrevious, Persist, Refuse, SetCollecting, DuxChanges, stored, world
<1>2. CatalogTypes' /\ Slugs'
  <2> USE DEF CatalogInv
  <2>1. CASE ReadPrevious
    <3>1. snapshot # None => \A c \in Codes : snapshot[c].slug \in Names \cup {None}
      BY DEF CatalogTypes, Entries, Out
    <3>2. sync'.slugs \in [Codes -> Names \cup {None}]
      BY <2>1, <3>1 DEF ReadPrevious
    <3> QED
      BY <1>1, <2>1, <3>2 DEF ReadPrevious, CatalogTypes, Slugs, stored, world
  <2>2. CASE Persist
    <3>1. \A c \in Codes : Entry(c) \in Entries \cup {Out}
      <4> SUFFICES ASSUME NEW c \in Codes, sync.items[c] # Gone
                   PROVE  Entry(c) \in Entries
        BY DEF Entry
      <4>1. sync.items[c] \in Items /\ sync.slugs[c] \in Names \cup {None}
        BY DEF CatalogTypes
      <4> QED
        BY <4>1 DEF Entry, Slug, Entries, Items
    <3>2. sync'.pc = "idle" /\ sync' \in [pc : {"idle", "write"}, items : [Codes -> Items \cup {Gone}],
                                          slugs : [Codes -> Names \cup {None}]]
      BY <2>2 DEF Persist, IdleSync
    <3> QED
      BY <1>1, <2>2, <3>1, <3>2 DEF Persist, CatalogTypes, Slugs, world
  <2>3. CASE Refuse
    <3>1. sync'.pc = "idle" /\ sync' \in [pc : {"idle", "write"}, items : [Codes -> Items \cup {Gone}],
                                          slugs : [Codes -> Names \cup {None}]]
      BY <2>3 DEF Refuse, IdleSync
    <3>2. faults' \in 0..MaxFaults
      BY <2>3, CatalogAssumption DEF Refuse, CatalogTypes
    <3> QED
      BY <1>1, <2>3, <3>1, <3>2 DEF Refuse, CatalogTypes, Slugs, stored
  <2>4. CASE SetCollecting
    <3>1. changes' \in 0..MaxChanges /\ collecting' \in BOOLEAN
      BY <2>4, CatalogAssumption DEF SetCollecting, CatalogTypes
    <3> QED
      BY <1>1, <2>4, <3>1 DEF SetCollecting, CatalogTypes, Slugs
  <2>5. CASE DuxChanges
    <3>1. changes' \in 0..MaxChanges /\ dux' \in [Codes -> Items \cup {Gone}]
      BY <2>5, CatalogAssumption DEF DuxChanges, CatalogTypes
    <3> QED
      BY <1>1, <2>5, <3>1 DEF DuxChanges, CatalogTypes, Slugs, stored
  <2> QED
    BY <2>1, <2>2, <2>3, <2>4, <2>5
<1>3. \A i : WebReferenced(i)' <=> WebReferenced(i)
  BY <1>1 DEF WebReferenced
<1>4. CatalogRequests' /\ Keys' /\ Stored'
  BY <1>1, <1>3 DEF CatalogInv, CatalogRequests, Keys, Stored, Writes
<1>5. Undisturbed'
  BY <1>1, <1>3 DEF CatalogInv, Undisturbed, InHand, Writes
<1> QED
  BY <1>2, <1>4, <1>5 DEF CatalogInv

LEMMA EditorialKeeps ==
  ASSUME CatalogInv, EditorialChanges
  PROVE  CatalogInv'
<1>1. PICK c \in Codes, i \in Imported \cup {None} :
        /\ imported' = [imported EXCEPT ![c] = i]
        /\ objects' = objects \cup ({i} \ {None}) /\ bucket' = bucket \cup ({i} \ {None})
  BY DEF EditorialChanges
<1>2. UNCHANGED <<snapshot, collecting, settings, dux, faults, sync, admin, made, disturbed>>
      /\ changes' \in 0..MaxChanges
  BY CatalogAssumption DEF EditorialChanges, CatalogInv, CatalogTypes
<1>3. \A k : WebReferenced(k)' <=> WebReferenced(k)
  BY <1>2 DEF WebReferenced
<1>4. CatalogTypes'
  BY <1>1, <1>2 DEF CatalogInv, CatalogTypes, Pictures
<1>5. Slugs' /\ CatalogRequests' /\ Keys'
  BY <1>2, <1>3 DEF CatalogInv, Slugs, CatalogRequests, Keys, Writes
<1>6. Stored'
  BY <1>1, <1>2, <1>3 DEF CatalogInv, CatalogTypes, Stored, Writes
<1>7. bucket' \cap Uploads = bucket \cap Uploads
  BY <1>1, KeysAssumption
<1>8. Undisturbed'
  BY <1>2, <1>3, <1>7 DEF CatalogInv, Undisturbed, InHand, Writes
<1> QED
  BY <1>4, <1>5, <1>6, <1>8 DEF CatalogInv

-----------------------------------------------------------------------------
(* CatalogRequests *)

\* A request that goes on with r, uploads at most a new picture, writes at most the one it
\* uploaded, and deletes nothing a row or another request needs.
Proceeds(a, r) ==
  /\ admin' = [admin EXCEPT ![a] = r]
  /\ UNCHANGED <<snapshot, sync, objects, imported>>
  /\ made' >= made
  \* what it carries
  /\ r.pc = "idle" => r = Idle
  /\ r.pc # "idle" => r.code \in Codes /\ r.op \in Ops
  /\ r.pc = "put" => r.op = "replace" /\ r.upload = 0
  /\ r.pc = "undo" => r.upload # 0
  /\ r.upload \in {0, admin[a].upload} \/ (made < r.upload /\ r.upload <= made')
  /\ r.pc = "write" /\ r.op = "replace" => made < r.upload /\ r.upload \in bucket'
  \* what it has seen
  /\ \A i, j \in r.shown : i = j
  /\ \A i \in r.shown \cap Uploads : i <= made
  /\ \A i \in r.shown : i \in Uploads \/ i \in objects \/ \E c \in Codes : Preserved[c] = i
  /\ \A b \in Admins \ {a} : Writes(b) => admin[b].upload \notin r.shown
  /\ r.pc = "delete" => \A i \in r.shown : i \in Uploads /\ ~WebReferenced(i)'
  \* what it does to the rows and to R2
  /\ \A i \in Uploads : WebReferenced(i)' => WebReferenced(i) \/ (Writes(a) /\ i = admin[a].upload)
  /\ Historic \cup objects \subseteq bucket'
  /\ \A i \in Uploads : WebReferenced(i)' => i \in bucket'
  /\ \A b \in Admins \ {a} : Writes(b) => admin[b].upload \in bucket'

LEMMA ProceedsKeeps ==
  ASSUME CatalogInv, CatalogTypes', NEW a \in Admins, NEW r, Proceeds(a, r)
  PROVE  Slugs' /\ CatalogRequests' /\ Keys' /\ Stored'
<1> DEFINE Writing == r.pc = "write" /\ r.op = "replace"
<1>1. /\ \A b \in Admins : admin[b].upload \in Nat /\ admin'[b].upload \in Nat
      /\ made \in Nat /\ made' \in Nat /\ Uploads \subseteq Nat \ {0}
      /\ \A i \in Uploads : made' >= made /\ i <= made => i <= made'
  BY CatalogAssumption DEF CatalogInv, CatalogTypes
<1>2. admin'[a] = r /\ \A b \in Admins \ {a} : admin'[b] = admin[b]
  BY DEF Proceeds, CatalogInv, CatalogTypes
<1>3. (Writes(a)' <=> Writing) /\ \A b \in Admins \ {a} : Writes(b)' <=> Writes(b)
  BY <1>2 DEF Writes
<1>4. \A b \in Admins : Writes(b) => admin[b].upload \in Uploads /\ admin[b].upload # 0
  BY DEF CatalogInv, CatalogRequests, CatalogTypes
<1>5. \A b \in Admins : admin[b].upload <= made
  BY DEF CatalogInv, CatalogRequests
<1>6. \A b \in Admins \ {a} : admin[b].upload # 0 => admin[b].upload # admin[a].upload
  BY DEF CatalogInv, Keys
<1>7. Slugs'
  BY DEF Proceeds, CatalogInv, Slugs
<1>8. CatalogRequests'
  <2>1. ASSUME NEW b \in Admins \ {a}
        PROVE  /\ admin'[b].pc = "idle" => admin'[b] = Idle
               /\ admin'[b].pc # "idle" => admin'[b].code \in Codes /\ admin'[b].op \in Ops
               /\ admin'[b].pc = "put" => admin'[b].op = "replace" /\ admin'[b].upload = 0
               /\ Writes(b)' \/ admin'[b].pc = "undo" => admin'[b].upload # 0
               /\ admin'[b].upload <= made'
               /\ \A i, j \in admin'[b].shown : i = j
               /\ \A i \in admin'[b].shown \cap Uploads : i <= made'
    <3>1. made' >= made /\ admin'[b] = admin[b] /\ b \in Admins
      BY <1>2 DEF Proceeds
    <3>2. \A i \in admin[b].shown \cap Uploads : i <= made'
      <4>1. \A i \in admin[b].shown \cap Uploads : i <= made
        BY DEF CatalogInv, CatalogRequests
      <4> QED
        BY <1>1, <3>1, <4>1
    <3>3. admin[b].upload <= made'
      BY <1>1, <1>5, <3>1
    <3>4. /\ admin[b].pc = "idle" => admin[b] = Idle
          /\ admin[b].pc # "idle" => admin[b].code \in Codes /\ admin[b].op \in Ops
          /\ admin[b].pc = "put" => admin[b].op = "replace" /\ admin[b].upload = 0
          /\ Writes(b) \/ admin[b].pc = "undo" => admin[b].upload # 0
          /\ \A i, j \in admin[b].shown : i = j
      BY DEF CatalogInv, CatalogRequests
    <3> QED
      BY <1>3, <3>1, <3>2, <3>3, <3>4
  <2>2. /\ r.pc = "idle" => r = Idle
        /\ r.pc # "idle" => r.code \in Codes /\ r.op \in Ops
        /\ r.pc = "put" => r.op = "replace" /\ r.upload = 0
        /\ Writing \/ r.pc = "undo" => r.upload # 0
        /\ r.upload <= made'
        /\ \A i, j \in r.shown : i = j
        /\ \A i \in r.shown \cap Uploads : i <= made'
    <3>1. r.upload \in Nat /\ admin[a].upload \in Nat /\ admin[a].upload <= made /\ made' >= made
      BY <1>1, <1>2, <1>5 DEF Proceeds
    <3>2. r.upload <= made' /\ (Writing => r.upload # 0)
      BY <1>1, <3>1 DEF Proceeds
    <3>3. \A i \in r.shown \cap Uploads : i <= made
      BY DEF Proceeds
    <3>4. \A i \in r.shown \cap Uploads : i <= made'
      BY <1>1, <3>1, <3>3
    <3> QED
      BY <3>2, <3>4 DEF Proceeds
  <2> QED
    BY <1>2, <1>3, <2>1, <2>2 DEF CatalogRequests
<1>9. Keys'
  <2>1. \A b, d \in Admins : b # d /\ admin'[b].upload # 0 => admin'[b].upload # admin'[d].upload
    BY <1>1, <1>2, <1>5, <1>6 DEF Proceeds, CatalogInv, Keys
  <2>2. \A i \in Uploads : WebReferenced(i)' => i <= made'
    <3>1. \A i \in Uploads : WebReferenced(i) => i <= made
      BY DEF CatalogInv, Keys
    <3> QED
      BY <1>1, <1>5, <3>1 DEF Proceeds
  <2>3. ASSUME NEW b \in Admins, Writes(b)'
        PROVE  /\ ~\E c \in Codes : settings'[c].images # None /\ admin'[b].upload \in settings'[c].images
               /\ \A d \in Admins : admin'[b].upload \notin admin'[d].shown
    <3>1. CASE b = a
      <4>1. Writing /\ made < r.upload /\ admin'[b].upload = r.upload /\ r.upload \in Uploads
        BY <1>1, <1>2, <1>3, <2>3, <3>1 DEF Proceeds, CatalogTypes
      <4>2. ~WebReferenced(r.upload)' /\ ~WebReferenced(r.upload)
        BY <1>1, <1>5, <4>1 DEF Proceeds, CatalogInv, Keys
      <4>3. \A d \in Admins \ {a} : r.upload \notin admin[d].shown
        <5>1. \A d \in Admins, i \in Uploads : i \in admin[d].shown => i <= made
          BY DEF CatalogInv, CatalogRequests
        <5> QED
          BY <1>1, <4>1, <5>1
      <4>4. r.upload \notin r.shown
        BY <1>1, <4>1 DEF Proceeds
      <4> QED
        BY <1>2, <3>1, <4>1, <4>2, <4>3, <4>4 DEF WebReferenced
    <3>2. CASE b # a
      <4>1. Writes(b) /\ admin'[b] = admin[b]
        BY <1>2, <1>3, <2>3, <3>2
      <4>2. \A i \in Uploads : i = admin[b].upload => ~WebReferenced(i)'
        BY <1>4, <1>6, <3>2, <4>1 DEF Proceeds, CatalogInv, Keys
      <4>3. \A d \in Admins : admin[b].upload \notin admin[d].shown
        BY <4>1 DEF CatalogInv, Keys
      <4>4. admin[b].upload \notin r.shown
        BY <3>2, <4>1 DEF Proceeds
      <4> QED
        BY <1>2, <1>4, <4>1, <4>2, <4>3, <4>4 DEF WebReferenced
    <3> QED
      BY <3>1, <3>2
  <2> QED
    BY <2>1, <2>2, <2>3 DEF Keys, WebReferenced
<1>10. Stored'
  <2>1. /\ Historic \subseteq bucket' /\ objects' \subseteq bucket'
        /\ \A c \in Codes : imported'[c] \in objects' \cup {None}
        /\ \A i \in Uploads : WebReferenced(i)' => i \in bucket'
    BY DEF Proceeds, CatalogInv, Stored
  <2>2. \A b \in Admins : Writes(b)' => admin'[b].upload \in bucket'
    BY <1>2, <1>3 DEF Proceeds
  <2>3. \A b \in Admins : \A i \in admin'[b].shown : i \in Uploads \/ i \in objects' \/ \E c \in Codes : Preserved[c] = i
    BY <1>2 DEF Proceeds, CatalogInv, Stored
  <2>4. ASSUME NEW b \in Admins, admin'[b].pc = "delete", NEW i \in admin'[b].shown
        PROVE  i \in Uploads /\ ~WebReferenced(i)'
    <3>1. CASE b = a
      BY <1>2, <2>4, <3>1 DEF Proceeds
    <3>2. CASE b # a
      <4>1. i \in admin[b].shown /\ i \in Uploads /\ ~WebReferenced(i)
        BY <1>2, <2>4, <3>2 DEF CatalogInv, Stored
      <4>2. ~(Writes(a) /\ i = admin[a].upload)
        BY <4>1 DEF CatalogInv, Keys
      <4> QED
        BY <4>1, <4>2 DEF Proceeds
    <3> QED
      BY <3>1, <3>2
  <2> QED
    BY <2>1, <2>2, <2>3, <2>4 DEF Stored
<1> QED
  BY <1>7, <1>8, <1>9, <1>10

\* What every request has read, whatever it goes on to do.
LEMMA RequestFacts ==
  ASSUME CatalogInv, NEW a \in Admins
  PROVE  /\ admin[a] \in Requested /\ Idle \in Requested /\ Idle.pc = "idle"
         /\ Idle.shown = {} /\ Idle.upload = 0
         /\ admin[a].pc # "idle" => admin[a].code \in Codes /\ admin[a].op \in Ops
         /\ \A i, j \in admin[a].shown : i = j
         /\ \A i \in admin[a].shown \cap Uploads : i <= made
         /\ \A i \in admin[a].shown : i \in Uploads \/ i \in objects \/ \E c \in Codes : Preserved[c] = i
         /\ \A b \in Admins \ {a} : Writes(b) => admin[b].upload \notin admin[a].shown
         /\ Historic \cup objects \subseteq bucket
         /\ \A i \in Uploads : WebReferenced(i) => i \in bucket
         /\ \A b \in Admins : Writes(b) => admin[b].upload \in bucket
<1>1. admin[a] \in Requested /\ Idle \in Requested /\ Idle.pc = "idle" /\ Idle.shown = {} /\ Idle.upload = 0
  BY DEF CatalogInv, CatalogTypes, Requested, Idle
<1>2. /\ admin[a].pc # "idle" => admin[a].code \in Codes /\ admin[a].op \in Ops
      /\ \A i, j \in admin[a].shown : i = j
      /\ \A i \in admin[a].shown \cap Uploads : i <= made
  BY DEF CatalogInv, CatalogRequests
<1>3. \A b \in Admins \ {a} : Writes(b) => admin[b].upload \notin admin[a].shown
  BY DEF CatalogInv, Keys
<1>4. /\ \A i \in admin[a].shown : i \in Uploads \/ i \in objects \/ \E c \in Codes : Preserved[c] = i
      /\ Historic \cup objects \subseteq bucket
      /\ \A i \in Uploads : WebReferenced(i) => i \in bucket
      /\ \A b \in Admins : Writes(b) => admin[b].upload \in bucket
  BY DEF CatalogInv, Stored
<1> QED
  BY <1>1, <1>2, <1>3, <1>4

LEMMA BeginKeeps ==
  ASSUME CatalogInv, NEW a \in Admins, Begin(a)
  PROVE  CatalogInv'
<1>1. PICK c \in Codes, op \in Ops :
        /\ admin[a].pc = "idle"
        /\ admin' = [admin EXCEPT ![a] = [Idle EXCEPT !.pc = IF op = "replace" THEN "put" ELSE "write",
                                          !.op = op, !.code = c, !.shown = Shown(c)]]
        /\ disturbed' = (disturbed \/ Overlaps(a, c))
  BY DEF Begin
<1>2. UNCHANGED <<dux, snapshot, sync, collecting, settings, objects, imported, bucket, made, changes, faults>>
  BY DEF Begin, stored, world
<1> DEFINE r == [Idle EXCEPT !.pc = IF op = "replace" THEN "put" ELSE "write",
                             !.op = op, !.code = c, !.shown = Shown(c)]
<1>3. /\ Shown(c) \subseteq Pictures
      /\ \A i, j \in Shown(c) : i = j
      /\ \A i \in Shown(c) : i \in Uploads \/ i \in objects \/ \E d \in Codes : Preserved[d] = i
      /\ \A i \in Shown(c) \cap Uploads : WebReferenced(i)
      /\ settings[c].images # None => settings[c].images = Shown(c)
  BY ShownPictures
<1>4. /\ r \in Requested /\ r.code = c /\ r.op = op /\ r.shown = Shown(c) /\ r.upload = 0
      /\ r.pc = IF op = "replace" THEN "put" ELSE "write"
  BY <1>3 DEF Idle, Requested
<1>5. admin' = [admin EXCEPT ![a] = r]
  BY <1>1
<1> HIDE DEF r
<1>6. CatalogTypes'
  <2>1. disturbed' \in BOOLEAN
    BY <1>1 DEF Overlaps, CatalogInv, CatalogTypes
  <2> QED
    BY <1>2, <1>4, <1>5, <2>1 DEF CatalogInv, CatalogTypes, Requested
<1>7. \A i : WebReferenced(i)' <=> WebReferenced(i)
  BY <1>2 DEF WebReferenced
<1>8. /\ \A i \in Uploads : WebReferenced(i) => i <= made
      /\ \A b \in Admins : Writes(b) => ~WebReferenced(admin[b].upload) /\ admin[b].upload \in Uploads
  BY DEF CatalogInv, Keys, CatalogRequests, CatalogTypes, Writes
<1>9. made \in Nat
  BY CatalogAssumption DEF CatalogInv, CatalogTypes
<1>10. Proceeds(a, r)
  <2>1. \A b \in Admins \ {a} : Writes(b) => admin[b].upload \notin r.shown
    BY <1>3, <1>4, <1>8
  <2>2. \A i \in r.shown \cap Uploads : i <= made
    BY <1>3, <1>4, <1>8
  <2>3. /\ r.pc # "idle" /\ r.pc # "undo" /\ r.pc # "delete" /\ ~(r.pc = "write" /\ r.op = "replace")
        /\ r.code \in Codes /\ r.op \in Ops /\ (r.pc = "put" => r.op = "replace")
    BY <1>4
  <2>4. /\ Historic \cup objects \subseteq bucket' /\ \A i \in Uploads : WebReferenced(i)' => i \in bucket'
        /\ \A b \in Admins \ {a} : Writes(b) => admin[b].upload \in bucket'
    BY <1>2, <1>7, RequestFacts
  <2>5. made' >= made
    BY <1>2, <1>9
  <2> QED
    BY <1>2, <1>3, <1>4, <1>5, <1>7, <2>1, <2>2, <2>3, <2>4, <2>5 DEF Proceeds
<1>11. Undisturbed'
  <2> SUFFICES ASSUME ~disturbed' PROVE Undisturbed'
    BY DEF Undisturbed
  <2>1. ~disturbed /\ \A b \in Admins \ {a} : admin[b].code # c
    BY <1>1 DEF Overlaps
  <2>2. admin'[a] = r /\ \A b \in Admins \ {a} : admin'[b] = admin[b]
    BY <1>5 DEF CatalogInv, CatalogTypes
  <2>3. \A b, d \in Admins : b # d /\ admin'[b].pc # "idle" /\ admin'[d].pc # "idle"
                               => admin'[b].code # admin'[d].code
    BY <1>4, <2>1, <2>2 DEF CatalogInv, Undisturbed
  <2>4. \A b \in Admins : admin'[b].pc # "undo"
    BY <1>4, <2>1, <2>2 DEF CatalogInv, Undisturbed
  <2>5. \A b \in Admins : admin'[b].pc \in {"put", "write"} /\ settings'[admin'[b].code].images # None
                           => settings'[admin'[b].code].images = admin'[b].shown
    BY <1>2, <1>3, <1>4, <2>1, <2>2 DEF CatalogInv, Undisturbed
  <2>6. \A i \in bucket' \cap Uploads : WebReferenced(i)' \/ \E b \in Admins : InHand(b, i)'
    <3> SUFFICES ASSUME NEW i \in bucket \cap Uploads, ~WebReferenced(i)
                 PROVE  \E b \in Admins : InHand(b, i)'
      BY <1>2, <1>7
    <3>1. PICK b \in Admins : InHand(b, i)
      BY <2>1 DEF CatalogInv, Undisturbed
    <3>2. b # a
      BY <1>1, <3>1 DEF InHand, Writes
    <3> QED
      BY <2>2, <3>1, <3>2 DEF InHand, Writes
  <2> QED
    BY <2>3, <2>4, <2>5, <2>6 DEF Undisturbed
<1> QED
  BY <1>6, <1>10, <1>11, ProceedsKeeps DEF CatalogInv

\* A step of a fault ends what is said of undisturbed requests.
LEMMA DisturbedKeeps ==
  ASSUME CatalogInv, disturbed'
  PROVE  Undisturbed'
BY DEF Undisturbed

LEMMA FaultTypes ==
  ASSUME CatalogInv, Fails
  PROVE  disturbed' /\ disturbed' \in BOOLEAN /\ faults' \in 0..MaxFaults
BY CatalogAssumption DEF CatalogInv, CatalogTypes, Fails

\* A request that does not write: it keeps what it has in its hands, or gives it up when
\* a row refers to it.
LEMMA UndisturbedGoesOn ==
  ASSUME CatalogInv, NEW a \in Admins, NEW r, admin' = [admin EXCEPT ![a] = r],
         UNCHANGED <<settings, disturbed>>,
         r.pc # "idle" => r.code = admin[a].code /\ admin[a].pc # "idle",
         r.pc # "undo" \/ disturbed,
         r.pc \in {"put", "write"} => admin[a].pc \in {"put", "write"} /\ r.shown = admin[a].shown,
         \A i \in bucket' \cap Uploads :
           \/ WebReferenced(i)
           \/ i \in bucket /\ ~InHand(a, i)
           \/ r.pc = "write" /\ r.op = "replace" /\ r.upload = i
           \/ r.pc \in {"cleanup", "delete"} /\ i \in r.shown
  PROVE  Undisturbed'
<1> SUFFICES ASSUME ~disturbed' PROVE Undisturbed'
  BY DEF Undisturbed
<1>1. admin'[a] = r /\ \A b \in Admins \ {a} : admin'[b] = admin[b]
  BY DEF CatalogInv, CatalogTypes
<1>2. \A i : WebReferenced(i)' <=> WebReferenced(i)
  BY DEF WebReferenced
<1>3. \A b, d \in Admins : b # d /\ admin'[b].pc # "idle" /\ admin'[d].pc # "idle"
                             => admin'[b].code # admin'[d].code
  BY <1>1 DEF CatalogInv, Undisturbed
<1>4. \A b \in Admins : admin'[b].pc # "undo"
  BY <1>1 DEF CatalogInv, Undisturbed
<1>5. \A b \in Admins : admin'[b].pc \in {"put", "write"} /\ settings'[admin'[b].code].images # None
                         => settings'[admin'[b].code].images = admin'[b].shown
  BY <1>1 DEF CatalogInv, Undisturbed
<1>6. \A i \in bucket' \cap Uploads : WebReferenced(i)' \/ \E b \in Admins : InHand(b, i)'
  <2> SUFFICES ASSUME NEW i \in bucket' \cap Uploads, ~WebReferenced(i)
               PROVE  \E b \in Admins : InHand(b, i)'
    BY <1>2
  <2>1. CASE i \in bucket /\ ~InHand(a, i)
    <3>1. PICK b \in Admins : InHand(b, i)
      BY <2>1 DEF CatalogInv, Undisturbed
    <3> QED
      BY <1>1, <2>1, <3>1 DEF InHand, Writes
  <2>2. CASE r.pc = "write" /\ r.op = "replace" /\ r.upload = i
    BY <1>1, <2>2 DEF InHand, Writes
  <2>3. CASE r.pc \in {"cleanup", "delete"} /\ i \in r.shown
    BY <1>1, <2>3 DEF InHand
  <2> QED
    BY <2>1, <2>2, <2>3
<1> QED
  BY <1>3, <1>4, <1>5, <1>6 DEF Undisturbed

LEMMA PutKeeps ==
  ASSUME CatalogInv, NEW a \in Admins, Put(a)
  PROVE  CatalogInv'
<1> DEFINE new == made + 1
<1>1. /\ admin[a].pc = "put" /\ new \in Uploads /\ made' = new
      /\ UNCHANGED <<snapshot, collecting, settings, objects, imported, dux, changes, sync>>
  BY DEF Put
<1>2. made \in Nat /\ new \in Nat /\ made < new /\ new <= made' /\ made' >= made
  BY <1>1, CatalogAssumption DEF CatalogInv, CatalogTypes
<1>3. \A i : WebReferenced(i)' <=> WebReferenced(i)
  BY <1>1 DEF WebReferenced
<1>4. /\ admin[a].op = "replace" /\ admin[a].upload = 0 /\ admin[a].code \in Codes /\ admin[a] \in Requested
      /\ Idle \in Requested /\ Idle.pc = "idle" /\ Idle.shown = {} /\ Idle.upload = 0
      /\ ~Writes(a)
  BY <1>1, RequestFacts DEF CatalogInv, CatalogRequests, Writes
<1>5. ASSUME NEW held \in SUBSET {new}, bucket' = bucket \cup held
      PROVE  /\ Historic \cup objects \subseteq bucket' /\ \A i \in Uploads : WebReferenced(i)' => i \in bucket'
             /\ \A b \in Admins \ {a} : Writes(b) => admin[b].upload \in bucket'
             /\ bucket' \subseteq Pictures
  <2>1. bucket \subseteq Pictures /\ Uploads \subseteq Pictures
    BY DEF CatalogInv, CatalogTypes, Pictures
  <2> QED
    BY <1>1, <1>3, <1>5, <2>1, RequestFacts
<1>6. CASE /\ bucket' = bucket \cup {new}
           /\ admin' = [admin EXCEPT ![a].pc = "write", ![a].upload = new]
           /\ UNCHANGED <<faults, disturbed>>
  <2> DEFINE r == [admin[a] EXCEPT !.pc = "write", !.upload = new]
  <2>1. /\ r \in Requested /\ r.pc = "write" /\ r.upload = new /\ r.code = admin[a].code
        /\ r.op = "replace" /\ r.shown = admin[a].shown
    BY <1>1, <1>4 DEF Requested
  <2>2. admin' = [admin EXCEPT ![a] = r]
    BY <1>6 DEF CatalogInv, CatalogTypes
  <2> HIDE DEF r, new
  <2>3. CatalogTypes'
    BY <1>1, <1>5, <1>6, <2>1, <2>2 DEF CatalogInv, CatalogTypes, Requested
  <2>4. Proceeds(a, r)
    <3>1. r.op \in Ops /\ new \in bucket'
      BY <1>6, <2>1 DEF Ops, ImageOps
    <3> QED
      BY <1>1, <1>2, <1>3, <1>4, <1>5, <1>6, <2>1, <2>2, <3>1, RequestFacts DEF Proceeds
  <2>5. Undisturbed'
    <3>1. \A i \in bucket' : i \in bucket \/ i = new
      BY <1>6
    <3>2. \A i : ~InHand(a, i)
      BY <1>1, <1>4 DEF InHand
    <3> QED
      BY <1>1, <1>6, <2>1, <2>2, <3>1, <3>2, UndisturbedGoesOn
  <2> QED
    BY <2>3, <2>4, <2>5, ProceedsKeeps DEF CatalogInv
<1>7. ASSUME NEW held \in {{}, {new}}, bucket' = bucket \cup held, Done(a), Fails
      PROVE  CatalogInv'
  <2>1. admin' = [admin EXCEPT ![a] = Idle]
    BY <1>7 DEF Done
  <2>2. /\ Historic \cup objects \subseteq bucket' /\ \A i \in Uploads : WebReferenced(i)' => i \in bucket'
        /\ \A b \in Admins \ {a} : Writes(b) => admin[b].upload \in bucket'
        /\ bucket' \subseteq Pictures
    BY <1>5, <1>7
  <2> HIDE DEF new
  <2>3. CatalogTypes'
    BY <1>1, <1>4, <1>7, <2>1, <2>2, FaultTypes DEF CatalogInv, CatalogTypes, Requested
  <2>4. Proceeds(a, Idle)
    BY <1>1, <1>2, <1>3, <1>4, <2>1, <2>2 DEF Proceeds
  <2> QED
    BY <1>7, <2>3, <2>4, FaultTypes, DisturbedKeeps, ProceedsKeeps DEF CatalogInv
<1> QED
  BY <1>6, <1>7 DEF Put

\* The row a request writes.
LEMMA WrittenRow ==
  ASSUME CatalogInv, NEW a \in Admins, admin[a].pc = "write", NEW row \in {settings[admin[a].code], Patched(a)},
         settings' = [settings EXCEPT ![admin[a].code] = row]
  PROVE  /\ settings' \in [Codes -> Settings]
         /\ \A i \in Uploads : WebReferenced(i)' => WebReferenced(i) \/ (Writes(a) /\ i = admin[a].upload)
         /\ \A i \in Uploads : WebReferenced(i)' => i \in bucket
<1>1. admin[a].code \in Codes /\ admin[a].op \in Ops /\ admin[a] \in Requested
  BY RequestFacts
<1>2. admin[a].op = "replace" => admin[a].upload \in Uploads
  BY <1>1 DEF CatalogInv, CatalogRequests, Writes, Requested
<1>3. settings \in [Codes -> Settings]
  BY DEF CatalogInv, CatalogTypes
<1>4. row \in Settings
  BY <1>1, <1>2, <1>3 DEF Patched, Settings
<1>5. row.images = settings[admin[a].code].images \/ row.images = {} \/ (Writes(a) /\ row.images = {admin[a].upload})
  BY DEF Patched, Writes
<1>6. \A i \in Uploads : WebReferenced(i)' => WebReferenced(i) \/ (Writes(a) /\ i = admin[a].upload)
  <2> SUFFICES ASSUME NEW i \in Uploads, NEW c \in Codes, settings'[c].images # None, i \in settings'[c].images
               PROVE  WebReferenced(i) \/ (Writes(a) /\ i = admin[a].upload)
    BY DEF WebReferenced
  <2> QED
    BY <1>1, <1>3, <1>5 DEF WebReferenced
<1>7. (Writes(a) => admin[a].upload \in bucket) /\ \A i \in Uploads : WebReferenced(i) => i \in bucket
  BY RequestFacts
<1> QED
  BY <1>1, <1>3, <1>4, <1>6, <1>7

LEMMA WriteKeeps ==
  ASSUME CatalogInv, NEW a \in Admins, Write(a)
  PROVE  CatalogInv'
<1> DEFINE code == admin[a].code
           r == IF admin[a].op \in ImageOps THEN [admin[a] EXCEPT !.pc = "cleanup"] ELSE Idle
<1>1. /\ admin[a].pc = "write" /\ settings' = [settings EXCEPT ![code] = Patched(a)]
      /\ UNCHANGED <<snapshot, collecting, objects, imported, bucket, dux, changes, faults, sync, made, disturbed>>
  BY DEF Write, world
<1>2. /\ admin[a] \in Requested /\ code \in Codes /\ admin[a].op \in Ops
      /\ Idle \in Requested /\ Idle.pc = "idle" /\ Idle.shown = {} /\ Idle.upload = 0
  BY <1>1, RequestFacts
<1>3. admin' = [admin EXCEPT ![a] = r]
  BY DEF Write, GoesTo, Done, CatalogInv, CatalogTypes
<1>4. /\ r \in Requested /\ r.upload \in {0, admin[a].upload} /\ r.pc \in {"idle", "cleanup"}
      /\ r.pc = "idle" => r = Idle
      /\ r.pc = "cleanup" => r.code = code /\ r.op = admin[a].op /\ r.shown = admin[a].shown
      /\ r.shown \in {{}, admin[a].shown}
      /\ r.pc = "cleanup" <=> admin[a].op \in ImageOps
  BY <1>2 DEF Requested
<1> HIDE DEF r
<1>5. /\ settings' \in [Codes -> Settings]
      /\ \A i \in Uploads : WebReferenced(i)' => WebReferenced(i) \/ (Writes(a) /\ i = admin[a].upload)
      /\ \A i \in Uploads : WebReferenced(i)' => i \in bucket
  BY <1>1, WrittenRow
<1>6. CatalogTypes'
  BY <1>1, <1>3, <1>4, <1>5 DEF CatalogInv, CatalogTypes, Requested
<1>7. made' >= made
  BY <1>1, CatalogAssumption DEF CatalogInv, CatalogTypes
<1>8. Proceeds(a, r)
  BY <1>1, <1>2, <1>3, <1>4, <1>5, <1>7, RequestFacts DEF Proceeds
<1>9. Undisturbed'
  <2> SUFFICES ASSUME ~disturbed' PROVE Undisturbed'
    BY DEF Undisturbed
  <2>1. admin'[a] = r /\ \A b \in Admins \ {a} : admin'[b] = admin[b]
    BY <1>3 DEF CatalogInv, CatalogTypes
  <2>2. \A b \in Admins \ {a} : admin[b].pc # "idle" => admin[b].code # code
    BY <1>1 DEF CatalogInv, Undisturbed
  <2>3. \A b, d \in Admins : b # d /\ admin'[b].pc # "idle" /\ admin'[d].pc # "idle"
                               => admin'[b].code # admin'[d].code
    BY <1>1, <1>4, <2>1, <2>2 DEF CatalogInv, Undisturbed
  <2>4. \A b \in Admins : admin'[b].pc # "undo"
    BY <1>1, <1>4, <2>1 DEF CatalogInv, Undisturbed
  <2>5. \A b \in Admins : admin'[b].pc \in {"put", "write"} /\ settings'[admin'[b].code].images # None
                           => settings'[admin'[b].code].images = admin'[b].shown
    <3> SUFFICES ASSUME NEW b \in Admins, admin'[b].pc \in {"put", "write"},
                        settings'[admin'[b].code].images # None
                 PROVE  settings'[admin'[b].code].images = admin'[b].shown
      OBVIOUS
    <3>1. b # a /\ admin'[b] = admin[b] /\ admin[b].code # code
      BY <1>4, <2>1, <2>2
    <3>2. settings'[admin[b].code] = settings[admin[b].code]
      BY <1>1, <3>1 DEF CatalogInv, CatalogTypes
    <3> QED
      BY <1>1, <3>1, <3>2 DEF CatalogInv, Undisturbed
  <2>6. \A i \in bucket' \cap Uploads : WebReferenced(i)' \/ \E b \in Admins : InHand(b, i)'
    <3> SUFFICES ASSUME NEW i \in bucket \cap Uploads, ~WebReferenced(i)'
                 PROVE  \E b \in Admins : InHand(b, i)'
      BY <1>1
    <3>0. settings'[code] = Patched(a) /\ \A c \in Codes \ {code} : settings'[c] = settings[c]
      BY <1>1, <1>2 DEF CatalogInv, CatalogTypes
    <3>1. CASE WebReferenced(i)
      <4>1. PICK c \in Codes : settings[c].images # None /\ i \in settings[c].images
        BY <3>1 DEF WebReferenced
      <4>2. c = code /\ Patched(a).images # settings[c].images
        BY <3>0, <4>1 DEF WebReferenced
      <4>3. admin[a].op \in ImageOps
        BY <4>2 DEF Patched, ImageOps
      <4>4. i \in admin[a].shown
        BY <1>1, <4>1, <4>2 DEF CatalogInv, Undisturbed
      <4> QED
        BY <1>4, <2>1, <4>3, <4>4 DEF InHand
    <3>2. CASE ~WebReferenced(i)
      <4>1. PICK b \in Admins : InHand(b, i)
        BY <1>1, <3>2 DEF CatalogInv, Undisturbed
      <4>2. b # a
        <5>1. ASSUME Writes(a), admin[a].upload = i PROVE FALSE
          <6>1. settings'[code].images = {i} /\ {i} \in SUBSET Uploads
            BY <3>0, <5>1 DEF Patched, Writes
          <6> QED
            BY <1>2, <6>1, KeysAssumption DEF WebReferenced
        <5> QED
          BY <1>1, <4>1, <5>1 DEF InHand
      <4> QED
        BY <2>1, <4>1, <4>2 DEF InHand, Writes
    <3> QED
      BY <3>1, <3>2
  <2> QED
    BY <2>3, <2>4, <2>5, <2>6 DEF Undisturbed
<1> QED
  BY <1>6, <1>8, <1>9, ProceedsKeeps DEF CatalogInv

LEMMA WriteFailsKeeps ==
  ASSUME CatalogInv, NEW a \in Admins, WriteFails(a)
  PROVE  CatalogInv'
<1> DEFINE code == admin[a].code
           r == IF admin[a].op = "replace" THEN [admin[a] EXCEPT !.pc = "undo"] ELSE Idle
<1>1. /\ admin[a].pc = "write" /\ Fails
      /\ UNCHANGED <<snapshot, collecting, objects, imported, bucket, dux, changes, sync, made>>
  BY DEF WriteFails
<1>2. /\ admin[a] \in Requested /\ code \in Codes /\ admin[a].op \in Ops
      /\ Idle \in Requested /\ Idle.pc = "idle" /\ Idle.shown = {} /\ Idle.upload = 0
  BY <1>1, RequestFacts
<1>3. admin' = [admin EXCEPT ![a] = r]
  BY DEF WriteFails, GoesTo, Done, CatalogInv, CatalogTypes
<1>4. /\ r \in Requested /\ r.upload \in {0, admin[a].upload} /\ r.pc \in {"idle", "undo"}
      /\ r.pc = "idle" => r = Idle
      /\ r.pc = "undo" => r.code = code /\ r.op = admin[a].op /\ r.upload = admin[a].upload
      /\ r.shown \in {{}, admin[a].shown}
      /\ r.pc = "undo" => Writes(a)
  BY <1>1, <1>2 DEF Requested, Writes
<1> HIDE DEF r
<1>5. /\ settings' \in [Codes -> Settings]
      /\ \A i \in Uploads : WebReferenced(i)' => WebReferenced(i) \/ (Writes(a) /\ i = admin[a].upload)
      /\ \A i \in Uploads : WebReferenced(i)' => i \in bucket
  BY <1>1, WrittenRow DEF WriteFails
<1>6. CatalogTypes'
  BY <1>1, <1>3, <1>4, <1>5, FaultTypes DEF CatalogInv, CatalogTypes, Requested
<1>7. made' >= made /\ (Writes(a) => admin[a].upload # 0)
  BY <1>1, CatalogAssumption DEF CatalogInv, CatalogTypes, CatalogRequests
<1>8. Proceeds(a, r)
  BY <1>1, <1>2, <1>3, <1>4, <1>5, <1>7, RequestFacts DEF Proceeds
<1> QED
  BY <1>1, <1>6, <1>8, FaultTypes, DisturbedKeeps, ProceedsKeeps DEF CatalogInv

\* A request that leaves the rows and R2 alone.
LEMMA LooksKeep ==
  ASSUME CatalogInv, CatalogTypes', Undisturbed', NEW a \in Admins, NEW r,
         admin' = [admin EXCEPT ![a] = r],
         UNCHANGED <<snapshot, sync, settings, objects, imported, bucket, made>>,
         r.pc = "idle" => r = Idle, r.pc \in {"idle", "cleanup", "delete"},
         r.pc # "idle" => r.code \in Codes /\ r.op \in Ops,
         r.upload \in {0, admin[a].upload},
         r.shown \subseteq admin[a].shown \/ (admin[a].pc = "undo" /\ r.shown = {admin[a].upload}),
         r.pc = "delete" => \A i \in r.shown : i \in Uploads /\ ~WebReferenced(i)
  PROVE  CatalogInv'
<1>1. \A i : WebReferenced(i)' <=> WebReferenced(i)
  BY DEF WebReferenced
<1>2. made' >= made
  BY CatalogAssumption DEF CatalogInv, CatalogTypes
<1>3. /\ \A i, j \in r.shown : i = j
      /\ \A i \in r.shown \cap Uploads : i <= made
      /\ \A i \in r.shown : i \in Uploads \/ i \in objects \/ \E c \in Codes : Preserved[c] = i
      /\ \A b \in Admins \ {a} : Writes(b) => admin[b].upload \notin r.shown
  <2>1. CASE r.shown \subseteq admin[a].shown
    BY <2>1, RequestFacts
  <2>2. CASE admin[a].pc = "undo" /\ r.shown = {admin[a].upload}
    <3>1. admin[a].upload \in Uploads /\ admin[a].upload # 0 /\ admin[a].upload <= made
      BY <2>2 DEF CatalogInv, CatalogRequests, CatalogTypes
    <3>2. \A b \in Admins \ {a} : admin[a].upload # admin[b].upload
      BY <3>1 DEF CatalogInv, Keys
    <3> QED
      BY <2>2, <3>1, <3>2
  <2> QED
    BY <2>1, <2>2
<1>4. /\ Historic \cup objects \subseteq bucket' /\ \A i \in Uploads : WebReferenced(i)' => i \in bucket'
      /\ \A b \in Admins \ {a} : Writes(b) => admin[b].upload \in bucket'
  BY <1>1, RequestFacts
<1>5. Proceeds(a, r)
  BY <1>1, <1>2, <1>3, <1>4 DEF Proceeds
<1> QED
  BY <1>5, ProceedsKeeps DEF CatalogInv

LEMMA UndoKeeps ==
  ASSUME CatalogInv, NEW a \in Admins, Undo(a)
  PROVE  CatalogInv'
<1> DEFINE r == IF WebReferenced(admin[a].upload) THEN Idle
                ELSE [admin[a] EXCEPT !.pc = "delete", !.shown = {admin[a].upload}]
<1>1. /\ admin[a].pc = "undo"
      /\ UNCHANGED <<dux, snapshot, sync, collecting, settings, objects, imported, bucket, made, disturbed, changes, faults>>
  BY DEF Undo, stored, world
<1>2. /\ admin[a] \in Requested /\ admin[a].code \in Codes /\ admin[a].op \in Ops
      /\ Idle \in Requested /\ Idle.pc = "idle" /\ Idle.shown = {} /\ Idle.upload = 0
  BY <1>1, RequestFacts
<1>3. admin' = [admin EXCEPT ![a] = r]
  BY DEF Undo, Done, CatalogInv, CatalogTypes
<1>4. admin[a].upload \in Uploads /\ disturbed
  BY <1>1, <1>2 DEF CatalogInv, CatalogRequests, Undisturbed, CatalogTypes, Requested
<1>5. /\ r \in Requested /\ r.upload \in {0, admin[a].upload} /\ r.pc \in {"idle", "delete"}
      /\ r.pc = "idle" => r = Idle
      /\ r.pc = "delete" => r.code = admin[a].code /\ r.op = admin[a].op /\ ~WebReferenced(admin[a].upload)
      /\ r.shown \in {{}, {admin[a].upload}}
  BY <1>2, <1>4 DEF Requested, Pictures
<1> HIDE DEF r
<1>6. CatalogTypes'
  BY <1>1, <1>3, <1>5 DEF CatalogInv, CatalogTypes, Requested
<1>7. Undisturbed'
  BY <1>1, <1>4, DisturbedKeeps
<1> QED
  BY <1>1, <1>2, <1>3, <1>4, <1>5, <1>6, <1>7, LooksKeep

LEMMA CheckKeeps ==
  ASSUME CatalogInv, NEW a \in Admins, Check(a)
  PROVE  CatalogInv'
<1>1. /\ admin[a].pc = "cleanup"
      /\ UNCHANGED <<dux, snapshot, sync, collecting, settings, objects, imported, bucket, made, disturbed, changes, faults>>
  BY DEF Check, stored, world
<1>2. /\ admin[a] \in Requested /\ admin[a].code \in Codes /\ admin[a].op \in Ops
      /\ Idle \in Requested /\ Idle.pc = "idle" /\ Idle.shown = {} /\ Idle.upload = 0
      /\ \A i, j \in admin[a].shown : i = j
      /\ \A i \in admin[a].shown : i \in Uploads \/ i \in objects \/ \E c \in Codes : Preserved[c] = i
  BY <1>1, RequestFacts
<1>3. ASSUME NEW r \in Requested, admin' = [admin EXCEPT ![a] = r], r.upload \in {0, admin[a].upload},
             r.pc \in {"idle", "cleanup", "delete"}, r.pc = "idle" => r = Idle,
             r.pc # "idle" => r.code = admin[a].code /\ r.op = admin[a].op,
             r.shown \subseteq admin[a].shown,
             r.pc = "delete" => \A i \in r.shown : i \in Uploads /\ ~WebReferenced(i),
             \A i \in Uploads \cap admin[a].shown :
               WebReferenced(i) \/ (r.pc \in {"cleanup", "delete"} /\ i \in r.shown)
      PROVE  CatalogInv'
  <2>1. CatalogTypes'
    BY <1>1, <1>3 DEF CatalogInv, CatalogTypes, Requested
  <2>2. \A i \in bucket' \cap Uploads :
           \/ WebReferenced(i)
           \/ i \in bucket /\ ~InHand(a, i)
           \/ r.pc \in {"cleanup", "delete"} /\ i \in r.shown
    BY <1>1, <1>3 DEF InHand, Writes
  <2>3. Undisturbed'
    BY <1>1, <1>3, <2>2, UndisturbedGoesOn
  <2> QED
    BY <1>1, <1>2, <1>3, <2>1, <2>3, LooksKeep
<1>4. CASE admin[a].shown = {}
  <2>1. admin' = [admin EXCEPT ![a] = Idle]
    BY <1>4 DEF Check, Done
  <2> QED
    BY <1>2, <1>3, <1>4, <2>1
<1>5. ASSUME NEW i \in admin[a].shown, Referenced(i), admin' = [admin EXCEPT ![a].shown = @ \ {i}]
      PROVE  CatalogInv'
  <2> DEFINE r == [admin[a] EXCEPT !.shown = admin[a].shown \ {i}]
  <2>1. /\ r \in Requested /\ r.upload = admin[a].upload /\ r.pc = "cleanup"
        /\ r.code = admin[a].code /\ r.op = admin[a].op /\ r.shown \subseteq admin[a].shown
    BY <1>1, <1>2 DEF Requested
  <2>2. admin' = [admin EXCEPT ![a] = r]
    BY <1>5 DEF CatalogInv, CatalogTypes
  <2>3. \A j \in Uploads \cap admin[a].shown : WebReferenced(j)
    BY <1>2, <1>5, UploadReferenced DEF CatalogInv
  <2> HIDE DEF r
  <2> QED
    BY <1>3, <2>1, <2>2, <2>3
<1>6. ASSUME NEW i \in admin[a].shown, ~Referenced(i), GoesTo(a, "delete")
      PROVE  CatalogInv'
  <2> DEFINE r == [admin[a] EXCEPT !.pc = "delete"]
  <2>1. /\ r \in Requested /\ r.upload = admin[a].upload /\ r.pc = "delete"
        /\ r.code = admin[a].code /\ r.op = admin[a].op /\ r.shown = admin[a].shown
    BY <1>1, <1>2 DEF Requested
  <2>2. admin' = [admin EXCEPT ![a] = r]
    BY <1>6 DEF GoesTo, CatalogInv, CatalogTypes
  <2>3. \A j \in r.shown : j \in Uploads /\ ~WebReferenced(j)
    BY <1>2, <1>6, <2>1 DEF Referenced
  <2> HIDE DEF r
  <2> QED
    BY <1>3, <2>1, <2>2, <2>3
<1> QED
  BY <1>4, <1>5, <1>6 DEF Check

LEMMA DeleteKeeps ==
  ASSUME CatalogInv, NEW a \in Admins, Delete(a)
  PROVE  CatalogInv'
<1>1. /\ admin[a].pc = "delete" /\ bucket' = bucket \ admin[a].shown /\ admin' = [admin EXCEPT ![a] = Idle]
      /\ UNCHANGED <<dux, snapshot, sync, collecting, settings, objects, imported, made, disturbed, changes, faults>>
  BY DEF Delete, Done, world
<1>2. /\ Idle \in Requested /\ Idle.pc = "idle" /\ Idle.shown = {} /\ Idle.upload = 0
      /\ \A i \in admin[a].shown : i \in Uploads /\ ~WebReferenced(i)
  BY <1>1, RequestFacts DEF CatalogInv, Stored
<1>3. \A i : WebReferenced(i)' <=> WebReferenced(i)
  BY <1>1 DEF WebReferenced
<1>4. CatalogTypes'
  BY <1>1, <1>2 DEF CatalogInv, CatalogTypes, Requested
<1>5. made' >= made
  BY <1>1, CatalogAssumption DEF CatalogInv, CatalogTypes
<1>6. /\ Historic \cup objects \subseteq bucket'
      /\ \A i \in Uploads : WebReferenced(i)' => i \in bucket'
      /\ \A b \in Admins \ {a} : Writes(b) => admin[b].upload \in bucket'
  <2>1. Uploads \cap (Historic \cup objects) = {}
    BY KeysAssumption DEF CatalogInv, CatalogTypes
  <2> QED
    BY <1>1, <1>2, <1>3, <2>1, RequestFacts
<1>7. Proceeds(a, Idle)
  BY <1>1, <1>2, <1>3, <1>5, <1>6 DEF Proceeds
<1>8. Undisturbed'
  <2>1. \A i \in bucket' \cap Uploads : i \in bucket /\ ~InHand(a, i)
    BY <1>1 DEF InHand, Writes
  <2> QED
    BY <1>1, <1>2, <2>1, UndisturbedGoesOn
<1> QED
  BY <1>4, <1>7, <1>8, ProceedsKeeps DEF CatalogInv

LEMMA GiveUpKeeps ==
  ASSUME CatalogInv, NEW a \in Admins, GiveUp(a)
  PROVE  CatalogInv'
<1>1. /\ Fails /\ admin' = [admin EXCEPT ![a] = Idle]
      /\ UNCHANGED <<dux, snapshot, sync, collecting, settings, objects, imported, bucket, made, changes>>
  BY DEF GiveUp, Done, stored
<1>2. Idle \in Requested /\ Idle.pc = "idle" /\ Idle.shown = {} /\ Idle.upload = 0
  BY RequestFacts
<1>3. CatalogTypes'
  BY <1>1, <1>2, FaultTypes DEF CatalogInv, CatalogTypes, Requested
<1> QED
  BY <1>1, <1>2, <1>3, FaultTypes, DisturbedKeeps, LooksKeep

-----------------------------------------------------------------------------
(* The theorems *)

LEMMA CatalogStarts == CatalogInit => CatalogInv
<1> SUFFICES ASSUME CatalogInit PROVE CatalogInv
  OBVIOUS
<1>1. \A c \in Codes : settings[c].images = None
  BY DEF CatalogInit, NoRow
<1>2. \A i : ~WebReferenced(i)
  BY <1>1 DEF WebReferenced
<1>3. \A a \in Admins : admin[a] = Idle
  BY DEF CatalogInit
<1>4. Idle \in Requested /\ Idle.pc = "idle" /\ Idle.shown = {} /\ Idle.upload = 0
  BY DEF Idle, Requested
<1>5. CatalogTypes
  <2>1. NoRow \in Settings
    BY DEF NoRow, Settings
  <2>2. sync \in [pc : {"idle", "write"}, items : [Codes -> Items \cup {Gone}], slugs : [Codes -> Names \cup {None}]]
    BY DEF CatalogInit, IdleSync
  <2>3. 0 \in 0..MaxChanges /\ 0 \in 0..MaxFaults
    BY CatalogAssumption
  <2> QED
    BY <1>4, <2>1, <2>2, <2>3 DEF CatalogInit, CatalogTypes, Requested, Pictures
<1>6. Slugs
  BY DEF CatalogInit, IdleSync, Slugs
<1>7. CatalogRequests
  BY <1>3, <1>4 DEF CatalogInit, CatalogRequests, Writes
<1>8. Keys /\ Stored
  BY <1>2, <1>3, <1>4 DEF CatalogInit, Keys, Stored, Writes
<1>9. Undisturbed
  <2>1. bucket \cap Uploads = {}
    BY KeysAssumption DEF CatalogInit
  <2> QED
    BY <1>1, <1>3, <1>4, <2>1 DEF Undisturbed
<1> QED
  BY <1>5, <1>6, <1>7, <1>8, <1>9 DEF CatalogInv

LEMMA CatalogKeeps == CatalogInv /\ [CatalogNext]_catalogVars => CatalogInv'
<1> SUFFICES ASSUME CatalogInv, [CatalogNext]_catalogVars PROVE CatalogInv'
  OBVIOUS
<1>1. CASE UNCHANGED catalogVars
  <2>1. \A i : WebReferenced(i)' <=> WebReferenced(i)
    BY <1>1 DEF WebReferenced, catalogVars
  <2>2. CatalogTypes' /\ Slugs'
    BY <1>1 DEF CatalogInv, CatalogTypes, Slugs, catalogVars
  <2>3. CatalogRequests' /\ Keys' /\ Stored'
    BY <1>1, <2>1 DEF CatalogInv, CatalogRequests, Keys, Stored, Writes, catalogVars
  <2>4. Undisturbed'
    BY <1>1, <2>1 DEF CatalogInv, Undisturbed, InHand, Writes, catalogVars
  <2> QED
    BY <2>2, <2>3, <2>4 DEF CatalogInv
<1>2. ASSUME NEW a \in Admins,
             \/ Begin(a) \/ Put(a) \/ Write(a) \/ WriteFails(a)
             \/ Undo(a) \/ Check(a) \/ Delete(a) \/ GiveUp(a)
      PROVE  CatalogInv'
  BY <1>2, BeginKeeps, PutKeeps, WriteKeeps, WriteFailsKeeps, UndoKeeps, CheckKeeps, DeleteKeeps, GiveUpKeeps
<1> QED
  BY <1>1, <1>2, SnapshotKeeps, EditorialKeeps DEF CatalogNext

\* The inductive invariant.
THEOREM CatalogInvariance == CatalogSpec => []CatalogInv
BY CatalogStarts, CatalogKeeps, PTL DEF CatalogSpec

LEMMA IInvPictures == CatalogInv => PicturesAreStored
<1> SUFFICES ASSUME CatalogInv PROVE PicturesAreStored
  OBVIOUS
<1>1. CatalogTypes
  BY DEF CatalogInv
<1>2. ReferencedAreStored
  <2>1. objects \subseteq bucket /\ Historic \subseteq bucket
    BY DEF CatalogInv, Stored
  <2>2. ASSUME NEW c \in Codes
        PROVE  PreservedImages(c) \cup EditorialImages(c) \cup Shown(c) \subseteq bucket
    <3>1. PreservedImages(c) \subseteq bucket
      BY <2>1, CatalogAssumption DEF PreservedImages
    <3>2. EditorialImages(c) \subseteq bucket
      BY <2>1, <3>1 DEF EditorialImages, CatalogInv, Stored
    <3>3. Shown(c) \subseteq bucket
      <4>1. \A i \in settings[c].images : settings[c].images # None => i \in Uploads /\ WebReferenced(i)
        BY DEF CatalogInv, CatalogTypes, Settings, WebReferenced
      <4> QED
        BY <3>2, <4>1 DEF Shown, CatalogInv, Stored
    <3> QED
      BY <3>1, <3>2, <3>3
  <2> QED
    BY <2>1, <2>2 DEF ReferencedAreStored
<1>3. InTurnNothingIsLeft
  <2> SUFFICES ASSUME ~disturbed, \A a \in Admins : admin[a].pc = "idle", NEW i \in bucket \cap Uploads
               PROVE  Referenced(i)
    BY DEF InTurnNothingIsLeft
  <2>1. WebReferenced(i)
    BY DEF CatalogInv, Undisturbed, InHand, Writes
  <2> QED
    BY <2>1 DEF Referenced
<1> QED
  BY <1>1, <1>2, <1>3 DEF PicturesAreStored

\* Whatever edits overlap and whichever statement or call to R2 fails, a picture that a row,
\* the preserved content or Mercado Libre content refers to is stored; and when nothing
\* failed and no two edits of a product overlapped, no uploaded picture is left behind.
THEOREM NothingReferredIsLost == CatalogSpec => []PicturesAreStored
BY CatalogInvariance, IInvPictures, PTL

\* An edit changes its own field only, and a listed product keeps its slug however Dux
\* renames it.
THEOREM EditsAreApart == CatalogSpec => EditsStayApart
<1>1. CatalogInv /\ [CatalogNext]_catalogVars =>
        \A c \in Codes : /\ settings'[c].status # settings[c].status => Asked(c, StatusOps)
                         /\ settings'[c].images # settings[c].images => Asked(c, ImageOps)
  <2> SUFFICES ASSUME CatalogInv, [CatalogNext]_catalogVars, NEW c \in Codes, settings'[c] # settings[c]
               PROVE  /\ settings'[c].status # settings[c].status => Asked(c, StatusOps)
                      /\ settings'[c].images # settings[c].images => Asked(c, ImageOps)
    OBVIOUS
  <2>1. PICK a \in Admins : Write(a) \/ WriteFails(a)
    BY DEF CatalogNext, catalogVars, ReadPrevious, Persist, Refuse, SetCollecting, DuxChanges, EditorialChanges,
           Begin, Put, Undo, Check, Delete, GiveUp, stored
  <2>2. /\ admin[a].pc = "write"
        /\ \E row \in {settings[admin[a].code], Patched(a)} : settings' = [settings EXCEPT ![admin[a].code] = row]
    BY <2>1 DEF Write, WriteFails
  <2>3. admin[a].code = c /\ settings'[c] = Patched(a)
    BY <2>2 DEF CatalogInv, CatalogTypes
  <2>4. admin'[a].pc # "write"
    BY <2>1 DEF Write, WriteFails, GoesTo, Done, Idle, CatalogInv, CatalogTypes
  <2>5. admin'[a] # admin[a]
    BY <2>2, <2>4
  <2>6. /\ settings'[c].status # settings[c].status => admin[a].op \in StatusOps
        /\ settings'[c].images # settings[c].images => admin[a].op \in ImageOps
    BY <2>3 DEF Patched, StatusOps, ImageOps
  <2> QED
    BY <2>3, <2>5, <2>6 DEF Asked
<1>2. CatalogInv /\ [CatalogNext]_catalogVars =>
        \A c \in Codes : (snapshot # None /\ snapshot' # None /\ Published(c) /\ Published(c)')
                           => snapshot'[c].slug = snapshot[c].slug
  <2> SUFFICES ASSUME CatalogInv, [CatalogNext]_catalogVars, NEW c \in Codes, snapshot # None,
                      Published(c), Published(c)', snapshot' # snapshot
               PROVE  snapshot'[c].slug = snapshot[c].slug
    OBVIOUS
  <2>1. Persist
    BY DEF CatalogNext, catalogVars, ReadPrevious, Refuse, SetCollecting, DuxChanges, EditorialChanges,
           Begin, Put, Write, WriteFails, Undo, Check, Delete, GiveUp, stored
  <2>2. sync.pc = "write" /\ snapshot'[c] = Entry(c)
    BY <2>1 DEF Persist
  <2>3. snapshot[c].slug \in Names /\ snapshot[c].slug # None
    BY KeysAssumption DEF CatalogInv, CatalogTypes, Published, Entries
  <2>4. sync.slugs[c] = snapshot[c].slug
    BY <2>2 DEF CatalogInv, Slugs
  <2>5. snapshot'[c] # Out
    BY DEF Published
  <2> QED
    BY <2>2, <2>3, <2>4, <2>5 DEF Entry, Slug
<1>3. CatalogSpec => FieldsAreIndependent
  BY <1>1, CatalogInvariance, PTL DEF FieldsAreIndependent, CatalogSpec
<1>4. CatalogSpec => IdentityKept
  BY <1>2, CatalogInvariance, PTL DEF IdentityKept, CatalogSpec
<1> QED
  BY <1>3, <1>4 DEF EditsStayApart
=============================================================================
