---------------------------- MODULE EditorialLinks ----------------------------
(***************************************************************************)
(* Which editorial page of the shop lends its pictures and its words to    *)
(* which code of Dux.  Two versioned analyses are imported once each: the  *)
(* links a person approved in bulk (src/server/dux-editorial-links.ts) and *)
(* the cases the analysis left (src/server/dux-editorial-triage.ts), which *)
(* reviewers approve, reject, discard, or undo one by one.  A request reads*)
(* first and writes one batch later; what guards the batch is its own      *)
(* WHERE clauses, two partial unique indexes and two triggers.             *)
(***************************************************************************)
EXTENDS Naturals, FiniteSets, Sequences

CONSTANTS
  Cases,        \* codes of Dux the analysis classified
  Locals,       \* editorial pages of the shop
  Parts,        \* what a page may lend: its pictures, its description
  Confirmed,    \* the approved bulk, a function from its codes to their pages
  ConfirmedUse, \* what each link of the bulk lends
  Manual,       \* cases the analysis left to a reviewer
  Candidates,   \* the pages the analysis offers for each case
  Pages,        \* what a request may read of the pages: [page |-> parts it has]
  Reviewers,    \* administrators, one request each at a time
  MaxVersion    \* bound on the reviews of a case

VARIABLES
  imports,   \* dux_editorial_link_imports: the batches stored
  links,     \* dux_editorial_links: the rows of each code, oldest first
  triage,    \* dux_editorial_triage: the row of each code
  at,        \* where the request of each reviewer is
  review,    \* the review it carries, with what it read of the case
  vouched,   \* batches some request was told are stored whole
  told       \* reviews of each case answered as done

linkVars == <<imports, links, triage, at, review, vouched, told>>

\* The two batches of the analysis.
Batches == {"links", "triage"}

\* The codes of the approved bulk.
Bulk == DOMAIN Confirmed

\* What the parsers of both manifests demand of them: the bulk is one to one,
\* lends something or nothing of a page, and no case of it is left to review;
\* neither manifest is empty.
LinksAssumption ==
  /\ Confirmed \in [Bulk -> Locals] /\ Bulk \subseteq Cases
  /\ \A c, d \in Bulk : Confirmed[c] = Confirmed[d] => c = d
  /\ ConfirmedUse \in [Bulk -> SUBSET Parts]
  /\ Manual \subseteq Cases \ Bulk
  /\ Candidates \in [Cases -> SUBSET Locals]
  /\ Cases # {} /\ Locals # {} /\ \A page \in Pages : DOMAIN page \subseteq Locals
  /\ MaxVersion \in Nat
ASSUME LinksAssumption

Decisions == {"approve", "reject", "discard", "deactivate"}
States == {"absent", "auto_confirmed", "pending", "approved", "rejected", "discarded"}

\* No page and no link of it.
NoLocal == "none"
ASSUME SomeLocal == NoLocal \notin Locals

LinkRows == [local : Locals, use : SUBSET Parts, batch : Batches, active : BOOLEAN]
CaseRows == [state : States, local : Locals \cup {NoLocal}, use : SUBSET Parts,
             link : Nat, version : Nat]
Reviews == [code : Cases, decision : Decisions, local : Locals, use : SUBSET Parts,
            state : States, version : Nat, link : Nat]

-----------------------------------------------------------------------------
(* Rows *)

\* The rows of a code that are active: at most one, by its partial index.
ActiveRows(rows, c) == {i \in DOMAIN rows[c] : rows[c][i].active}

\* The active row a subselect finds, 0 standing for NULL.
ActiveLink(rows, c) ==
  IF ActiveRows(rows, c) = {} THEN 0 ELSE CHOOSE i \in ActiveRows(rows, c) : TRUE

\* An insert breaks a unique index when its code or its page has an active row.
Collides(rows, c, local) ==
  \/ ActiveRows(rows, c) # {}
  \/ \E d \in Cases : \E i \in ActiveRows(rows, d) : rows[d][i].local = local

\* The row of the approved bulk for a code of it.
ConfirmedRow(c) ==
  [local |-> Confirmed[c], use |-> ConfirmedUse[c], batch |-> "links", active |-> TRUE]

\* The bulk stored as approved: one row of each code, as it was and active.
StoredLinksMatch ==
  /\ \A c \in Cases : \A i \in DOMAIN links[c] :
        links[c][i].batch = "links" => c \in Bulk /\ links[c][i] = ConfirmedRow(c)
  /\ \A c \in Bulk : Cardinality({i \in DOMAIN links[c] : links[c][i].batch = "links"}) = 1

\* Every page the bulk names is there, with what the link lends of it.
SourcesValid(page) ==
  \A c \in Bulk : Confirmed[c] \in DOMAIN page /\ ConfirmedUse[c] \subseteq page[Confirmed[c]]

\* The state a case is imported in, by what the analysis made of it.
FirstState(c) ==
  IF c \in Bulk THEN "auto_confirmed" ELSE IF c \in Manual THEN "pending" ELSE "discarded"

CaseRow(state, version) ==
  [state |-> state, local |-> NoLocal, use |-> {}, link |-> 0, version |-> version]
-----------------------------------------------------------------------------
(* What the shop reads of the links *)

\* The active links of a code the listing admits: of a case approved with that
\* very row, or of the bulk when the case was not reviewed.
Listed(c) ==
  {i \in ActiveRows(links, c) :
     \/ triage[c].state = "approved" /\ triage[c].link = i
     \/ triage[c].state \in {"auto_confirmed", "absent"} /\ links[c][i].batch = "links"}

\* What the page of a code takes from the editorial pages, [page, part]: the
\* parts its listed link lends and the page still has.
Lent(c, page) ==
  {lent \in Locals \X Parts :
     \E i \in Listed(c) :
        /\ links[c][i].local = lent[1] /\ lent[1] \in DOMAIN page
        /\ lent[2] \in links[c][i].use \cap page[lent[1]]}
-----------------------------------------------------------------------------
(* Initial states *)

\* A reviewer with no request carries this.
NoReview ==
  [code |-> CHOOSE c \in Cases : TRUE, decision |-> "reject", local |-> CHOOSE l \in Locals : TRUE,
   use |-> {}, state |-> "absent", version |-> 0, link |-> 0]

LinksInit ==
  /\ imports = {}
  /\ links = [c \in Cases |-> <<>>]
  /\ triage = [c \in Cases |-> CaseRow("absent", 0)]
  /\ at = [a \in Reviewers |-> "idle"]
  /\ review = [a \in Reviewers |-> NoReview]
  /\ vouched = {}
  /\ told = [c \in Cases |-> 0]

\* A request moves on, or ends.
Go(a, place) == at' = [at EXCEPT ![a] = place]
-----------------------------------------------------------------------------
(* Import of the approved links *)

\* It checks the pages, and reads whether the batch is stored; when it is, the
\* answer vouches for the rows it then compares one by one.
AskLinks(a) ==
  /\ at[a] = "idle"
  /\ \E page \in Pages : SourcesValid(page)
  /\ IF "links" \in imports
     THEN /\ StoredLinksMatch
          /\ vouched' = vouched \cup {"links"}
          /\ UNCHANGED at
     ELSE Go(a, "check") /\ UNCHANGED vouched
  /\ UNCHANGED <<imports, links, triage, review, told>>

\* It reads the active links: one on a code or a page of the bulk refuses it.
CheckLinks(a) ==
  /\ at[a] = "check"
  /\ Go(a, IF \E c \in Cases : \E i \in ActiveRows(links, c) :
                c \in Bulk \/ \E d \in Bulk : Confirmed[d] = links[c][i].local
           THEN "idle" ELSE "insert")
  /\ UNCHANGED <<imports, links, triage, review, vouched, told>>

\* A stored import or an active link breaks a unique index.
BulkRefused == "links" \in imports \/ \E c \in Bulk : Collides(links, c, Confirmed[c])

\* One batch writes the import and its links, or none of it.
InsertLinks(a) ==
  /\ at[a] = "insert"
  /\ IF BulkRefused
     THEN Go(a, "idle") /\ UNCHANGED <<imports, links>>
     ELSE /\ imports' = imports \cup {"links"}
          /\ links' = [c \in Cases |-> IF c \in Bulk THEN Append(links[c], ConfirmedRow(c))
                                                     ELSE links[c]]
          /\ Go(a, "stored")
  /\ UNCHANGED <<triage, review, vouched, told>>

\* It reads back what it wrote, and answers that the bulk is stored whole or,
\* when a link was undone meanwhile, that it is not.
AssertLinks(a) ==
  /\ at[a] = "stored"
  /\ vouched' = vouched \cup (IF StoredLinksMatch THEN {"links"} ELSE {})
  /\ Go(a, "idle")
  /\ UNCHANGED <<imports, links, triage, review, told>>

-----------------------------------------------------------------------------
(* Import of the cases *)

AskTriage(a) ==
  /\ at[a] = "idle"
  /\ IF "triage" \in imports
     THEN vouched' = vouched \cup {"triage"} /\ UNCHANGED at
     ELSE Go(a, "cases") /\ UNCHANGED vouched
  /\ UNCHANGED <<imports, links, triage, review, told>>

\* One batch writes the import and every case; its evidence never changes
\* after, so the reading back of it finds what was written.
InsertTriage(a) ==
  /\ at[a] = "cases"
  /\ Go(a, "idle")
  /\ IF "triage" \in imports
     THEN UNCHANGED <<imports, triage, vouched>>
     ELSE /\ imports' = imports \cup {"triage"}
          /\ triage' = [c \in Cases |-> CaseRow(FirstState(c), 0)]
          /\ vouched' = vouched \cup {"triage"}
  /\ UNCHANGED <<links, review, told>>
-----------------------------------------------------------------------------
(* Review of a case *)

\* What a review must find when it reads the case: a link to undo, or a case
\* left to reviewers and still pending.
Reviewable(c, decision) ==
  /\ triage[c].state # "absent"
  /\ IF decision = "deactivate" THEN ActiveRows(links, c) # {}
                                ELSE c \in Manual /\ triage[c].state = "pending"

\* What an approval must name: a candidate of the case that still has a page,
\* and something of the page to lend.
Approvable(c, local, use, page) ==
  /\ local \in Candidates[c] \cap DOMAIN page
  /\ use # {} /\ use \subseteq page[local]

\* A reviewer's request reads the case, its version and its active link, and
\* goes on to write when nothing refuses it.
AskReview(a) ==
  /\ at[a] = "idle"
  /\ \E c \in Cases, decision \in Decisions, local \in Locals, use \in SUBSET Parts, page \in Pages :
       /\ Reviewable(c, decision)
       /\ triage[c].version < MaxVersion
       /\ IF decision = "approve" THEN Approvable(c, local, use, page)
                                  ELSE local = NoReview.local /\ use = {}
       /\ review' = [review EXCEPT ![a] =
            [code |-> c, decision |-> decision, local |-> local, use |-> use,
             state |-> triage[c].state, version |-> triage[c].version,
             link |-> ActiveLink(links, c)]]
  /\ Go(a, "review")
  /\ UNCHANGED <<imports, links, triage, vouched, told>>

\* The WHERE clause both statements of a review's batch carry.
SameCase(r) == triage[r.code].state = r.state /\ triage[r.code].version = r.version

\* Mutant: the insert of an approval does not ask whether the case is as read.
LinksAfterAny(r) ==
  IF r.decision = "approve"
  THEN [links EXCEPT ![r.code] = Append(@, [local |-> r.local, use |-> r.use,
                                            batch |-> "triage", active |-> TRUE])]
  ELSE IF r.decision = "deactivate" /\ SameCase(r) /\ r.link \in DOMAIN links[r.code]
  THEN [links EXCEPT ![r.code][r.link].active = FALSE]
  ELSE links

\* The first statement: it adds the approved link, or ends the active one.
LinksAfter(r) ==
  IF r.decision = "approve" /\ SameCase(r)
  THEN [links EXCEPT ![r.code] = Append(@, [local |-> r.local, use |-> r.use,
                                            batch |-> "triage", active |-> TRUE])]
  ELSE IF r.decision = "deactivate" /\ SameCase(r) /\ r.link \in DOMAIN links[r.code]
  THEN [links EXCEPT ![r.code][r.link].active = FALSE]
  ELSE links

\* The state the second statement leaves the case in.
StateAfter(r) ==
  CASE r.decision = "approve" -> "approved"
    [] r.decision = "reject" -> "rejected"
    [] r.decision = "discard" -> "discarded"
    [] r.decision = "deactivate" -> IF r.code \in Manual THEN "pending" ELSE r.state

\* The second statement: the case with its decision, one version later.
CaseAfter(r) ==
  IF ~SameCase(r) THEN triage[r.code]
  ELSE IF r.decision = "approve"
  THEN [state |-> "approved", local |-> r.local, use |-> r.use,
        link |-> ActiveLink(LinksAfter(r), r.code), version |-> r.version + 1]
  ELSE CaseRow(StateAfter(r), r.version + 1)

\* What aborts the batch: a unique index on the insert, the trigger that
\* approves only a pending case with a candidate and its active link, or the
\* one that resolves no case while its code has a link.
Aborted(r) ==
  /\ SameCase(r)
  /\ IF r.decision = "approve"
     THEN \/ Collides(links, r.code, r.local)
          \/ triage[r.code].state # "pending"
          \/ r.local \notin Candidates[r.code]
     ELSE ActiveRows(LinksAfter(r), r.code) # {}

\* The batch of a review.  It answers that the review was done when its last
\* statement changed a row, and a conflict otherwise.
Decide(a) ==
  /\ at[a] = "review"
  /\ LET r == review[a] IN
       IF Aborted(r)
       THEN UNCHANGED <<links, triage, told>>
       ELSE /\ links' = LinksAfter(r)
            /\ triage' = [triage EXCEPT ![r.code] = CaseAfter(r)]
            /\ told' = IF SameCase(r) THEN [told EXCEPT ![r.code] = @ + 1] ELSE told
  /\ Go(a, "idle")
  /\ review' = [review EXCEPT ![a] = NoReview]
  /\ UNCHANGED <<imports, vouched>>

\* A request is lost between its reading and its batch.
Lose(a) ==
  /\ at[a] # "idle"
  /\ Go(a, "idle")
  /\ review' = [review EXCEPT ![a] = NoReview]
  /\ UNCHANGED <<imports, links, triage, vouched, told>>
-----------------------------------------------------------------------------
LinksNext ==
  \E a \in Reviewers :
    \/ AskLinks(a) \/ CheckLinks(a) \/ InsertLinks(a) \/ AssertLinks(a)
    \/ AskTriage(a) \/ InsertTriage(a)
    \/ AskReview(a) \/ Decide(a) \/ Lose(a)

LinksSpec == LinksInit /\ [][LinksNext]_linkVars
-----------------------------------------------------------------------------
(* Properties *)

\* Types of the rows and of the requests.
LinksTypeOK ==
  /\ imports \subseteq Batches /\ vouched \subseteq Batches
  /\ links \in [Cases -> Seq(LinkRows)]
  /\ triage \in [Cases -> CaseRows]
  /\ at \in [Reviewers -> {"idle", "check", "insert", "stored", "cases", "review"}]
  /\ review \in [Reviewers -> Reviews]
  /\ told \in [Cases -> Nat]

\* A code has one active link at most, and a page lends to one code at most.
LinksAreOneToOne ==
  \A c, d \in Cases : \A i \in ActiveRows(links, c), j \in ActiveRows(links, d) :
    (c = d \/ links[c][i].local = links[d][j].local) => c = d /\ i = j

\* An approved case has an active link: the one it names, to the candidate its
\* reviewer chose, lending what the reviewer chose.
ApprovedIsLinked ==
  \A c \in Cases : triage[c].state = "approved" =>
    /\ c \in Manual /\ triage[c].local \in Candidates[c]
    /\ triage[c].link \in ActiveRows(links, c)
    /\ links[c][triage[c].link].local = triage[c].local
    /\ links[c][triage[c].link].use = triage[c].use

\* A code whose case is pending, rejected or discarded has no active link.
ResolvedIsUnlinked ==
  \A c \in Cases : triage[c].state \in {"pending", "rejected", "discarded"} => ActiveRows(links, c) = {}

\* Every active link is one the shop lists, so none holds its page in secret.
ActiveIsListed == \A c \in Cases : ActiveRows(links, c) \subseteq Listed(c)

\* Reviews answered as done are exactly the ones that changed their case, and
\* an import answered as stored is stored.
AnswersAreKept ==
  /\ \A c \in Cases : told[c] = triage[c].version
  /\ vouched \subseteq imports

\* What a code shows of an editorial page is what its reviewer, or the approved
\* bulk while nobody reviewed it, gave it.
LentIsDecided ==
  \A c \in Cases, page \in Pages : \A lent \in Lent(c, page) :
    \/ /\ triage[c].state = "approved"
       /\ lent[1] = triage[c].local /\ lent[2] \in triage[c].use
    \/ /\ triage[c].state \in {"absent", "auto_confirmed"} /\ c \in Bulk
       /\ lent[1] = Confirmed[c] /\ lent[2] \in ConfirmedUse[c]

\* What the shop shows of a code follows the decision on it, whatever imports
\* and reviews ran together, were lost between their reading and their batch,
\* or wrote on what another had changed.
LinksFollowReviews ==
  /\ LinksAreOneToOne /\ ApprovedIsLinked /\ ResolvedIsUnlinked
  /\ ActiveIsListed /\ LentIsDecided /\ AnswersAreKept
=============================================================================
