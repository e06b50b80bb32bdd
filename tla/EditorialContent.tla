-------------------------- MODULE EditorialContent --------------------------
(***************************************************************************)
(* Editorial content taken from Mercado Libre (server/mercado-libre-       *)
(* editorial-sync, -store, -review and -public; migration 0019): approved  *)
(* associations of Dux products with listings, an import that advances one *)
(* bounded step per request under a lease and publishes only when it is    *)
(* complete, and the projection the public catalogue joins from both.      *)
(*                                                                         *)
(* A listing has one unit; its identity (title, sku, barcodes, attributes) *)
(* and a Dux product's are version numbers, so a stored object is the      *)
(* version it was built from.  What pictures and descriptions say is left  *)
(* out, except that a description may have lines somebody must review.     *)
(***************************************************************************)
EXTENDS Integers, FiniteSets, FiniteSetsExt

CONSTANTS
  Products,    \* cod_item, in the order of listEditorialLinks
  Listings,
  Workers,     \* requests that advance the import: the panel and the daily runner
  Admins,
  Grants,      \* what an approval may admit: sets of "images" and "description"
  PageSize,    \* listings a scan page returns
  BatchSize,   \* listings a bulk read takes
  MaxRev,      \* bound: decisions on each product
  MaxChanges,  \* bound: changes of Dux and of the listings
  MaxFaults,   \* bound: provider failures, lost requests, runs that grow old
  None

ASSUME EditorialAssumption ==
  /\ Products \subseteq Nat \ {0} /\ IsFiniteSet(Listings)
  /\ PageSize \in Nat \ {0} /\ BatchSize \in Nat \ {0}
  /\ Grants \subseteq SUBSET {"images", "description"} /\ MaxRev \in Nat \ {0} /\ MaxChanges \in Nat /\ MaxFaults \in Nat

VARIABLES
  dux,      \* identity of each product in the current Dux snapshot, 0 when absent
  listing,  \* each listing at the provider
  link,     \* ml_editorial_links
  run,      \* the row with status running, or NoRun
  current,  \* ml_editorial_state: the published run
  worker, admin,
  changes, faults

vars == <<dux, listing, link, run, current, worker, admin, changes, faults>>

Versions  == 1..MaxChanges + 1
Revisions == 0..MaxRev
Observed  == [active : BOOLEAN, ident : Versions]
Links     == [status : {"none", "approved", "withdrawn"}, rev : Revisions,
              item : Listings \cup {None}, dux : Versions \cup {0}, ident : Versions \cup {0},
              grant : {{}} \cup Grants]
NoLink    == [status |-> "none", rev |-> 0, item |-> None, dux |-> 0, ident |-> 0, grant |-> {}]

Issues == {"none", "association_changed", "dux_product_removed", "dux_identity_requires_review",
           "confirmed_listing_withdrawal", "source_identity_requires_review",
           "description_requires_review"}

\* What a published run leaves: ml_editorial_state and the objects it points to.
Editions == [seen : [Listings -> Observed \cup {None}], pubs : [Products -> Revisions],
             issues : [Products -> Issues]]

ASSUME NoneAssumption == None \notin Listings \cup Workers \cup Observed \cup Editions

\* state_json.  seen is itemHashes, captured the links at the start (0: not one
\* of them), todo those from contentOffset on, work the one in progress.
NoRun == [phase |-> "none", ids |-> {}, total |-> None, queue |-> {},
          seen |-> [i \in Listings |-> None], captured |-> [p \in Products |-> 0], todo |-> {},
          work |-> None, pubs |-> [p \in Products |-> 0], issues |-> [p \in Products |-> "none"],
          old |-> FALSE, owner |-> None, expired |-> FALSE]

NoWork == [pc |-> "idle", next |-> None]
NoSeen == [pc |-> "idle", product |-> None, item |-> None, dux |-> 0, ident |-> 0, rev |-> 0,
           decision |-> None, grant |-> {}]

Init ==
  /\ dux = [p \in Products |-> 1]
  /\ listing = [i \in Listings |-> [active |-> TRUE, ident |-> 1]]
  /\ link = [p \in Products |-> NoLink]
  /\ run = NoRun /\ current = None
  /\ worker = [w \in Workers |-> NoWork]
  /\ admin = [a \in Admins |-> NoSeen]
  /\ changes = 0 /\ faults = 0

-----------------------------------------------------------------------------
(* The import.                                                             *)

Active   == {i \in Listings : listing[i].active}
Approved == {p \in Products : link[p].status = "approved"}

\* advanceEditorialSync without a run: /users/me, the approved links, then INSERT.
Started == [NoRun EXCEPT !.phase = "search",
                         !.captured = [p \in Products |-> IF p \in Approved THEN link[p].rev ELSE 0],
                         !.todo = Approved]

StartRun(w) ==
  /\ worker[w].pc = "idle" /\ run = NoRun
  /\ worker' = [worker EXCEPT ![w] = [pc |-> "starting", next |-> Started]]
  /\ UNCHANGED <<dux, listing, link, run, current, admin, changes, faults>>

\* The unique index on running rows admits one; the loser answers ALREADY_RUNNING.
\* The same request goes on as any other, with Claim.
InsertRun(w) ==
  /\ worker[w].pc = "starting"
  /\ run' = IF run = NoRun THEN worker[w].next ELSE run
  /\ worker' = [worker EXCEPT ![w] = NoWork]
  /\ UNCHANGED <<dux, listing, link, current, admin, changes, faults>>

\* Mutant: only the listings the search found are read.
ScannedOnly(r, page) ==
  LET ids == r.ids \cup page IN
  IF Cardinality(ids) < Cardinality(Active)
  THEN [r EXCEPT !.ids = ids, !.total = Cardinality(Active)]
  ELSE [r EXCEPT !.ids = ids, !.total = None, !.queue = ids,
                 !.phase = IF ids = {} THEN "content" ELSE "metadata"]

\* searchStep: a page of the scan.  The total the provider reports may not move,
\* and the queue adds the listings of the associations approved by then.
Scanned(r, page) ==
  LET ids == r.ids \cup page IN
  IF Cardinality(ids) < Cardinality(Active)
  THEN [r EXCEPT !.ids = ids, !.total = Cardinality(Active)]
  ELSE LET queue == ids \cup {link[p].item : p \in Approved} IN
       [r EXCEPT !.ids = ids, !.total = None, !.queue = queue,
                 !.phase = IF queue = {} THEN "content" ELSE "metadata"]

Pages(r) ==
  {page \in SUBSET (Active \ r.ids) :
     Cardinality(page) = Min({PageSize, Cardinality(Active) - Cardinality(r.ids)})}

SearchFits(r) == (r.total # None => r.total = Cardinality(Active))
                 /\ Cardinality(r.ids) <= Cardinality(Active)

\* metadataStep: one bulk read.  A listing the search returned must still be active.
Batch(r) == CHOOSE b \in SUBSET r.queue : Cardinality(b) = Min({BatchSize, Cardinality(r.queue)})

MetadataFits(r) == \A i \in Batch(r) \cap r.ids : listing[i].active

WithMetadata(r) ==
  LET rest == r.queue \ Batch(r) IN
  [r EXCEPT !.queue = rest,
            !.seen = [i \in Listings |-> IF i \in Batch(r) THEN listing[i] ELSE r.seen[i]],
            !.phase = IF rest = {} THEN "content" ELSE "metadata"]

\* contentStep for the next captured association.
Target(r) == Min(r.todo)

SameLink(r, p) == link[p].status = "approved" /\ link[p].rev = r.captured[p]

\* The metadata of this run the association needs.
Missing(r, p) ==
  SameLink(r, p) /\ dux[p] # 0 /\ dux[p] = link[p].dux /\ r.seen[link[p].item] = None

\* Why an association cannot be published by this run, or none.
Obstacle(r, p) ==
  IF ~SameLink(r, p) THEN "association_changed"
  ELSE IF dux[p] = 0 THEN "dux_product_removed"
  ELSE IF dux[p] # link[p].dux THEN "dux_identity_requires_review"
  ELSE IF ~r.seen[link[p].item].active THEN "confirmed_listing_withdrawal"
  ELSE IF r.seen[link[p].item].ident # link[p].ident THEN "source_identity_requires_review"
  ELSE "none"

\* finish: the issue is recorded and the offset moves on; the last one completes the run.
After(r, p) == IF r.todo = {p} THEN "publish" ELSE "content"

\* Mutant: what could not be published is not reported.
FinishedQuietly(r, p, issue) ==
  [r EXCEPT !.todo = r.todo \ {p}, !.work = None, !.phase = After(r, p)]

Finished(r, p, issue) ==
  [r EXCEPT !.issues[p] = issue, !.todo = r.todo \ {p}, !.work = None, !.phase = After(r, p)]

Published(r, p, issue) ==
  [Finished(r, p, issue) EXCEPT !.pubs[p] = r.captured[p]]

\* The step that creates work reads the description; a listing without one has an
\* empty text, and lines that name the marketplace leave the text to a review.
Described(r, p) ==
  {[r EXCEPT !.work = [pictures |-> "images" \in link[p].grant, review |-> review]] :
     review \in IF "description" \in link[p].grant THEN BOOLEAN ELSE {FALSE}}

\* Later steps import the pictures under names made of their digests, so that a
\* repeated import stores nothing new.
Pictured(r) == [r EXCEPT !.work.pictures = FALSE]

\* The last one stores the content object.
Content(r) ==
  IF r.todo = {} THEN {[r EXCEPT !.phase = "publish"]}
  ELSE LET p == Target(r) IN
       IF Obstacle(r, p) # "none" THEN {Finished(r, p, Obstacle(r, p))}
       ELSE IF r.work = None THEN Described(r, p)
       ELSE IF r.work.pictures THEN {Pictured(r)}
       ELSE {Published(r, p, IF r.work.review THEN "description_requires_review" ELSE "none")}

\* What a step makes of the row it read; whatever it throws fails the run.
Failed(r) == [r EXCEPT !.phase = "failed"]

Steps(r) ==
  IF r.old THEN {Failed(r)}
  ELSE CASE r.phase = "search" ->
              IF SearchFits(r) THEN {Scanned(r, page) : page \in Pages(r)} ELSE {Failed(r)}
         [] r.phase = "metadata" -> {IF MetadataFits(r) THEN WithMetadata(r) ELSE Failed(r)}
         [] OTHER -> IF r.todo # {} /\ Missing(r, Target(r)) THEN {Failed(r)} ELSE Content(r)

\* Mutant: a lease is only given back, never lost.
FreeNow == run.owner = None

Free == run.owner = None \/ run.expired

\* The row is read, its lease taken by the conditional UPDATE (its revision makes
\* the two one step) and the step done: before the commit only the owner of the
\* lease is written, so what the step reads it may as well read here.
Claim(w) ==
  /\ worker[w].pc = "idle" /\ run # NoRun /\ Free
  /\ \E next \in Steps(run) : worker' = [worker EXCEPT ![w] = [pc |-> "commit", next |-> next]]
  /\ run' = [run EXCEPT !.owner = w, !.expired = FALSE]
  /\ UNCHANGED <<dux, listing, link, current, admin, changes, faults>>

\* A complete run succeeds and the pointer moves to it in one batch, by the owner
\* of the lease only.
Owns(w) == run # NoRun /\ run.owner = w

Commit(w) ==
  /\ worker[w].pc = "commit"
  /\ worker' = [worker EXCEPT ![w] = NoWork]
  /\ LET next == worker[w].next IN
     IF ~Owns(w) THEN UNCHANGED <<run, current>>
     ELSE CASE next.phase = "publish" ->
                 /\ run' = NoRun
                 /\ current' = [seen |-> next.seen, pubs |-> next.pubs, issues |-> next.issues]
            [] next.phase = "failed" -> run' = NoRun /\ UNCHANGED current
            [] OTHER -> /\ run' = [next EXCEPT !.owner = None, !.expired = FALSE, !.old = run.old]
                        /\ UNCHANGED current
  /\ UNCHANGED <<dux, listing, link, admin, changes, faults>>

\* The provider, D1 or R2 fails during the step: the run of its owner fails and
\* what was published stays.
StepFails(w) ==
  /\ worker[w].pc = "commit" /\ faults < MaxFaults
  /\ worker' = [worker EXCEPT ![w] = NoWork] /\ faults' = faults + 1
  /\ run' = IF Owns(w) THEN NoRun ELSE run
  /\ UNCHANGED <<dux, listing, link, current, admin, changes>>

\* The request is lost with its lease held.
WorkerDies(w) ==
  /\ worker[w].pc # "idle" /\ faults < MaxFaults
  /\ worker' = [worker EXCEPT ![w] = NoWork] /\ faults' = faults + 1
  /\ UNCHANGED <<dux, listing, link, run, current, admin, changes>>

\* 120 seconds: always for a lease nobody works under, and for a step that takes longer.
LeaseExpires ==
  /\ run.owner # None /\ ~run.expired
  /\ IF worker[run.owner].pc = "commit"
     THEN faults < MaxFaults /\ faults' = faults + 1
     ELSE UNCHANGED faults
  /\ run' = [run EXCEPT !.expired = TRUE]
  /\ UNCHANGED <<dux, listing, link, current, worker, admin, changes>>

\* Two hours since the run started.
RunAges ==
  /\ run # NoRun /\ ~run.old /\ faults < MaxFaults
  /\ run' = [run EXCEPT !.old = TRUE] /\ faults' = faults + 1
  /\ UNCHANGED <<dux, listing, link, current, worker, admin, changes>>

-----------------------------------------------------------------------------
(* The administrator: getEditorialReview, reviewEditorialAssociation.      *)

Decisions == {"approve", "reject", "revoke"}
\* The review needs a published run and the product in Dux, and offers the
\* listings that run saw active.
Look(a, p, i) ==
  /\ admin[a].pc = "idle"
  /\ current # None /\ dux[p] # 0
  /\ current.seen[i] # None /\ current.seen[i].active
  /\ admin' = [admin EXCEPT ![a] =
       [NoSeen EXCEPT !.pc = "seen", !.product = p, !.item = i, !.dux = dux[p],
                      !.ident = current.seen[i].ident, !.rev = link[p].rev]]
  /\ UNCHANGED <<dux, listing, link, run, current, worker, changes, faults>>

\* The checks of a decision.  Only an approval reads the listing again.
Evidence(s, decision) ==
  /\ dux[s.product] = s.dux
  /\ decision = "approve" => listing[s.item] = [active |-> TRUE, ident |-> s.ident]

Decide(a, decision, grant) ==
  /\ admin[a].pc = "seen"
  /\ decision = "revoke" => link[admin[a].product].rev > 0
  /\ admin' = [admin EXCEPT ![a] =
       IF dux[admin[a].product] # 0 /\ Evidence(admin[a], decision)
       THEN [admin[a] EXCEPT !.pc = "checked", !.decision = decision, !.grant = grant]
       ELSE NoSeen]
  /\ UNCHANGED <<dux, listing, link, run, current, worker, changes, faults>>

\* Rejected and revoked are told apart only by the audit.
Status(decision) == IF decision = "approve" THEN "approved" ELSE "withdrawn"

\* The conditional upsert, the unique index on approved sources and the trigger
\* that wants the product in Dux; one row per product, whatever its listing.
Writable(s) ==
  /\ link[s.product].rev = s.rev
  /\ dux[s.product] # 0
  /\ s.decision = "approve" =>
       \A q \in Approved \ {s.product} : link[q].item # s.item

Write(a) ==
  LET s == admin[a] IN
  /\ s.pc = "checked"
  /\ link[s.product].rev < MaxRev
  /\ link' = IF Writable(s)
             THEN [link EXCEPT ![s.product] =
                    [status |-> Status(s.decision), rev |-> link[s.product].rev + 1, item |-> s.item,
                     dux |-> s.dux, ident |-> s.ident, grant |-> s.grant]]
             ELSE link
  /\ admin' = [admin EXCEPT ![a] = NoSeen]
  /\ UNCHANGED <<dux, listing, run, current, worker, changes, faults>>

\* The administrator leaves the page.
Leave(a) ==
  /\ admin[a].pc # "idle"
  /\ admin' = [admin EXCEPT ![a] = NoSeen]
  /\ UNCHANGED <<dux, listing, link, run, current, worker, changes, faults>>

-----------------------------------------------------------------------------
(* Dux and the seller go on.                                               *)

DuxChanges(p) ==
  /\ changes < MaxChanges
  /\ \E version \in {0, changes + 2} : dux[p] # version /\ dux' = [dux EXCEPT ![p] = version]
  /\ changes' = changes + 1
  /\ UNCHANGED <<listing, link, run, current, worker, admin, faults>>

\* A listing is paused, resumed, or becomes something else.
ListingChanges(i) ==
  /\ changes < MaxChanges
  /\ \E now \in {[listing[i] EXCEPT !.active = ~listing[i].active],
                 [listing[i] EXCEPT !.ident = changes + 2]} :
       listing' = [listing EXCEPT ![i] = now]
  /\ changes' = changes + 1
  /\ UNCHANGED <<dux, link, run, current, worker, admin, faults>>

Next ==
  \/ \E w \in Workers : StartRun(w) \/ InsertRun(w) \/ Claim(w) \/ Commit(w)
                       \/ StepFails(w) \/ WorkerDies(w)
  \/ LeaseExpires \/ RunAges
  \/ \E a \in Admins : \/ \E p \in Products, i \in Listings : Look(a, p, i)
                      \/ \E decision \in Decisions, grant \in Grants : Decide(a, decision, grant)
                      \/ Write(a) \/ Leave(a)
  \/ \E p \in Products : DuxChanges(p)
  \/ \E i \in Listings : ListingChanges(i)

Spec == Init /\ [][Next]_vars

\* The runner calls again until its run ends, and a lease nobody serves runs out.
Fairness == /\ \A w \in Workers : WF_vars(StartRun(w) \/ InsertRun(w) \/ Claim(w) \/ Commit(w))
            /\ WF_vars(LeaseExpires)

FairSpec == Spec /\ Fairness

-----------------------------------------------------------------------------
(* applyMercadoLibreEditorial: what the public catalogue shows.            *)

Joined(p) == current # None /\ link[p].status = "approved" /\ current.pubs[p] = link[p].rev

\* The Dux identity of now, and the metadata of the published run itself.
Shown(p) ==
  /\ Joined(p)
  /\ dux[p] = link[p].dux
  /\ current.seen[link[p].item] = [active |-> TRUE, ident |-> link[p].ident]

-----------------------------------------------------------------------------
(* Properties.                                                             *)

TypeOK ==
  /\ dux \in [Products -> Versions \cup {0}]
  /\ listing \in [Listings -> Observed]
  /\ link \in [Products -> Links]
  /\ run.phase \in {"none", "search", "metadata", "content"}
  /\ run.phase = "metadata" => run.queue # {}
  /\ run.ids \subseteq Listings /\ run.queue \subseteq Listings /\ run.todo \subseteq Products
  /\ run.captured \in [Products -> Revisions] /\ run.pubs \in [Products -> Revisions]
  /\ run.issues \in [Products -> Issues]
  /\ run.owner \in Workers \cup {None} /\ (run.expired => run.owner # None)
  /\ current \in Editions \cup {None}
  /\ \A w \in Workers : worker[w].pc \in {"idle", "starting", "commit"}
  /\ \A a \in Admins : admin[a].pc \in {"idle", "seen", "checked"}
  /\ changes \in 0..MaxChanges /\ faults \in 0..MaxFaults

\* A run never misses the metadata of an association it still has to publish:
\* whatever was approved when it started and stands was read with the rest, even
\* when its listing is no longer among those the search returns.
MetadataAlwaysThere ==
  run.phase = "content" => \A p \in run.todo : SameLink(run, p) => run.seen[link[p].item] # None

\* The import under way is complete in what it has read.
ImportIsWhole == TypeOK /\ MetadataAlwaysThere

\* What a customer sees is withdrawn only by somebody's decision on that product,
\* by a change of the product in Dux, or by a complete run that says why (or read
\* the approved associations before this decision was taken).
KeptUntilSaid ==
  [][\A p \in Products : Shown(p) /\ ~Shown(p)' =>
       \/ link'[p] # link[p] \/ dux'[p] # dux[p]
       \/ current' # current
          /\ (current'.issues[p] # "none" \/ run.captured[p] # link[p].rev)]_vars

\* A product shows the content of a listing only after a run that read the whole
\* of it under that very decision.
\* (the run started after the decision)
ShownAfterRun ==
  [][\A p \in Products : ~Shown(p) /\ Shown(p)' =>
       \/ dux'[p] # dux[p]
       \/ current' # current /\ run.captured[p] = link[p].rev]_vars

\* What a product shows changes for a reason, in both directions.
ContentMovesForAReason == KeptUntilSaid /\ ShownAfterRun

\* A decision on a listing leaves the approval of another listing alone.
RejectionIsAboutItsListing ==
  [][\A a \in Admins, p \in Products :
       admin[a].pc = "checked" /\ admin[a].decision = "reject" /\ link'[p] # link[p]
         => link[p].status # "approved" \/ link[p].item = admin[a].item]_vars

\* An association that is approved and left alone is in the end shown, or a
\* complete run says why not.
ApprovedIsSettled ==
  \A p \in Products : \A rev \in Revisions \ {0} :
    (link[p].status = "approved" /\ link[p].rev = rev)
      ~> \/ link[p].rev # rev
         \/ current # None /\ (current.pubs[p] = rev \/ current.issues[p] # "none")

-----------------------------------------------------------------------------
(* The instances TLC checks *)

\* After the initial import, which had no association to publish: the first
\* decision needs it, and Init reaches it by an import of that kind.
Imported ==
  /\ dux = [p \in Products |-> 1]
  /\ listing = [i \in Listings |-> [active |-> TRUE, ident |-> 1]]
  /\ link = [p \in Products |-> NoLink]
  /\ run = NoRun
  /\ current = [seen |-> listing, pubs |-> [p \in Products |-> 0],
                issues |-> [p \in Products |-> "none"]]
  /\ worker = [w \in Workers |-> NoWork]
  /\ admin = [a \in Admins |-> NoSeen]
  /\ changes = 0 /\ faults = 0

ImportedSpec == Imported /\ [][Next]_vars /\ Fairness
=============================================================================
