----------------------- MODULE EditorialContentProofs -----------------------
(***************************************************************************)
(* What EditorialContent promises for any number of products, listings,    *)
(* workers and administrators and any sizes of pages and batches: an       *)
(* import never lacks the metadata of an association it still has to       *)
(* publish (ImportIsWhole), and what the shop shows of a product appears   *)
(* and disappears only for a reason (ContentMovesForAReason).              *)
(*                                                                         *)
(* An association only changes by a decision, which raises its revision:   *)
(* so as long as an association has the revision a run captured, it is the *)
(* association the run captured (Faithful), and what the run says of it is *)
(* still about it.  A lease is not a lock, but a worker that commits holds *)
(* it, and then nobody but that worker moved the run (Holding).            *)
(***************************************************************************)
EXTENDS EditorialContent, FiniteSetTheorems, WellFoundedInduction, TLAPS

Phases == {"none", "search", "metadata", "content", "publish", "failed"}
Works  == [pictures : BOOLEAN, review : BOOLEAN]
Row    == [phase : Phases, ids : SUBSET Listings, total : Nat \cup {None}, queue : SUBSET Listings,
           seen : [Listings -> Observed \cup {None}], captured : [Products -> Revisions],
           todo : SUBSET Products, work : Works \cup {None}, pubs : [Products -> Revisions],
           issues : [Products -> Issues], old : BOOLEAN, owner : Workers \cup {None},
           expired : BOOLEAN]
Review == [pc : {"idle", "seen", "checked"}, product : Products \cup {None},
           item : Listings \cup {None}, dux : Versions \cup {0}, ident : Versions \cup {0},
           rev : Revisions, decision : Decisions \cup {None}, grant : {{}} \cup Grants]

\* The types, with those of what workers and administrators carry.
Typed ==
  /\ dux \in [Products -> Versions \cup {0}] /\ listing \in [Listings -> Observed]
  /\ link \in [Products -> Links] /\ current \in Editions \cup {None}
  /\ changes \in 0..MaxChanges /\ faults \in 0..MaxFaults
  /\ \A p \in Approved : link[p].item \in Listings /\ link[p].rev # 0
  /\ run \in Row /\ (run.phase = "none" <=> run = NoRun)
  /\ run.phase \in {"none", "search", "metadata", "content"} /\ (run.expired => run.owner # None)
  /\ worker \in [Workers -> [pc : {"idle", "starting", "commit"}, next : Row \cup {None}]]
  /\ \A w \in Workers : worker[w].pc # "idle" => worker[w].next \in Row
  /\ admin \in [Admins -> Review]
  /\ \A a \in Admins :
       /\ admin[a].pc # "idle" => admin[a].product \in Products /\ admin[a].item \in Listings
       /\ admin[a].pc = "checked" => admin[a].decision \in Decisions

\* Of the associations l, the one of p is the one run r captured at its start.
Kept(r, l, p) == r.captured[p] # 0 /\ l[p].rev = r.captured[p]

\* What the row of a run says of the associations it captured.
Past(r, l)       == \A p \in Products : r.captured[p] <= l[p].rev
Standing(r, l)   == \A p \in Products : Kept(r, l, p) => l[p].status = "approved"
Untouched(r)  == r.phase \in {"search", "metadata"} =>
                   /\ r.todo = {p \in Products : r.captured[p] # 0}
                   /\ r.pubs = [p \in Products |-> 0]
Queued(r, l)     == r.phase = "metadata" =>
                   /\ r.queue # {}
                   /\ \A p \in r.todo : Kept(r, l, p) => l[p].item \in r.queue \/ r.seen[l[p].item] # None
Read(r, l)       == r.phase \in {"content", "publish"} =>
                   \A p \in r.todo : Kept(r, l, p) => r.seen[l[p].item] # None
Settled(r, l)    == \A p \in Products \ r.todo : Kept(r, l, p) =>
                   \/ r.issues[p] # "none"
                   \/ /\ r.pubs[p] = r.captured[p]
                      /\ r.seen[l[p].item] = [active |-> TRUE, ident |-> l[p].ident]
Stamped(r)    == \A p \in Products : r.pubs[p] \in {0, r.captured[p]}
Ended(r)      == r.phase = "publish" => r.todo = {}

FaithfulTo(r, l) ==
  Past(r, l) /\ Standing(r, l) /\ Untouched(r) /\ Queued(r, l) /\ Read(r, l) /\ Settled(r, l) /\ Stamped(r) /\ Ended(r)

Faithful(r) == FaithfulTo(r, link)

\* A worker that commits under its lease has a step of this very run, and a run
\* about to start has captured what was approved.
Holding ==
  \A w \in Workers :
    /\ worker[w].pc = "starting" =>
         worker[w].next.phase = "search" /\ worker[w].next.owner = None /\ ~worker[w].next.expired
         /\ Faithful(worker[w].next)
    /\ worker[w].pc = "commit" /\ Owns(w) =>
         worker[w].next.phase # "none" /\ Faithful(worker[w].next)
         /\ worker[w].next.captured = run.captured

\* No edition is of a decision still to come.
Dated == current # None => \A p \in Products : current.pubs[p] <= link[p].rev

IInv == Typed /\ Faithful(run) /\ Holding /\ Dated

-----------------------------------------------------------------------------
(* Choices *)

\* A finite set has subsets of every size up to its own.
LEMMA SubsetOfSize ==
  ASSUME NEW S, IsFiniteSet(S), NEW n \in Nat, n <= Cardinality(S)
  PROVE  \E T \in SUBSET S : Cardinality(T) = n
<1>1. PICK f : f \in Bijection(1..Cardinality(S), S)
  BY FS_CardinalityType DEF ExistsBijection
<1> DEFINE T == {f[i] : i \in 1..n}
           g == [i \in 1..n |-> f[i]]
<1>2. Cardinality(S) \in Nat /\ 1..n \subseteq 1..Cardinality(S)
  BY FS_CardinalityType
<1>3. g \in Bijection(1..n, T)
  BY <1>1, <1>2 DEF Bijection, Injection, Surjection, IsInjective
<1>4. IsFiniteSet(1..n) /\ Cardinality(1..n) = n
  BY FS_Interval
<1>5. Cardinality(T) = n
  BY <1>3, <1>4, FS_Bijection DEF ExistsBijection
<1>6. T \subseteq S
  BY <1>1, <1>2 DEF Bijection, Injection
<1> QED
  BY <1>5, <1>6

\* A bulk read takes listings of the queue, and takes some.
LEMMA BatchOfQueue ==
  ASSUME NEW r \in Row, r.queue # {}
  PROVE  Batch(r) \subseteq r.queue
<1> DEFINE n == Min({BatchSize, Cardinality(r.queue)})
<1>1. IsFiniteSet(r.queue) /\ Cardinality(r.queue) \in Nat
  BY EditorialAssumption, FS_Subset, FS_CardinalityType DEF Row
<1>2. n \in Nat /\ n <= Cardinality(r.queue)
  BY <1>1, EditorialAssumption DEF Min
<1>3. \E b \in SUBSET r.queue : Cardinality(b) = n
  BY <1>1, <1>2, SubsetOfSize
<1> QED
  BY <1>3 DEF Batch

\* The next association is one of those to do.
LEMMA TargetToDo ==
  ASSUME NEW r \in Row, r.todo # {}
  PROVE  Target(r) \in r.todo
<1>1. r.todo \subseteq Nat
  BY EditorialAssumption DEF Row
<1> DEFINE R == OpToRel(<, Nat)
<1>2. \E p \in r.todo : \A q \in r.todo : ~(q < p)
  <2>1. IsWellFoundedOn(R, Nat)
    BY NatLessThanWellFounded
  <2>2. \A p, q \in Nat : q < p => <<q, p>> \in R
    BY DEF OpToRel
  <2> HIDE DEF R
  <2>3. \E p \in r.todo : \A q \in r.todo : ~(<<q, p>> \in R)
    BY <1>1, <2>1, WFMin
  <2> QED
    BY <1>1, <2>2, <2>3
<1>3. \E p \in r.todo : \A q \in r.todo : p =< q
  BY <1>1, <1>2
<1> QED
  BY <1>3 DEF Target, Min
-----------------------------------------------------------------------------
(* One step of an import *)

\* Every step of a run is a run of the same associations, still faithful to them.
Follows(r, next) ==
  next \in Row /\ next.phase # "none" /\ next.captured = r.captured /\ Faithful(next)

\* What the steps look at, of the shop they are taken in.
World ==
  /\ dux \in [Products -> Versions \cup {0}] /\ listing \in [Listings -> Observed]
  /\ link \in [Products -> Links]
  /\ \A p \in Approved : link[p].item \in Listings /\ link[p].rev # 0

LEMMA FaithfulAlike ==
  ASSUME NEW r \in Row, NEW next \in Row, Faithful(r),
         next.phase = r.phase, next.queue = r.queue, next.seen = r.seen, next.captured = r.captured,
         next.todo = r.todo, next.pubs = r.pubs, next.issues = r.issues
  PROVE  Faithful(next)
<1>1. \A p \in Products : Kept(next, link, p) <=> Kept(r, link, p)
  BY DEF Kept
<1>2. Past(next, link) /\ Standing(next, link) /\ Stamped(next) /\ Ended(next)
  BY <1>1 DEF Faithful, FaithfulTo, Past, Standing, Stamped, Ended
<1>3. Untouched(next)
  BY DEF Faithful, FaithfulTo, Untouched
<1>4. Queued(next, link)
  BY <1>1 DEF Faithful, FaithfulTo, Queued, Row
<1>5. Read(next, link)
  BY <1>1 DEF Faithful, FaithfulTo, Read, Row
<1>6. Settled(next, link)
  BY <1>1 DEF Faithful, FaithfulTo, Settled
<1> QED
  BY <1>2, <1>3, <1>4, <1>5, <1>6 DEF Faithful, FaithfulTo

LEMMA ScannedFollows ==
  ASSUME World, NEW r \in Row, Faithful(r), r.phase = "search", NEW page \in Pages(r)
  PROVE  Follows(r, Scanned(r, page))
<1> DEFINE ids == r.ids \cup page
           queue == ids \cup {link[p].item : p \in Approved}
           linked == {link[p].item : p \in Approved}
           next == Scanned(r, page)
<1>1. ids \subseteq Listings
  BY DEF Pages, Active, Row
<1>2. CASE Cardinality(ids) < Cardinality(Active)
  <2>1. Cardinality(Active) \in Nat
    <3>1. IsFiniteSet(Active)
      BY EditorialAssumption, FS_Subset DEF Active
    <3> QED
      BY <3>1, FS_CardinalityType
  <2>2. next = [r EXCEPT !.ids = ids, !.total = Cardinality(Active)]
    BY <1>2 DEF Scanned
  <2>3. next \in Row
    BY <1>1, <2>1, <2>2 DEF Row
  <2> HIDE DEF next
  <2>4. Faithful(next) /\ next.captured = r.captured /\ next.phase = "search"
    BY <2>2, <2>3, FaithfulAlike DEF Row
  <2> QED
    BY <2>3, <2>4 DEF Follows, next
<1>3. CASE ~(Cardinality(ids) < Cardinality(Active))
  <2>1. next = [r EXCEPT !.ids = ids, !.total = None, !.queue = queue,
                         !.phase = IF queue = {} THEN "content" ELSE "metadata"]
    BY <1>3 DEF Scanned
  <2>2. queue \subseteq Listings
    BY <1>1 DEF World
  <2>3. next \in Row
    BY <1>1, <2>1, <2>2 DEF Row, Phases
  <2>4. /\ next.seen = r.seen /\ next.captured = r.captured /\ next.todo = r.todo /\ next.pubs = r.pubs
        /\ next.issues = r.issues /\ next.queue = queue
        /\ next.phase = IF queue = {} THEN "content" ELSE "metadata"
    BY <2>1 DEF Row
  <2> HIDE DEF next
  <2>5. \A p \in Products : Kept(next, link, p) <=> Kept(r, link, p)
    BY <2>4 DEF Kept
  <2>6. Past(next, link) /\ Standing(next, link) /\ Stamped(next) /\ Ended(next) /\ Untouched(next)
    BY <2>4, <2>5 DEF Faithful, FaithfulTo, Past, Standing, Stamped, Ended, Untouched
  <2>7. \A p \in next.todo : Kept(next, link, p) => link[p].item \in queue
    BY <2>3, <2>4, <2>5 DEF Faithful, FaithfulTo, Standing, Approved, Row
  <2>8. Queued(next, link) /\ Read(next, link)
    BY <2>4, <2>7 DEF Queued, Read
  <2>9. Settled(next, link)
    BY <2>4, <2>5 DEF Faithful, FaithfulTo, Settled
  <2> QED
    BY <2>3, <2>4, <2>6, <2>8, <2>9 DEF Follows, Faithful, FaithfulTo, next
<1> QED
  BY <1>2, <1>3

LEMMA MetadataFollows ==
  ASSUME World, NEW r \in Row, Faithful(r), r.phase = "metadata"
  PROVE  Follows(r, WithMetadata(r))
<1> DEFINE rest == r.queue \ Batch(r)
           next == WithMetadata(r)
<1>1. Batch(r) \subseteq r.queue
  BY BatchOfQueue DEF Faithful, FaithfulTo, Queued
<1>2. next = [r EXCEPT !.queue = rest,
                       !.seen = [i \in Listings |-> IF i \in Batch(r) THEN listing[i] ELSE r.seen[i]],
                       !.phase = IF rest = {} THEN "content" ELSE "metadata"]
  BY DEF WithMetadata
<1>3. next \in Row
  <2> DEFINE seen == [i \in Listings |-> IF i \in Batch(r) THEN listing[i] ELSE r.seen[i]]
  <2>1. seen \in [Listings -> Observed \cup {None}] /\ rest \subseteq Listings
    BY DEF Row, World
  <2>2. next = [r EXCEPT !.queue = rest, !.seen = seen, !.phase = IF rest = {} THEN "content" ELSE "metadata"]
    BY <1>2
  <2> HIDE DEF seen, next, rest
  <2> QED
    BY <2>1, <2>2 DEF Row, Phases
<1>4. /\ next.captured = r.captured /\ next.todo = r.todo /\ next.pubs = r.pubs
      /\ next.issues = r.issues /\ next.queue = rest
      /\ \A i \in Listings : next.seen[i] = IF i \in Batch(r) THEN listing[i] ELSE r.seen[i]
      /\ next.phase = IF rest = {} THEN "content" ELSE "metadata"
  BY <1>2 DEF Row
<1> HIDE DEF next
<1>5. \A p \in Products : Kept(next, link, p) <=> Kept(r, link, p)
  BY <1>4 DEF Kept
<1>6. Past(next, link) /\ Standing(next, link) /\ Stamped(next) /\ Ended(next)
  BY <1>4, <1>5 DEF Faithful, FaithfulTo, Past, Standing, Stamped, Ended
<1>7. Untouched(next)
  BY <1>4 DEF Faithful, FaithfulTo, Untouched
<1>8. \A p \in next.todo : Kept(next, link, p) => link[p].item \in rest \/ next.seen[link[p].item] # None
  <2> SUFFICES ASSUME NEW p \in next.todo, Kept(next, link, p), link[p].item \notin rest
               PROVE  next.seen[link[p].item] # None
    OBVIOUS
  <2>1. p \in Products /\ p \in r.todo /\ Kept(r, link, p)
    BY <1>3, <1>4, <1>5 DEF Row
  <2>2. link[p].item \in Listings
    BY <2>1 DEF Faithful, FaithfulTo, Standing, World, Approved
  <2>3. link[p].item \in Batch(r) \/ r.seen[link[p].item] # None
    BY <2>1 DEF Faithful, FaithfulTo, Queued
  <2>4. listing[link[p].item] # None
    BY <2>2, NoneAssumption DEF World
  <2> QED
    BY <1>4, <2>2, <2>3, <2>4
<1>9. Queued(next, link) /\ Read(next, link)
  BY <1>4, <1>8 DEF Queued, Read
<1>10. Settled(next, link)
  <2>1. \A p \in Products \ r.todo : ~Kept(r, link, p)
    BY DEF Faithful, FaithfulTo, Untouched, Kept
  <2> QED
    BY <1>4, <1>5, <2>1 DEF Settled
<1> QED
  BY <1>3, <1>4, <1>6, <1>7, <1>9, <1>10 DEF Follows, Faithful, FaithfulTo, next

\* A step that leaves the associations as they are, in the content phase.
LEMMA WorkFollows ==
  ASSUME World, NEW r \in Row, Faithful(r), r.phase = "content",
         NEW work \in Works
  PROVE  Follows(r, [r EXCEPT !.work = work])
<1> DEFINE next == [r EXCEPT !.work = work]
<1>1. next \in Row
  BY DEF Row
<1>2. /\ next.phase = r.phase /\ next.queue = r.queue /\ next.seen = r.seen /\ next.captured = r.captured
      /\ next.todo = r.todo /\ next.pubs = r.pubs /\ next.issues = r.issues
  BY DEF Row
<1> HIDE DEF next
<1> QED
  BY <1>1, <1>2, FaithfulAlike DEF Follows, next

\* The last step that prepares an association, whatever it makes of it.
LEMMA FinishFollows ==
  ASSUME World, NEW r \in Row, Faithful(r), r.phase = "content", NEW p \in r.todo, NEW issue \in Issues,
         NEW pubs \in [Products -> Revisions],
         \A q \in Products \ {p} : pubs[q] = r.pubs[q], pubs[p] \in {0, r.captured[p]},
         Kept(r, link, p) => \/ issue # "none"
                      \/ /\ pubs[p] = r.captured[p]
                         /\ r.seen[link[p].item] = [active |-> TRUE, ident |-> link[p].ident]
  PROVE  Follows(r, [r EXCEPT !.issues[p] = issue, !.todo = r.todo \ {p}, !.work = None,
                              !.phase = After(r, p), !.pubs = pubs])
<1> DEFINE next == [r EXCEPT !.issues[p] = issue, !.todo = r.todo \ {p}, !.work = None,
                             !.phase = After(r, p), !.pubs = pubs]
<1>1. next \in Row
  BY DEF Row, Phases, After
<1>2. /\ next.captured = r.captured /\ next.todo = r.todo \ {p} /\ next.pubs = pubs /\ next.seen = r.seen
      /\ next.issues = [r.issues EXCEPT ![p] = issue] /\ next.phase = After(r, p)
  BY DEF Row
<1>3. After(r, p) \in {"content", "publish"} /\ (After(r, p) = "publish" => r.todo = {p})
  BY DEF After
<1>4. p \in Products /\ r.issues \in [Products -> Issues]
  BY DEF Row
<1> HIDE DEF next
<1>5. \A q \in Products : Kept(next, link, q) <=> Kept(r, link, q)
  BY <1>2 DEF Kept
<1>6. Past(next, link) /\ Standing(next, link) /\ Untouched(next) /\ Queued(next, link) /\ Ended(next)
  BY <1>2, <1>3, <1>5 DEF Faithful, FaithfulTo, Past, Standing, Untouched, Queued, Ended
<1>7. Stamped(next)
  BY <1>2, <1>4 DEF Faithful, FaithfulTo, Stamped
<1>8. Read(next, link)
  BY <1>2, <1>5, <1>1 DEF Faithful, FaithfulTo, Read, Row
<1>9. Settled(next, link)
  <2> SUFFICES ASSUME NEW q \in Products \ next.todo, Kept(r, link, q)
               PROVE  \/ next.issues[q] # "none"
                      \/ /\ next.pubs[q] = next.captured[q]
                         /\ next.seen[link[q].item] = [active |-> TRUE, ident |-> link[q].ident]
    BY <1>5 DEF Settled
  <2>1. CASE q = p
    BY <2>1, <1>2, <1>4
  <2>2. CASE q # p
    <3>1. q \in Products \ r.todo /\ next.issues[q] = r.issues[q] /\ next.pubs[q] = r.pubs[q]
      BY <2>2, <1>2, <1>4
    <3>2. Settled(r, link)
      BY DEF Faithful, FaithfulTo
    <3> QED
      BY <3>1, <3>2, <1>2 DEF Settled
  <2> QED
    BY <2>1, <2>2
<1> QED
  BY <1>1, <1>2, <1>3, <1>6, <1>7, <1>8, <1>9 DEF Follows, Faithful, FaithfulTo, next

LEMMA ContentFollows ==
  ASSUME World, NEW r \in Row, Faithful(r), r.phase = "content", r.todo # {} => ~Missing(r, Target(r)),
         NEW next \in Content(r)
  PROVE  Follows(r, next)
<1>1. CASE r.todo = {}
  <2>1. next = [r EXCEPT !.phase = "publish"]
    BY <1>1 DEF Content
  <2>2. next \in Row
    BY <2>1 DEF Row, Phases
  <2>3. /\ next.phase = "publish" /\ next.seen = r.seen /\ next.captured = r.captured
        /\ next.todo = r.todo /\ next.pubs = r.pubs /\ next.issues = r.issues
    BY <2>1 DEF Row
  <2>4. \A p \in Products : Kept(next, link, p) <=> Kept(r, link, p)
    BY <2>3 DEF Kept
  <2> QED
    BY <1>1, <2>2, <2>3, <2>4
       DEF Follows, Faithful, FaithfulTo, Past, Standing, Untouched, Queued, Read, Settled, Stamped, Ended
<1>2. CASE r.todo # {}
  <2> DEFINE p == Target(r)
  <2>1. p \in r.todo
    BY <1>2, TargetToDo
  <2> HIDE DEF p
  <2>2. p \in Products /\ r.pubs \in [Products -> Revisions] /\ r.captured[p] \in Revisions
    BY <2>1 DEF Row
  <2>3. \/ Obstacle(r, p) # "none" /\ next = Finished(r, p, Obstacle(r, p))
        \/ next \in Described(r, p)
        \/ Obstacle(r, p) = "none" /\ r.work # None /\ r.work.pictures /\ next = Pictured(r)
        \/ /\ Obstacle(r, p) = "none"
           /\ \E issue \in {"none", "description_requires_review"} : next = Published(r, p, issue)
    <3>1. Content(r) = IF Obstacle(r, p) # "none" THEN {Finished(r, p, Obstacle(r, p))}
                       ELSE IF r.work = None THEN Described(r, p)
                       ELSE IF r.work.pictures THEN {Pictured(r)}
                       ELSE {Published(r, p, IF r.work.review THEN "description_requires_review" ELSE "none")}
      BY <1>2 DEF Content, p
    <3>2. r.work # None => r.work.pictures \in BOOLEAN
      BY DEF Row, Works
    <3>3. CASE Obstacle(r, p) # "none"
      BY <3>1, <3>3
    <3>4. CASE Obstacle(r, p) = "none" /\ r.work = None
      BY <3>1, <3>4
    <3>5. CASE Obstacle(r, p) = "none" /\ r.work # None
      BY <3>1, <3>2, <3>5
    <3> QED
      BY <3>3, <3>4, <3>5
  <2>4. CASE Obstacle(r, p) # "none" /\ next = Finished(r, p, Obstacle(r, p))
    <3> DEFINE issue == Obstacle(r, p)
               pubs == r.pubs
    <3>1. issue \in Issues /\ issue # "none"
      BY <2>4 DEF Obstacle, Issues
    <3>2. next = [r EXCEPT !.issues[p] = issue, !.todo = r.todo \ {p}, !.work = None,
                           !.phase = After(r, p), !.pubs = pubs]
      BY <2>4 DEF Finished, Row
    <3>3. /\ pubs \in [Products -> Revisions] /\ pubs[p] \in {0, r.captured[p]}
          /\ \A q \in Products \ {p} : pubs[q] = r.pubs[q]
      BY <2>2 DEF Faithful, FaithfulTo, Stamped
    <3> HIDE DEF issue, pubs
    <3> QED
      BY <2>1, <3>1, <3>2, <3>3, FinishFollows
  <2>5. CASE next \in Described(r, p)
    <3>1. PICK work \in Works : next = [r EXCEPT !.work = work]
      <4>1. PICK review \in BOOLEAN :
              next = [r EXCEPT !.work = [pictures |-> "images" \in link[p].grant, review |-> review]]
        BY <2>5 DEF Described
      <4>2. [pictures |-> "images" \in link[p].grant, review |-> review] \in Works
        BY DEF Works
      <4> QED
        BY <4>1, <4>2
    <3> QED
      BY <3>1, WorkFollows
  <2>6. CASE r.work # None /\ next = Pictured(r)
    <3>1. [r.work EXCEPT !.pictures = FALSE] \in Works
      BY <2>6 DEF Row, Works
    <3>2. next = [r EXCEPT !.work = [r.work EXCEPT !.pictures = FALSE]]
      BY <2>6 DEF Pictured
    <3> QED
      BY <3>1, <3>2, WorkFollows
  <2>7. ASSUME Obstacle(r, p) = "none", NEW issue \in {"none", "description_requires_review"},
               next = Published(r, p, issue)
        PROVE  Follows(r, next)
    <3> DEFINE pubs == [r.pubs EXCEPT ![p] = r.captured[p]]
    <3>1. pubs \in [Products -> Revisions] /\ pubs[p] = r.captured[p] /\ \A q \in Products \ {p} : pubs[q] = r.pubs[q]
      BY <2>2
    <3>2. next = [r EXCEPT !.issues[p] = issue, !.todo = r.todo \ {p}, !.work = None,
                           !.phase = After(r, p), !.pubs = pubs]
      BY <2>7 DEF Published, Finished, Row
    <3>3. SameLink(r, p) /\ dux[p] # 0 /\ dux[p] = link[p].dux /\ r.seen[link[p].item].active
          /\ r.seen[link[p].item].ident = link[p].ident
      BY <2>7 DEF Obstacle
    <3>4. link[p].item \in Listings
      BY <2>2, <3>3 DEF SameLink, World, Approved
    <3>5. r.seen[link[p].item] # None
      BY <1>2, <3>3 DEF Missing, p
    <3>6. r.seen[link[p].item] \in Observed
      BY <3>4, <3>5 DEF Row
    <3>7. r.seen[link[p].item] = [active |-> TRUE, ident |-> link[p].ident]
      BY <3>3, <3>6 DEF Observed
    <3>8. issue \in Issues
      BY DEF Issues
    <3> HIDE DEF pubs
    <3> QED
      BY <2>1, <3>1, <3>2, <3>7, <3>8, FinishFollows
  <2> QED
    BY <2>3, <2>4, <2>5, <2>6, <2>7
<1> QED
  BY <1>1, <1>2

\* Whatever a step makes of the row it read.
LEMMA StepsFollow ==
  ASSUME World, NEW r \in Row, Faithful(r), r.phase \in {"search", "metadata", "content"},
         NEW next \in Steps(r)
  PROVE  Follows(r, next)
<1>1. CASE next = Failed(r)
  <2>1. next = [r EXCEPT !.phase = "failed"]
    BY <1>1 DEF Failed
  <2>2. next \in Row
    BY <2>1 DEF Row, Phases
  <2>3. /\ next.phase = "failed" /\ next.seen = r.seen /\ next.captured = r.captured
        /\ next.todo = r.todo /\ next.pubs = r.pubs /\ next.issues = r.issues
    BY <2>1 DEF Row
  <2>4. \A p \in Products : Kept(next, link, p) <=> Kept(r, link, p)
    BY <2>3 DEF Kept
  <2> QED
    BY <2>2, <2>3, <2>4
       DEF Follows, Faithful, FaithfulTo, Past, Standing, Untouched, Queued, Read, Settled, Stamped, Ended
<1>2. CASE r.phase = "search" /\ \E page \in Pages(r) : next = Scanned(r, page)
  BY <1>2, ScannedFollows
<1>3. CASE r.phase = "metadata" /\ next = WithMetadata(r)
  BY <1>3, MetadataFollows
<1>4. CASE r.phase = "content" /\ ~(r.todo # {} /\ Missing(r, Target(r))) /\ next \in Content(r)
  BY <1>4, ContentFollows
<1> QED
  BY <1>1, <1>2, <1>3, <1>4 DEF Steps

-----------------------------------------------------------------------------
(* The rest of the shop *)

LEMMA TypedWorld == Typed => World
BY DEF Typed, World

\* A decision raises the revision of its association, so what a run says of those
\* that still have the captured one stays true.
Grown(l, m) == \A p \in Products : m[p] = l[p] \/ m[p].rev > l[p].rev

LEMMA GrownFaithful ==
  ASSUME NEW r \in Row, NEW l \in [Products -> Links], NEW m \in [Products -> Links],
         FaithfulTo(r, l), Grown(l, m)
  PROVE  FaithfulTo(r, m)
<1>1. \A p \in Products : l[p].rev \in Nat /\ m[p].rev \in Nat /\ r.captured[p] \in Nat
  BY EditorialAssumption DEF Links, Revisions, Row
<1>2. \A p \in Products : Kept(r, m, p) => m[p] = l[p] /\ Kept(r, l, p)
  BY <1>1 DEF Kept, Grown, FaithfulTo, Past
<1>3. Past(r, m)
  BY <1>1 DEF Past, FaithfulTo, Grown
<1>4. Standing(r, m) /\ Settled(r, m)
  BY <1>2 DEF Standing, Settled, FaithfulTo
<1>5. Queued(r, m) /\ Read(r, m)
  BY <1>2 DEF Queued, Read, FaithfulTo, Row
<1> QED
  BY <1>3, <1>4, <1>5 DEF FaithfulTo

\* Whoever changes the associations, the import goes on from what it has.
LEMMA GrownInv ==
  ASSUME IInv, Typed', Grown(link, link'), UNCHANGED <<run, current, worker>>
  PROVE  IInv'
<1>1. link \in [Products -> Links] /\ link' \in [Products -> Links]
  BY DEF IInv, Typed
<1>2. \A r \in Row : Faithful(r) => FaithfulTo(r, link')
  BY <1>1, GrownFaithful DEF IInv, Faithful
<1>3. Faithful(run)'
  BY <1>2 DEF IInv, Typed, Faithful
<1>4. Holding'
  <2> SUFFICES ASSUME NEW w \in Workers
               PROVE  /\ worker'[w].pc = "starting" =>
                           worker'[w].next.phase = "search" /\ worker'[w].next.owner = None /\ ~worker'[w].next.expired
                           /\ FaithfulTo(worker'[w].next, link')
                      /\ worker'[w].pc = "commit" /\ run' # NoRun /\ run'.owner = w =>
                           worker'[w].next.phase # "none" /\ FaithfulTo(worker'[w].next, link')
                           /\ worker'[w].next.captured = run'.captured
    BY DEF Holding, Owns, Faithful
  <2>1. worker[w].pc # "idle" => worker[w].next \in Row
    BY DEF IInv, Typed
  <2> QED
    BY <1>2, <2>1 DEF IInv, Holding, Owns
<1>5. Dated'
  <2>1. current # None => current.pubs \in [Products -> Revisions]
    BY DEF IInv, Typed, Editions
  <2>2. \A p \in Products : link'[p].rev >= link[p].rev
    BY <1>1, EditorialAssumption DEF Grown, Links, Revisions
  <2>3. \A p \in Products : link[p].rev \in Nat /\ link'[p].rev \in Nat
    BY <1>1, EditorialAssumption DEF Links, Revisions
  <2>4. current # None => \A p \in Products : current.pubs[p] \in Nat /\ current.pubs[p] <= link[p].rev
    BY <2>1, EditorialAssumption DEF IInv, Dated, Revisions
  <2> QED
    BY <2>2, <2>3, <2>4 DEF Dated
<1> QED
  BY <1>3, <1>4, <1>5 DEF IInv

LEMMA ReviewsKeep ==
  ASSUME IInv, NEW a \in Admins,
         \/ \E p \in Products, i \in Listings : Look(a, p, i)
         \/ \E decision \in Decisions, grant \in Grants : Decide(a, decision, grant)
         \/ Write(a) \/ Leave(a)
  PROVE  IInv'
<1> USE DEF IInv
<1>0. NoSeen \in Review /\ NoSeen.pc = "idle"
  BY EditorialAssumption DEF NoSeen, Review, Revisions
<1>1. ASSUME NEW p \in Products, NEW i \in Listings, Look(a, p, i) PROVE IInv'
  <2>1. current.seen[i] \in Observed /\ link[p].rev \in Revisions /\ dux[p] \in Versions \cup {0}
    BY <1>1, NoneAssumption DEF Look, Typed, Editions, Links
  <2> DEFINE seen == [NoSeen EXCEPT !.pc = "seen", !.product = p, !.item = i, !.dux = dux[p],
                                    !.ident = current.seen[i].ident, !.rev = link[p].rev]
  <2>2. seen \in Review /\ seen.pc = "seen" /\ seen.product = p /\ seen.item = i
    BY <1>0, <2>1 DEF Review, Observed
  <2> HIDE DEF seen
  <2>3. Typed'
    <3>1. admin' = [admin EXCEPT ![a] = seen]
      BY <1>1 DEF Look, seen
    <3>2. UNCHANGED <<dux, listing, link, run, current, worker, changes, faults>>
      BY <1>1 DEF Look
    <3> QED
      BY <2>2, <3>1, <3>2 DEF Typed, Approved
  <2> QED
    BY <1>1, <2>3, GrownInv DEF Look, Grown
<1>2. ASSUME NEW decision \in Decisions, NEW grant \in Grants, Decide(a, decision, grant) PROVE IInv'
  <2>1. admin[a] \in Review
    BY DEF Typed
  <2>2. [admin[a] EXCEPT !.pc = "checked", !.decision = decision, !.grant = grant] \in Review
    BY <2>1 DEF Review
  <2>3. Typed'
    BY <1>0, <1>2, <2>1, <2>2 DEF Decide, Typed, Review, Approved
  <2> QED
    BY <1>2, <2>3, GrownInv DEF Decide, Grown
<1>3. CASE Write(a)
  <2> DEFINE s == admin[a]
             row == [status |-> Status(s.decision), rev |-> link[s.product].rev + 1, item |-> s.item,
                     dux |-> s.dux, ident |-> s.ident, grant |-> s.grant]
  <2>1. s \in Review /\ s.product \in Products /\ s.item \in Listings
    BY <1>3 DEF Write, Typed
  <2>2. link[s.product].rev \in 0..MaxRev /\ link[s.product].rev < MaxRev
    BY <1>3, <2>1 DEF Write, Typed, Links, Revisions
  <2>3. row \in Links /\ row.rev > link[s.product].rev /\ row.rev # 0 /\ row.item \in Listings
    BY <2>1, <2>2, EditorialAssumption DEF Links, Review, Revisions, Status
  <2>4. link' = link \/ link' = [link EXCEPT ![s.product] = row]
    BY <1>3 DEF Write
  <2> HIDE DEF row, s
  <2>5. /\ link' \in [Products -> Links] /\ Grown(link, link')
        /\ \A p \in Approved' : link'[p].item \in Listings /\ link'[p].rev # 0
    BY <2>1, <2>3, <2>4 DEF Typed, Grown, Approved
  <2>6. Typed'
    BY <1>0, <1>3, <2>5 DEF Write, Typed
  <2> QED
    BY <1>3, <2>5, <2>6, GrownInv DEF Write
<1>4. CASE Leave(a)
  <2>1. Typed'
    BY <1>0, <1>4 DEF Leave, Typed, Approved
  <2> QED
    BY <1>4, <2>1, GrownInv DEF Leave, Grown
<1> QED
  BY <1>1, <1>2, <1>3, <1>4

LEMMA WorldKeeps ==
  ASSUME IInv, (\E p \in Products : DuxChanges(p)) \/ (\E i \in Listings : ListingChanges(i))
  PROVE  IInv'
<1> USE DEF IInv
<1>0. changes < MaxChanges => changes + 1 \in 0..MaxChanges /\ changes + 2 \in Versions
  BY EditorialAssumption DEF Typed, Versions
<1>1. ASSUME NEW p \in Products, DuxChanges(p) PROVE IInv'
  <2>1. Typed'
    BY <1>0, <1>1 DEF DuxChanges, Typed, Approved
  <2> QED
    BY <1>1, <2>1, GrownInv DEF DuxChanges, Grown
<1>2. ASSUME NEW i \in Listings, ListingChanges(i) PROVE IInv'
  <2>1. listing[i] \in Observed
    BY DEF Typed
  <2>2. [listing[i] EXCEPT !.active = ~listing[i].active] \in Observed
    BY <2>1 DEF Observed
  <2>3. changes < MaxChanges => [listing[i] EXCEPT !.ident = changes + 2] \in Observed
    BY <1>0, <2>1 DEF Observed
  <2>4. Typed'
    BY <1>0, <1>2, <2>2, <2>3 DEF ListingChanges, Typed, Approved
  <2> QED
    BY <1>2, <2>4, GrownInv DEF ListingChanges, Grown
<1> QED
  BY <1>1, <1>2

-----------------------------------------------------------------------------
(* The import *)

LEMMA NoRunFaithful == ASSUME Typed PROVE NoRun \in Row /\ Faithful(NoRun) /\ NoRun.phase = "none" /\ NoRun.owner = None
<1>1. \A p \in Products : link[p].rev \in Nat
  BY EditorialAssumption DEF Typed, Links, Revisions
<1>2. NoRun \in Row
  BY EditorialAssumption DEF NoRun, Row, Phases, Revisions, Issues
<1>3. /\ NoRun.phase = "none" /\ NoRun.owner = None
      /\ \A p \in Products : NoRun.captured[p] = 0 /\ NoRun.pubs[p] = 0
  BY DEF NoRun
<1> QED
  BY <1>1, <1>2, <1>3
     DEF Faithful, FaithfulTo, Past, Standing, Untouched, Queued, Read, Settled, Stamped, Ended, Kept

LEMMA StartedFaithful == ASSUME Typed PROVE Started \in Row /\ Faithful(Started) /\ Started.phase = "search"
                                            /\ Started.owner = None /\ ~Started.expired
<1> DEFINE captured == [p \in Products |-> IF p \in Approved THEN link[p].rev ELSE 0]
<1>1. \A p \in Products : link[p].rev \in Revisions /\ link[p].rev \in Nat /\ 0 \in Revisions
  BY EditorialAssumption DEF Typed, Links, Revisions
<1>2. captured \in [Products -> Revisions] /\ Approved \subseteq Products
  BY <1>1 DEF Approved
<1>3. NoRun \in Row
  BY NoRunFaithful
<1>4. Started = [NoRun EXCEPT !.phase = "search", !.captured = captured, !.todo = Approved]
  BY DEF Started
<1> HIDE DEF captured
<1>5. Started \in Row
  BY <1>2, <1>3, <1>4 DEF Row, Phases
<1>6. /\ Started.phase = "search" /\ Started.owner = None /\ ~Started.expired
      /\ Started.captured = captured /\ Started.todo = Approved /\ Started.pubs = [p \in Products |-> 0]
  BY <1>4 DEF NoRun
<1>7. \A p \in Products : /\ p \in Approved => captured[p] = link[p].rev /\ captured[p] # 0
                          /\ p \notin Approved => captured[p] = 0
  BY DEF captured, Typed
<1>8. Past(Started, link) /\ Standing(Started, link) /\ Stamped(Started)
  BY <1>1, <1>6, <1>7 DEF Past, Standing, Stamped, Kept, Approved
<1>9. Untouched(Started) /\ Settled(Started, link)
  BY <1>2, <1>6, <1>7 DEF Untouched, Settled, Kept
<1>10. Queued(Started, link) /\ Read(Started, link) /\ Ended(Started)
  BY <1>6 DEF Queued, Read, Ended
<1> QED
  BY <1>5, <1>6, <1>8, <1>9, <1>10 DEF Faithful, FaithfulTo

\* Steps that leave the associations and the edition alone.
LEMMA ImportInv ==
  ASSUME IInv, UNCHANGED <<dux, listing, link, admin, changes>>, faults' \in 0..MaxFaults,
         current' \in Editions \cup {None}, Dated',
         run' \in Row, run'.phase = "none" <=> run' = NoRun,
         run'.phase \in {"none", "search", "metadata", "content"}, run'.expired => run'.owner # None,
         worker' \in [Workers -> [pc : {"idle", "starting", "commit"}, next : Row \cup {None}]],
         \A w \in Workers : worker'[w].pc # "idle" => worker'[w].next \in Row,
         Faithful(run'), Holding'
  PROVE  IInv'
<1>1. Typed'
  BY DEF IInv, Typed, Approved
<1>2. Faithful(run)'
  BY DEF Faithful
<1> QED
  BY <1>1, <1>2 DEF IInv

LEMMA StartsKeep ==
  ASSUME IInv, NEW w \in Workers, StartRun(w) \/ InsertRun(w)
  PROVE  IInv'
<1> USE DEF IInv
<1>1. CASE StartRun(w)
  <2>1. worker' = [worker EXCEPT ![w] = [pc |-> "starting", next |-> Started]]
        /\ UNCHANGED <<dux, listing, link, run, current, admin, changes, faults>>
    BY <1>1 DEF StartRun
  <2>2. Started \in Row /\ Faithful(Started) /\ Started.phase = "search" /\ Started.owner = None /\ ~Started.expired
    BY StartedFaithful
  <2>3. Holding'
    BY <2>1, <2>2 DEF Holding, Owns, Typed, Faithful
  <2>4. /\ worker' \in [Workers -> [pc : {"idle", "starting", "commit"}, next : Row \cup {None}]]
        /\ \A v \in Workers : worker'[v].pc # "idle" => worker'[v].next \in Row
    BY <2>1, <2>2 DEF Typed
  <2> QED
    BY <2>1, <2>3, <2>4, ImportInv DEF Typed, Dated
<1>2. CASE InsertRun(w)
  <2>1. /\ worker[w].pc = "starting" /\ worker' = [worker EXCEPT ![w] = NoWork]
        /\ run' = IF run = NoRun THEN worker[w].next ELSE run
        /\ UNCHANGED <<dux, listing, link, current, admin, changes, faults>>
    BY <1>2 DEF InsertRun
  <2>2. worker[w].next \in Row /\ Faithful(worker[w].next) /\ worker[w].next.phase = "search"
        /\ worker[w].next.owner = None /\ ~worker[w].next.expired
    BY <2>1 DEF Typed, Holding
  <2>3. NoRun.phase = "none" /\ NoRun.owner = None
    BY NoRunFaithful
  <2>4. /\ run' \in Row /\ Faithful(run') /\ (run'.phase = "none" <=> run' = NoRun)
        /\ run'.phase \in {"none", "search", "metadata", "content"} /\ (run'.expired => run'.owner # None)
    BY <2>1, <2>2, <2>3 DEF Typed
  <2>5. \A v \in Workers : run'.owner = v => run' = run
    BY <2>1, <2>2, NoneAssumption
  <2>6. Holding'
    BY <2>1, <2>5 DEF Holding, Owns, Typed, Faithful, NoWork
  <2>7. /\ worker' \in [Workers -> [pc : {"idle", "starting", "commit"}, next : Row \cup {None}]]
        /\ \A v \in Workers : worker'[v].pc # "idle" => worker'[v].next \in Row
    BY <2>1 DEF Typed, NoWork
  <2> QED
    BY <2>1, <2>4, <2>6, <2>7, ImportInv DEF Typed, Dated
<1> QED
  BY <1>1, <1>2

\* The step is made of the row the lease was taken on.
LEMMA ClaimKeeps ==
  ASSUME IInv, NEW w \in Workers, Claim(w)
  PROVE  IInv'
<1> USE DEF IInv
<1>1. /\ worker[w].pc = "idle" /\ run # NoRun /\ run' = [run EXCEPT !.owner = w, !.expired = FALSE]
      /\ UNCHANGED <<dux, listing, link, current, admin, changes, faults>>
  BY DEF Claim
<1>2. PICK next \in Steps(run) : worker' = [worker EXCEPT ![w] = [pc |-> "commit", next |-> next]]
  BY DEF Claim
<1>3. Follows(run, next)
  BY <1>1, <1>2, TypedWorld, StepsFollow DEF Typed
<1>4. /\ run' \in Row /\ run'.owner = w /\ ~run'.expired /\ run'.captured = run.captured
      /\ run'.phase = run.phase /\ run'.queue = run.queue /\ run'.seen = run.seen
      /\ run'.todo = run.todo /\ run'.pubs = run.pubs /\ run'.issues = run.issues
  BY <1>1 DEF Typed, Row
<1>5. Faithful(run')
  BY <1>4, FaithfulAlike DEF Typed
<1>6. w # None /\ run' # NoRun
  BY <1>1, <1>4, NoneAssumption, NoRunFaithful DEF Typed
<1>7. Holding'
  BY <1>1, <1>2, <1>3, <1>4 DEF Holding, Owns, Typed, Follows, Faithful
<1>8. /\ worker' \in [Workers -> [pc : {"idle", "starting", "commit"}, next : Row \cup {None}]]
      /\ \A v \in Workers : worker'[v].pc # "idle" => worker'[v].next \in Row
  BY <1>2, <1>3 DEF Typed, Follows
<1> QED
  BY <1>1, <1>4, <1>5, <1>6, <1>7, <1>8, ImportInv DEF Typed, Dated

\* A worker that stops leaves the others as they were.
LEMMA StopsKeep ==
  ASSUME IInv, NEW w \in Workers, worker' = [worker EXCEPT ![w] = NoWork],
         UNCHANGED <<dux, listing, link, admin, changes>>, faults' \in 0..MaxFaults,
         current' \in Editions \cup {None}, Dated',
         run' \in Row, run'.phase = "none" <=> run' = NoRun,
         run'.phase \in {"none", "search", "metadata", "content"}, run'.expired => run'.owner # None,
         Faithful(run'), run' = run \/ run'.owner = None
  PROVE  IInv'
<1> USE DEF IInv
<1>1. Holding'
  BY NoneAssumption DEF Holding, Owns, Typed, Faithful, NoWork
<1>2. /\ worker' \in [Workers -> [pc : {"idle", "starting", "commit"}, next : Row \cup {None}]]
      /\ \A v \in Workers : worker'[v].pc # "idle" => worker'[v].next \in Row
  BY DEF Typed, NoWork
<1> QED
  BY <1>1, <1>2, ImportInv

\* The worker that publishes is the one whose row it is.
LEMMA PublishedIsOwned ==
  ASSUME IInv, NEW w \in Workers, Commit(w), current' # current
  PROVE  LET next == worker[w].next IN
         /\ next \in Row /\ Faithful(next) /\ next.phase = "publish" /\ next.captured = run.captured
         /\ current' = [seen |-> next.seen, pubs |-> next.pubs, issues |-> next.issues]
<1>1. worker[w].pc = "commit" /\ Owns(w)
  BY DEF Commit
<1>2. worker[w].next.phase = "publish"
      /\ current' = [seen |-> worker[w].next.seen, pubs |-> worker[w].next.pubs, issues |-> worker[w].next.issues]
  BY <1>1 DEF Commit
<1> QED
  BY <1>1, <1>2 DEF IInv, Typed, Holding

LEMMA CommitKeeps ==
  ASSUME IInv, NEW w \in Workers, Commit(w)
  PROVE  IInv'
<1> DEFINE next == worker[w].next
<1>1. /\ worker[w].pc = "commit" /\ worker' = [worker EXCEPT ![w] = NoWork]
      /\ UNCHANGED <<dux, listing, link, admin, changes, faults>>
  BY DEF Commit
<1>2. next \in Row
  BY <1>1 DEF IInv, Typed
<1>3. NoRun \in Row /\ Faithful(NoRun) /\ NoRun.phase = "none" /\ NoRun.owner = None /\ ~NoRun.expired
  BY NoRunFaithful DEF IInv, NoRun
<1>4. CASE ~Owns(w)
  <2>1. UNCHANGED <<run, current>>
    BY <1>4 DEF Commit
  <2> QED
    BY <1>1, <2>1, StopsKeep DEF IInv, Typed, Dated
<1>5. CASE Owns(w) /\ next.phase = "publish"
  <2>1. run' = NoRun /\ current' = [seen |-> next.seen, pubs |-> next.pubs, issues |-> next.issues]
    BY <1>5 DEF Commit
  <2>2. current' \in Editions
    BY <1>2, <2>1 DEF Row, Editions
  <2>3. Dated'
    <3>1. Past(next, link) /\ Stamped(next)
      BY <1>1, <1>5 DEF IInv, Holding, Faithful, FaithfulTo
    <3>2. \A p \in Products : link[p].rev \in Nat
      BY EditorialAssumption DEF IInv, Typed, Links, Revisions
    <3>3. \A p \in Products : next.pubs[p] <= link[p].rev
      BY <3>1, <3>2 DEF Past, Stamped
    <3> QED
      BY <1>1, <2>1, <3>3 DEF Dated
  <2> QED
    BY <1>1, <1>3, <2>1, <2>2, <2>3, StopsKeep DEF IInv, Typed
<1>6. CASE Owns(w) /\ next.phase = "failed"
  <2>1. run' = NoRun /\ UNCHANGED current
    BY <1>6 DEF Commit
  <2> QED
    BY <1>1, <1>3, <2>1, StopsKeep DEF IInv, Typed, Dated
<1>7. CASE Owns(w) /\ next.phase \notin {"publish", "failed"}
  <2>1. run' = [next EXCEPT !.owner = None, !.expired = FALSE, !.old = run.old] /\ UNCHANGED current
    BY <1>7 DEF Commit
  <2>2. next.phase # "none" /\ Faithful(next)
    BY <1>1, <1>7 DEF IInv, Holding
  <2>3. next.phase \in {"search", "metadata", "content"}
    BY <1>2, <1>7, <2>2 DEF Row, Phases
  <2>4. run.old \in BOOLEAN
    BY DEF IInv, Typed, Row
  <2>5. /\ run' \in Row /\ run'.owner = None /\ ~run'.expired
        /\ run'.phase = next.phase /\ run'.queue = next.queue /\ run'.seen = next.seen
        /\ run'.captured = next.captured /\ run'.todo = next.todo /\ run'.pubs = next.pubs
        /\ run'.issues = next.issues
    BY <1>2, <2>1, <2>4 DEF Row
  <2>6. Faithful(run')
    BY <1>2, <2>2, <2>5, FaithfulAlike
  <2> QED
    BY <1>1, <1>3, <2>1, <2>3, <2>5, <2>6, StopsKeep DEF IInv, Typed, Dated
<1> QED
  BY <1>4, <1>5, <1>6, <1>7

LEMMA FaultsKeep ==
  ASSUME IInv, NEW w \in Workers, StepFails(w) \/ WorkerDies(w)
  PROVE  IInv'
<1>1. faults < MaxFaults => faults + 1 \in 0..MaxFaults
  BY EditorialAssumption DEF IInv, Typed
<1>2. NoRun \in Row /\ Faithful(NoRun) /\ NoRun.phase = "none" /\ NoRun.owner = None /\ ~NoRun.expired
  BY NoRunFaithful DEF IInv, NoRun
<1>3. CASE StepFails(w)
  BY <1>1, <1>2, <1>3, StopsKeep DEF StepFails, IInv, Typed, Dated
<1>4. CASE WorkerDies(w)
  BY <1>1, <1>4, StopsKeep DEF WorkerDies, IInv, Typed, Dated
<1> QED
  BY <1>3, <1>4

\* Time only marks the row.
LEMMA TimeKeeps ==
  ASSUME IInv, LeaseExpires \/ RunAges
  PROVE  IInv'
<1> USE DEF IInv
<1>1. faults < MaxFaults => faults + 1 \in 0..MaxFaults
  BY EditorialAssumption DEF Typed
<1>2. faults' \in 0..MaxFaults /\ UNCHANGED <<dux, listing, link, current, worker, admin, changes>>
  BY <1>1 DEF LeaseExpires, RunAges, Typed
<1>3. /\ run' \in Row /\ run'.phase = run.phase /\ run'.queue = run.queue /\ run'.seen = run.seen
      /\ run'.captured = run.captured /\ run'.todo = run.todo /\ run'.pubs = run.pubs
      /\ run'.issues = run.issues /\ run'.owner = run.owner /\ (run'.expired => run'.owner # None)
  <2>1. \/ run' = [run EXCEPT !.expired = TRUE] /\ run.owner # None
        \/ run' = [run EXCEPT !.old = TRUE]
    BY DEF LeaseExpires, RunAges
  <2> QED
    BY <2>1 DEF Typed, Row
<1>4. run.phase # "none"
  BY NoRunFaithful DEF LeaseExpires, RunAges, Typed
<1>5. run # NoRun /\ run' # NoRun
  BY <1>3, <1>4, NoRunFaithful
<1>6. Faithful(run')
  BY <1>3, FaithfulAlike DEF Typed
<1>7. Holding'
  BY <1>2, <1>3, <1>5 DEF Holding, Owns, Faithful
<1> QED
  BY <1>2, <1>3, <1>4, <1>5, <1>6, <1>7, ImportInv DEF Typed, Dated

-----------------------------------------------------------------------------
(* The theorems *)

LEMMA InitIInv == Init => IInv
<1> SUFFICES ASSUME Init PROVE IInv
  OBVIOUS
<1>1. NoLink \in Links /\ NoSeen \in Review /\ NoWork.pc = "idle"
      /\ NoWork \in [pc : {"idle", "starting", "commit"}, next : Row \cup {None}]
  BY EditorialAssumption DEF NoLink, Links, Revisions, NoSeen, Review, NoWork
<1>2. 1 \in Versions /\ 0 \in 0..MaxChanges /\ 0 \in 0..MaxFaults
  BY EditorialAssumption DEF Versions
<1>3. Approved = {}
  BY DEF Init, Approved, NoLink
<1>4. NoRun \in Row /\ NoRun.phase = "none" /\ ~NoRun.expired
  BY EditorialAssumption DEF NoRun, Row, Phases, Revisions, Issues
<1>5. Typed
  <2>1. dux \in [Products -> Versions \cup {0}] /\ listing \in [Listings -> Observed]
        /\ link \in [Products -> Links] /\ current \in Editions \cup {None}
        /\ changes \in 0..MaxChanges /\ faults \in 0..MaxFaults
    BY <1>1, <1>2 DEF Init, Observed
  <2>2. worker \in [Workers -> [pc : {"idle", "starting", "commit"}, next : Row \cup {None}]]
        /\ \A w \in Workers : worker[w].pc = "idle"
    BY <1>1 DEF Init
  <2>3. admin \in [Admins -> Review] /\ \A a \in Admins : admin[a].pc = "idle"
    BY <1>1 DEF Init, NoSeen
  <2>4. run \in Row /\ (run.phase = "none" <=> run = NoRun) /\ run.phase = "none" /\ ~run.expired
    BY <1>4 DEF Init
  <2> QED
    BY <1>3, <2>1, <2>2, <2>3, <2>4 DEF Typed
<1>6. Faithful(run)
  BY <1>5, NoRunFaithful DEF Init
<1>7. Holding /\ Dated
  BY <1>1 DEF Init, Holding, Dated
<1> QED
  BY <1>5, <1>6, <1>7 DEF IInv

LEMMA NextIInv == IInv /\ [Next]_vars => IInv'
<1> SUFFICES ASSUME IInv, [Next]_vars PROVE IInv'
  OBVIOUS
<1>1. CASE UNCHANGED vars
  <2>1. Typed'
    BY <1>1 DEF IInv, Typed, vars, Approved
  <2> QED
    BY <1>1, <2>1, GrownInv DEF Grown, vars
<1>2. ASSUME NEW w \in Workers,
             StartRun(w) \/ InsertRun(w) \/ Claim(w) \/ Commit(w) \/ StepFails(w) \/ WorkerDies(w)
      PROVE  IInv'
  BY <1>2, StartsKeep, ClaimKeeps, CommitKeeps, FaultsKeep
<1>3. CASE LeaseExpires \/ RunAges
  BY <1>3, TimeKeeps
<1>4. ASSUME NEW a \in Admins,
             \/ \E p \in Products, i \in Listings : Look(a, p, i)
             \/ \E decision \in Decisions, grant \in Grants : Decide(a, decision, grant)
             \/ Write(a) \/ Leave(a)
      PROVE  IInv'
  BY <1>4, ReviewsKeep
<1>5. CASE (\E p \in Products : DuxChanges(p)) \/ (\E i \in Listings : ListingChanges(i))
  BY <1>5, WorldKeeps
<1> QED
  BY <1>1, <1>2, <1>3, <1>4, <1>5 DEF Next

\* The inductive invariant: what the row of a run says of the associations it captured
\* stays true whoever decides, fails, dies or loses the lease meanwhile.
THEOREM Invariance == Spec => []IInv
BY InitIInv, NextIInv, PTL DEF Spec

LEMMA IInvTypeOK == IInv => TypeOK
<1> SUFFICES ASSUME IInv PROVE TypeOK
  OBVIOUS
<1>1. run.phase = "metadata" => run.queue # {}
  BY DEF IInv, Faithful, FaithfulTo, Queued
<1>2. /\ run.ids \subseteq Listings /\ run.queue \subseteq Listings /\ run.todo \subseteq Products
      /\ run.captured \in [Products -> Revisions] /\ run.pubs \in [Products -> Revisions]
      /\ run.issues \in [Products -> Issues] /\ run.owner \in Workers \cup {None}
  BY DEF IInv, Typed, Row
<1>3. \A w \in Workers : worker[w].pc \in {"idle", "starting", "commit"}
  BY DEF IInv, Typed
<1>4. \A a \in Admins : admin[a].pc \in {"idle", "seen", "checked"}
  BY DEF IInv, Typed, Review
<1> QED
  BY <1>1, <1>2, <1>3, <1>4 DEF IInv, Typed, TypeOK

\* Types.
THEOREM TypeCorrect == Spec => []TypeOK
BY Invariance, IInvTypeOK, PTL

LEMMA IInvImportIsWhole == IInv => ImportIsWhole
<1> SUFFICES ASSUME IInv, run.phase = "content", NEW p \in run.todo, SameLink(run, p)
             PROVE  run.seen[link[p].item] # None
  BY IInvTypeOK DEF ImportIsWhole, MetadataAlwaysThere
<1>1. p \in Products
  BY DEF IInv, Typed, Row
<1>2. Kept(run, link, p)
  BY <1>1 DEF SameLink, Kept, IInv, Typed, Approved
<1> QED
  BY <1>2 DEF IInv, Faithful, FaithfulTo, Read

\* A step of the content phase never finds that the metadata of an approved
\* association was left unread, whichever associations were decided during the scan.
THEOREM ImportWhole == Spec => []ImportIsWhole
BY Invariance, IInvImportIsWhole, PTL

\* A step either leaves the published edition or publishes one, and then it leaves
\* the associations.
LEMMA EditionOrDecision ==
  ASSUME IInv, [Next]_vars
  PROVE  \/ UNCHANGED current /\ Grown(link, link')
         \/ current' # current /\ UNCHANGED <<dux, link>> /\ \E w \in Workers : Commit(w)
<1>1. CASE UNCHANGED vars
  BY <1>1 DEF vars, Grown
<1>2. ASSUME NEW w \in Workers,
             StartRun(w) \/ InsertRun(w) \/ Claim(w) \/ StepFails(w) \/ WorkerDies(w)
      PROVE  UNCHANGED <<current, link>>
  BY <1>2 DEF StartRun, InsertRun, Claim, StepFails, WorkerDies
<1>3. ASSUME NEW w \in Workers, Commit(w)
      PROVE  UNCHANGED <<dux, link>>
  BY <1>3 DEF Commit
<1>4. CASE LeaseExpires \/ RunAges \/ (\E p \in Products : DuxChanges(p)) \/ (\E i \in Listings : ListingChanges(i))
  BY <1>4 DEF LeaseExpires, RunAges, DuxChanges, ListingChanges, Grown
<1>5. ASSUME NEW a \in Admins,
             \/ \E p \in Products, i \in Listings : Look(a, p, i)
             \/ \E decision \in Decisions, grant \in Grants : Decide(a, decision, grant)
             \/ Leave(a)
      PROVE  UNCHANGED <<current, link>>
  BY <1>5 DEF Look, Decide, Leave
<1>6. ASSUME NEW a \in Admins, Write(a)
      PROVE  UNCHANGED current /\ Grown(link, link')
  <2>1. admin[a].product \in Products /\ link \in [Products -> Links]
    BY <1>6 DEF Write, IInv, Typed
  <2>2. link[admin[a].product].rev \in 0..MaxRev
    BY <2>1 DEF Links, Revisions
  <2> QED
    BY <1>6, <2>1, <2>2 DEF Write, Grown
<1> QED
  BY <1>1, <1>2, <1>3, <1>4, <1>5, <1>6 DEF Next, Grown

\* What the edition a run publishes says of an association that stands.
LEMMA EditionIsOfTheRun ==
  ASSUME IInv, NEW w \in Workers, Commit(w), current' # current, NEW p \in Products,
         link[p].status = "approved"
  PROVE  /\ current' # None /\ link[p].rev # 0
         /\ current'.pubs[p] = link[p].rev => run.captured[p] = link[p].rev
         /\ run.captured[p] = link[p].rev =>
              \/ current'.issues[p] # "none"
              \/ /\ current'.pubs[p] = link[p].rev
                 /\ current'.seen[link[p].item] = [active |-> TRUE, ident |-> link[p].ident]
<1> DEFINE next == worker[w].next
<1>1. /\ next \in Row /\ Faithful(next) /\ next.phase = "publish" /\ next.captured = run.captured
      /\ current' = [seen |-> next.seen, pubs |-> next.pubs, issues |-> next.issues]
  BY PublishedIsOwned
<1> HIDE DEF next
<1>2. current' \in Editions /\ link[p].rev # 0
  BY <1>1 DEF Row, Editions, IInv, Typed, Approved
<1>3. next.pubs[p] \in {0, next.captured[p]}
  BY <1>1 DEF Faithful, FaithfulTo, Stamped
<1>4. run.captured[p] = link[p].rev =>
        \/ next.issues[p] # "none"
        \/ /\ next.pubs[p] = link[p].rev
           /\ next.seen[link[p].item] = [active |-> TRUE, ident |-> link[p].ident]
  BY <1>1, <1>2 DEF Faithful, FaithfulTo, Settled, Ended, Kept
<1> QED
  BY <1>1, <1>2, <1>3, <1>4, NoneAssumption

\* What a customer sees of a listing goes by a decision on that product, by a change of
\* the product in Dux, or by a complete run that says why or did not know the decision;
\* it appears by the return of the product in Dux or by a run that captured the decision.
THEOREM ContentMoves == Spec => ContentMovesForAReason
<1>1. IInv /\ IInv' /\ [Next]_vars =>
        \A p \in Products : Shown(p) /\ ~Shown(p)' =>
          \/ link'[p] # link[p] \/ dux'[p] # dux[p]
          \/ current' # current
             /\ (current'.issues[p] # "none" \/ run.captured[p] # link[p].rev)
  <2> SUFFICES ASSUME IInv, [Next]_vars, NEW p \in Products, Shown(p), ~Shown(p)',
                      link'[p] = link[p], dux'[p] = dux[p]
               PROVE  current' # current
                      /\ (current'.issues[p] # "none" \/ run.captured[p] # link[p].rev)
    OBVIOUS
  <2>1. current' # current
    BY DEF Shown, Joined
  <2>2. PICK w \in Workers : Commit(w)
    BY <2>1, EditionOrDecision
  <2> QED
    BY <2>1, <2>2, EditionIsOfTheRun DEF Shown, Joined
<1>2. IInv /\ IInv' /\ [Next]_vars =>
        \A p \in Products : ~Shown(p) /\ Shown(p)' =>
          \/ dux'[p] # dux[p]
          \/ current' # current /\ run.captured[p] = link[p].rev
  <2> SUFFICES ASSUME IInv, IInv', [Next]_vars, NEW p \in Products, ~Shown(p), Shown(p)', dux'[p] = dux[p]
               PROVE  current' # current /\ run.captured[p] = link[p].rev
    OBVIOUS
  <2>1. CASE UNCHANGED current /\ Grown(link, link')
    <3>1. link'[p].rev > link[p].rev
      BY <2>1 DEF Grown, Shown, Joined
    <3>2. current # None /\ current.pubs[p] = link'[p].rev
      BY <2>1 DEF Shown, Joined
    <3>3. link[p].rev \in 0..MaxRev /\ link'[p].rev \in 0..MaxRev
      BY DEF IInv, Typed, Links, Revisions
    <3>4. current.pubs[p] <= link[p].rev
      BY <3>2 DEF IInv, Dated
    <3> QED
      BY <3>1, <3>2, <3>3, <3>4
  <2>2. CASE current' # current /\ UNCHANGED <<dux, link>> /\ \E w \in Workers : Commit(w)
    BY <2>2, EditionIsOfTheRun DEF Shown, Joined
  <2> QED
    BY <2>1, <2>2, EditionOrDecision
<1>3. Spec => KeptUntilSaid
  BY <1>1, Invariance, PTL DEF KeptUntilSaid, Spec
<1>4. Spec => ShownAfterRun
  BY <1>2, Invariance, PTL DEF ShownAfterRun, Spec
<1> QED
  BY <1>3, <1>4 DEF ContentMovesForAReason
=============================================================================
