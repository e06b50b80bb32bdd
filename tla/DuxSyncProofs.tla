---------------------------- MODULE DuxSyncProofs ----------------------------
(***************************************************************************)
(* What DuxSync promises for any sets of operations, callers and workers,  *)
(* any number of codes and any bounds: a live lease protects its operation *)
(* (LeaseProtects), the visible inventory moves from one reading to the    *)
(* next as a whole and once per run (MovesWhole), and the catalogue shows  *)
(* what the inventory shows (CatalogAgrees).                               *)
(***************************************************************************)
EXTENDS DuxSync, FiniteSetTheorems, TLAPS

\* A historical caller only publishes; the rest are steps of an operation.
OpSteps == {"prepay", "uncertain", "ready", "current", "read", "replay", "commit"}

Placed ==
  \A s \in Workers :
    /\ w[s].pc # "idle" => w[s].run \in Runs
    /\ w[s].pc \in OpSteps => w[s].run \in Requests
    /\ w[s].pc = "read" => Collecting(w[s].seen)

Worker == [pc : Steps, run : Runs \cup {None}, seen : OpRecord,
           reading : SUBSET Items, known : [Codes -> Row]]
Page   == [items : SUBSET Items, total : -1..NumCodes]

-----------------------------------------------------------------------------
(* Lease tokens *)

\* There are more tokens than operations and workers can hold or remember.
LEMMA TokenIsFresh ==
  /\ FreshToken \in Tokens
  /\ \A r \in Requests : ops[r].token # FreshToken
  /\ \A s \in Workers : w[s].seen.token # FreshToken
<1> DEFINE n == Cardinality(Requests) + Cardinality(Workers) + 1
           A == {t \in Tokens : \E r \in Requests : ops[r].token = t}
           B == {t \in Tokens : \E s \in Workers : w[s].seen.token = t}
<1>1. /\ IsFiniteSet(Requests) /\ IsFiniteSet(Workers)
      /\ Cardinality(Requests) \in Nat /\ Cardinality(Workers) \in Nat
  BY SyncAssumption, FS_CardinalityType
<1>2. IsFiniteSet(Tokens) /\ Cardinality(Tokens) = n /\ n \in Nat
  <2>1. n \in Nat /\ n >= 1 /\ Tokens = 1..n
    BY <1>1 DEF Tokens
  <2> HIDE DEF n
  <2>2. IsFiniteSet(1..n) /\ Cardinality(1..n) = IF 1 > n THEN 0 ELSE n - 1 + 1
    BY <2>1, FS_Interval
  <2> QED
    BY <2>1, <2>2
<1>3. IsFiniteSet(A) /\ Cardinality(A) <= Cardinality(Requests)
  <2> DEFINE f == [t \in A |-> CHOOSE r \in Requests : ops[r].token = t]
  <2>1. f \in Injection(A, Requests)
    BY DEF Injection, IsInjective
  <2> QED
    BY <1>1, <2>1, FS_Injection
<1>4. IsFiniteSet(B) /\ Cardinality(B) <= Cardinality(Workers)
  <2> DEFINE f == [t \in B |-> CHOOSE s \in Workers : w[s].seen.token = t]
  <2>1. f \in Injection(B, Workers)
    BY DEF Injection, IsInjective
  <2> QED
    BY <1>1, <2>1, FS_Injection
<1>5. Cardinality(A \cup B) <= Cardinality(Requests) + Cardinality(Workers)
  <2>1. Cardinality(A \cap B) \in Nat /\ Cardinality(A) \in Nat /\ Cardinality(B) \in Nat
    BY <1>3, <1>4, FS_Intersection, FS_CardinalityType
  <2> HIDE DEF A, B
  <2>2. Cardinality(A \cup B) = Cardinality(A) + Cardinality(B) - Cardinality(A \cap B)
    BY <1>3, <1>4, FS_Union
  <2> QED
    BY <1>1, <1>3, <1>4, <2>1, <2>2
<1>6. A \cup B # Tokens
  BY <1>1, <1>2, <1>5
<1>7. \E t \in Tokens : (\A r \in Requests : ops[r].token # t) /\ (\A s \in Workers : w[s].seen.token # t)
  BY <1>6
<1> QED
  BY <1>7 DEF FreshToken

LEMMA TokensPositive == 0 \notin Tokens
BY DEF Tokens

-----------------------------------------------------------------------------
(* Types *)

LEMMA Blanks ==
  /\ FreshOp \in OpRecord /\ NoPages \in [0..NumCodes-1 -> Page]
  /\ NoRow \in Row /\ NoDelta \in [Codes -> Row] /\ Idle \in Worker
  /\ \A status \in {"completed", "failed"}, error \in {None, "kept", "other"} : Closed(status, error) \in OpRecord
<1>1. FreshOp \in OpRecord
  BY SyncAssumption DEF FreshOp, OpRecord, None
<1>2. NoPages \in [0..NumCodes-1 -> Page] /\ NoRow \in Row /\ NoDelta \in [Codes -> Row]
  BY SyncAssumption DEF NoPages, Page, NoRow, Row, NoDelta, None
<1>3. \A status \in {"completed", "failed"}, error \in {None, "kept", "other"} : Closed(status, error) \in OpRecord
  BY <1>1 DEF Closed, FreshOp, OpRecord
<1> QED
  BY <1>1, <1>2, <1>3 DEF Idle, Worker, Steps

LEMMA InitTypeOK == ASSUME Init PROVE TypeOK /\ Placed
<1>1. TypeOK
  <2>1. dux \in [Codes -> Values \cup {None}]
    BY DEF Init
  <2>2. inventory \in [Codes -> Row]
    BY Blanks DEF Init, Row
  <2> QED
    BY <2>1, <2>2, Blanks, SyncAssumption DEF Init, TypeOK, Worker, Page, None
<1>2. Placed
  BY DEF Init, Placed, Idle, OpSteps
<1> QED
  BY <1>1, <1>2

\* The moves of a worker: on to a step, with what it saw or read, or to rest.
LEMMA WorkerTypes ==
  ASSUME TypeOK, NEW s \in Workers
  PROVE  /\ w[s] \in Worker
         /\ Rest(s) => w' \in [Workers -> Worker]
         /\ \A pc \in Steps : Goto(s, pc) => w' \in [Workers -> Worker]
<1>1. w \in [Workers -> Worker]
  BY DEF TypeOK, Worker
<1>2. Rest(s) => w' \in [Workers -> Worker]
  BY <1>1, Blanks DEF Rest
<1>3. ASSUME NEW pc \in Steps, Goto(s, pc) PROVE w' \in [Workers -> Worker]
  <2>1. [w[s] EXCEPT !.pc = pc] \in Worker
    BY <1>1 DEF Worker
  <2> QED
    BY <1>1, <1>3, <2>1 DEF Goto
<1> QED
  BY <1>1, <1>2, <1>3

LEMMA FailedTypes ==
  ASSUME TypeOK, NEW r \in Requests, NEW seen, NEW error \in {None, "kept", "other"}, Failed(r, seen, error)
  PROVE  /\ ops' \in [Requests -> OpRecord] /\ pages' \in [Requests -> [0..NumCodes-1 -> Page]]
BY Blanks DEF TypeOK, Failed, Page

LEMMA ClaimTypes ==
  ASSUME TypeOK, Placed, NEW s \in Workers,
         \/ \E r \in Requests : Ask(s, r) \/ Start(s, r)
         \/ Prepay(s) \/ CloseUncertain(s) \/ CloseOverdue(s) \/ Claim(s) \/ Current(s)
  PROVE  TypeOK' /\ Placed'
<1> USE DEF tables, world
<1>0. /\ ops \in [Requests -> OpRecord] /\ pages \in [Requests -> [0..NumCodes-1 -> Page]]
      /\ w \in [Workers -> Worker] /\ FreshToken \in Tokens /\ Requests \subseteq Runs
  BY TokenIsFresh DEF TypeOK, Worker, Page, Runs
<1>1. ASSUME UNCHANGED <<runs, gens, staged, inventory, catalog, collecting, dux, deaths, changes>>,
             ops' \in [Requests -> OpRecord], pages' \in [Requests -> [0..NumCodes-1 -> Page]],
             w' \in [Workers -> Worker]
      PROVE  TypeOK'
  BY <1>1 DEF TypeOK, Worker, Page
<1>2. \A o \in OpRecord : Entry(o) \in {"uncertain", "ready"}
  BY DEF Entry
<1>3. \A t \in Workers : w'[t] = w[t] => (w'[t].pc # "idle" => w'[t].run \in Runs) /\ (w'[t].pc \in OpSteps => w'[t].run \in Requests)
                       /\ (w'[t].pc = "read" => Collecting(w'[t].seen))
  BY DEF Placed
<1>4. ASSUME NEW pc \in Steps \ {"read"}, NEW r \in Requests, NEW o \in OpRecord, w' = [w EXCEPT ![s] = [Idle EXCEPT !.run = r, !.seen = o, !.pc = pc]]
      PROVE  w' \in [Workers -> Worker] /\ Placed'
  <2>1. [Idle EXCEPT !.run = r, !.seen = o, !.pc = pc] \in Worker
    BY <1>0, Blanks DEF Worker, Idle
  <2> QED
    BY <1>0, <1>3, <1>4, <2>1 DEF Placed, Idle
<1>5. ASSUME NEW pc \in Steps \ {"read"}, w[s].run \in Requests, Goto(s, pc)
      PROVE  w' \in [Workers -> Worker] /\ Placed'
  <2>1. w' \in [Workers -> Worker]
    BY <1>5, WorkerTypes
  <2>2. w'[s].pc = pc /\ w'[s].run = w[s].run /\ \A t \in Workers \ {s} : w'[t] = w[t]
    BY <1>0, <1>5 DEF Goto, Worker
  <2> QED
    BY <1>0, <1>3, <1>5, <2>1, <2>2 DEF Placed
<1>6. ASSUME Rest(s)
      PROVE  w' \in [Workers -> Worker] /\ Placed'
  <2>1. w'[s].pc = "idle" /\ \A t \in Workers \ {s} : w'[t] = w[t]
    BY <1>0, <1>6 DEF Rest, Idle
  <2> QED
    BY <1>3, <1>6, <2>1, WorkerTypes DEF Placed, OpSteps
<1>7. ASSUME NEW pc \in Steps, NEW o \in OpRecord, w[s].run \in Requests, pc = "read" => Collecting(o),
             w' = [w EXCEPT ![s].pc = pc, ![s].seen = o]
      PROVE  w' \in [Workers -> Worker] /\ Placed'
  <2>1. w'[s] = [pc |-> pc, run |-> w[s].run, seen |-> o, reading |-> w[s].reading, known |-> w[s].known]
    BY <1>0, <1>7 DEF Worker
  <2>2. w' \in [Workers -> Worker] /\ \A t \in Workers \ {s} : w'[t] = w[t]
    BY <1>0, <1>7 DEF Worker
  <2> QED
    BY <1>0, <1>3, <1>7, <2>1, <2>2 DEF Placed
<1>a. ASSUME NEW r \in Requests, Ask(s, r) PROVE TypeOK' /\ Placed'
  <2>1. Entry(ops[r]) \in Steps \ {"read"} /\ ops[r] \in OpRecord
    BY <1>0, <1>2 DEF Steps
  <2>2. w' = [w EXCEPT ![s] = [Idle EXCEPT !.run = r, !.seen = ops[r], !.pc = Entry(ops[r])]]
    BY <1>a DEF Ask
  <2>3. w' \in [Workers -> Worker] /\ Placed'
    BY <2>1, <2>2, <1>4
  <2> QED
    BY <1>0, <1>a, <1>1, <2>3 DEF Ask
<1>b. ASSUME NEW r \in Requests, Start(s, r) PROVE TypeOK' /\ Placed'
  <2> DEFINE expired == {x \in Requests : ops[x].status = "running" /\ LeaseFree(ops[x]) /\ ops[x].overdue}
             closed  == [x \in Requests |-> IF x \in expired THEN Closed("failed", "kept") ELSE ops[x]]
             opened  == [FreshOp EXCEPT !.status = "running", !.token = FreshToken, !.live = TRUE]
  <2>1. closed \in [Requests -> OpRecord]
    BY <1>0, Blanks
  <2>2. opened \in OpRecord
    BY <1>0, Blanks DEF FreshOp, OpRecord
  <2> HIDE DEF expired, closed, opened
  <2>3. /\ ops' \in {[closed EXCEPT ![r] = opened], closed}
        /\ pages' = [x \in Requests |-> IF closed[x].status = "running" THEN pages[x] ELSE NoPages]
        /\ UNCHANGED w \/ w' = [w EXCEPT ![s] = [Idle EXCEPT !.run = r, !.pc = "prepay", !.seen = ops'[r]]]
    BY <1>b DEF Start, expired, closed, opened
  <2>4. ops' \in [Requests -> OpRecord] /\ pages' \in [Requests -> [0..NumCodes-1 -> Page]]
    BY <1>0, <2>1, <2>2, <2>3, Blanks
  <2>5. [Idle EXCEPT !.run = r, !.pc = "prepay", !.seen = ops'[r]] = [Idle EXCEPT !.run = r, !.seen = ops'[r], !.pc = "prepay"]
    BY DEF Idle
  <2>6. w' \in [Workers -> Worker] /\ Placed'
    <3>1. CASE UNCHANGED w
      BY <1>0, <3>1 DEF Placed
    <3>2. CASE w' = [w EXCEPT ![s] = [Idle EXCEPT !.run = r, !.seen = ops'[r], !.pc = "prepay"]]
      <4>1. ops'[r] \in OpRecord /\ "prepay" \in Steps \ {"read"}
        BY <2>4 DEF Steps
      <4> QED
        BY <1>4, <3>2, <4>1
    <3> QED
      BY <2>3, <2>5, <3>1, <3>2
  <2> QED
    BY <1>b, <1>1, <2>4, <2>6 DEF Start
<1>c. CASE Prepay(s)
  <2>1. w[s].run \in Requests
    BY <1>c DEF Prepay, Placed, OpSteps
  <2>2. CASE Failed(w[s].run, w[s].seen, "other") /\ Rest(s)
    BY <1>c, <2>1, <2>2, <1>1, <1>6, FailedTypes DEF Prepay
  <2>3. CASE Rest(s) /\ UNCHANGED <<ops, pages>>
    BY <1>c, <2>3, <1>0, <1>1, <1>6 DEF Prepay
  <2>4. CASE /\ ops' = IF HoldsLease(s) THEN [ops EXCEPT ![w[s].run] = [@ EXCEPT !.token = 0, !.live = FALSE]] ELSE ops
             /\ UNCHANGED pages
             /\ \/ w' = [w EXCEPT ![s].pc = Entry(ops'[w[s].run]), ![s].seen = ops'[w[s].run]]
                \/ Rest(s)
    <3>1. ops' \in [Requests -> OpRecord]
      <4>1. ops[w[s].run] \in OpRecord
        BY <1>0, <2>1
      <4>2. [ops[w[s].run] EXCEPT !.token = 0, !.live = FALSE] \in OpRecord
        BY <4>1 DEF OpRecord
      <4> QED
        BY <1>0, <2>1, <2>4, <4>2
    <3>2. CASE w' = [w EXCEPT ![s].pc = Entry(ops'[w[s].run]), ![s].seen = ops'[w[s].run]]
      <4>1. ops'[w[s].run] \in OpRecord /\ Entry(ops'[w[s].run]) \in {"uncertain", "ready"}
        BY <2>1, <3>1, <1>2
      <4>2. w' \in [Workers -> Worker]
        BY <1>0, <3>2, <4>1 DEF Worker, Steps
      <4>3. w'[s].run = w[s].run /\ w'[s].pc # "read" /\ \A t \in Workers \ {s} : w'[t] = w[t]
        BY <1>0, <3>2, <4>1 DEF Worker
      <4> QED
        BY <1>c, <1>0, <1>1, <1>3, <2>1, <2>4, <3>1, <4>2, <4>3 DEF Placed, Prepay
    <3> QED
      BY <1>c, <1>0, <1>1, <1>6, <2>4, <3>1, <3>2 DEF Prepay
  <2> QED
    BY <1>c, <2>2, <2>3, <2>4 DEF Prepay
<1>d. CASE CloseUncertain(s) \/ CloseOverdue(s)
  <2>1. w[s].run \in Requests
    BY <1>d DEF CloseUncertain, CloseOverdue, Placed, OpSteps
  <2>2. "current" \in Steps \ {"read"}
    BY DEF Steps
  <2> QED
    BY <1>d, <1>1, <1>5, <1>6, <2>1, <2>2, FailedTypes DEF CloseUncertain, CloseOverdue
<1>e. CASE Claim(s)
  <2> DEFINE o == ops[w[s].run]
             step == IF Publishing(o) THEN 0 ELSE 1
             claimed == [o EXCEPT !.token = FreshToken, !.live = TRUE, !.attempts = @ + step, !.tries = @ + step]
  <2>1. w[s].run \in Requests /\ o \in OpRecord
    BY <1>e, <1>0 DEF Claim, Placed, OpSteps
  <2>2. CASE UNCHANGED ops /\ Goto(s, "current")
    <3>1. "current" \in Steps \ {"read"}
      BY DEF Steps
    <3> QED
      BY <1>e, <1>0, <1>1, <1>5, <2>1, <2>2, <3>1 DEF Claim
  <2>3. CASE /\ LeaseFree(o) /\ ~Exhausted(o) /\ ops' = [ops EXCEPT ![w[s].run] = claimed]
             /\ w' = [w EXCEPT ![s].pc = IF Publishing(o) THEN "replay" ELSE "read", ![s].seen = claimed]
    <3>1. claimed \in OpRecord
      <4>1. o.attempts \in 0..MaxAttempts /\ o.tries \in 0..MaxTries
        BY <2>1 DEF OpRecord
      <4>2. Collecting(o) => o.tries < MaxTries /\ o.attempts < MaxAttempts
        BY <2>3, <4>1, SyncAssumption DEF Exhausted
      <4>3. o.attempts + step \in 0..MaxAttempts /\ o.tries + step \in 0..MaxTries
        BY <4>1, <4>2, SyncAssumption DEF Publishing
      <4> HIDE DEF o, step
      <4> QED
        BY <1>0, <2>1, <4>3 DEF OpRecord
    <3> HIDE DEF claimed, o
    <3>2. ops' \in [Requests -> OpRecord]
      BY <1>0, <2>1, <2>3, <3>1
    <3>3. claimed.phase = o.phase
      BY <2>1 DEF claimed, OpRecord
    <3>4. w' \in [Workers -> Worker] /\ Placed'
      <4>1. CASE Publishing(o)
        <5>1. "replay" \in Steps /\ w' = [w EXCEPT ![s].pc = "replay", ![s].seen = claimed]
          BY <2>3, <4>1 DEF Steps
        <5> QED
          BY <1>7, <2>1, <3>1, <5>1
      <4>2. CASE ~Publishing(o)
        <5>1. "read" \in Steps /\ w' = [w EXCEPT ![s].pc = "read", ![s].seen = claimed]
          BY <2>3, <4>2 DEF Steps
        <5>2. Collecting(claimed)
          BY <3>3, <4>2 DEF Publishing, Collecting
        <5> QED
          BY <1>7, <2>1, <3>1, <5>1, <5>2
      <4> QED
        BY <4>1, <4>2
    <3> QED
      BY <1>e, <1>0, <1>1, <3>2, <3>4 DEF Claim
  <2> QED
    BY <1>e, <2>2, <2>3 DEF Claim
<1>f. CASE Current(s)
  <2>1. w[s].run \in Requests
    BY <1>f DEF Current, Placed, OpSteps
  <2>2. ops' \in [Requests -> OpRecord] /\ pages' \in [Requests -> [0..NumCodes-1 -> Page]]
    BY <1>f, <1>0, <2>1, FailedTypes DEF Current
  <2> QED
    BY <1>f, <1>1, <1>6, <2>2 DEF Current
<1> QED
  BY <1>a, <1>b, <1>c, <1>d, <1>e, <1>f

\* The list Dux returns has one item at each offset before its end.
LEMMA ItemAtOffset ==
  ASSUME TypeOK
  PROVE  /\ Cardinality(Present) \in 0..NumCodes /\ (Present # {} => Cardinality(Present) # 0)
         /\ \A k \in Nat :
              /\ ItemAt(k) \subseteq Items /\ Cardinality(ItemAt(k)) \in {0, 1}
              /\ ItemAt(k) # {} => k < Cardinality(Present)
<1> DEFINE Before(c) == {e \in Present : e < c}
<1>1. IsFiniteSet(Codes) /\ Cardinality(Codes) = NumCodes /\ NumCodes \in Nat
  <2>1. IsFiniteSet(1..NumCodes) /\ Cardinality(1..NumCodes) = IF 1 > NumCodes THEN 0 ELSE NumCodes - 1 + 1
    BY SyncAssumption, FS_Interval
  <2> QED
    BY <2>1, SyncAssumption DEF Codes
<1>2. Present \subseteq Codes /\ \A c \in Present : dux[c] \in Values
  BY DEF Present, TypeOK
<1>3. /\ IsFiniteSet(Present) /\ Cardinality(Present) \in 0..NumCodes
      /\ Present # {} => Cardinality(Present) # 0
  BY <1>1, <1>2, FS_Subset, FS_CardinalityType, FS_EmptySet
<1>4. ASSUME NEW c \in Present
      PROVE  /\ IsFiniteSet(Before(c)) /\ Cardinality(Before(c)) \in Nat
             /\ Cardinality(Before(c)) < Cardinality(Present)
  <2>1. Before(c) \subseteq Present /\ Before(c) # Present
    BY <1>2 DEF Codes
  <2> HIDE DEF Before
  <2>2. IsFiniteSet(Before(c)) /\ Cardinality(Before(c)) <= Cardinality(Present)
        /\ Cardinality(Before(c)) # Cardinality(Present)
    BY <1>3, <2>1, FS_Subset
  <2> QED
    BY <1>3, <2>2, FS_CardinalityType
<1>5. ASSUME NEW c \in Present, NEW d \in Present, c < d
      PROVE  Cardinality(Before(c)) # Cardinality(Before(d))
  <2>1. Before(c) \subseteq Before(d) /\ Before(c) # Before(d)
    <3>1. Present \subseteq Int
      BY <1>2 DEF Codes
    <3>2. \A e \in Before(c) : e \in Before(d)
      BY <1>5, <3>1
    <3>3. c \in Before(d) /\ c \notin Before(c)
      BY <1>5, <3>1
    <3> QED
      BY <3>2, <3>3
  <2> HIDE DEF Before
  <2> QED
    BY <1>4, <2>1, FS_Subset
<1>6. ASSUME NEW k \in Nat
      PROVE  /\ ItemAt(k) \subseteq Items /\ Cardinality(ItemAt(k)) \in {0, 1}
             /\ ItemAt(k) # {} => k < Cardinality(Present)
  <2> DEFINE D == {d \in Present : Cardinality(Before(d)) = k}
  <2>1. ItemAt(k) = {[code |-> c, value |-> dux[c]] : c \in D}
    BY DEF ItemAt
  <2>2. ASSUME NEW c \in D, NEW d \in D PROVE c = d
    <3>1. c \in Codes /\ d \in Codes
      BY <1>2
    <3>2. c < d \/ d < c \/ c = d
      BY <3>1 DEF Codes
    <3> QED
      BY <1>5, <3>2
  <2>3. CASE D = {}
    BY <2>1, <2>3, FS_EmptySet
  <2>4. ASSUME NEW c \in D
        PROVE  /\ ItemAt(k) = {[code |-> c, value |-> dux[c]]} /\ [code |-> c, value |-> dux[c]] \in Items
               /\ k < Cardinality(Present)
    BY <1>2, <1>4, <2>1, <2>2, <2>4 DEF Items
  <2>5. ASSUME NEW c \in D PROVE Cardinality(ItemAt(k)) = 1
    BY <2>4, FS_Singleton
  <2>6. CASE \E c : c \in D
    BY <2>4, <2>5, <2>6
  <2> QED
    BY <2>3, <2>6
<1> QED
  BY <1>3, <1>6

LEMMA ReadTypes ==
  ASSUME TypeOK, Placed, NEW s \in Workers, Checkpoint(s) \/ Defer(s) \/ ReadFails(s)
  PROVE  TypeOK' /\ Placed'
<1>0. /\ ops \in [Requests -> OpRecord] /\ pages \in [Requests -> [0..NumCodes-1 -> Page]]
      /\ w \in [Workers -> Worker] /\ w[s].run \in Requests /\ w[s].seen \in OpRecord
  BY DEF TypeOK, Worker, Page, Placed, OpSteps, Checkpoint, Defer, ReadFails
<1>1. Rest(s) \/ Goto(s, "current") => w' \in [Workers -> Worker] /\ Placed'
  <2>1. Rest(s) \/ Goto(s, "current") => w' \in [Workers -> Worker]
    BY WorkerTypes DEF Steps
  <2>2. Rest(s) \/ Goto(s, "current") =>
          w'[s].pc \in {"idle", "current"} /\ (w'[s].pc = "current" => w'[s].run = w[s].run)
          /\ \A t \in Workers \ {s} : w'[t] = w[t]
    BY <1>0 DEF Rest, Goto, Idle, Worker
  <2> QED
    BY <1>0, <2>1, <2>2 DEF Placed, OpSteps, Runs
<1>2. ASSUME UNCHANGED <<runs, gens, staged, inventory, catalog, world>>,
             ops' \in [Requests -> OpRecord], pages' \in [Requests -> [0..NumCodes-1 -> Page]],
             w' \in [Workers -> Worker]
      PROVE  TypeOK'
  BY <1>2 DEF TypeOK, Worker, Page, world
<1>3. CASE Checkpoint(s)
  <2> DEFINE r == w[s].run
             o == w[s].seen
             here  == o.phase = Identity
             total == IF here /\ o.total = -1 THEN Cardinality(Present) ELSE o.total
             page  == ItemAt(o.offset)
             next  == IF here THEN o.offset + Cardinality(page) ELSE o.offset
             done  == here => next = total
  <2>1. /\ o.phase < Identity + 1 => o.phase + 1 \in 0..Identity+1
        /\ total \in -1..NumCodes /\ next \in 0..NumCodes
        /\ page \in SUBSET Items /\ (page # {} => o.offset \in 0..NumCodes-1)
    <3>1. /\ o.offset \in 0..NumCodes /\ o.offset \in Nat /\ o.phase \in 0..Identity+1 /\ o.total \in -1..NumCodes
          /\ Identity \in Nat /\ NumCodes \in Nat
      BY <1>0, SyncAssumption DEF OpRecord
    <3>2. /\ Cardinality(Present) \in 0..NumCodes
          /\ page \subseteq Items /\ Cardinality(page) \in {0, 1}
          /\ page # {} => o.offset < Cardinality(Present)
      BY <3>1, ItemAtOffset
    <3>3. page = {} => Cardinality(page) = 0
      BY FS_EmptySet
    <3> HIDE DEF o, page
    <3> QED
      BY <3>1, <3>2, <3>3
  <2>2. CASE Collecting(o)
    <3>1. ASSUME NEW q \in OpRecord
          PROVE  [q EXCEPT !.phase = IF done THEN o.phase + 1 ELSE o.phase, !.offset = next, !.total = total,
                    !.token = 0, !.live = FALSE, !.tries = 0, !.wait = FALSE] \in OpRecord
      <4>1. (IF done THEN o.phase + 1 ELSE o.phase) \in 0..Identity+1 /\ 0 \in 0..MaxTries
        <5>1. o.phase \in 0..Identity+1
          BY <1>0 DEF OpRecord
        <5>2. o.phase + 1 \in 0..Identity+1
          BY <2>1, <2>2 DEF Collecting
        <5>3. 0 \in 0..MaxTries
          BY SyncAssumption
        <5> HIDE DEF o, done
        <5> QED
          BY <5>1, <5>2, <5>3
      <4> HIDE DEF o, done, next, total
      <4> QED
        BY <2>1, <4>1 DEF OpRecord
    <3>2. ops' \in [Requests -> OpRecord]
      BY <1>0, <1>3, <3>1 DEF Checkpoint
    <3>3. page # {} => [items |-> page, total |-> total] \in Page
      BY <2>1 DEF Page
    <3>4. pages' \in [Requests -> [0..NumCodes-1 -> Page]]
      BY <1>0, <1>3, <2>1, <3>3 DEF Checkpoint
    <3> QED
      BY <1>1, <1>2, <1>3, <3>2, <3>4 DEF Checkpoint
  <2> QED
    BY <1>3, <2>2 DEF Checkpoint, Placed
<1>4. CASE Defer(s)
  <2>1. [ops[w[s].run] EXCEPT !.token = 0, !.live = FALSE, !.wait = TRUE] \in OpRecord
    <3>1. ops[w[s].run] \in OpRecord
      BY <1>0
    <3> QED
      BY <3>1 DEF OpRecord
  <2>2. ops' \in [Requests -> OpRecord]
    BY <1>0, <1>4, <2>1 DEF Defer
  <2> QED
    BY <1>0, <1>1, <1>2, <1>4, <2>2 DEF Defer
<1>5. CASE ReadFails(s)
  BY <1>0, <1>1, <1>2, <1>5, FailedTypes DEF ReadFails
<1> QED
  BY <1>3, <1>4, <1>5

LEMMA ReadingValues ==
  ASSUME TypeOK, NEW s \in Workers, NEW c \in CodesOf(w[s].reading)
  PROVE  /\ [code |-> c, value |-> ValueOf(w[s].reading, c)] \in w[s].reading
         /\ c \in Codes /\ ValueOf(w[s].reading, c) \in Values
<1> DEFINE i == CHOOSE i \in w[s].reading : i.code = c
<1>1. w[s].reading \subseteq Items
  BY DEF TypeOK
<1>2. \E j \in w[s].reading : j.code = c
  BY DEF CodesOf
<1>3. i \in w[s].reading /\ i.code = c
  BY <1>2
<1> HIDE DEF i
<1>4. i = [code |-> c, value |-> i.value] /\ c \in Codes /\ i.value \in Values
  BY <1>1, <1>3 DEF Items
<1> QED
  BY <1>3, <1>4 DEF ValueOf, i

LEMMA StagedTypes ==
  ASSUME TypeOK, Placed, NEW s \in Workers, StageChanged(s) \/ StageAbsent(s) \/ Publish(s)
  PROVE  staged' \in [Runs -> [Codes -> Row]] /\ inventory' \in [Codes -> Row]
<1>1. w[s].run \in Runs /\ staged \in [Runs -> [Codes -> Row]] /\ inventory \in [Codes -> Row]
  BY DEF TypeOK, Placed, StageChanged, StageAbsent, Publish
<1>2. CASE StageChanged(s)
  <2>1. \A c \in Changed(s) : [st |-> "ok", value |-> ValueOf(w[s].reading, c)] \in Row
    BY ReadingValues DEF Changed, Row
  <2> QED
    BY <1>1, <1>2, <2>1 DEF StageChanged
<1>3. CASE StageAbsent(s)
  <2>1. \A c \in Codes : [st |-> "absent", value |-> inventory[c].value] \in Row
    BY <1>1 DEF Row
  <2> QED
    BY <1>1, <1>3, <2>1 DEF StageAbsent
<1>4. CASE Publish(s)
  BY <1>1, <1>4, Blanks DEF Publish, Applied
<1> QED
  BY <1>2, <1>3, <1>4

\* A worker goes to a step of the publication, which takes no run of its own.
LEMMA GoesOn ==
  ASSUME TypeOK, Placed, NEW s \in Workers, w[s].run \in Runs,
         NEW v \in Worker, v.run = w[s].run, v.pc # "read", v.pc \in OpSteps => w[s].run \in Requests,
         w' = [w EXCEPT ![s] = v]
  PROVE  w' \in [Workers -> Worker] /\ Placed'
<1>1. w \in [Workers -> Worker]
  BY DEF TypeOK, Worker
<1>2. w'[s] = v /\ \A t \in Workers \ {s} : w'[t] = w[t]
  BY <1>1
<1> QED
  BY <1>1, <1>2 DEF Placed

\* The new state of a worker that went on.
To(s, pc, reading, known) ==
  [pc |-> pc, run |-> w[s].run, seen |-> w[s].seen, reading |-> reading, known |-> known]

LEMMA ToTypes ==
  ASSUME TypeOK, NEW s \in Workers, NEW pc \in Steps, NEW reading \in SUBSET Items, NEW known \in [Codes -> Row]
  PROVE  /\ To(s, pc, reading, known) \in Worker
         /\ To(s, pc, reading, known).run = w[s].run /\ To(s, pc, reading, known).pc = pc
<1>1. w[s] \in Worker
  BY DEF TypeOK, Worker
<1> QED
  BY <1>1 DEF To, Worker

\* Where each step of the publication leaves its worker, for each form its assignments take.
MovesTo(s, pc, reading, known) == w' = [w EXCEPT ![s] = To(s, pc, reading, known)]

LEMMA Moves ==
  ASSUME TypeOK, NEW s \in Workers
  PROVE  \A pc \in Steps, reading \in SUBSET Items, known \in [Codes -> Row] :
           /\ Goto(s, pc) => MovesTo(s, pc, w[s].reading, w[s].known)
           /\ w' = [w EXCEPT ![s].pc = pc, ![s].reading = reading] => MovesTo(s, pc, reading, w[s].known)
           /\ w' = [w EXCEPT ![s].pc = pc, ![s].reading = reading, ![s].known = known] => MovesTo(s, pc, reading, known)
           /\ w' = [w EXCEPT ![s].pc = pc, ![s].known = known, ![s].reading = reading] => MovesTo(s, pc, reading, known)
<1> TAKE pc \in Steps, reading \in SUBSET Items, known \in [Codes -> Row]
<1>1. w \in [Workers -> Worker] /\ w[s] \in Worker
  BY DEF TypeOK, Worker
<1>3. /\ [w[s] EXCEPT !.pc = pc] = To(s, pc, w[s].reading, w[s].known)
      /\ [w[s] EXCEPT !.pc = pc, !.reading = reading] = To(s, pc, reading, w[s].known)
      /\ [w[s] EXCEPT !.pc = pc, !.reading = reading, !.known = known] = To(s, pc, reading, known)
      /\ [w[s] EXCEPT !.pc = pc, !.known = known, !.reading = reading] = To(s, pc, reading, known)
  <2> DEFINE a == [w[s] EXCEPT !.pc = pc]
             b == [w[s] EXCEPT !.pc = pc, !.reading = reading]
             c == [w[s] EXCEPT !.pc = pc, !.reading = reading, !.known = known]
             d == [w[s] EXCEPT !.pc = pc, !.known = known, !.reading = reading]
  <2>1. a \in Worker /\ b \in Worker /\ c \in Worker /\ d \in Worker
    BY <1>1 DEF Worker
  <2>2. a.pc = pc /\ a.run = w[s].run /\ a.seen = w[s].seen /\ a.reading = w[s].reading /\ a.known = w[s].known
    BY <1>1 DEF Worker
  <2>3. b.pc = pc /\ b.run = w[s].run /\ b.seen = w[s].seen /\ b.reading = reading /\ b.known = w[s].known
    BY <1>1 DEF Worker
  <2>4. c.pc = pc /\ c.run = w[s].run /\ c.seen = w[s].seen /\ c.reading = reading /\ c.known = known
    BY <1>1 DEF Worker
  <2>5. d.pc = pc /\ d.run = w[s].run /\ d.seen = w[s].seen /\ d.reading = reading /\ d.known = known
    BY <1>1 DEF Worker
  <2>6. \A x \in Worker : x = [pc |-> x.pc, run |-> x.run, seen |-> x.seen, reading |-> x.reading, known |-> x.known]
    BY DEF Worker
  <2> HIDE DEF a, b, c, d
  <2>7. /\ a = To(s, pc, w[s].reading, w[s].known) /\ b = To(s, pc, reading, w[s].known)
        /\ c = To(s, pc, reading, known) /\ d = To(s, pc, reading, known)
    BY <2>1, <2>2, <2>3, <2>4, <2>5, <2>6 DEF To
  <2> QED
    BY <2>7 DEF a, b, c, d
<1>4. /\ [w EXCEPT ![s].pc = pc] = [w EXCEPT ![s] = [w[s] EXCEPT !.pc = pc]]
      /\ [w EXCEPT ![s].pc = pc, ![s].reading = reading] = [w EXCEPT ![s] = [w[s] EXCEPT !.pc = pc, !.reading = reading]]
      /\ [w EXCEPT ![s].pc = pc, ![s].reading = reading, ![s].known = known]
           = [w EXCEPT ![s] = [w[s] EXCEPT !.pc = pc, !.reading = reading, !.known = known]]
      /\ [w EXCEPT ![s].pc = pc, ![s].known = known, ![s].reading = reading]
           = [w EXCEPT ![s] = [w[s] EXCEPT !.pc = pc, !.known = known, !.reading = reading]]
  BY <1>1
<1> QED
  BY <1>3, <1>4 DEF Goto, MovesTo

ReadNow == {[code |-> c, value |-> dux[c]] : c \in Present}
IndexReading(s) == IF IsOperation(s) THEN w[s].reading ELSE ReadNow

LEMMA ReadTyped ==
  ASSUME TypeOK
  PROVE  ReadNow \in SUBSET Items /\ \A r \in Requests : StoredItems(r) \in SUBSET Items
<1>1. \A c \in Present : c \in Codes /\ dux[c] \in Values
  BY DEF TypeOK, Present
<1>2. ReadNow \in SUBSET Items
  BY <1>1 DEF ReadNow, Items
<1>3. ASSUME NEW r \in Requests PROVE StoredItems(r) \in SUBSET Items
  <2>1. pages[r] \in [0..NumCodes-1 -> Page]
    BY DEF TypeOK, Page
  <2>2. \A k \in DOMAIN pages[r] : pages[r][k].items \in SUBSET Items
    BY <2>1 DEF Page
  <2> QED
    BY <2>2 DEF StoredItems
<1> QED
  BY <1>2, <1>3

LEMMA PublicationMoves ==
  ASSUME TypeOK, NEW s \in Workers
  PROVE  /\ Recover(s) => MovesTo(s, "claimRun", w[s].reading, w[s].known)
         /\ ClaimRun(s) => Rest(s) \/ MovesTo(s, "begin", w[s].reading, w[s].known)
         /\ BeginGeneration(s) => MovesTo(s, "index", w[s].reading, w[s].known)
         /\ ReadIndex(s) => \/ MovesTo(s, "stage", IndexReading(s), inventory) /\ Distinct(IndexReading(s))
                            \/ MovesTo(s, "failGeneration", IndexReading(s), inventory)
         /\ StageChanged(s) => MovesTo(s, "stageAbsent", w[s].reading, w[s].known)
         /\ StageAbsent(s) => MovesTo(s, "publish", w[s].reading, w[s].known)
         /\ StagingFails(s) \/ PublishFails(s) => MovesTo(s, "failGeneration", {}, NoDelta)
         /\ Publish(s) => \/ MovesTo(s, "catalog", w[s].reading, NoDelta)
                          \/ MovesTo(s, "failGeneration", {}, NoDelta)
         /\ WriteCatalog(s) => Rest(s) \/ (MovesTo(s, "commit", {}, w[s].known) /\ IsOperation(s))
         /\ Commit(s) => Rest(s) \/ MovesTo(s, "current", w[s].reading, w[s].known)
<1>0. /\ w[s].reading \in SUBSET Items /\ w[s].known \in [Codes -> Row] /\ inventory \in [Codes -> Row]
      /\ {} \in SUBSET Items /\ NoDelta \in [Codes -> Row]
  BY Blanks DEF TypeOK
<1>1. \A pc \in Steps : Goto(s, pc) => MovesTo(s, pc, w[s].reading, w[s].known)
  BY <1>0, Moves
<1>2. Recover(s) => MovesTo(s, "claimRun", w[s].reading, w[s].known)
  BY <1>1 DEF Recover, Steps
<1>3. ClaimRun(s) => Rest(s) \/ MovesTo(s, "begin", w[s].reading, w[s].known)
  BY <1>1 DEF ClaimRun, PublicationFails, Steps
<1>4. /\ BeginGeneration(s) => MovesTo(s, "index", w[s].reading, w[s].known)
      /\ StageChanged(s) => MovesTo(s, "stageAbsent", w[s].reading, w[s].known)
      /\ StageAbsent(s) => MovesTo(s, "publish", w[s].reading, w[s].known)
      /\ Commit(s) => Rest(s) \/ MovesTo(s, "current", w[s].reading, w[s].known)
  BY <1>1 DEF BeginGeneration, StageChanged, StageAbsent, Commit, Steps
<1>5. ASSUME ReadIndex(s)
      PROVE  \/ MovesTo(s, "stage", IndexReading(s), inventory) /\ Distinct(IndexReading(s))
             \/ MovesTo(s, "failGeneration", IndexReading(s), inventory)
  <2>1. IndexReading(s) \in SUBSET Items
    BY <1>0, ReadTyped DEF IndexReading
  <2>2. w' = [w EXCEPT ![s].pc = IF Distinct(IndexReading(s)) THEN "stage" ELSE "failGeneration",
                       ![s].reading = IndexReading(s), ![s].known = inventory]
    BY <1>5 DEF ReadIndex, IndexReading, ReadNow
  <2>3. "stage" \in Steps /\ "failGeneration" \in Steps
    BY DEF Steps
  <2>4. CASE Distinct(IndexReading(s))
    <3>1. w' = [w EXCEPT ![s].pc = "stage", ![s].reading = IndexReading(s), ![s].known = inventory]
      BY <2>2, <2>4
    <3> QED
      BY <1>0, <2>1, <2>3, <2>4, <3>1, Moves
  <2>5. CASE ~Distinct(IndexReading(s))
    <3>1. w' = [w EXCEPT ![s].pc = "failGeneration", ![s].reading = IndexReading(s), ![s].known = inventory]
      BY <2>2, <2>5
    <3> QED
      BY <1>0, <2>1, <2>3, <3>1, Moves
  <2> QED
    BY <2>4, <2>5
<1>6. StagingFails(s) \/ PublishFails(s) => MovesTo(s, "failGeneration", {}, NoDelta)
  <2>1. "failGeneration" \in Steps
    BY DEF Steps
  <2>2. StagingFails(s) \/ PublishFails(s)
          => w' = [w EXCEPT ![s].pc = "failGeneration", ![s].known = NoDelta, ![s].reading = {}]
    BY DEF StagingFails, PublishFails
  <2> QED
    BY <1>0, <2>1, <2>2, Moves
<1>7. ASSUME Publish(s)
      PROVE  MovesTo(s, "catalog", w[s].reading, NoDelta) \/ MovesTo(s, "failGeneration", {}, NoDelta)
  <2>1. "failGeneration" \in Steps /\ "catalog" \in Steps
    BY DEF Steps
  <2>2. \/ w' = [w EXCEPT ![s].pc = "catalog", ![s].known = NoDelta, ![s].reading = w[s].reading]
        \/ w' = [w EXCEPT ![s].pc = "failGeneration", ![s].known = NoDelta, ![s].reading = {}]
    <3>1. PICK next \in {"catalog", "failGeneration"} :
            w' = [w EXCEPT ![s].pc = next, ![s].known = NoDelta, ![s].reading = IF next = "catalog" THEN @ ELSE {}]
      BY <1>7 DEF Publish
    <3> QED
      BY <3>1
  <2>3. w' = [w EXCEPT ![s].pc = "catalog", ![s].known = NoDelta, ![s].reading = w[s].reading]
          => MovesTo(s, "catalog", w[s].reading, NoDelta)
    BY <1>0, <2>1, Moves
  <2>4. w' = [w EXCEPT ![s].pc = "failGeneration", ![s].known = NoDelta, ![s].reading = {}]
          => MovesTo(s, "failGeneration", {}, NoDelta)
    BY <1>0, <2>1, Moves
  <2> QED
    BY <2>2, <2>3, <2>4
<1>8. ASSUME WriteCatalog(s)
      PROVE  Rest(s) \/ (MovesTo(s, "commit", {}, w[s].known) /\ IsOperation(s))
  <2>1. CASE Rest(s)
    BY <2>1
  <2>2. CASE IsOperation(s) /\ w' = [w EXCEPT ![s].pc = "commit", ![s].reading = {}]
    <3>1. "commit" \in Steps
      BY DEF Steps
    <3>2. MovesTo(s, "commit", {}, w[s].known)
      BY <1>0, <2>2, <3>1, Moves
    <3> QED
      BY <2>2, <3>2
  <2>3. Rest(s) \/ (IsOperation(s) /\ w' = [w EXCEPT ![s].pc = "commit", ![s].reading = {}])
    BY <1>8 DEF WriteCatalog, PublicationFails
  <2> QED
    BY <2>1, <2>2, <2>3
<1> QED
  BY <1>2, <1>3, <1>4, <1>5, <1>6, <1>7, <1>8

LEMMA ReplayMoves ==
  ASSUME TypeOK, NEW s \in Workers, Replay(s), w[s].run \in Requests
  PROVE  \/ Failed(w[s].run, w[s].seen, "other") /\ Rest(s)
         \/ /\ StoredTotal(w[s].run) = w[s].seen.total /\ UNCHANGED <<ops, pages>>
            /\ \/ runs[w[s].run].status = "none" /\ MovesTo(s, "recover", StoredItems(w[s].run), w[s].known)
               \/ runs[w[s].run].status = "succeeded" /\ MovesTo(s, "catalog", StoredItems(w[s].run), w[s].known)
<1>1. StoredItems(w[s].run) \in SUBSET Items /\ w[s].known \in [Codes -> Row]
  BY ReadTyped DEF TypeOK
<1>2. "recover" \in Steps /\ "catalog" \in Steps
  BY DEF Steps
<1>3. CASE /\ StoredTotal(w[s].run) = w[s].seen.total
           /\ runs[w[s].run].status \in {"none", "succeeded"}
           /\ w' = [w EXCEPT ![s].pc = IF runs[w[s].run].status = "none" THEN "recover" ELSE "catalog",
                             ![s].reading = StoredItems(w[s].run)]
           /\ UNCHANGED <<ops, pages>>
  <2>1. CASE runs[w[s].run].status = "none"
    <3>1. w' = [w EXCEPT ![s].pc = "recover", ![s].reading = StoredItems(w[s].run)]
      BY <1>3, <2>1
    <3> QED
      BY <1>1, <1>2, <1>3, <2>1, <3>1, Moves
  <2>2. CASE runs[w[s].run].status = "succeeded"
    <3>1. w' = [w EXCEPT ![s].pc = "catalog", ![s].reading = StoredItems(w[s].run)]
      BY <1>3, <2>2
    <3> QED
      BY <1>1, <1>2, <1>3, <2>2, <3>1, Moves
  <2> QED
    BY <1>3, <2>1, <2>2
<1> QED
  BY <1>3 DEF Replay

LEMMA PublishTypes ==
  ASSUME TypeOK, Placed, NEW s \in Workers,
         \/ Replay(s) \/ Recover(s) \/ ClaimRun(s) \/ BeginGeneration(s) \/ ReadIndex(s)
         \/ StageChanged(s) \/ StageAbsent(s) \/ StagingFails(s) \/ Publish(s) \/ PublishFails(s)
         \/ FailGeneration(s) \/ WriteCatalog(s) \/ Commit(s)
  PROVE  TypeOK' /\ Placed'
<1> USE DEF tables, world
<1>0. /\ ops \in [Requests -> OpRecord] /\ pages \in [Requests -> [0..NumCodes-1 -> Page]]
      /\ runs \in [Runs -> [status : {"none", "running", "succeeded", "failed"}, old : BOOLEAN]]
      /\ gens \in [Runs -> {"none", "loading", "published", "superseded", "failed"}]
      /\ staged \in [Runs -> [Codes -> Row]] /\ inventory \in [Codes -> Row]
      /\ catalog \in [run : Runs \cup {None}, items : SUBSET Items]
      /\ w \in [Workers -> Worker] /\ Requests \subseteq Runs
      /\ w[s].reading \in SUBSET Items /\ w[s].known \in [Codes -> Row]
      /\ {} \in SUBSET Items /\ NoDelta \in [Codes -> Row]
  BY Blanks DEF TypeOK, Worker, Page, Runs
<1>1. ASSUME UNCHANGED <<collecting, dux, deaths, changes>>,
             ops' \in [Requests -> OpRecord], pages' \in [Requests -> [0..NumCodes-1 -> Page]],
             runs' \in [Runs -> [status : {"none", "running", "succeeded", "failed"}, old : BOOLEAN]],
             gens' \in [Runs -> {"none", "loading", "published", "superseded", "failed"}],
             staged' \in [Runs -> [Codes -> Row]], inventory' \in [Codes -> Row],
             catalog' \in [run : Runs \cup {None}, items : SUBSET Items],
             w' \in [Workers -> Worker]
      PROVE  TypeOK'
  BY <1>1 DEF TypeOK, Worker, Page
<1>2. w[s].run \in Runs
  BY DEF Placed, Replay, Recover, ClaimRun, BeginGeneration, ReadIndex, StageChanged, StageAbsent,
         StagingFails, Publish, PublishFails, FailGeneration, WriteCatalog, Commit
<1>3. ASSUME Rest(s) PROVE w' \in [Workers -> Worker] /\ Placed'
  <2>1. w'[s].pc = "idle" /\ \A t \in Workers \ {s} : w'[t] = w[t]
    BY <1>0, <1>3 DEF Rest, Idle
  <2> QED
    BY <1>3, <2>1, WorkerTypes DEF Placed, OpSteps
<1>4. ASSUME NEW pc \in Steps \ {"read"}, pc \in OpSteps => w[s].run \in Requests,
             NEW reading \in SUBSET Items, NEW known \in [Codes -> Row], MovesTo(s, pc, reading, known)
      PROVE  w' \in [Workers -> Worker] /\ Placed'
  <2> DEFINE v == To(s, pc, reading, known)
  <2>1. v \in Worker /\ v.run = w[s].run /\ v.pc = pc
    BY <1>4, ToTypes
  <2>2. w' = [w EXCEPT ![s] = v]
    BY <1>4 DEF MovesTo
  <2> HIDE DEF v
  <2> QED
    BY <1>2, <1>4, <2>1, <2>2, GoesOn
<1>5. /\ {"claimRun", "begin", "index", "stage", "stageAbsent", "publish", "failGeneration", "catalog", "recover"}
           \subseteq (Steps \ {"read"}) \ OpSteps
      /\ {"commit", "current"} \subseteq Steps \ {"read"}
  BY DEF Steps, OpSteps
<1>6. ASSUME PublicationFails(s)
      PROVE  /\ ops' \in [Requests -> OpRecord] /\ pages' \in [Requests -> [0..NumCodes-1 -> Page]]
             /\ w' \in [Workers -> Worker] /\ Placed'
  BY <1>0, <1>3, <1>6, FailedTypes DEF PublicationFails, IsOperation
<1>a. CASE Replay(s)
  <2>1. w[s].run \in Requests
    BY <1>a DEF Replay, Placed, OpSteps
  <2>2. StoredItems(w[s].run) \in SUBSET Items
    BY <2>1, ReadTyped
  <2>3. CASE Failed(w[s].run, w[s].seen, "other") /\ Rest(s)
    BY <1>0, <1>1, <1>3, <1>a, <2>1, <2>3, FailedTypes DEF Replay
  <2>4. CASE MovesTo(s, "recover", StoredItems(w[s].run), w[s].known) /\ UNCHANGED <<ops, pages>>
    <3>1. w' \in [Workers -> Worker] /\ Placed'
      BY <1>0, <1>4, <1>5, <2>2, <2>4
    <3> QED
      BY <1>0, <1>1, <1>a, <2>4, <3>1 DEF Replay
  <2>5. CASE MovesTo(s, "catalog", StoredItems(w[s].run), w[s].known) /\ UNCHANGED <<ops, pages>>
    <3>1. w' \in [Workers -> Worker] /\ Placed'
      BY <1>0, <1>4, <1>5, <2>2, <2>5
    <3> QED
      BY <1>0, <1>1, <1>a, <2>5, <3>1 DEF Replay
  <2> QED
    BY <1>a, <2>1, <2>3, <2>4, <2>5, ReplayMoves
<1>b. CASE Recover(s)
  <2>1. w' \in [Workers -> Worker] /\ Placed'
    BY <1>0, <1>4, <1>5, <1>b, PublicationMoves
  <2>2. /\ gens' \in [Runs -> {"none", "loading", "published", "superseded", "failed"}]
        /\ staged' \in [Runs -> [Codes -> Row]]
        /\ runs' \in [Runs -> [status : {"none", "running", "succeeded", "failed"}, old : BOOLEAN]]
    BY <1>0, <1>b DEF Recover, EndedRun
  <2> QED
    BY <1>0, <1>1, <1>b, <2>1, <2>2 DEF Recover
<1>c. CASE ClaimRun(s)
  <2>1. CASE MovesTo(s, "begin", w[s].reading, w[s].known) /\ CanClaimRun(w[s].run)
    <3>1. w' \in [Workers -> Worker] /\ Placed'
      BY <1>0, <1>4, <1>5, <2>1
    <3>2. UNCHANGED <<ops, pages>> /\ runs' = [runs EXCEPT ![w[s].run] = [status |-> "running", old |-> FALSE]]
      BY <1>c, <2>1 DEF ClaimRun
    <3> QED
      BY <1>0, <1>1, <1>2, <1>c, <3>1, <3>2 DEF ClaimRun
  <2>2. CASE PublicationFails(s) /\ UNCHANGED runs
    BY <1>0, <1>1, <1>6, <1>c, <2>2 DEF ClaimRun
  <2>3. "begin" \in Steps
    BY DEF Steps
  <2>4. Goto(s, "begin") => MovesTo(s, "begin", w[s].reading, w[s].known)
    BY <1>0, <2>3, Moves
  <2> QED
    BY <1>c, <2>1, <2>2, <2>4 DEF ClaimRun
<1>d. CASE BeginGeneration(s)
  <2>1. w' \in [Workers -> Worker] /\ Placed'
    BY <1>0, <1>4, <1>5, <1>d, PublicationMoves
  <2> QED
    BY <1>0, <1>1, <1>2, <1>d, <2>1 DEF BeginGeneration
<1>e. CASE ReadIndex(s)
  <2>1. IndexReading(s) \in SUBSET Items
    BY <1>0, ReadTyped DEF IndexReading
  <2>2. \/ MovesTo(s, "stage", IndexReading(s), inventory)
        \/ MovesTo(s, "failGeneration", IndexReading(s), inventory)
    BY <1>e, PublicationMoves
  <2>3. w' \in [Workers -> Worker] /\ Placed'
    BY <1>0, <1>4, <1>5, <2>1, <2>2
  <2> QED
    BY <1>0, <1>1, <1>e, <2>3 DEF ReadIndex
<1>f. CASE StageChanged(s) \/ StageAbsent(s)
  <2>1. w' \in [Workers -> Worker] /\ Placed'
    BY <1>0, <1>4, <1>5, <1>f, PublicationMoves
  <2> QED
    BY <1>0, <1>1, <1>f, <2>1, StagedTypes DEF StageChanged, StageAbsent
<1>g. CASE StagingFails(s) \/ PublishFails(s)
  <2>1. w' \in [Workers -> Worker] /\ Placed'
    BY <1>0, <1>4, <1>5, <1>g, PublicationMoves
  <2> QED
    BY <1>0, <1>1, <1>g, <2>1 DEF StagingFails, PublishFails
<1>h. CASE Publish(s)
  <2>1. w' \in [Workers -> Worker] /\ Placed'
    BY <1>0, <1>4, <1>5, <1>h, PublicationMoves
  <2>2. /\ gens' \in [Runs -> {"none", "loading", "published", "superseded", "failed"}]
        /\ runs' \in [Runs -> [status : {"none", "running", "succeeded", "failed"}, old : BOOLEAN]]
    BY <1>0, <1>2, <1>h DEF Publish, EndedRun
  <2> QED
    BY <1>0, <1>1, <1>h, <2>1, <2>2, StagedTypes DEF Publish
<1>i. CASE FailGeneration(s)
  <2>1. /\ gens' \in [Runs -> {"none", "loading", "published", "superseded", "failed"}]
        /\ staged' \in [Runs -> [Codes -> Row]]
        /\ runs' \in [Runs -> [status : {"none", "running", "succeeded", "failed"}, old : BOOLEAN]]
    BY <1>0, <1>2, <1>i DEF FailGeneration, EndedRun
  <2>2. PublicationFails(s) /\ UNCHANGED <<inventory, catalog, collecting, dux, deaths, changes>>
    BY <1>i DEF FailGeneration
  <2> QED
    BY <1>0, <1>1, <1>6, <2>1, <2>2
<1>j. CASE WriteCatalog(s)
  <2>1. catalog' \in [run : Runs \cup {None}, items : SUBSET Items]
    BY <1>0, <1>2, <1>j DEF WriteCatalog
  <2>2. UNCHANGED <<runs, gens, staged, inventory, collecting, dux, deaths, changes>>
    BY <1>j DEF WriteCatalog
  <2>3. CASE PublicationFails(s)
    BY <1>0, <1>1, <1>6, <2>1, <2>2, <2>3
  <2>4. CASE UNCHANGED <<ops, pages>> /\ MovesTo(s, "commit", {}, w[s].known) /\ IsOperation(s)
    <3>1. w' \in [Workers -> Worker] /\ Placed'
      BY <1>0, <1>4, <1>5, <2>4 DEF IsOperation
    <3> QED
      BY <1>0, <1>1, <2>1, <2>2, <2>4, <3>1
  <2>5. CASE UNCHANGED <<ops, pages>> /\ Rest(s)
    BY <1>0, <1>1, <1>3, <2>1, <2>2, <2>5
  <2>6. UNCHANGED <<ops, pages>> \/ PublicationFails(s)
    BY <1>j DEF WriteCatalog
  <2> QED
    BY <1>j, <2>3, <2>4, <2>5, <2>6, PublicationMoves
<1>k. CASE Commit(s)
  <2>1. w[s].run \in Requests
    BY <1>k DEF Commit, Placed, OpSteps
  <2>2. w' \in [Workers -> Worker] /\ Placed'
    <3>1. Rest(s) \/ MovesTo(s, "current", w[s].reading, w[s].known)
      BY <1>k, PublicationMoves
    <3> QED
      BY <1>0, <1>3, <1>4, <1>5, <2>1, <3>1
  <2>3. ops' \in [Requests -> OpRecord] /\ pages' \in [Requests -> [0..NumCodes-1 -> Page]]
    <3>1. Closed("completed", None) \in OpRecord
      BY Blanks
    <3>2. CASE UNCHANGED <<ops, pages>>
      BY <1>0, <3>2
    <3>3. CASE /\ ops' = [ops EXCEPT ![w[s].run] = Closed("completed", None)]
               /\ pages' = [pages EXCEPT ![w[s].run] = NoPages]
      <4>1. ops' \in [Requests -> OpRecord]
        BY <1>0, <2>1, <3>1, <3>3
      <4>2. pages' \in [Requests -> [0..NumCodes-1 -> Page]]
        BY <1>0, <2>1, <3>3, Blanks
      <4> QED
        BY <4>1, <4>2
    <3> QED
      BY <1>k, <3>2, <3>3 DEF Commit
  <2> QED
    BY <1>0, <1>1, <1>k, <2>2, <2>3 DEF Commit
<1> QED
  BY <1>a, <1>b, <1>c, <1>d, <1>e, <1>f, <1>g, <1>h, <1>i, <1>j, <1>k

LEMMA WorldTypes ==
  ASSUME TypeOK, Placed,
         \/ \E s \in Workers : Die(s) \/ \E r \in Legacy : LegacyCall(s, r)
         \/ \E r \in Requests : LeaseExpires(r) \/ RetryDue(r) \/ DeadlinePasses(r)
         \/ \E r \in Runs : RunAges(r)
         \/ DuxChanges \/ StopCollecting
  PROVE  TypeOK' /\ Placed'
<1> USE DEF tables, world
<1>0. /\ ops \in [Requests -> OpRecord] /\ w \in [Workers -> Worker]
      /\ runs \in [Runs -> [status : {"none", "running", "succeeded", "failed"}, old : BOOLEAN]]
      /\ Legacy \subseteq Runs
  BY DEF TypeOK, Worker, Runs
<1>1. ASSUME NEW s \in Workers, Die(s) PROVE TypeOK' /\ Placed'
  <2>1. w' \in [Workers -> Worker] /\ Rest(s)
    BY <1>1, WorkerTypes DEF Die
  <2>2. w'[s].pc = "idle" /\ \A t \in Workers \ {s} : w'[t] = w[t]
    BY <1>0, <2>1 DEF Rest, Idle
  <2>3. deaths' \in 0..MaxDeaths
    BY <1>1, SyncAssumption DEF Die, TypeOK
  <2> QED
    BY <1>1, <2>1, <2>2, <2>3 DEF Die, TypeOK, Worker, Placed, OpSteps
<1>2. ASSUME NEW s \in Workers, NEW r \in Legacy, LegacyCall(s, r) PROVE TypeOK' /\ Placed'
  <2> DEFINE v == [Idle EXCEPT !.run = r, !.pc = "recover"]
  <2>1. v \in Worker /\ v.pc = "recover" /\ v.run = r
    BY <1>0, Blanks DEF Idle, Worker, Steps
  <2>2. w' = [w EXCEPT ![s] = v]
    BY <1>2 DEF LegacyCall
  <2> HIDE DEF v
  <2>3. w' \in [Workers -> Worker] /\ w'[s] = v /\ \A t \in Workers \ {s} : w'[t] = w[t]
    BY <1>0, <2>1, <2>2
  <2>4. r \in Runs /\ "recover" \notin OpSteps
    BY <1>0 DEF OpSteps
  <2> QED
    BY <1>2, <2>1, <2>3, <2>4 DEF LegacyCall, TypeOK, Worker, Placed
<1>3. ASSUME NEW r \in Requests, LeaseExpires(r) \/ RetryDue(r) \/ DeadlinePasses(r) PROVE TypeOK' /\ Placed'
  <2>1. ops' \in [Requests -> OpRecord]
    <3>1. /\ [ops[r] EXCEPT !.live = FALSE] \in OpRecord /\ [ops[r] EXCEPT !.wait = FALSE] \in OpRecord
          /\ [ops[r] EXCEPT !.overdue = TRUE] \in OpRecord
      <4>1. ops[r] \in OpRecord
        BY <1>0
      <4> QED
        BY <4>1 DEF OpRecord
    <3>2. \/ ops' = [ops EXCEPT ![r] = [ops[r] EXCEPT !.live = FALSE]]
          \/ ops' = [ops EXCEPT ![r] = [ops[r] EXCEPT !.wait = FALSE]]
          \/ ops' = [ops EXCEPT ![r] = [ops[r] EXCEPT !.overdue = TRUE]]
      <4>1. CASE LeaseExpires(r)
        BY <1>0, <4>1 DEF LeaseExpires
      <4>2. CASE RetryDue(r)
        BY <1>0, <4>2 DEF RetryDue
      <4>3. CASE DeadlinePasses(r)
        BY <1>0, <4>3 DEF DeadlinePasses
      <4> QED
        BY <1>3, <4>1, <4>2, <4>3
    <3> QED
      BY <1>0, <3>1, <3>2
  <2> QED
    BY <1>3, <2>1 DEF LeaseExpires, RetryDue, DeadlinePasses, TypeOK, Placed
<1>4. ASSUME NEW r \in Runs, RunAges(r) PROVE TypeOK' /\ Placed'
  <2>1. runs' \in [Runs -> [status : {"none", "running", "succeeded", "failed"}, old : BOOLEAN]]
    BY <1>0, <1>4 DEF RunAges
  <2> QED
    BY <1>4, <2>1 DEF RunAges, TypeOK, Placed
<1>5. CASE DuxChanges
  <2>1. dux' \in [Codes -> Values \cup {None}]
    <3>1. PICK c \in Codes, v \in Values \cup {None} : dux' = [dux EXCEPT ![c] = v]
      BY <1>5 DEF DuxChanges
    <3> QED
      BY <3>1 DEF TypeOK
  <2>2. changes' \in 0..MaxChanges
    BY <1>5, SyncAssumption DEF DuxChanges, TypeOK
  <2> QED
    BY <1>5, <2>1, <2>2 DEF DuxChanges, TypeOK, Placed
<1>6. CASE StopCollecting
  <2>1. collecting' \in BOOLEAN
    BY <1>6 DEF StopCollecting
  <2>2. changes' \in 0..MaxChanges
    BY <1>6, SyncAssumption DEF StopCollecting, TypeOK
  <2> QED
    BY <1>6, <2>1, <2>2 DEF StopCollecting, TypeOK, Placed
<1> QED
  BY <1>1, <1>2, <1>3, <1>4, <1>5, <1>6

\* Every step keeps the types and the workers in their places.
LEMMA StepTypes == ASSUME TypeOK, Placed, [Next]_vars PROVE TypeOK' /\ Placed'
<1>1. CASE UNCHANGED vars
  BY <1>1 DEF vars, TypeOK, Placed
<1> QED
  BY <1>1, ClaimTypes, ReadTypes, PublishTypes, WorldTypes DEF Next, Call, Continue

\* Every variable keeps its type, and a worker at a step of an operation belongs to one.
THEOREM TypeCorrect == Spec => []TypeOK /\ []Placed
<1>1. TypeOK /\ Placed /\ [Next]_vars => TypeOK' /\ Placed'
  BY StepTypes
<1> QED
  BY <1>1, InitTypeOK, PTL DEF Spec

-----------------------------------------------------------------------------
(* Leases *)

\* A live lease belongs to a running operation, and an unconfirmed start that a worker saw
\* expire stays expired: the next lease has a token nobody remembers.
Protected ==
  /\ \A r \in Requests : ops[r].live => ops[r].status = "running"
  /\ \A s \in Workers : w[s].pc = "uncertain" => ~(ops[w[s].run].live /\ ops[w[s].run].token = w[s].seen.token)

\* What a step does to the leases: one stays with its token or is granted with a fresh one;
\* a worker comes to an unconfirmed start only when the lease is over; and an operation
\* fails under a live lease by the hand of one who saw its token.
Granted(x) == ops'[x].status = "running" /\ \A t \in Workers : w[t].seen.token # ops'[x].token
Kept(x)    == ops[x].live /\ ops'[x].token = ops[x].token /\ ops'[x].status = ops[x].status
LiveStep   == \A x \in Requests : ops'[x].live => Kept(x) \/ Granted(x)
DoubtStep  == \A t \in Workers : w'[t].pc = "uncertain" =>
                \/ w[t].pc = "uncertain" /\ w'[t].run = w[t].run /\ w'[t].seen = w[t].seen
                \/ ~ops'[w'[t].run].live
Saw(s, x)  == w[s].run = x /\ ops[x].token = w[s].seen.token
FailStep   == \A x \in Requests : ops[x].live /\ ops'[x].status = "failed" =>
                \/ ops[x].status = "failed"
                \/ \E s \in Workers : Saw(s, x) /\ (w'[s] = Idle \/ w[s].pc = "uncertain")
LeaseStep  == LiveStep /\ DoubtStep /\ FailStep

LEMMA FailedLeases ==
  ASSUME TypeOK, NEW r \in Requests, NEW seen, NEW error, Failed(r, seen, error)
  PROVE  /\ LiveStep
         /\ \A x \in Requests : ops'[x].status = "failed" =>
              ops[x].status = "failed" \/ (x = r /\ ops[r].token = seen.token)
<1>1. ops \in [Requests -> OpRecord]
  BY DEF TypeOK
<1>2. CASE UNCHANGED ops
  BY <1>2 DEF LiveStep, Kept
<1>3. CASE ops' = [ops EXCEPT ![r] = Closed("failed", error)] /\ ops[r].token = seen.token
  <2>1. ~Closed("failed", error).live
    BY DEF Closed, FreshOp
  <2>2. ops'[r] = Closed("failed", error) /\ \A x \in Requests \ {r} : ops'[x] = ops[x]
    BY <1>1, <1>3
  <2> QED
    BY <1>3, <2>1, <2>2 DEF LiveStep, Kept
<1> QED
  BY <1>2, <1>3 DEF Failed

LEMMA WorkerLeases ==
  ASSUME TypeOK, NEW s \in Workers
  PROVE  /\ Rest(s) => DoubtStep /\ w'[s] = Idle
         /\ \A pc \in Steps \ {"uncertain"} : Goto(s, pc) => DoubtStep
         /\ \A pc \in Steps \ {"uncertain"} : \A reading, known : MovesTo(s, pc, reading, known) => DoubtStep
<1>1. w \in [Workers -> Worker]
  BY DEF TypeOK, Worker
<1>2. Rest(s) => DoubtStep /\ w'[s] = Idle
  BY <1>1 DEF Rest, Idle, DoubtStep
<1>3. ASSUME NEW pc \in Steps \ {"uncertain"}, Goto(s, pc) PROVE DoubtStep
  <2>1. w'[s].pc = pc /\ \A t \in Workers \ {s} : w'[t] = w[t]
    BY <1>1, <1>3 DEF Goto, Worker
  <2> QED
    BY <1>3, <2>1 DEF DoubtStep
<1>4. ASSUME NEW pc \in Steps \ {"uncertain"}, NEW reading, NEW known, MovesTo(s, pc, reading, known) PROVE DoubtStep
  <2>1. w'[s].pc = pc /\ \A t \in Workers \ {s} : w'[t] = w[t]
    BY <1>1, <1>4 DEF MovesTo, To
  <2> QED
    BY <1>4, <2>1 DEF DoubtStep
<1> QED
  BY <1>2, <1>3, <1>4

LEMMA ClaimLeases ==
  ASSUME TypeOK, Placed, NEW s \in Workers,
         \/ \E r \in Requests : Ask(s, r) \/ Start(s, r)
         \/ Prepay(s) \/ CloseUncertain(s) \/ CloseOverdue(s) \/ Claim(s) \/ Current(s)
  PROVE  LeaseStep
<1>0. /\ ops \in [Requests -> OpRecord] /\ w \in [Workers -> Worker]
      /\ \A t \in Workers : w[t].seen.token # FreshToken
  BY TokenIsFresh DEF TypeOK, Worker
<1>1. UNCHANGED ops => LiveStep /\ FailStep
  BY DEF LiveStep, Kept, FailStep
<1>2. "current" \in Steps \ {"uncertain"}
  BY DEF Steps
<1>a. ASSUME NEW r \in Requests, Ask(s, r) PROVE LeaseStep
  <2>1. UNCHANGED ops /\ ~ops[r].live
    BY <1>a DEF Ask, tables, LeaseFree
  <2>2. w'[s].run = r /\ \A t \in Workers \ {s} : w'[t] = w[t]
    BY <1>0, <1>a DEF Ask, Idle
  <2> QED
    BY <1>1, <2>1, <2>2 DEF LeaseStep, DoubtStep
<1>b. ASSUME NEW r \in Requests, Start(s, r) PROVE LeaseStep
  <2> DEFINE expired == {x \in Requests : ops[x].status = "running" /\ LeaseFree(ops[x]) /\ ops[x].overdue}
             closed  == [x \in Requests |-> IF x \in expired THEN Closed("failed", "kept") ELSE ops[x]]
             opened  == [FreshOp EXCEPT !.status = "running", !.token = FreshToken, !.live = TRUE]
  <2>1. \A x \in expired : ~ops[x].live
    BY DEF LeaseFree
  <2>2. \A x \in Requests : closed[x] = ops[x] \/ (x \in expired /\ ~closed[x].live /\ closed[x].status = "failed")
    BY DEF Closed, FreshOp
  <2>3. opened.status = "running" /\ opened.token = FreshToken
    BY DEF FreshOp
  <2> HIDE DEF expired, closed, opened
  <2>4. /\ ops' = closed \/ ops' = [closed EXCEPT ![r] = opened]
        /\ UNCHANGED w \/ w' = [w EXCEPT ![s] = [Idle EXCEPT !.run = r, !.pc = "prepay", !.seen = ops'[r]]]
    BY <1>b DEF Start, expired, closed, opened
  <2>5. \A x \in Requests : ops'[x] = closed[x] \/ ops'[x] = opened
    BY <2>4 DEF closed
  <2>6. LiveStep /\ FailStep
    BY <1>0, <2>1, <2>2, <2>3, <2>5 DEF LiveStep, Kept, Granted, FailStep
  <2>7. DoubtStep
    <3>1. CASE UNCHANGED w
      BY <3>1 DEF DoubtStep
    <3>2. CASE w' = [w EXCEPT ![s] = [Idle EXCEPT !.run = r, !.pc = "prepay", !.seen = ops'[r]]]
      <4>1. w'[s].pc = "prepay" /\ \A t \in Workers \ {s} : w'[t] = w[t]
        BY <1>0, <3>2 DEF Idle
      <4> QED
        BY <4>1 DEF DoubtStep
    <3> QED
      BY <2>4, <3>1, <3>2
  <2> QED
    BY <2>6, <2>7 DEF LeaseStep
<1>c. CASE Prepay(s)
  <2>1. w[s].run \in Requests
    BY <1>c DEF Prepay, Placed, OpSteps
  <2>2. CASE Failed(w[s].run, w[s].seen, "other") /\ Rest(s)
    BY <2>1, <2>2, FailedLeases, WorkerLeases DEF LeaseStep, FailStep, Saw
  <2>3. CASE Rest(s) /\ UNCHANGED <<ops, pages>>
    BY <1>1, <2>3, WorkerLeases DEF LeaseStep
  <2>4. CASE /\ ops' = IF HoldsLease(s) THEN [ops EXCEPT ![w[s].run] = [@ EXCEPT !.token = 0, !.live = FALSE]] ELSE ops
             /\ \/ ~ops'[w[s].run].live /\ w' = [w EXCEPT ![s].pc = Entry(ops'[w[s].run]), ![s].seen = ops'[w[s].run]]
                \/ Rest(s)
    <3>1. LiveStep /\ FailStep
      <4>1. CASE UNCHANGED ops
        BY <1>1, <4>1
      <4>2. CASE HoldsLease(s) /\ ops' = [ops EXCEPT ![w[s].run] = [@ EXCEPT !.token = 0, !.live = FALSE]]
        <5>1. /\ \A x \in Requests \ {w[s].run} : ops'[x] = ops[x]
              /\ ~ops'[w[s].run].live /\ ops'[w[s].run].status = ops[w[s].run].status
          BY <1>0, <2>1, <4>2 DEF OpRecord
        <5> QED
          BY <5>1 DEF LiveStep, Kept, FailStep
      <4> QED
        BY <2>4, <4>1, <4>2
    <3>2. DoubtStep
      <4>1. CASE ~ops'[w[s].run].live /\ w' = [w EXCEPT ![s].pc = Entry(ops'[w[s].run]), ![s].seen = ops'[w[s].run]]
        <5>1. w'[s].run = w[s].run /\ \A t \in Workers \ {s} : w'[t] = w[t]
          BY <1>0, <4>1 DEF Worker
        <5> QED
          BY <4>1, <5>1 DEF DoubtStep
      <4> QED
        BY <2>4, <4>1, WorkerLeases
    <3> QED
      BY <3>1, <3>2 DEF LeaseStep
  <2> QED
    BY <1>c, <2>2, <2>3, <2>4 DEF Prepay, LeaseFree
<1>d. CASE CloseUncertain(s)
  <2>1. w[s].run \in Requests /\ w[s].pc = "uncertain" /\ Failed(w[s].run, w[s].seen, "kept") /\ Goto(s, "current")
    BY <1>d DEF CloseUncertain, Placed, OpSteps
  <2> QED
    BY <1>2, <2>1, FailedLeases, WorkerLeases DEF LeaseStep, FailStep, Saw
<1>e. CASE CloseOverdue(s)
  <2>1. w[s].run \in Requests /\ Failed(w[s].run, w[s].seen, "kept") /\ Rest(s)
    BY <1>e DEF CloseOverdue, Placed, OpSteps
  <2> QED
    BY <2>1, FailedLeases, WorkerLeases DEF LeaseStep, FailStep, Saw
<1>f. CASE Claim(s)
  <2> DEFINE o == ops[w[s].run]
             step == IF Publishing(o) THEN 0 ELSE 1
             claimed == [o EXCEPT !.token = FreshToken, !.live = TRUE, !.attempts = @ + step, !.tries = @ + step]
  <2>1. w[s].run \in Requests /\ o \in OpRecord
    BY <1>f, <1>0 DEF Claim, Placed, OpSteps
  <2>2. CASE UNCHANGED ops /\ Goto(s, "current")
    BY <1>1, <1>2, <2>2, WorkerLeases DEF LeaseStep
  <2>3. CASE /\ o.status = "running" /\ ops' = [ops EXCEPT ![w[s].run] = claimed]
             /\ w' = [w EXCEPT ![s].pc = IF Publishing(o) THEN "replay" ELSE "read", ![s].seen = claimed]
    <3>1. claimed.status = o.status /\ claimed.token = FreshToken
      BY <2>1 DEF OpRecord
    <3> HIDE DEF claimed
    <3>2. ops'[w[s].run] = claimed /\ \A x \in Requests \ {w[s].run} : ops'[x] = ops[x]
      BY <1>0, <2>1, <2>3
    <3>3. w'[s].pc # "uncertain" /\ \A t \in Workers \ {s} : w'[t] = w[t]
      BY <1>0, <2>3 DEF Worker
    <3> QED
      BY <1>0, <2>3, <3>1, <3>2, <3>3 DEF LeaseStep, LiveStep, DoubtStep, FailStep, Kept, Granted
  <2> QED
    BY <1>f, <2>2, <2>3 DEF Claim
<1>g. CASE Current(s)
  <2>1. w[s].run \in Requests /\ Rest(s)
    BY <1>g DEF Current, Placed, OpSteps
  <2>2. CASE UNCHANGED ops
    BY <1>1, <2>1, <2>2, WorkerLeases DEF LeaseStep
  <2>3. CASE Exhausted(ops[w[s].run]) /\ \E error \in {"kept", "other"} : Failed(w[s].run, ops[w[s].run], error)
    <3>1. ~ops[w[s].run].live
      BY <2>3 DEF Exhausted, LeaseFree
    <3>2. PICK error \in {"kept", "other"} : Failed(w[s].run, ops[w[s].run], error)
      BY <2>3
    <3> QED
      BY <2>1, <3>1, <3>2, FailedLeases, WorkerLeases DEF LeaseStep, FailStep
  <2> QED
    BY <1>g, <2>2, <2>3 DEF Current
<1> QED
  BY <1>a, <1>b, <1>c, <1>d, <1>e, <1>f, <1>g

LEMMA OtherLeases ==
  ASSUME TypeOK, Placed, NEW s \in Workers,
         \/ Checkpoint(s) \/ Defer(s) \/ ReadFails(s)
         \/ Replay(s) \/ Recover(s) \/ ClaimRun(s) \/ BeginGeneration(s) \/ ReadIndex(s)
         \/ StageChanged(s) \/ StageAbsent(s) \/ StagingFails(s) \/ Publish(s) \/ PublishFails(s)
         \/ FailGeneration(s) \/ WriteCatalog(s) \/ Commit(s) \/ Die(s)
         \/ \E r \in Legacy : LegacyCall(s, r)
  PROVE  LeaseStep
<1> USE DEF tables
<1>0. ops \in [Requests -> OpRecord] /\ w \in [Workers -> Worker]
  BY DEF TypeOK, Worker
<1>1. UNCHANGED ops => LiveStep /\ FailStep
  BY DEF LiveStep, Kept, FailStep
<1>2. {"current", "claimRun", "begin", "index", "stage", "stageAbsent", "publish", "failGeneration", "catalog", "commit", "recover"}
        \subseteq Steps \ {"uncertain"}
  BY DEF Steps
<1>3. ASSUME w[s].run \in Requests, Failed(w[s].run, w[s].seen, "other"), Rest(s) PROVE LeaseStep
  BY <1>3, FailedLeases, WorkerLeases DEF LeaseStep, FailStep, Saw
<1>4. ASSUME PublicationFails(s) PROVE LeaseStep
  BY <1>1, <1>3, <1>4, WorkerLeases DEF PublicationFails, IsOperation, LeaseStep
<1>a. CASE Checkpoint(s)
  <2>1. w[s].run \in Requests
    BY <1>a DEF Checkpoint, Placed, OpSteps
  <2>2. DoubtStep
    BY <1>2, <1>a, WorkerLeases DEF Checkpoint
  <2>3. \/ UNCHANGED ops
        \/ \E phase, offset, total :
             ops' = [ops EXCEPT ![w[s].run] = [@ EXCEPT !.phase = phase, !.offset = offset, !.total = total,
                       !.token = 0, !.live = FALSE, !.tries = 0, !.wait = FALSE]]
    BY <1>a DEF Checkpoint
  <2>4. CASE \E phase, offset, total :
               ops' = [ops EXCEPT ![w[s].run] = [@ EXCEPT !.phase = phase, !.offset = offset, !.total = total,
                         !.token = 0, !.live = FALSE, !.tries = 0, !.wait = FALSE]]
    <3>1. PICK phase, offset, total :
            ops' = [ops EXCEPT ![w[s].run] = [@ EXCEPT !.phase = phase, !.offset = offset, !.total = total,
                      !.token = 0, !.live = FALSE, !.tries = 0, !.wait = FALSE]]
      BY <2>4
    <3>2. /\ ~ops'[w[s].run].live /\ ops'[w[s].run].status = ops[w[s].run].status
          /\ \A x \in Requests \ {w[s].run} : ops'[x] = ops[x]
      BY <1>0, <2>1, <3>1 DEF OpRecord
    <3> QED
      BY <2>2, <3>2 DEF LeaseStep, LiveStep, FailStep, Kept
  <2> QED
    BY <1>1, <2>2, <2>3, <2>4 DEF LeaseStep
<1>b. CASE Defer(s)
  <2>1. w[s].run \in Requests
    BY <1>b DEF Defer, Placed, OpSteps
  <2>2. DoubtStep
    BY <1>2, <1>b, WorkerLeases DEF Defer
  <2>3. CASE ops' = [ops EXCEPT ![w[s].run] = [@ EXCEPT !.token = 0, !.live = FALSE, !.wait = TRUE]]
    <3>1. /\ ~ops'[w[s].run].live /\ ops'[w[s].run].status = ops[w[s].run].status
          /\ \A x \in Requests \ {w[s].run} : ops'[x] = ops[x]
      BY <1>0, <2>1, <2>3 DEF OpRecord
    <3> QED
      BY <2>2, <3>1 DEF LeaseStep, LiveStep, FailStep, Kept
  <2> QED
    BY <1>1, <1>b, <2>2, <2>3 DEF LeaseStep, Defer
<1>c. CASE ReadFails(s)
  BY <1>3, <1>c DEF ReadFails, Placed, OpSteps
<1>d. CASE Replay(s)
  <2>1. w[s].run \in Requests
    BY <1>d DEF Replay, Placed, OpSteps
  <2> QED
    BY <1>1, <1>2, <1>3, <1>d, <2>1, ReplayMoves, WorkerLeases DEF LeaseStep
<1>e. CASE Recover(s) \/ BeginGeneration(s) \/ StageChanged(s) \/ StageAbsent(s)
  BY <1>1, <1>2, <1>e, WorkerLeases DEF LeaseStep, Recover, BeginGeneration, StageChanged, StageAbsent
<1>f. CASE ClaimRun(s)
  BY <1>1, <1>2, <1>4, <1>f, WorkerLeases DEF LeaseStep, ClaimRun
<1>g. CASE ReadIndex(s) \/ StagingFails(s) \/ PublishFails(s) \/ Publish(s)
  <2>1. UNCHANGED ops
    BY <1>g DEF ReadIndex, StagingFails, PublishFails, Publish
  <2> QED
    BY <1>1, <1>2, <1>g, <2>1, PublicationMoves, WorkerLeases DEF LeaseStep
<1>h. CASE FailGeneration(s)
  BY <1>4, <1>h DEF FailGeneration
<1>i. CASE WriteCatalog(s)
  <2>1. UNCHANGED ops \/ PublicationFails(s)
    BY <1>i DEF WriteCatalog
  <2>2. Rest(s) \/ MovesTo(s, "commit", {}, w[s].known)
    BY <1>i, PublicationMoves
  <2> QED
    BY <1>1, <1>2, <1>4, <2>1, <2>2, WorkerLeases DEF LeaseStep
<1>j. CASE Commit(s)
  <2>1. w[s].run \in Requests
    BY <1>j DEF Commit, Placed, OpSteps
  <2>2. DoubtStep
    BY <1>2, <1>j, WorkerLeases DEF Commit
  <2>3. CASE ops' = [ops EXCEPT ![w[s].run] = Closed("completed", None)]
    <3>1. ~Closed("completed", None).live /\ Closed("completed", None).status = "completed"
      BY DEF Closed, FreshOp
    <3>2. ops'[w[s].run] = Closed("completed", None) /\ \A x \in Requests \ {w[s].run} : ops'[x] = ops[x]
      BY <1>0, <2>1, <2>3
    <3> QED
      BY <2>2, <3>1, <3>2 DEF LeaseStep, LiveStep, FailStep, Kept
  <2> QED
    BY <1>1, <1>j, <2>2, <2>3 DEF LeaseStep, Commit
<1>k. CASE Die(s)
  BY <1>1, <1>k, WorkerLeases DEF LeaseStep, Die
<1>l. ASSUME NEW r \in Legacy, LegacyCall(s, r) PROVE LeaseStep
  <2>1. w'[s].pc = "recover" /\ \A t \in Workers \ {s} : w'[t] = w[t]
    BY <1>0, <1>l DEF LegacyCall, Idle
  <2> QED
    BY <1>1, <1>l, <2>1 DEF LeaseStep, DoubtStep, LegacyCall
<1> QED
  BY <1>a, <1>b, <1>c, <1>d, <1>e, <1>f, <1>g, <1>h, <1>i, <1>j, <1>k, <1>l

LEMMA StepLeases == ASSUME TypeOK, Placed, [Next]_vars PROVE LeaseStep
<1>0. ops \in [Requests -> OpRecord]
  BY DEF TypeOK
<1>1. UNCHANGED w => DoubtStep
  BY DEF DoubtStep
<1>2. UNCHANGED ops => LiveStep /\ FailStep
  BY DEF LiveStep, Kept, FailStep
<1>3. CASE UNCHANGED vars \/ (\E r \in Runs : RunAges(r)) \/ DuxChanges \/ StopCollecting
  <2>1. UNCHANGED <<ops, w>>
    BY <1>3 DEF vars, RunAges, DuxChanges, StopCollecting, tables
  <2> QED
    BY <1>1, <1>2, <2>1 DEF LeaseStep
<1>4. ASSUME NEW r \in Requests, LeaseExpires(r) \/ RetryDue(r) \/ DeadlinePasses(r) PROVE LeaseStep
  <2>1. UNCHANGED w
    BY <1>4 DEF LeaseExpires, RetryDue, DeadlinePasses
  <2>2. /\ ops'[r].live => ops[r].live
        /\ ops'[r].token = ops[r].token /\ ops'[r].status = ops[r].status
        /\ \A x \in Requests \ {r} : ops'[x] = ops[x]
    BY <1>0, <1>4 DEF LeaseExpires, RetryDue, DeadlinePasses, OpRecord
  <2> QED
    BY <1>1, <2>1, <2>2 DEF LeaseStep, LiveStep, FailStep, Kept
<1> QED
  BY <1>3, <1>4, ClaimLeases, OtherLeases DEF Next, Call, Continue

LEMMA ProtectedStep == ASSUME TypeOK, Placed, Protected, [Next]_vars PROVE Protected'
<1>1. LeaseStep
  BY StepLeases
<1>2. \A r \in Requests : ops'[r].live => ops'[r].status = "running"
  BY <1>1 DEF LeaseStep, LiveStep, Kept, Granted, Protected
<1>3. ASSUME NEW s \in Workers, w'[s].pc = "uncertain", ops'[w'[s].run].live
      PROVE  ops'[w'[s].run].token # w'[s].seen.token
  <2>1. w[s].pc = "uncertain" /\ w'[s].run = w[s].run /\ w'[s].seen = w[s].seen
    BY <1>1, <1>3 DEF LeaseStep, DoubtStep
  <2>2. w[s].run \in Requests
    BY <2>1 DEF Placed, OpSteps
  <2>3. Kept(w[s].run) \/ Granted(w[s].run)
    BY <1>1, <1>3, <2>1, <2>2 DEF LeaseStep, LiveStep
  <2> QED
    BY <2>1, <2>3 DEF Kept, Granted, Protected
<1> QED
  BY <1>2, <1>3 DEF Protected

\* LeaseProtects: while a lease of an operation is live, the operation fails only by the
\* hand of a worker that saw that lease's token, in the step that ends its invocation.
THEOREM LeaseIsRespected == Spec => LeaseProtects
<1>1. Init => TypeOK /\ Placed /\ Protected
  <2>1. Init => Protected
    BY DEF Init, Protected, FreshOp, Idle
  <2> QED
    BY <2>1, InitTypeOK
<1>2. TypeOK /\ Placed /\ Protected /\ [Next]_vars => (TypeOK /\ Placed /\ Protected)'
  BY StepTypes, ProtectedStep
<1>3. ASSUME TypeOK, Placed, Protected, [Next]_vars, NEW r \in Requests, ops[r].live, ops'[r].status = "failed"
      PROVE  \E s \in Workers : w[s].run = r /\ ops[r].token = w[s].seen.token /\ w'[s] = Idle
  <2>1. LeaseStep /\ ops[r].status = "running"
    BY <1>3, StepLeases DEF Protected
  <2>2. PICK s \in Workers : Saw(s, r) /\ (w'[s] = Idle \/ w[s].pc = "uncertain")
    BY <1>3, <2>1 DEF LeaseStep, FailStep
  <2> QED
    BY <1>3, <2>2 DEF Saw, Protected
<1>4. TypeOK /\ Placed /\ Protected /\ [Next]_vars =>
        [\A r \in Requests : ops[r].live /\ ops'[r].status = "failed" =>
           \E s \in Workers : w[s].run = r /\ ops[r].token = w[s].seen.token /\ w'[s] = Idle]_vars
  BY <1>3
<1> QED
  BY <1>1, <1>2, <1>4, PTL DEF Spec, LeaseProtects

-----------------------------------------------------------------------------
(* The publication *)

Begun  == {"begin", "index", "stage", "stageAbsent", "publish"}
Inside == Begun \cup {"failGeneration"}

\* A run that a worker has begun is running and is not taken for abandoned.
Turn(s) ==
  /\ w[s].pc \in Begun => runs[w[s].run] = [status |-> "running", old |-> FALSE]
  /\ w[s].pc = "failGeneration" => runs[w[s].run].status # "none"
  /\ w[s].pc = "begin" => gens[w[s].run] = "none"
  /\ w[s].pc \in Begun \ {"begin"} => gens[w[s].run] = "loading"

\* One run is running at most, and one worker is inside a run at most.
Untried   == \A r \in Runs : runs[r].status = "none" => gens[r] = "none" /\ staged[r] = NoDelta
OneRun    == \A r, x \in Runs : runs[r].status = "running" /\ runs[x].status = "running" => r = x
OneInside == \A s, t \in Workers : w[s].pc \in Inside /\ w[t].pc \in Inside /\ w[s].run = w[t].run => s = t
Alone == Untried /\ OneRun /\ OneInside /\ \A s \in Workers : Turn(s)

\* What a worker stages is the delta of its reading against the inventory as it still is.
ChangedRow(s, c) == IF c \in Changed(s) THEN [st |-> "ok", value |-> ValueOf(w[s].reading, c)] ELSE NoRow
DeltaRow(s, c) == IF c \notin CodesOf(w[s].reading) /\ inventory[c].st = "ok"
                  THEN [st |-> "absent", value |-> inventory[c].value] ELSE ChangedRow(s, c)
Delta(s) ==
  /\ w[s].pc \in {"stage", "stageAbsent", "publish"} => w[s].known = inventory /\ Distinct(w[s].reading)
  /\ w[s].pc \in {"begin", "index", "stage"} => staged[w[s].run] = NoDelta
  /\ w[s].pc = "stageAbsent" => staged[w[s].run] = [c \in Codes |-> ChangedRow(s, c)]
  /\ w[s].pc = "publish" => staged[w[s].run] = [c \in Codes |-> DeltaRow(s, c)]
Deltas == \A s \in Workers : Delta(s)

\* Two workers that have begun are one.
LEMMA OneBegun ==
  ASSUME Placed, Alone, NEW s \in Workers, NEW t \in Workers, w[s].pc \in Begun, w[t].pc \in Begun
  PROVE  s = t
<1>1. w[s].run \in Runs /\ w[t].run \in Runs
  BY DEF Placed, Begun
<1>2. runs[w[s].run].status = "running" /\ runs[w[t].run].status = "running"
  BY DEF Alone, Turn
<1> QED
  BY <1>1, <1>2 DEF Alone, OneRun, OneInside, Inside

\* A worker whose rows stay keeps its turn and its delta.
LEMMA Untouched ==
  ASSUME Alone, Deltas, NEW t \in Workers, w'[t] = w[t],
         w[t].pc \in Begun => /\ runs'[w[t].run] = runs[w[t].run] /\ gens'[w[t].run] = gens[w[t].run]
                              /\ staged'[w[t].run] = staged[w[t].run] /\ UNCHANGED inventory,
         w[t].pc = "failGeneration" => runs'[w[t].run].status # "none"
  PROVE  Turn(t)' /\ Delta(t)'
<1>1. Turn(t)'
  BY DEF Alone, Turn, Begun
<1>2. CASE w[t].pc \in Begun
  <2>1. \A c \in Codes : ChangedRow(t, c)' = ChangedRow(t, c) /\ DeltaRow(t, c)' = DeltaRow(t, c)
    BY <1>2 DEF ChangedRow, DeltaRow, Changed
  <2>2. /\ [c \in Codes |-> ChangedRow(t, c)]' = [c \in Codes |-> ChangedRow(t, c)]
        /\ [c \in Codes |-> DeltaRow(t, c)]' = [c \in Codes |-> DeltaRow(t, c)]
    BY <2>1
  <2>3. Delta(t)
    BY DEF Deltas
  <2> QED
    BY <1>1, <1>2, <2>2, <2>3 DEF Delta
<1>3. CASE w[t].pc \notin Begun
  BY <1>1, <1>3 DEF Delta, Begun
<1> QED
  BY <1>1, <1>2, <1>3

\* A step outside the publication leaves it alone.
LEMMA QuietStep ==
  ASSUME Placed, Alone, Deltas, UNCHANGED <<runs, gens, staged, inventory>>,
         \A t \in Workers : w'[t] = w[t] \/ w'[t].pc \notin Inside
  PROVE  Alone' /\ Deltas'
<1>1. Untried' /\ OneRun' /\ OneInside'
  BY DEF Alone, Untried, OneRun, OneInside
<1>2. ASSUME NEW t \in Workers PROVE Turn(t)' /\ Delta(t)'
  <2>1. CASE w'[t].pc \notin Inside
    BY <2>1 DEF Turn, Delta, Begun, Inside
  <2>2. CASE w'[t] = w[t]
    BY <2>2, Untouched DEF Alone, Turn
  <2> QED
    BY <2>1, <2>2
<1> QED
  BY <1>1, <1>2 DEF Alone, Deltas

\* A step of the publication by one worker, which touches rows of its own run only.
LEMMA InsideStep ==
  ASSUME TypeOK, Placed, Alone, Deltas, NEW s \in Workers, Untried', OneRun',
         \A t \in Workers \ {s} :
           /\ w'[t] = w[t]
           /\ w[t].pc \in Begun => /\ runs'[w[t].run] = runs[w[t].run] /\ gens'[w[t].run] = gens[w[t].run]
                                   /\ staged'[w[t].run] = staged[w[t].run] /\ UNCHANGED inventory
           /\ w[t].pc = "failGeneration" => runs'[w[t].run].status # "none",
         w'[s].pc \in Inside => /\ w'[s].run = w[s].run
                                /\ \A t \in Workers \ {s} : w[t].pc \in Inside => w[t].run # w[s].run,
         Turn(s)', Delta(s)'
  PROVE  Alone' /\ Deltas'
<1>1. \A t \in Workers : Turn(t)' /\ Delta(t)'
  BY Untouched
<1>2. OneInside'
  BY DEF Alone, OneInside
<1> QED
  BY <1>1, <1>2 DEF Alone, Deltas

\* The steps outside the publication, and what they do to the workers.
Aside == \A t \in Workers : w'[t] = w[t] \/ w'[t].pc \notin Inside

LEMMA AsideMoves ==
  ASSUME TypeOK, NEW s \in Workers
  PROVE  /\ Rest(s) => Aside
         /\ \A pc \in Steps \ Inside : Goto(s, pc) => Aside
         /\ \A pc \in Steps \ Inside : \A reading, known : MovesTo(s, pc, reading, known) => Aside
<1>1. w \in [Workers -> Worker]
  BY DEF TypeOK, Worker
<1>2. Rest(s) => Aside
  BY <1>1 DEF Rest, Idle, Aside, Inside, Begun
<1>3. ASSUME NEW pc \in Steps \ Inside, Goto(s, pc) PROVE Aside
  <2>1. w'[s].pc = pc /\ \A t \in Workers \ {s} : w'[t] = w[t]
    BY <1>1, <1>3 DEF Goto, Worker
  <2> QED
    BY <1>3, <2>1 DEF Aside
<1>4. ASSUME NEW pc \in Steps \ Inside, NEW reading, NEW known, MovesTo(s, pc, reading, known) PROVE Aside
  <2>1. w'[s].pc = pc /\ \A t \in Workers \ {s} : w'[t] = w[t]
    BY <1>1, <1>4 DEF MovesTo, To
  <2> QED
    BY <1>4, <2>1 DEF Aside
<1> QED
  BY <1>2, <1>3, <1>4

QuietAction ==
  \/ \E s \in Workers :
       \/ \E r \in Requests : Ask(s, r) \/ Start(s, r)
       \/ Prepay(s) \/ CloseUncertain(s) \/ CloseOverdue(s) \/ Claim(s) \/ Current(s)
       \/ Checkpoint(s) \/ Defer(s) \/ ReadFails(s) \/ Replay(s)
       \/ ClaimRun(s) /\ UNCHANGED runs
       \/ WriteCatalog(s) \/ Commit(s) \/ Die(s)
       \/ \E r \in Legacy : LegacyCall(s, r)
  \/ \E r \in Requests : LeaseExpires(r) \/ RetryDue(r) \/ DeadlinePasses(r)
  \/ DuxChanges \/ StopCollecting \/ UNCHANGED vars

LEMMA QuietActions ==
  ASSUME TypeOK, Placed, QuietAction
  PROVE  UNCHANGED <<runs, gens, staged, inventory>> /\ Aside
<1> USE DEF tables
<1>0. w \in [Workers -> Worker]
  BY DEF TypeOK, Worker
<1>1. {"current", "commit", "recover", "catalog"} \subseteq Steps \ Inside
  BY DEF Steps, Inside, Begun
<1>2. UNCHANGED w => Aside
  BY DEF Aside
<1>3. ASSUME NEW s \in Workers, NEW r \in Requests, Ask(s, r) \/ Start(s, r) PROVE Aside
  <2>1. UNCHANGED w \/ w'[s].pc \in {"uncertain", "ready", "prepay"}
    BY <1>0, <1>3 DEF Ask, Start, Idle, Entry
  <2>2. \A t \in Workers \ {s} : w'[t] = w[t]
    BY <1>0, <1>3 DEF Ask, Start
  <2> QED
    BY <2>1, <2>2 DEF Aside, Inside, Begun
<1>4. ASSUME NEW s \in Workers, Prepay(s) \/ Claim(s) PROVE Aside
  <2>1. CASE Rest(s) \/ Goto(s, "current")
    BY <1>1, <2>1, AsideMoves
  <2>2. CASE \E pc \in {"uncertain", "ready", "replay", "read"} : \E seen : w' = [w EXCEPT ![s].pc = pc, ![s].seen = seen]
    <3> PICK pc \in {"uncertain", "ready", "replay", "read"} : \E seen : w' = [w EXCEPT ![s].pc = pc, ![s].seen = seen]
      BY <2>2
    <3>1. PICK seen : w' = [w EXCEPT ![s].pc = pc, ![s].seen = seen]
      OBVIOUS
    <3>2. w'[s].pc = pc /\ \A t \in Workers \ {s} : w'[t] = w[t]
      BY <1>0, <3>1 DEF Worker
    <3> QED
      BY <3>2 DEF Aside, Inside, Begun
  <2> QED
    BY <1>4, <2>1, <2>2 DEF Prepay, Claim, Entry
<1>5. ASSUME NEW s \in Workers,
             \/ CloseUncertain(s) \/ CloseOverdue(s) \/ Current(s) \/ Checkpoint(s) \/ Defer(s) \/ ReadFails(s)
             \/ Commit(s) \/ Die(s)
      PROVE  Aside
  BY <1>1, <1>5, AsideMoves DEF CloseUncertain, CloseOverdue, Current, Checkpoint, Defer, ReadFails, Commit, Die
<1>6. ASSUME NEW s \in Workers, Replay(s) PROVE Aside
  <2>1. w[s].run \in Requests
    BY <1>6 DEF Replay, Placed, OpSteps
  <2> QED
    BY <1>1, <1>6, <2>1, ReplayMoves, AsideMoves
<1>7. ASSUME NEW s \in Workers, WriteCatalog(s) PROVE Aside
  BY <1>1, <1>7, PublicationMoves, AsideMoves
<1>8. ASSUME NEW s \in Workers, ClaimRun(s), UNCHANGED runs PROVE Aside /\ UNCHANGED <<gens, staged, inventory>>
  <2>1. ~CanClaimRun(w[s].run)
    <3>1. SUFFICES ASSUME CanClaimRun(w[s].run) PROVE FALSE
      OBVIOUS
    <3>2. w[s].run \in Runs
      BY <1>8 DEF ClaimRun, Placed
    <3>3. runs' = [runs EXCEPT ![w[s].run] = [status |-> "running", old |-> FALSE]] /\ runs[w[s].run].status = "none"
      BY <1>8, <3>1 DEF ClaimRun, CanClaimRun
    <3>4. runs'[w[s].run].status = "running"
      BY <3>2, <3>3 DEF TypeOK
    <3> QED
      BY <1>8, <3>3, <3>4
  <2> QED
    BY <1>8, <2>1, AsideMoves DEF ClaimRun, PublicationFails
<1>9. ASSUME NEW s \in Workers, NEW r \in Legacy, LegacyCall(s, r) PROVE Aside
  <2>1. w'[s].pc = "recover" /\ \A t \in Workers \ {s} : w'[t] = w[t]
    BY <1>0, <1>9 DEF LegacyCall, Idle
  <2> QED
    BY <2>1 DEF Aside, Inside, Begun
<1>a. Aside
  <2>1. CASE \E r \in Requests : LeaseExpires(r) \/ RetryDue(r) \/ DeadlinePasses(r)
    BY <1>2, <2>1 DEF LeaseExpires, RetryDue, DeadlinePasses
  <2>2. CASE DuxChanges \/ StopCollecting \/ UNCHANGED vars
    BY <1>2, <2>2 DEF DuxChanges, StopCollecting, vars
  <2> QED
    BY <1>3, <1>4, <1>5, <1>6, <1>7, <1>8, <1>9, <2>1, <2>2 DEF QuietAction
<1>b. UNCHANGED <<runs, gens, staged, inventory>>
  BY <1>8 DEF QuietAction, Ask, Start, Prepay, CloseUncertain, CloseOverdue, Claim, Current, Checkpoint, Defer, ReadFails,
     Replay, WriteCatalog, Commit, Die, LegacyCall, LeaseExpires, RetryDue, DeadlinePasses, DuxChanges, StopCollecting, vars
<1> QED
  BY <1>a, <1>b

\* Abandoned runs are of nobody: those of the workers that have begun are young.
LEMMA RecoverAlone ==
  ASSUME TypeOK, Placed, Alone, Deltas, NEW s \in Workers, Recover(s)
  PROVE  Alone' /\ Deltas'
<1> DEFINE abandoned == {x \in Runs : runs[x].status = "running" /\ runs[x].old}
<1>0. /\ w \in [Workers -> Worker] /\ staged \in [Runs -> [Codes -> Row]]
      /\ gens \in [Runs -> {"none", "loading", "published", "superseded", "failed"}]
      /\ runs \in [Runs -> [status : {"none", "running", "succeeded", "failed"}, old : BOOLEAN]]
  BY DEF TypeOK, Worker
<1>1. /\ gens' = [x \in Runs |-> IF x \in abandoned /\ gens[x] = "loading" THEN "failed" ELSE gens[x]]
      /\ staged' = [x \in Runs |-> IF gens'[x] = "failed" THEN NoDelta ELSE staged[x]]
      /\ runs' = [x \in Runs |-> IF x \in abandoned THEN EndedRun("failed") ELSE runs[x]]
      /\ UNCHANGED inventory
  BY DEF Recover
<1>2. /\ \A x \in Runs : x \notin abandoned => runs'[x] = runs[x] /\ gens'[x] = gens[x]
      /\ \A x \in Runs : x \in abandoned => runs'[x].status = "failed"
      /\ \A x \in Runs : gens[x] # "failed" /\ x \notin abandoned => staged'[x] = staged[x]
  BY <1>1 DEF EndedRun
<1>3. \A x \in Runs : x \in abandoned => runs[x].status = "running" /\ runs[x].old = TRUE
  BY <1>0
<1>4. w'[s].pc = "claimRun" /\ \A t \in Workers \ {s} : w'[t] = w[t]
  BY <1>0 DEF Recover, Goto, Worker
<1> HIDE DEF abandoned
<1>5. Untried' /\ OneRun'
  <2>1. \A x \in Runs : runs'[x].status = "none" => gens'[x] = "none" /\ staged'[x] = NoDelta
    BY <1>2, <1>3 DEF Alone, Untried
  <2>2. \A x \in Runs : runs'[x].status = "running" => runs[x].status = "running"
    BY <1>2
  <2> QED
    BY <2>1, <2>2 DEF Alone, Untried, OneRun
<1>6. ASSUME NEW t \in Workers \ {s}
      PROVE  /\ w[t].pc \in Begun => /\ runs'[w[t].run] = runs[w[t].run] /\ gens'[w[t].run] = gens[w[t].run]
                                     /\ staged'[w[t].run] = staged[w[t].run]
             /\ w[t].pc = "failGeneration" => runs'[w[t].run].status # "none"
  <2>1. ASSUME w[t].pc \in Begun
        PROVE  w[t].run \in Runs \ abandoned /\ gens[w[t].run] # "failed"
    <3>1. w[t].run \in Runs
      BY <2>1 DEF Placed, Begun
    <3>2. runs[w[t].run].old = FALSE /\ gens[w[t].run] \in {"none", "loading"}
      BY <2>1 DEF Alone, Turn, Begun
    <3> QED
      BY <1>3, <3>1, <3>2
  <2>2. ASSUME w[t].pc = "failGeneration" PROVE runs'[w[t].run].status # "none"
    <3>1. w[t].run \in Runs /\ runs[w[t].run].status # "none"
      BY <2>2 DEF Placed, Alone, Turn
    <3> QED
      BY <1>2, <3>1
  <2> QED
    BY <1>2, <2>1, <2>2
<1>7. Turn(s)' /\ Delta(s)' /\ w'[s].pc \notin Inside
  BY <1>4 DEF Turn, Delta, Begun, Inside
<1> QED
  BY <1>1, <1>4, <1>5, <1>6, <1>7, InsideStep

LEMMA ClaimRunAlone ==
  ASSUME TypeOK, Placed, Alone, Deltas, NEW s \in Workers, ClaimRun(s), CanClaimRun(w[s].run)
  PROVE  Alone' /\ Deltas'
<1>0. /\ w \in [Workers -> Worker] /\ w[s].run \in Runs
      /\ runs \in [Runs -> [status : {"none", "running", "succeeded", "failed"}, old : BOOLEAN]]
  BY DEF TypeOK, Worker, ClaimRun, Placed
<1>1. /\ runs' = [runs EXCEPT ![w[s].run] = [status |-> "running", old |-> FALSE]]
      /\ Goto(s, "begin") /\ UNCHANGED <<gens, staged, inventory>>
      /\ runs[w[s].run].status = "none" /\ \A x \in Runs : runs[x].status # "running"
  BY DEF ClaimRun, CanClaimRun
<1>2. /\ w'[s].pc = "begin" /\ w'[s].run = w[s].run /\ \A t \in Workers \ {s} : w'[t] = w[t]
      /\ runs'[w[s].run] = [status |-> "running", old |-> FALSE]
      /\ \A x \in Runs \ {w[s].run} : runs'[x] = runs[x]
  BY <1>0, <1>1 DEF Goto, Worker
<1>3. gens[w[s].run] = "none" /\ staged[w[s].run] = NoDelta
  BY <1>0, <1>1 DEF Alone, Untried
<1>4. Untried' /\ OneRun'
  <2>1. \A x \in Runs : runs'[x].status = "none" => runs[x].status = "none"
    BY <1>1, <1>2
  <2>2. \A x \in Runs : runs'[x].status = "running" => x = w[s].run
    BY <1>1, <1>2
  <2> QED
    BY <1>1, <2>1, <2>2 DEF Alone, Untried, OneRun
<1>5. \A t \in Workers : w[t].pc \in Inside => w[t].run \in Runs \ {w[s].run}
  BY <1>1 DEF Alone, Turn, Inside, Begun, Placed
<1>6. Turn(s)' /\ Delta(s)'
  BY <1>1, <1>2, <1>3 DEF Turn, Delta, Begun
<1>7. \A t \in Workers \ {s} :
        /\ w'[t] = w[t]
        /\ w[t].pc \in Begun => /\ runs'[w[t].run] = runs[w[t].run] /\ gens'[w[t].run] = gens[w[t].run]
                                /\ staged'[w[t].run] = staged[w[t].run] /\ UNCHANGED inventory
        /\ w[t].pc = "failGeneration" => runs'[w[t].run].status # "none"
  BY <1>1, <1>2, <1>5 DEF Inside, Begun, Alone, Turn
<1> QED
  BY <1>2, <1>4, <1>5, <1>6, <1>7, InsideStep

\* The other workers inside are at other runs; none of them has begun if this one has.
LEMMA Elsewhere ==
  ASSUME Placed, Alone, NEW s \in Workers, NEW t \in Workers \ {s}, w[s].pc \in Inside, w[t].pc \in Inside
  PROVE  /\ w[t].run \in Runs /\ w[t].run # w[s].run
         /\ w[s].pc \in Begun => w[t].pc \notin Begun
         /\ w[t].pc = "failGeneration" => runs[w[t].run].status # "none"
<1>1. w[t].run \in Runs /\ w[t].run # w[s].run
  BY DEF Placed, Alone, OneInside, Inside, Begun
<1> QED
  BY <1>1, OneBegun DEF Alone, Turn

LEMMA StagingAlone ==
  ASSUME TypeOK, Placed, Alone, Deltas, NEW s \in Workers,
         \/ BeginGeneration(s) \/ ReadIndex(s) \/ StageChanged(s) \/ StageAbsent(s)
         \/ StagingFails(s) \/ PublishFails(s)
  PROVE  Alone' /\ Deltas'
<1>0. /\ w \in [Workers -> Worker] /\ staged \in [Runs -> [Codes -> Row]]
      /\ gens \in [Runs -> {"none", "loading", "published", "superseded", "failed"}]
      /\ runs \in [Runs -> [status : {"none", "running", "succeeded", "failed"}, old : BOOLEAN]]
  BY DEF TypeOK, Worker
<1>1. w[s].pc \in Begun /\ w[s].run \in Runs
  BY DEF BeginGeneration, ReadIndex, StageChanged, StageAbsent, StagingFails, PublishFails, Begun, Placed
<1>2. UNCHANGED <<runs, inventory>>
  BY DEF BeginGeneration, ReadIndex, StageChanged, StageAbsent, StagingFails, PublishFails, tables
<1>3. PICK pc, reading, known : pc \in Inside /\ MovesTo(s, pc, reading, known)
  BY PublicationMoves DEF Inside, Begun
<1>4. /\ w'[s] = To(s, pc, reading, known) /\ w'[s].pc = pc /\ w'[s].run = w[s].run
      /\ \A t \in Workers \ {s} : w'[t] = w[t]
  BY <1>0, <1>3 DEF MovesTo, To
<1>5. runs[w[s].run] = [status |-> "running", old |-> FALSE]
  BY <1>1 DEF Alone, Turn
<1>6. \A x \in Runs \ {w[s].run} : gens'[x] = gens[x] /\ staged'[x] = staged[x]
  BY <1>0, <1>1 DEF BeginGeneration, ReadIndex, StageChanged, StageAbsent, StagingFails, PublishFails, tables
<1>7. Untried' /\ OneRun'
  BY <1>2, <1>5, <1>6 DEF Alone, Untried, OneRun
<1>8. \A t \in Workers \ {s} :
        /\ w'[t] = w[t]
        /\ w[t].pc \in Begun => /\ runs'[w[t].run] = runs[w[t].run] /\ gens'[w[t].run] = gens[w[t].run]
                                /\ staged'[w[t].run] = staged[w[t].run] /\ UNCHANGED inventory
        /\ w[t].pc = "failGeneration" => runs'[w[t].run].status # "none"
  BY <1>1, <1>2, <1>4, OneBegun DEF Alone, Turn
<1>9. \A t \in Workers \ {s} : w[t].pc \in Inside => w[t].run # w[s].run
  BY <1>1, Elsewhere DEF Inside
<1>10. Turn(s)' /\ Delta(s)'
  <2>1. Delta(s) /\ Turn(s)
    BY DEF Deltas, Alone
  <2>2. CASE BeginGeneration(s)
    <3>1. w'[s].pc = "index" /\ gens'[w[s].run] = "loading" /\ UNCHANGED staged /\ staged[w[s].run] = NoDelta
      BY <1>0, <1>1, <2>1, <2>2 DEF BeginGeneration, Goto, Worker, Delta
    <3> QED
      BY <1>2, <1>4, <1>5, <3>1 DEF Turn, Delta, Begun
  <2>3. CASE ReadIndex(s)
    <3>1. UNCHANGED <<gens, staged>> /\ gens[w[s].run] = "loading" /\ staged[w[s].run] = NoDelta
      BY <2>1, <2>3 DEF ReadIndex, tables, Turn, Delta, Begun
    <3>2. \/ MovesTo(s, "stage", IndexReading(s), inventory) /\ Distinct(IndexReading(s))
          \/ MovesTo(s, "failGeneration", IndexReading(s), inventory)
      BY <2>3, PublicationMoves
    <3>3. \/ w'[s].pc = "stage" /\ w'[s].known = inventory /\ Distinct(w'[s].reading)
          \/ w'[s].pc = "failGeneration"
      <4>1. ASSUME MovesTo(s, "stage", IndexReading(s), inventory), Distinct(IndexReading(s))
            PROVE  w'[s].pc = "stage" /\ w'[s].known = inventory /\ Distinct(w'[s].reading)
        BY <1>0, <4>1 DEF MovesTo, To
      <4>2. ASSUME MovesTo(s, "failGeneration", IndexReading(s), inventory)
            PROVE  w'[s].pc = "failGeneration"
        BY <1>0, <4>2 DEF MovesTo, To
      <4> QED
        BY <3>2, <4>1, <4>2
    <3> QED
      BY <1>2, <1>4, <1>5, <3>1, <3>3 DEF Turn, Delta, Begun, Distinct
  <2>4. CASE StageChanged(s)
    <3>1. w'[s].pc = "stageAbsent" /\ w'[s].reading = w[s].reading /\ w'[s].known = w[s].known
      BY <1>0, <2>4 DEF StageChanged, Goto, Worker
    <3>2. /\ gens'[w[s].run] = "loading" /\ staged[w[s].run] = NoDelta
          /\ w[s].known = inventory /\ Distinct(w[s].reading)
      BY <2>1, <2>4 DEF StageChanged, Turn, Delta, Begun
    <3>3. staged'[w[s].run] = [c \in Codes |-> ChangedRow(s, c)]
      <4>1. staged'[w[s].run] = [c \in Codes |->
              IF c \in Changed(s) THEN [st |-> "ok", value |-> ValueOf(w[s].reading, c)] ELSE staged[w[s].run][c]]
        BY <1>0, <1>1, <2>4 DEF StageChanged
      <4> QED
        BY <3>2, <4>1 DEF ChangedRow, NoDelta
    <3>4. \A c \in Codes : ChangedRow(s, c)' = ChangedRow(s, c)
      BY <3>1 DEF ChangedRow, Changed
    <3>5. [c \in Codes |-> ChangedRow(s, c)]' = [c \in Codes |-> ChangedRow(s, c)]
      BY <3>4
    <3> QED
      BY <1>2, <1>4, <1>5, <3>1, <3>2, <3>3, <3>5 DEF Turn, Delta, Begun, Distinct
  <2>5. CASE StageAbsent(s)
    <3>1. w'[s].pc = "publish" /\ w'[s].reading = w[s].reading /\ w'[s].known = w[s].known
      BY <1>0, <2>5 DEF StageAbsent, Goto, Worker
    <3>2. /\ gens'[w[s].run] = "loading" /\ staged[w[s].run] = [c \in Codes |-> ChangedRow(s, c)]
          /\ w[s].known = inventory /\ Distinct(w[s].reading)
      BY <2>1, <2>5 DEF StageAbsent, Turn, Delta, Begun
    <3>3. staged'[w[s].run] = [c \in Codes |-> DeltaRow(s, c)]
      <4>1. staged'[w[s].run] = [c \in Codes |->
              IF NewlyAbsent(s) # {} /\ inventory[c].st = "ok" /\ c \notin CodesOf(w[s].reading)
              THEN [st |-> "absent", value |-> inventory[c].value] ELSE staged[w[s].run][c]]
        BY <1>0, <1>1, <2>5 DEF StageAbsent
      <4>2. \A c \in Codes : inventory[c].st = "ok" /\ c \notin CodesOf(w[s].reading) => NewlyAbsent(s) # {}
        BY <3>2 DEF NewlyAbsent
      <4>3. \A c \in Codes : staged[w[s].run][c] = ChangedRow(s, c)
        BY <3>2
      <4> QED
        BY <4>1, <4>2, <4>3 DEF DeltaRow
    <3>4. \A c \in Codes : DeltaRow(s, c)' = DeltaRow(s, c)
      BY <1>2, <3>1 DEF ChangedRow, DeltaRow, Changed
    <3>5. [c \in Codes |-> DeltaRow(s, c)]' = [c \in Codes |-> DeltaRow(s, c)]
      BY <3>4
    <3> QED
      BY <1>2, <1>4, <1>5, <3>1, <3>2, <3>3, <3>5 DEF Turn, Delta, Begun, Distinct
  <2>6. CASE StagingFails(s) \/ PublishFails(s)
    <3>1. w'[s].pc = "failGeneration"
      BY <1>0, <2>6, PublicationMoves DEF MovesTo, To
    <3> QED
      BY <1>2, <1>4, <1>5, <3>1 DEF Turn, Delta, Begun
  <2> QED
    BY <2>2, <2>3, <2>4, <2>5, <2>6
<1> QED
  BY <1>4, <1>7, <1>8, <1>9, <1>10, InsideStep

LEMMA PublishAlone ==
  ASSUME TypeOK, Placed, Alone, Deltas, NEW s \in Workers, Publish(s)
  PROVE  Alone' /\ Deltas'
<1>0. /\ w \in [Workers -> Worker] /\ staged \in [Runs -> [Codes -> Row]]
      /\ gens \in [Runs -> {"none", "loading", "published", "superseded", "failed"}]
      /\ runs \in [Runs -> [status : {"none", "running", "succeeded", "failed"}, old : BOOLEAN]]
  BY DEF TypeOK, Worker
<1>1. w[s].pc \in Begun /\ w[s].run \in Runs
  BY DEF Publish, Begun, Placed
<1>2. runs[w[s].run] = [status |-> "running", old |-> FALSE]
  BY <1>1 DEF Alone, Turn
<1>3. /\ runs'[w[s].run].status = "succeeded" /\ \A x \in Runs \ {w[s].run} : runs'[x] = runs[x]
      /\ \A x \in Runs \ {w[s].run} : gens[x] = "none" => gens'[x] = "none"
      /\ \A x \in Runs \ {w[s].run} : staged'[x] = staged[x]
  BY <1>0, <1>1, <1>2 DEF Publish, EndedRun
<1>4. Untried' /\ OneRun'
  BY <1>3 DEF Alone, Untried, OneRun
<1>5. PICK pc, reading, known : pc \in {"catalog", "failGeneration"} /\ MovesTo(s, pc, reading, known)
  BY PublicationMoves
<1>6. w'[s].pc = pc /\ w'[s].run = w[s].run /\ \A t \in Workers \ {s} : w'[t] = w[t]
  BY <1>0, <1>5 DEF MovesTo, To
<1>7. \A t \in Workers \ {s} :
        /\ w[t].pc \notin Begun
        /\ w[t].pc = "failGeneration" => runs'[w[t].run].status # "none"
        /\ w[t].pc \in Inside => w[t].run # w[s].run
  BY <1>1, <1>3, OneBegun, Elsewhere DEF Inside
<1>8. Turn(s)' /\ Delta(s)'
  BY <1>3, <1>5, <1>6 DEF Turn, Delta, Begun
<1> QED
  BY <1>4, <1>6, <1>7, <1>8, InsideStep

LEMMA EndAlone ==
  ASSUME TypeOK, Placed, Alone, Deltas, NEW s \in Workers, FailGeneration(s)
  PROVE  Alone' /\ Deltas'
<1>0. /\ w \in [Workers -> Worker] /\ staged \in [Runs -> [Codes -> Row]]
      /\ gens \in [Runs -> {"none", "loading", "published", "superseded", "failed"}]
      /\ runs \in [Runs -> [status : {"none", "running", "succeeded", "failed"}, old : BOOLEAN]]
  BY DEF TypeOK, Worker
<1>1. w[s].pc \in Inside /\ w[s].run \in Runs /\ runs[w[s].run].status # "none"
  BY DEF FailGeneration, Inside, Placed, Alone, Turn
<1>2. /\ runs'[w[s].run].status \in {runs[w[s].run].status, "failed"}
      /\ \A x \in Runs \ {w[s].run} : runs'[x] = runs[x] /\ gens'[x] = gens[x] /\ staged'[x] = staged[x]
      /\ UNCHANGED inventory
  BY <1>0, <1>1 DEF FailGeneration, EndedRun
<1>3. Untried' /\ OneRun'
  BY <1>1, <1>2 DEF Alone, Untried, OneRun
<1>4. w'[s].pc = "idle" /\ \A t \in Workers \ {s} : w'[t] = w[t]
  BY <1>0 DEF FailGeneration, PublicationFails, Rest, Idle
<1>5. \A t \in Workers \ {s} :
        /\ w[t].pc \in Begun => /\ runs'[w[t].run] = runs[w[t].run] /\ gens'[w[t].run] = gens[w[t].run]
                                /\ staged'[w[t].run] = staged[w[t].run]
        /\ w[t].pc = "failGeneration" => runs'[w[t].run].status # "none"
  BY <1>1, <1>2, Elsewhere DEF Inside
<1>6. Turn(s)' /\ Delta(s)' /\ w'[s].pc \notin Inside
  BY <1>4 DEF Turn, Delta, Begun, Inside
<1> QED
  BY <1>2, <1>3, <1>4, <1>5, <1>6, InsideStep

LEMMA AgesAlone ==
  ASSUME TypeOK, Placed, Alone, Deltas, NEW r \in Runs, RunAges(r)
  PROVE  Alone' /\ Deltas'
<1>1. /\ UNCHANGED <<gens, staged, inventory, w>>
      /\ runs'[r].status = runs[r].status /\ \A x \in Runs \ {r} : runs'[x] = runs[x]
      /\ \A t \in Workers : w[t].run # r
  BY DEF RunAges, TypeOK
<1>2. Untried' /\ OneRun' /\ OneInside'
  BY <1>1 DEF Alone, Untried, OneRun, OneInside
<1>3. ASSUME NEW t \in Workers PROVE Turn(t)' /\ Delta(t)'
  <2>1. w[t].pc \in Inside => w[t].run \in Runs \ {r}
    BY <1>1 DEF Placed, Inside, Begun
  <2>2. w[t].pc = "failGeneration" => runs'[w[t].run].status # "none"
    BY <1>1, <2>1 DEF Alone, Turn, Inside
  <2> QED
    BY <1>1, <2>1, <2>2, Untouched DEF Inside
<1> QED
  BY <1>2, <1>3 DEF Alone, Deltas

LEMMA AloneStep == ASSUME TypeOK, Placed, Alone, Deltas, [Next]_vars PROVE Alone' /\ Deltas'
<1>1. CASE QuietAction
  BY <1>1, QuietActions, QuietStep DEF Aside
<1>2. ASSUME NEW s \in Workers, ClaimRun(s), ~CanClaimRun(w[s].run) PROVE QuietAction
  BY <1>2 DEF ClaimRun, QuietAction
<1> QED
  BY <1>1, <1>2, RecoverAlone, ClaimRunAlone, StagingAlone, PublishAlone, EndAlone, AgesAlone
     DEF Next, Call, Continue, QuietAction

\* The delta leaves exactly the reading.
LEMMA PublishLeavesReading ==
  ASSUME TypeOK, Placed, Alone, Deltas, NEW s \in Workers, Publish(s)
  PROVE  Visible' = w[s].reading
<1> DEFINE R == w[s].reading
<1>1. /\ staged[w[s].run] = [c \in Codes |-> DeltaRow(s, c)] /\ inventory' = Applied(w[s].run)
      /\ w[s].known = inventory /\ Distinct(R) /\ R \subseteq Items
  BY DEF Publish, Deltas, Delta, TypeOK
<1>2. \A c \in Codes : inventory'[c] = IF DeltaRow(s, c) # NoRow THEN DeltaRow(s, c) ELSE inventory[c]
  BY <1>1 DEF Applied, Staged
<1>3. \A c \in Codes : c \in CodesOf(R) => inventory'[c] = [st |-> "ok", value |-> ValueOf(R, c)]
  <2>1. ASSUME NEW c \in Codes, c \in CodesOf(R) PROVE inventory'[c] = [st |-> "ok", value |-> ValueOf(R, c)]
    <3>1. DeltaRow(s, c) = ChangedRow(s, c)
      BY <2>1 DEF DeltaRow
    <3>2. CASE c \in Changed(s)
      <4>1. DeltaRow(s, c) = [st |-> "ok", value |-> ValueOf(R, c)]
        BY <3>1, <3>2 DEF ChangedRow
      <4>2. DeltaRow(s, c) # NoRow
        BY <4>1 DEF NoRow
      <4> QED
        BY <1>2, <4>1, <4>2
    <3>3. CASE c \notin Changed(s)
      <4>1. DeltaRow(s, c) = NoRow
        BY <3>1, <3>3 DEF ChangedRow
      <4>2. inventory[c] = [st |-> "ok", value |-> ValueOf(R, c)]
        BY <1>1, <2>1, <3>3 DEF Changed
      <4> QED
        BY <1>2, <4>1, <4>2
    <3> QED
      BY <3>2, <3>3
  <2> QED
    BY <2>1
<1>4. \A c \in Codes : c \notin CodesOf(R) => inventory'[c].st # "ok"
  <2>1. ASSUME NEW c \in Codes, c \notin CodesOf(R) PROVE inventory'[c].st # "ok"
    <3>1. CASE inventory[c].st = "ok"
      <4>1. DeltaRow(s, c) = [st |-> "absent", value |-> inventory[c].value]
        BY <2>1, <3>1 DEF DeltaRow
      <4>2. DeltaRow(s, c) # NoRow
        BY <4>1 DEF NoRow
      <4> QED
        BY <1>2, <4>1, <4>2
    <3>2. CASE inventory[c].st # "ok"
      <4>1. DeltaRow(s, c) = NoRow
        BY <2>1, <3>2 DEF DeltaRow, ChangedRow, Changed
      <4> QED
        BY <1>2, <3>2, <4>1
    <3> QED
      BY <3>1, <3>2
  <2> QED
    BY <2>1
<1>5. \A c \in Codes : c \in CodesOf(R) => inventory'[c].st = "ok" /\ inventory'[c].value = ValueOf(R, c)
  <2>1. ASSUME NEW c \in Codes, c \in CodesOf(R)
        PROVE  inventory'[c].st = "ok" /\ inventory'[c].value = ValueOf(R, c)
    <3>1. inventory'[c] = [st |-> "ok", value |-> ValueOf(R, c)]
      BY <1>3, <2>1
    <3> QED
      BY <3>1
  <2> QED
    BY <2>1
<1>6. Visible' = {[code |-> c, value |-> inventory'[c].value] : c \in {d \in Codes : inventory'[d].st = "ok"}}
  BY DEF Visible
<1>7. ASSUME NEW i \in R PROVE i \in Visible'
  <2>1. i.code \in CodesOf(R) /\ i.code \in Codes /\ i = [code |-> i.code, value |-> i.value]
    BY <1>1 DEF CodesOf, Items
  <2>2. ValueOf(R, i.code) = i.value
    BY <1>1 DEF ValueOf, Distinct
  <2> QED
    BY <1>5, <1>6, <2>1, <2>2
<1>8. ASSUME NEW i \in Visible' PROVE i \in R
  <2>1. PICK c \in Codes : inventory'[c].st = "ok" /\ i = [code |-> c, value |-> inventory'[c].value]
    BY <1>6
  <2>2. c \in CodesOf(R)
    BY <1>4, <2>1
  <2>3. i = [code |-> c, value |-> ValueOf(R, c)]
    BY <1>5, <2>1, <2>2
  <2> QED
    BY <2>2, <2>3, ReadingValues
<1> QED
  BY <1>7, <1>8

\* Only a publication, of a generation that was loading, moves the inventory or publishes.
LEMMA OnlyPublish ==
  ASSUME TypeOK, Placed, Alone, [Next]_vars
  PROVE  \/ UNCHANGED inventory /\ \A r \in Runs :
              /\ gens'[r] = "published" => gens[r] = "published"
              /\ gens'[r] = "loading" => gens[r] \in {"none", "loading"}
         \/ \E s \in Workers :
              /\ Publish(s) /\ gens[w[s].run] = "loading" /\ gens'[w[s].run] = "published"
              /\ \A r \in Runs \ {w[s].run} :
                   gens'[r] # "published" /\ (gens'[r] = gens[r] \/ gens'[r] = "superseded")
<1>0. gens \in [Runs -> {"none", "loading", "published", "superseded", "failed"}]
  BY DEF TypeOK
<1>1. UNCHANGED gens => \A r \in Runs :
              /\ gens'[r] = "published" => gens[r] = "published"
              /\ gens'[r] = "loading" => gens[r] \in {"none", "loading"}
  BY <1>0
<1>2. CASE QuietAction
  BY <1>1, <1>2, QuietActions
<1>3. ASSUME NEW s \in Workers,
             \/ ReadIndex(s) \/ StageChanged(s) \/ StageAbsent(s) \/ StagingFails(s) \/ PublishFails(s) \/ ClaimRun(s)
      PROVE  UNCHANGED <<gens, inventory>>
  BY <1>3 DEF ReadIndex, StageChanged, StageAbsent, StagingFails, PublishFails, ClaimRun, tables
<1>4. ASSUME NEW r \in Runs, RunAges(r) PROVE UNCHANGED <<gens, inventory>>
  BY <1>4 DEF RunAges
<1>5. ASSUME NEW s \in Workers, BeginGeneration(s)
      PROVE  UNCHANGED inventory /\ \A r \in Runs :
               /\ gens'[r] = "published" => gens[r] = "published"
               /\ gens'[r] = "loading" => gens[r] \in {"none", "loading"}
  <2>1. gens[w[s].run] = "none"
    BY <1>5 DEF BeginGeneration, Alone, Turn
  <2> QED
    BY <1>0, <1>5, <2>1 DEF BeginGeneration
<1>6. ASSUME NEW s \in Workers, Recover(s) \/ FailGeneration(s)
      PROVE  UNCHANGED inventory /\ \A r \in Runs : gens'[r] = gens[r] \/ gens'[r] = "failed"
  BY <1>0, <1>6 DEF Recover, FailGeneration
<1>7. ASSUME NEW s \in Workers, Publish(s)
      PROVE  /\ gens[w[s].run] = "loading" /\ gens'[w[s].run] = "published"
             /\ \A r \in Runs \ {w[s].run} :
                   gens'[r] # "published" /\ (gens'[r] = gens[r] \/ gens'[r] = "superseded")
  <2>1. w[s].run \in Runs
    BY <1>7 DEF Publish, Placed
  <2> QED
    BY <1>0, <1>7, <2>1 DEF Publish, MayPublish
<1> QED
  BY <1>0, <1>1, <1>2, <1>3, <1>4, <1>5, <1>6, <1>7 DEF Next, Call, Continue, QuietAction

\* MovesWhole: the inventory the shop reads moves only when a run publishes, to exactly what
\* that run read, and no run publishes or begins again once it published or failed.
THEOREM InventoryMovesWhole == Spec => MovesWhole
<1> DEFINE Inv == TypeOK /\ Placed /\ Alone /\ Deltas
<1>1. Init => Inv
  <2>1. Init => Alone /\ Deltas
    BY DEF Init, Alone, Untried, OneRun, OneInside, Turn, Inside, Begun, Deltas, Delta, Idle
  <2> QED
    BY <2>1, InitTypeOK
<1>2. Inv /\ [Next]_vars => Inv'
  BY StepTypes, AloneStep
<1>3. ASSUME Inv, [Next]_vars, Visible' # Visible PROVE \E s \in Workers : Publishes(s)
  <2>1. inventory' # inventory
    BY <1>3 DEF Visible
  <2>2. PICK s \in Workers : Publish(s) /\ gens[w[s].run] = "loading" /\ gens'[w[s].run] = "published"
    BY <1>3, <2>1, OnlyPublish
  <2> QED
    BY <2>2 DEF Publishes, Publish
<1>4. ASSUME Inv, [Next]_vars, NEW s \in Workers, Publishes(s) PROVE Visible' = w[s].reading
  <2>1. w[s].pc = "publish" /\ w[s].run \in Runs /\ gens[w[s].run] # "published" /\ gens'[w[s].run] = "published"
    BY <1>4 DEF Publishes, Placed
  <2>2. PICK t \in Workers : /\ Publish(t)
                             /\ \A r \in Runs \ {w[t].run} : gens'[r] = gens[r] \/ gens'[r] = "superseded"
    BY <1>4, <2>1, OnlyPublish
  <2>3. w[t].pc = "publish" /\ w[t].run = w[s].run
    BY <2>1, <2>2 DEF Publish
  <2>4. s = t
    BY <1>4, <2>1, <2>3 DEF Alone, OneInside, Inside, Begun
  <2> QED
    BY <1>4, <2>2, <2>4, PublishLeavesReading
<1>5. ASSUME Inv, [Next]_vars, NEW r \in Runs, gens[r] \in {"published", "superseded", "failed"}
      PROVE  gens'[r] # "loading" /\ (gens'[r] = "published" => gens[r] = "published")
  BY <1>5, OnlyPublish
<1>6. Inv /\ [Next]_vars =>
        [/\ Visible' # Visible => \E s \in Workers : Publishes(s)
         /\ \A s \in Workers : Publishes(s) => Visible' = w[s].reading]_vars
  BY <1>3, <1>4
<1>7. Inv /\ [Next]_vars =>
        [\A r \in Runs : gens[r] \in {"published", "superseded", "failed"}
                           => gens'[r] # "loading" /\ (gens'[r] = "published" => gens[r] = "published")]_vars
  BY <1>5
<1> HIDE DEF Inv
<1> QED
  BY <1>1, <1>2, <1>6, <1>7, PTL DEF Spec, MovesWhole, ReplacedWhole, PublishedOnce

-----------------------------------------------------------------------------
(* Operations, their pages and the workers that read them *)

Reads         == {"recover", "claimRun"} \cup Begun
AtPublication == {"replay", "catalog", "commit", "failGeneration"} \cup Reads
At(s, steps)  == w[s].pc \in steps /\ w[s].run \in Requests
Running(r)    == ops[r].status = "running"

\* What a step may do to an operation: nothing that matters here but a release of its lease
\* or a fresh one, its end, its start, or the checkpoint of a worker that holds its lease.
OpKept(x)   == /\ ops'[x].status = ops[x].status /\ ops'[x].phase = ops[x].phase /\ ops'[x].total = ops[x].total
               /\ pages'[x] = pages[x]
               /\ \/ ops'[x].token \in {ops[x].token, 0}
                  \/ \A t \in Workers : w[t].seen.token # ops'[x].token
OpEnded(x)  == ops'[x].status \in {"completed", "failed"} /\ pages'[x] = NoPages
OpOpened(x) == ops[x].status = "none" /\ ops'[x].status = "running" /\ ops'[x].total = -1 /\ pages'[x] = NoPages
OpRead(x)   == /\ \E s \in Workers :
                    /\ w[s].pc = "read" /\ w[s].run = x /\ HoldsLease(s)
                    /\ ops'[x].total \in {-1, 0} => pages'[x] = pages[x] /\ w[s].seen.total \in {-1, 0}
               /\ ops'[x].status = "running" /\ ops'[x].token = 0
OpStep(x)   == OpKept(x) \/ OpEnded(x) \/ OpOpened(x) \/ OpRead(x)

\* What a step may do to a worker: it rests, it takes the operation as it is now, it is a
\* historical caller that begins, or it goes on with what it saw.
WorkerSaw(t)    == /\ w'[t].run \in Requests /\ w'[t].seen = ops'[w'[t].run] /\ ops'[w'[t].run].status = "running"
                   /\ \/ w'[t].pc \in {"prepay", "uncertain", "ready"}
                      \/ w'[t].pc = "read" /\ w'[t].seen.token # 0
                      \/ w'[t].pc = "replay" /\ Publishing(w'[t].seen)
WorkerLegacy(t) == w'[t].run \in Legacy /\ w'[t].pc = "recover"
Replayed(t)     == /\ w[t].pc = "replay" /\ w[t].run \in Requests
                   /\ w'[t].reading = StoredItems(w[t].run) /\ StoredTotal(w[t].run) = w[t].seen.total
WorkerKept(t)   ==
  /\ w'[t].run = w[t].run /\ w'[t].seen = w[t].seen
  /\ w'[t].pc # "idle" => w[t].pc # "idle"
  /\ w'[t].pc = "read" => w[t].pc = "read"
  /\ w'[t].pc = "replay" => w[t].pc = "replay"
  /\ w'[t].pc \in AtPublication => w[t].pc \in AtPublication
  /\ w'[t].pc \in Reads /\ w[t].run \in Requests => (w[t].pc \in Reads /\ w'[t].reading = w[t].reading) \/ Replayed(t)
  /\ w'[t].pc = "catalog" => \/ w'[t] = w[t]
                             \/ Publish(t) /\ w'[t].reading = w[t].reading
                             \/ Replayed(t) /\ runs[w[t].run].status = "succeeded" /\ UNCHANGED <<runs, gens, inventory>>
WorkerStep(t)   == w'[t].pc = "idle" \/ WorkerSaw(t) \/ WorkerLegacy(t) \/ WorkerKept(t)

\* The pages of an operation end with it.
Cleared == \A r \in Requests : ~Running(r) => pages[r] = NoPages

OpsShape     == \A x \in Requests : OpStep(x)
WorkersShape == \A t \in Workers : WorkerStep(t)

LEMMA OpsAsTheyAre == UNCHANGED <<ops, pages>> => OpsShape
BY DEF OpsShape, OpStep, OpKept

LEMMA FailedShape ==
  ASSUME TypeOK, NEW r \in Requests, NEW seen, NEW error, Failed(r, seen, error)
  PROVE  OpsShape
<1>0. ops \in [Requests -> OpRecord] /\ pages \in [Requests -> [0..NumCodes-1 -> Page]]
  BY DEF TypeOK, Page
<1>1. CASE UNCHANGED <<ops, pages>>
  BY <1>1, OpsAsTheyAre
<1>2. CASE ops' = [ops EXCEPT ![r] = Closed("failed", error)] /\ pages' = [pages EXCEPT ![r] = NoPages]
  <2>1. Closed("failed", error).status = "failed"
    BY DEF Closed, FreshOp
  <2>2. ops'[r] = Closed("failed", error) /\ pages'[r] = NoPages
    BY <1>0, <1>2
  <2>3. \A x \in Requests \ {r} : ops'[x] = ops[x] /\ pages'[x] = pages[x]
    BY <1>0, <1>2
  <2> QED
    BY <2>1, <2>2, <2>3 DEF OpsShape, OpStep, OpKept, OpEnded
<1> QED
  BY <1>1, <1>2 DEF Failed

\* A worker at rest, or stopped.
LEMMA RestShape == ASSUME TypeOK, NEW s \in Workers, Rest(s) PROVE WorkersShape
<1>1. w'[s].pc = "idle" /\ \A t \in Workers \ {s} : w'[t] = w[t]
  BY DEF TypeOK, Rest, Idle
<1> QED
  BY <1>1 DEF WorkersShape, WorkerStep, WorkerKept

LEMMA WorkersAsTheyAre == UNCHANGED w => WorkersShape
BY DEF WorkersShape, WorkerStep, WorkerKept

\* A worker that goes on.
LEMMA MoveShape ==
  ASSUME TypeOK, NEW s \in Workers, w[s].pc # "idle",
         NEW pc \in Steps \ {"read", "replay"}, NEW reading, NEW known, MovesTo(s, pc, reading, known),
         pc \in AtPublication => w[s].pc \in AtPublication,
         pc \in Reads /\ w[s].run \in Requests =>
           \/ w[s].pc \in Reads /\ reading = w[s].reading
           \/ w[s].pc = "replay" /\ reading = StoredItems(w[s].run) /\ StoredTotal(w[s].run) = w[s].seen.total,
         pc = "catalog" =>
           \/ Publish(s) /\ reading = w[s].reading
           \/ /\ w[s].pc = "replay" /\ w[s].run \in Requests
              /\ reading = StoredItems(w[s].run) /\ StoredTotal(w[s].run) = w[s].seen.total
              /\ runs[w[s].run].status = "succeeded" /\ UNCHANGED <<runs, gens, inventory>>
  PROVE  WorkersShape
<1>1. \A t \in Workers \ {s} : w'[t] = w[t]
  BY DEF TypeOK, MovesTo
<1>2. w'[s] = To(s, pc, reading, known)
  BY DEF TypeOK, MovesTo
<1>3. w'[s].pc = pc /\ w'[s].run = w[s].run /\ w'[s].seen = w[s].seen /\ w'[s].reading = reading
  BY <1>2 DEF To
<1>4. WorkerKept(s)
  BY <1>3 DEF WorkerKept, Replayed
<1> QED
  BY <1>1, <1>4 DEF WorkersShape, WorkerStep, WorkerKept

LEMMA CurrentShape ==
  ASSUME TypeOK, NEW s \in Workers, w[s].pc # "idle", Goto(s, "current")
  PROVE  WorkersShape
<1>1. "current" \in Steps \ {"read", "replay"} /\ "current" \notin AtPublication /\ "current" \notin Reads
  BY DEF Steps, AtPublication, Reads, Begun
<1>2. MovesTo(s, "current", w[s].reading, w[s].known)
  <2>1. w[s].reading \in SUBSET Items /\ w[s].known \in [Codes -> Row]
    BY DEF TypeOK
  <2> QED
    BY <1>1, <2>1, Moves
<1> QED
  BY <1>1, <1>2, MoveShape

\* The request of a caller.
LEMMA RequestShape ==
  ASSUME TypeOK, Placed, Cleared, NEW s \in Workers, NEW r \in Requests, Ask(s, r) \/ Start(s, r)
  PROVE  OpsShape /\ WorkersShape
<1>0. /\ ops \in [Requests -> OpRecord] /\ pages \in [Requests -> [0..NumCodes-1 -> Page]]
      /\ w \in [Workers -> Worker]
  BY DEF TypeOK, Worker, Page
<1>a. CASE Ask(s, r)
  <2>1. UNCHANGED <<ops, pages>> /\ ops[r].status = "running"
    BY <1>a DEF Ask, tables
  <2>2. /\ w'[s].run = r /\ w'[s].seen = ops[r] /\ w'[s].pc = Entry(ops[r])
        /\ \A t \in Workers \ {s} : w'[t] = w[t]
    BY <1>0, <1>a DEF Ask, Idle
  <2>3. WorkerSaw(s)
    BY <2>1, <2>2 DEF WorkerSaw, Entry, Running
  <2> QED
    BY <2>1, <2>2, <2>3, OpsAsTheyAre DEF WorkersShape, WorkerStep, WorkerKept
<1>b. CASE Start(s, r)
  <2> DEFINE expired == {x \in Requests : ops[x].status = "running" /\ LeaseFree(ops[x]) /\ ops[x].overdue}
             closed  == [x \in Requests |-> IF x \in expired THEN Closed("failed", "kept") ELSE ops[x]]
             opened  == [FreshOp EXCEPT !.status = "running", !.token = FreshToken, !.live = TRUE]
             free    == /\ \A x \in Runs : runs[x].status = "running" => runs[x].old
                        /\ \A x \in Requests : closed[x].status # "running"
  <2>1. \A x \in Requests : closed[x] = ops[x] \/ closed[x].status = "failed"
    BY DEF Closed, FreshOp
  <2>2. opened.status = "running" /\ opened.total = -1
    BY DEF FreshOp
  <2>3. ops[r].status = "none" /\ closed[r] = ops[r]
    BY <1>b DEF Start
  <2> HIDE DEF expired, closed, opened
  <2>4. /\ ops' = IF free THEN [closed EXCEPT ![r] = opened] ELSE closed
        /\ pages' = [x \in Requests |-> IF closed[x].status = "running" THEN pages[x] ELSE NoPages]
        /\ IF free THEN w' = [w EXCEPT ![s] = [Idle EXCEPT !.run = r, !.pc = "prepay", !.seen = ops'[r]]]
                   ELSE UNCHANGED w
    BY <1>b DEF Start, expired, closed, opened
  <2> HIDE DEF free
  <2>5. OpsShape
    <3>1. ASSUME NEW x \in Requests PROVE OpStep(x)
      <4>1. CASE ops'[x] = closed[x] /\ closed[x].status = "failed"
        BY <2>4, <4>1 DEF OpStep, OpEnded
      <4>2. CASE ops'[x] = opened /\ x = r
        BY <2>2, <2>3, <2>4, <4>2 DEF OpStep, OpOpened, Running
      <4>3. CASE ops'[x] = ops[x] /\ closed[x] = ops[x]
        <5>1. CASE ops[x].status = "running"
          BY <2>4, <4>3, <5>1 DEF OpStep, OpKept
        <5>2. CASE ops[x].status \in {"completed", "failed"}
          BY <2>4, <4>3, <5>2 DEF OpStep, OpEnded
        <5>3. CASE ops[x].status = "none"
          <6>1. pages[x] = NoPages
            BY <5>3 DEF Cleared, Running
          <6> QED
            BY <2>4, <4>3, <5>3, <6>1 DEF OpStep, OpKept
        <5> QED
          BY <1>0, <5>1, <5>2, <5>3 DEF OpRecord
      <4>4. ops'[x] = closed[x] \/ (ops'[x] = opened /\ x = r)
        BY <2>4 DEF closed
      <4> QED
        BY <2>1, <4>1, <4>2, <4>3, <4>4
    <3> QED
      BY <3>1 DEF OpsShape
  <2>6. WorkersShape
    <3>1. CASE free
      <4>1. ops'[r] = opened
        BY <2>4, <3>1 DEF closed
      <4>2. /\ w'[s].run = r /\ w'[s].seen = ops'[r] /\ w'[s].pc = "prepay"
            /\ \A t \in Workers \ {s} : w'[t] = w[t]
        BY <1>0, <2>4, <3>1 DEF Idle
      <4> QED
        BY <2>2, <4>1, <4>2 DEF WorkersShape, WorkerStep, WorkerKept, WorkerSaw, Running
    <3>2. CASE ~free
      BY <2>4, <3>2, WorkersAsTheyAre
    <3> QED
      BY <3>1, <3>2
  <2> QED
    BY <2>5, <2>6
<1> QED
  BY <1>a, <1>b

LEMMA ClaimShape ==
  ASSUME TypeOK, Placed, NEW s \in Workers,
         Prepay(s) \/ CloseUncertain(s) \/ CloseOverdue(s) \/ Claim(s) \/ Current(s)
  PROVE  OpsShape /\ WorkersShape
<1>0. /\ ops \in [Requests -> OpRecord] /\ pages \in [Requests -> [0..NumCodes-1 -> Page]]
      /\ w \in [Workers -> Worker] /\ \A t \in Workers : w[t].seen.token # FreshToken
      /\ FreshToken # 0
  BY TokenIsFresh, TokensPositive DEF TypeOK, Worker, Page
<1>1. w[s].run \in Requests /\ w[s].pc # "idle" /\ ops[w[s].run] \in OpRecord
  BY <1>0 DEF Prepay, CloseUncertain, CloseOverdue, Claim, Current, Placed, OpSteps
<1>a. CASE Prepay(s)
  <2>1. CASE Failed(w[s].run, w[s].seen, "other") /\ Rest(s)
    BY <1>1, <2>1, FailedShape, RestShape
  <2>2. CASE Rest(s) /\ UNCHANGED <<ops, pages>>
    BY <2>2, OpsAsTheyAre, RestShape
  <2>3. CASE /\ ops' = IF HoldsLease(s) THEN [ops EXCEPT ![w[s].run] = [@ EXCEPT !.token = 0, !.live = FALSE]] ELSE ops
             /\ IF ops'[w[s].run].status = "running" /\ LeaseFree(ops'[w[s].run])
                THEN w' = [w EXCEPT ![s].pc = Entry(ops'[w[s].run]), ![s].seen = ops'[w[s].run]]
                ELSE Rest(s)
             /\ UNCHANGED pages
    <3>1. OpsShape
      <4>1. CASE UNCHANGED ops
        BY <2>3, <4>1, OpsAsTheyAre
      <4>2. CASE ops' = [ops EXCEPT ![w[s].run] = [@ EXCEPT !.token = 0, !.live = FALSE]]
        <5>1. /\ ops'[w[s].run].status = ops[w[s].run].status /\ ops'[w[s].run].phase = ops[w[s].run].phase
              /\ ops'[w[s].run].total = ops[w[s].run].total /\ ops'[w[s].run].token = 0
              /\ \A x \in Requests \ {w[s].run} : ops'[x] = ops[x]
          BY <1>0, <1>1, <4>2 DEF OpRecord
        <5> QED
          BY <2>3, <5>1 DEF OpsShape, OpStep, OpKept
      <4> QED
        BY <2>3, <4>1, <4>2
    <3>2. WorkersShape
      <4>1. CASE /\ ops'[w[s].run].status = "running"
                 /\ w' = [w EXCEPT ![s].pc = Entry(ops'[w[s].run]), ![s].seen = ops'[w[s].run]]
        <5>1. /\ w'[s].run = w[s].run /\ w'[s].seen = ops'[w[s].run] /\ w'[s].pc = Entry(ops'[w[s].run])
              /\ \A t \in Workers \ {s} : w'[t] = w[t]
          BY <1>0, <4>1 DEF Worker
        <5>2. WorkerSaw(s)
          BY <1>1, <4>1, <5>1 DEF WorkerSaw, Entry
        <5> QED
          BY <5>1, <5>2 DEF WorkersShape, WorkerStep, WorkerKept
      <4> QED
        BY <2>3, <4>1, RestShape
    <3> QED
      BY <3>1, <3>2
  <2> QED
    BY <1>a, <2>1, <2>2, <2>3 DEF Prepay
<1>b. CASE CloseUncertain(s)
  BY <1>1, <1>b, FailedShape, CurrentShape DEF CloseUncertain
<1>c. CASE CloseOverdue(s)
  BY <1>1, <1>c, FailedShape, RestShape DEF CloseOverdue
<1>d. CASE Claim(s)
  <2> DEFINE o == ops[w[s].run]
             step == IF Publishing(o) THEN 0 ELSE 1
             claimed == [o EXCEPT !.token = FreshToken, !.live = TRUE, !.attempts = @ + step, !.tries = @ + step]
  <2>1. CASE UNCHANGED ops /\ Goto(s, "current")
    BY <1>1, <1>d, <2>1, OpsAsTheyAre, CurrentShape DEF Claim
  <2>2. CASE /\ o.status = "running" /\ ops' = [ops EXCEPT ![w[s].run] = claimed]
             /\ w' = [w EXCEPT ![s].pc = IF Publishing(o) THEN "replay" ELSE "read", ![s].seen = claimed]
    <3>1. /\ claimed.status = o.status /\ claimed.token = FreshToken
          /\ claimed.phase = o.phase /\ claimed.total = o.total
      BY <1>1 DEF OpRecord
    <3> HIDE DEF claimed
    <3>2. ops'[w[s].run] = claimed /\ \A x \in Requests \ {w[s].run} : ops'[x] = ops[x]
      BY <1>0, <1>1, <2>2
    <3>3. /\ w'[s].run = w[s].run /\ w'[s].seen = claimed
          /\ w'[s].pc = IF Publishing(o) THEN "replay" ELSE "read"
          /\ \A t \in Workers \ {s} : w'[t] = w[t]
      BY <1>0, <2>2 DEF Worker
    <3>4. OpsShape
      <4>1. UNCHANGED pages
        BY <1>d DEF Claim
      <4> QED
        BY <1>0, <3>1, <3>2, <4>1 DEF OpsShape, OpStep, OpKept
    <3>5. WorkerSaw(s)
      <4>1. Publishing(claimed) <=> Publishing(o)
        BY <3>1 DEF Publishing, Collecting
      <4> QED
        BY <1>0, <1>1, <2>2, <3>1, <3>2, <3>3, <4>1 DEF WorkerSaw
    <3> QED
      BY <3>3, <3>4, <3>5 DEF WorkersShape, WorkerStep, WorkerKept
  <2> QED
    BY <1>d, <2>1, <2>2 DEF Claim
<1>e. CASE Current(s)
  <2>1. CASE UNCHANGED <<ops, pages>>
    BY <1>e, <2>1, OpsAsTheyAre, RestShape DEF Current
  <2>2. CASE \E error \in {"kept", "other"} : Failed(w[s].run, ops[w[s].run], error)
    BY <1>1, <1>e, <2>2, FailedShape, RestShape DEF Current
  <2> QED
    BY <1>e, <2>1, <2>2 DEF Current
<1> QED
  BY <1>a, <1>b, <1>c, <1>d, <1>e

LEMMA ReadShape ==
  ASSUME TypeOK, Placed, NEW s \in Workers, Checkpoint(s) \/ Defer(s) \/ ReadFails(s)
  PROVE  OpsShape /\ WorkersShape
<1>0. /\ ops \in [Requests -> OpRecord] /\ pages \in [Requests -> [0..NumCodes-1 -> Page]]
      /\ w \in [Workers -> Worker]
  BY DEF TypeOK, Worker, Page
<1>1. w[s].run \in Requests /\ w[s].pc = "read" /\ ops[w[s].run] \in OpRecord
  BY <1>0 DEF Checkpoint, Defer, ReadFails, Placed, OpSteps
<1>a. CASE Checkpoint(s)
  <2> DEFINE r == w[s].run
             o == w[s].seen
             here  == o.phase = Identity
             total == IF here /\ o.total = -1 THEN Cardinality(Present) ELSE o.total
             page  == ItemAt(o.offset)
             next  == IF here THEN o.offset + Cardinality(page) ELSE o.offset
             done  == here => next = total
             mine  == HoldsLease(s)
             phase == IF done THEN o.phase + 1 ELSE o.phase
             moved == [ops[r] EXCEPT !.phase = phase, !.offset = next, !.total = total,
                         !.token = 0, !.live = FALSE, !.tries = 0, !.wait = FALSE]
  <2>1. WorkersShape
    BY <1>1, <1>a, RestShape, CurrentShape DEF Checkpoint
  <2>2. CASE ~HoldsLease(s)
    <3>1. UNCHANGED <<ops, pages>>
      BY <1>a, <2>2 DEF Checkpoint, StoresPage
    <3> QED
      BY <2>1, <3>1, OpsAsTheyAre
  <2>3. CASE HoldsLease(s)
    <3>1. /\ here => Cardinality(Present) = total
          /\ ops' = [ops EXCEPT ![r] = moved]
          /\ pages' = IF here /\ page # {} THEN [pages EXCEPT ![r][o.offset] = [items |-> page, total |-> total]] ELSE pages
      BY <1>a, <2>3 DEF Checkpoint, StoresPage
    <3>2. moved.total = total /\ moved.token = 0 /\ moved.status = ops[r].status
      BY <1>1 DEF OpRecord
    <3> HIDE DEF moved
    <3>3. ops'[r] = moved /\ \A x \in Requests \ {r} : ops'[x] = ops[x]
      BY <1>0, <1>1, <3>1
    <3>4. \A x \in Requests \ {r} : pages'[x] = pages[x]
      BY <1>0, <1>1, <3>1
    <3>5. total \in {-1, 0} => pages'[r] = pages[r] /\ o.total \in {-1, 0}
      <4>1. CASE ~here
        BY <3>1, <4>1
      <4>2. CASE here
        <5>1. Cardinality(Present) \in 0..NumCodes /\ o.offset \in Nat
          BY <1>0, ItemAtOffset DEF Worker, OpRecord
        <5>2. total = 0 => page = {}
          BY <3>1, <4>2, <5>1, ItemAtOffset
        <5>3. total # -1
          BY <3>1, <4>2, <5>1
        <5> QED
          BY <3>1, <5>2, <5>3
      <4> QED
        BY <4>1, <4>2
    <3>6. OpRead(r)
      <4>1. ops[r].status = "running"
        BY <2>3 DEF HoldsLease
      <4>2. ops'[r].status = "running" /\ ops'[r].token = 0 /\ ops'[r].total = total
        BY <3>2, <3>3, <4>1 DEF Running
      <4>3. ops'[r].total \in {-1, 0} => pages'[r] = pages[r] /\ w[s].seen.total \in {-1, 0}
        BY <3>5, <4>2
      <4> HIDE DEF total
      <4> QED
        BY <1>1, <2>3, <4>2, <4>3 DEF OpRead
    <3>7. OpsShape
      BY <3>3, <3>4, <3>6 DEF OpsShape, OpStep, OpKept
    <3> QED
      BY <2>1, <3>7
  <2> QED
    BY <2>2, <2>3
<1>b. CASE Defer(s)
  <2>1. WorkersShape
    BY <1>1, <1>b, CurrentShape DEF Defer
  <2>2. CASE ops' = [ops EXCEPT ![w[s].run] = [@ EXCEPT !.token = 0, !.live = FALSE, !.wait = TRUE]]
    <3>1. /\ ops'[w[s].run].status = ops[w[s].run].status /\ ops'[w[s].run].phase = ops[w[s].run].phase
          /\ ops'[w[s].run].total = ops[w[s].run].total /\ ops'[w[s].run].token = 0
          /\ \A x \in Requests \ {w[s].run} : ops'[x] = ops[x]
      BY <1>0, <1>1, <2>2 DEF OpRecord
    <3>2. UNCHANGED pages
      BY <1>b DEF Defer
    <3> QED
      BY <2>1, <3>1, <3>2 DEF OpsShape, OpStep, OpKept
  <2>3. CASE UNCHANGED ops
    <3>1. UNCHANGED pages
      BY <1>b DEF Defer
    <3> QED
      BY <2>1, <2>3, <3>1, OpsAsTheyAre
  <2> QED
    BY <1>b, <2>2, <2>3 DEF Defer
<1>c. CASE ReadFails(s)
  BY <1>1, <1>c, FailedShape, RestShape DEF ReadFails
<1> QED
  BY <1>a, <1>b, <1>c

LEMMA PublicationShape ==
  ASSUME TypeOK, Placed, NEW s \in Workers,
         \/ Replay(s) \/ Recover(s) \/ ClaimRun(s) \/ BeginGeneration(s) \/ ReadIndex(s)
         \/ StageChanged(s) \/ StageAbsent(s) \/ StagingFails(s) \/ Publish(s) \/ PublishFails(s)
         \/ FailGeneration(s) \/ WriteCatalog(s) \/ Commit(s)
  PROVE  OpsShape /\ WorkersShape
<1> USE DEF tables
<1>0. /\ ops \in [Requests -> OpRecord] /\ pages \in [Requests -> [0..NumCodes-1 -> Page]]
      /\ w \in [Workers -> Worker]
  BY DEF TypeOK, Worker, Page
<1>1. /\ {"claimRun", "begin", "index", "stage", "stageAbsent", "publish"} \subseteq (Steps \ {"read", "replay"}) \cap AtPublication \cap Reads
      /\ "recover" \in Reads /\ {"recover", "failGeneration", "catalog", "commit"} \subseteq (Steps \ {"read", "replay"}) \cap AtPublication
      /\ {"failGeneration", "catalog", "commit"} \cap Reads = {}
  BY DEF Steps, AtPublication, Reads, Begun
<1>2. ASSUME PublicationFails(s) PROVE OpsShape /\ WorkersShape
  <2>1. WorkersShape
    BY <1>2, RestShape DEF PublicationFails
  <2> QED
    BY <1>2, <2>1, FailedShape, OpsAsTheyAre DEF PublicationFails, IsOperation
<1>a. CASE Replay(s)
  <2>1. w[s].run \in Requests /\ w[s].pc = "replay" /\ "replay" \in AtPublication
    BY <1>a DEF Replay, Placed, OpSteps, AtPublication
  <2>2. CASE Failed(w[s].run, w[s].seen, "other") /\ Rest(s)
    BY <2>1, <2>2, FailedShape, RestShape
  <2>3. CASE /\ StoredTotal(w[s].run) = w[s].seen.total /\ UNCHANGED <<ops, pages>>
             /\ MovesTo(s, "recover", StoredItems(w[s].run), w[s].known)
    BY <1>1, <2>1, <2>3, MoveShape, OpsAsTheyAre
  <2>4. CASE /\ StoredTotal(w[s].run) = w[s].seen.total /\ UNCHANGED <<ops, pages>>
             /\ runs[w[s].run].status = "succeeded"
             /\ MovesTo(s, "catalog", StoredItems(w[s].run), w[s].known)
    <3>1. UNCHANGED <<runs, gens, inventory>>
      BY <1>a DEF Replay
    <3> QED
      BY <1>1, <2>1, <2>4, <3>1, MoveShape, OpsAsTheyAre
  <2> QED
    BY <1>a, <2>1, <2>2, <2>3, <2>4, ReplayMoves
<1>b. CASE Recover(s) \/ BeginGeneration(s) \/ StageChanged(s) \/ StageAbsent(s)
  <2>1. UNCHANGED <<ops, pages>> /\ w[s].pc \in Reads /\ w[s].pc \in AtPublication /\ w[s].pc # "idle"
    BY <1>b DEF Recover, BeginGeneration, StageChanged, StageAbsent, Reads, AtPublication, Begun
  <2>2. PICK pc \in {"claimRun", "index", "stageAbsent", "publish"} : MovesTo(s, pc, w[s].reading, w[s].known)
    BY <1>b, PublicationMoves
  <2> QED
    BY <1>1, <2>1, <2>2, MoveShape, OpsAsTheyAre
<1>c. CASE ClaimRun(s)
  <2>1. w[s].pc \in Reads /\ w[s].pc \in AtPublication /\ w[s].pc # "idle"
    BY <1>c DEF ClaimRun, Reads, AtPublication
  <2>2. PublicationFails(s) \/ (UNCHANGED <<ops, pages>> /\ Goto(s, "begin"))
    BY <1>c DEF ClaimRun
  <2>3. ASSUME Goto(s, "begin") PROVE MovesTo(s, "begin", w[s].reading, w[s].known)
    <3>1. w[s].reading \in SUBSET Items /\ w[s].known \in [Codes -> Row] /\ "begin" \in Steps
      BY <1>1 DEF TypeOK
    <3> QED
      BY <2>3, <3>1, Moves
  <2> QED
    BY <1>1, <1>2, <2>1, <2>2, <2>3, MoveShape, OpsAsTheyAre
<1>d. CASE ReadIndex(s)
  <2>1. UNCHANGED <<ops, pages>> /\ w[s].pc \in Reads /\ w[s].pc \in AtPublication /\ w[s].pc # "idle"
    BY <1>d DEF ReadIndex, Reads, AtPublication, Begun
  <2>2. w[s].run \in Requests => IndexReading(s) = w[s].reading
    BY DEF IndexReading, IsOperation
  <2>3. PICK pc \in {"stage", "failGeneration"} : MovesTo(s, pc, IndexReading(s), inventory)
    BY <1>d, PublicationMoves
  <2> QED
    BY <1>1, <2>1, <2>2, <2>3, MoveShape, OpsAsTheyAre
<1>e. CASE StagingFails(s) \/ PublishFails(s)
  <2>1. UNCHANGED <<ops, pages>> /\ w[s].pc \in AtPublication /\ w[s].pc # "idle"
    BY <1>e DEF StagingFails, PublishFails, AtPublication, Reads, Begun
  <2>2. MovesTo(s, "failGeneration", {}, NoDelta)
    BY <1>e, PublicationMoves
  <2> QED
    BY <1>1, <2>1, <2>2, MoveShape, OpsAsTheyAre
<1>f. CASE Publish(s)
  <2>1. UNCHANGED <<ops, pages>> /\ w[s].pc \in AtPublication /\ w[s].pc # "idle"
    BY <1>f DEF Publish, AtPublication, Reads, Begun
  <2>2. CASE MovesTo(s, "catalog", w[s].reading, NoDelta)
    BY <1>1, <1>f, <2>1, <2>2, MoveShape, OpsAsTheyAre
  <2>3. CASE MovesTo(s, "failGeneration", {}, NoDelta)
    BY <1>1, <2>1, <2>3, MoveShape, OpsAsTheyAre
  <2> QED
    BY <1>f, <2>2, <2>3, PublicationMoves
<1>g. CASE FailGeneration(s)
  BY <1>2, <1>g DEF FailGeneration
<1>h. CASE WriteCatalog(s)
  <2>1. w[s].pc \in AtPublication /\ w[s].pc # "idle"
    BY <1>h DEF WriteCatalog, AtPublication
  <2>2. PublicationFails(s) \/ UNCHANGED <<ops, pages>>
    BY <1>h DEF WriteCatalog
  <2>3. Rest(s) \/ MovesTo(s, "commit", {}, w[s].known)
    BY <1>h, PublicationMoves
  <2>4. MovesTo(s, "commit", {}, w[s].known) => WorkersShape
    BY <1>1, <2>1, MoveShape
  <2> QED
    BY <1>2, <2>2, <2>3, <2>4, RestShape, OpsAsTheyAre
<1>i. CASE Commit(s)
  <2>1. w[s].run \in Requests /\ w[s].pc # "idle"
    BY <1>i DEF Commit, Placed, OpSteps
  <2>2. CASE UNCHANGED <<ops, pages>> /\ Goto(s, "current")
    BY <2>1, <2>2, OpsAsTheyAre, CurrentShape
  <2>3. CASE /\ ops' = [ops EXCEPT ![w[s].run] = Closed("completed", None)]
             /\ pages' = [pages EXCEPT ![w[s].run] = NoPages]
             /\ Rest(s)
    <3>1. Closed("completed", None).status = "completed"
      BY DEF Closed, FreshOp
    <3>2. ops'[w[s].run] = Closed("completed", None) /\ pages'[w[s].run] = NoPages
      BY <1>0, <2>1, <2>3
    <3>3. \A x \in Requests \ {w[s].run} : ops'[x] = ops[x] /\ pages'[x] = pages[x]
      BY <1>0, <2>1, <2>3
    <3>4. OpsShape
      BY <3>1, <3>2, <3>3 DEF OpsShape, OpStep, OpKept, OpEnded
    <3> QED
      BY <2>3, <3>4, RestShape
  <2> QED
    BY <1>i, <2>2, <2>3 DEF Commit
<1> QED
  BY <1>a, <1>b, <1>c, <1>d, <1>e, <1>f, <1>g, <1>h, <1>i

LEMMA StepShape == ASSUME TypeOK, Placed, Cleared, [Next]_vars PROVE OpsShape /\ WorkersShape
<1>0. ops \in [Requests -> OpRecord] /\ w \in [Workers -> Worker]
  BY DEF TypeOK, Worker
<1>1. ASSUME NEW r \in Requests, LeaseExpires(r) \/ RetryDue(r) \/ DeadlinePasses(r)
      PROVE  OpsShape /\ WorkersShape
  <2>1. UNCHANGED <<pages, w>>
    BY <1>1 DEF LeaseExpires, RetryDue, DeadlinePasses
  <2>2. /\ ops'[r].status = ops[r].status /\ ops'[r].phase = ops[r].phase
        /\ ops'[r].total = ops[r].total /\ ops'[r].token = ops[r].token
        /\ \A x \in Requests \ {r} : ops'[x] = ops[x]
    BY <1>0, <1>1 DEF LeaseExpires, RetryDue, DeadlinePasses, OpRecord
  <2> QED
    BY <2>1, <2>2, WorkersAsTheyAre DEF OpsShape, OpStep, OpKept
<1>2. CASE (\E r \in Runs : RunAges(r)) \/ DuxChanges \/ StopCollecting \/ UNCHANGED vars
  <2>1. UNCHANGED <<ops, pages, w>>
    BY <1>2 DEF RunAges, DuxChanges, StopCollecting, tables, vars
  <2> QED
    BY <2>1, OpsAsTheyAre, WorkersAsTheyAre
<1>3. ASSUME NEW s \in Workers, Die(s) PROVE OpsShape /\ WorkersShape
  BY <1>3, OpsAsTheyAre, RestShape DEF Die, tables
<1>4. ASSUME NEW s \in Workers, NEW r \in Legacy, LegacyCall(s, r) PROVE OpsShape /\ WorkersShape
  <2>1. UNCHANGED <<ops, pages>>
    BY <1>4 DEF LegacyCall, tables
  <2>2. w'[s].run = r /\ w'[s].pc = "recover" /\ \A t \in Workers \ {s} : w'[t] = w[t]
    BY <1>0, <1>4 DEF LegacyCall, Idle
  <2> QED
    BY <2>1, <2>2, OpsAsTheyAre DEF WorkersShape, WorkerStep, WorkerKept, WorkerLegacy
<1> QED
  BY <1>1, <1>2, <1>3, <1>4, RequestShape, ClaimShape, ReadShape, PublicationShape DEF Next, Call, Continue

-----------------------------------------------------------------------------
(* The catalogue *)

\* Whoever holds a lease knows how far its operation is.
Known ==
  \A s \in Workers : w[s].pc # "idle" /\ w[s].run \in Requests =>
    /\ w[s].seen.token # 0 /\ HoldsLease(s)
         => ops[w[s].run].phase = w[s].seen.phase /\ ops[w[s].run].total = w[s].seen.total
    /\ w[s].pc = "read" => w[s].seen.token # 0

\* Nobody is at an operation that has not started.
Unstarted ==
  \A r \in Requests : ops[r].status = "none" =>
    runs[r].status = "none" /\ \A s \in Workers : w[s].pc # "idle" => w[s].run # r

\* The pages of an operation, until its publication and after it.
Empty     == \A r \in Requests : Running(r) /\ ops[r].total \in {-1, 0} => StoredItems(r) = {}
Closing   == \A r \in Requests : Running(r) /\ runs[r].status # "none" => Publishing(ops[r])
Published == \A r \in Requests : Running(r) /\ gens[r] = "published" => Visible = StoredItems(r)

\* What the workers of a publication read: the pages of their operation while it runs.
Joined   == \A s \in Workers : At(s, AtPublication) /\ Running(w[s].run) =>
              Publishing(ops[w[s].run]) /\ w[s].seen.total = ops[w[s].run].total
Reading  == \A s \in Workers : At(s, Reads) =>
              /\ Running(w[s].run) => w[s].reading = StoredItems(w[s].run)
              /\ w[s].seen.total = 0 => w[s].reading = {}
Emptied  == \A s \in Workers : w[s].pc = "replay" /\ w[s].seen.total = 0 /\ gens[w[s].run] = "published" => Visible = {}
Agreed   == \A s, t \in Workers : At(s, AtPublication) /\ At(t, AtPublication) /\ w[s].run = w[t].run =>
              w[s].seen.total = w[t].seen.total

\* What a worker is about to write, and what is written, is what its run published.
Bound   == \A s \in Workers : w[s].pc = "catalog" =>
             runs[w[s].run].status = "succeeded" /\ (gens[w[s].run] = "published" => w[s].reading = Visible)
Written == catalog.run # None => runs[catalog.run].status = "succeeded"

SyncInv ==
  /\ TypeOK /\ Placed /\ Alone /\ Deltas
  /\ Cleared /\ Known /\ Unstarted /\ Empty /\ Closing /\ Published
  /\ Joined /\ Reading /\ Emptied /\ Agreed /\ Bound /\ Written /\ CatalogAgrees

LEMMA StoredNothing ==
  ASSUME TypeOK, NEW r \in Requests
  PROVE  /\ pages[r] = NoPages => StoredItems(r) = {} /\ StoredTotal(r) = 0
         /\ StoredTotal(r) = 0 => StoredItems(r) = {}
<1> DEFINE full == {k \in DOMAIN pages[r] : pages[r][k].items # {}}
<1>1. DOMAIN pages[r] = 0..NumCodes-1
  BY DEF TypeOK
<1>2. IsFiniteSet(full)
  <2>1. IsFiniteSet(0..NumCodes-1)
    BY SyncAssumption, FS_Interval
  <2> QED
    BY <1>1, <2>1, FS_Subset
<1>3. StoredTotal(r) = 0 => StoredItems(r) = {}
  <2>1. StoredTotal(r) = 0 => full = {}
    BY <1>2, FS_EmptySet DEF StoredTotal
  <2> QED
    BY <2>1 DEF StoredItems
<1>4. pages[r] = NoPages => full = {}
  BY DEF NoPages
<1>5. full = {} => StoredTotal(r) = 0
  BY FS_EmptySet DEF StoredTotal
<1> QED
  BY <1>3, <1>4, <1>5

LEMMA RunsStep ==
  ASSUME TypeOK, Placed, [Next]_vars, NEW r \in Runs
  PROVE  /\ runs[r].status = "none" /\ runs'[r].status # "none" =>
              \E s \in Workers : w[s].pc = "claimRun" /\ w[s].run = r
         /\ runs[r].status = "succeeded" => runs'[r].status = "succeeded"
         /\ runs[r].status # "none" => runs'[r].status # "none"
<1>0. runs \in [Runs -> [status : {"none", "running", "succeeded", "failed"}, old : BOOLEAN]]
  BY DEF TypeOK
<1>1. CASE UNCHANGED runs
  BY <1>1
<1>2. CASE QuietAction
  BY <1>2, <1>1, QuietActions
<1>3. ASSUME NEW s \in Workers, Recover(s) \/ Publish(s) \/ FailGeneration(s)
      PROVE  /\ runs[r].status = "none" <=> runs'[r].status = "none"
             /\ runs[r].status = "succeeded" => runs'[r].status = "succeeded"
  <2>1. w[s].run \in Runs
    BY <1>3 DEF Recover, Publish, FailGeneration, Placed
  <2> QED
    BY <1>0, <1>3, <2>1 DEF Recover, Publish, FailGeneration, EndedRun
<1>4. ASSUME NEW s \in Workers, ClaimRun(s), CanClaimRun(w[s].run)
      PROVE  /\ runs[r].status = "none" /\ runs'[r].status # "none" => w[s].pc = "claimRun" /\ w[s].run = r
             /\ runs[r].status = "succeeded" => runs'[r].status = "succeeded"
             /\ runs[r].status # "none" => runs'[r].status # "none"
  BY <1>0, <1>4 DEF ClaimRun, CanClaimRun
<1>5. ASSUME NEW s \in Workers, ClaimRun(s), ~CanClaimRun(w[s].run) PROVE QuietAction
  BY <1>5 DEF ClaimRun, QuietAction
<1>6. ASSUME NEW s \in Workers,
             \/ BeginGeneration(s) \/ ReadIndex(s) \/ StageChanged(s) \/ StageAbsent(s)
             \/ StagingFails(s) \/ PublishFails(s)
      PROVE  UNCHANGED runs
  BY <1>6 DEF BeginGeneration, ReadIndex, StageChanged, StageAbsent, StagingFails, PublishFails, tables
<1>7. ASSUME NEW x \in Runs, RunAges(x) PROVE runs'[r].status = runs[r].status
  BY <1>0, <1>7 DEF RunAges
<1> QED
  BY <1>1, <1>2, <1>3, <1>4, <1>5, <1>6, <1>7 DEF Next, Call, Continue, QuietAction

LEMMA CatalogStep ==
  ASSUME [Next]_vars
  PROVE  \/ UNCHANGED catalog
         \/ \E s \in Workers : /\ w[s].pc = "catalog" /\ runs[w[s].run].status = "succeeded"
                               /\ catalog' = [run |-> w[s].run, items |-> w[s].reading]
                               /\ UNCHANGED <<runs, gens, inventory>>
<1> USE DEF tables
<1>1. ASSUME NEW s \in Workers, WriteCatalog(s)
      PROVE  \/ UNCHANGED catalog
             \/ /\ w[s].pc = "catalog" /\ runs[w[s].run].status = "succeeded"
                /\ catalog' = [run |-> w[s].run, items |-> w[s].reading]
                /\ UNCHANGED <<runs, gens, inventory>>
  BY <1>1 DEF WriteCatalog
<1>2. ASSUME NEW s \in Workers,
             \/ Prepay(s) \/ CloseUncertain(s) \/ CloseOverdue(s) \/ Claim(s) \/ Current(s)
             \/ Checkpoint(s) \/ Defer(s) \/ ReadFails(s)
             \/ Replay(s) \/ Recover(s) \/ ClaimRun(s) \/ BeginGeneration(s) \/ ReadIndex(s)
             \/ StageChanged(s) \/ StageAbsent(s) \/ StagingFails(s)
             \/ Publish(s) \/ PublishFails(s) \/ FailGeneration(s) \/ Commit(s) \/ Die(s)
             \/ \E r \in Legacy : LegacyCall(s, r)
             \/ \E r \in Requests : Ask(s, r) \/ Start(s, r)
      PROVE  UNCHANGED catalog
  BY <1>2 DEF Prepay, CloseUncertain, CloseOverdue, Claim, Current, Checkpoint, Defer, ReadFails, Replay, Recover,
     ClaimRun, BeginGeneration, ReadIndex, StageChanged, StageAbsent, StagingFails, Publish, PublishFails,
     FailGeneration, Commit, Die, LegacyCall, Ask, Start
<1>3. CASE \/ \E r \in Requests : LeaseExpires(r) \/ RetryDue(r) \/ DeadlinePasses(r)
           \/ \E r \in Runs : RunAges(r)
           \/ DuxChanges \/ StopCollecting \/ UNCHANGED vars
  BY <1>3 DEF LeaseExpires, RetryDue, DeadlinePasses, RunAges, DuxChanges, StopCollecting, vars
<1> QED
  BY <1>1, <1>2, <1>3 DEF Next, Call, Continue

\* Publishing goes on to the end of the operation: nobody who reads holds its lease.
LEMMA PublishingStays ==
  ASSUME Placed, Known, NEW x \in Requests, OpStep(x), Running(x), Publishing(ops[x])
  PROVE  OpKept(x) \/ OpEnded(x)
<1>1. ~OpOpened(x)
  BY DEF OpOpened, Running
<1>2. ~OpRead(x)
  <2>1. SUFFICES ASSUME OpRead(x) PROVE FALSE
    OBVIOUS
  <2>2. PICK s \in Workers : w[s].pc = "read" /\ w[s].run = x /\ HoldsLease(s)
    BY <2>1 DEF OpRead
  <2>3. ops[x].phase = w[s].seen.phase /\ Collecting(w[s].seen)
    BY <2>2 DEF Known, Placed
  <2> QED
    BY <2>3 DEF Publishing, Collecting
<1> QED
  BY <1>1, <1>2 DEF OpStep

\* The premises every part of the step shares.
Stepped == SyncInv /\ [Next]_vars /\ OpsShape /\ WorkersShape

LEMMA KnownStep == ASSUME Stepped PROVE Known' /\ Cleared'
<1> USE DEF Stepped
<1>1. Cleared'
  BY DEF SyncInv, Cleared, OpsShape, OpStep, OpKept, OpEnded, OpOpened, OpRead, Running
<1>2. ASSUME NEW t \in Workers, w'[t].pc # "idle", w'[t].run \in Requests
      PROVE  /\ w'[t].seen.token # 0 /\ HoldsLease(t)'
                   => ops'[w'[t].run].phase = w'[t].seen.phase /\ ops'[w'[t].run].total = w'[t].seen.total
             /\ w'[t].pc = "read" => w'[t].seen.token # 0
  <2>1. CASE WorkerSaw(t)
    BY <2>1 DEF WorkerSaw
  <2>2. CASE WorkerLegacy(t)
    BY <1>2, <2>2, SyncAssumption DEF WorkerLegacy
  <2>3. CASE WorkerKept(t)
    <3>1. w'[t].run = w[t].run /\ w'[t].seen = w[t].seen /\ w[t].pc # "idle" /\ (w'[t].pc = "read" => w[t].pc = "read")
      BY <1>2, <2>3 DEF WorkerKept
    <3>2. ASSUME w[t].seen.token # 0, HoldsLease(t)'
          PROVE  ops'[w[t].run].phase = w[t].seen.phase /\ ops'[w[t].run].total = w[t].seen.total
      <4>1. ops'[w[t].run].status = "running" /\ ops'[w[t].run].token = w[t].seen.token
        BY <3>1, <3>2 DEF HoldsLease
      <4>2. ops[w[t].run].status # "none"
        BY <1>2, <3>1 DEF SyncInv, Unstarted
      <4>3. OpKept(w[t].run)
        BY <1>2, <3>1, <3>2, <4>1, <4>2 DEF OpsShape, OpStep, OpEnded, OpOpened, OpRead
      <4>4. HoldsLease(t)
        BY <3>2, <4>1, <4>3 DEF OpKept, HoldsLease
      <4> QED
        BY <1>2, <3>1, <3>2, <4>3, <4>4 DEF OpKept, SyncInv, Known
    <3> QED
      BY <1>2, <3>1, <3>2 DEF SyncInv, Known
  <2> QED
    BY <1>2, <2>1, <2>2, <2>3 DEF WorkersShape, WorkerStep
<1> QED
  BY <1>1, <1>2 DEF Known

LEMMA UnstartedStep == ASSUME Stepped PROVE Unstarted'
<1> USE DEF Stepped
<1>1. ASSUME NEW r \in Requests, ops'[r].status = "none"
      PROVE  runs'[r].status = "none" /\ \A t \in Workers : w'[t].pc # "idle" => w'[t].run # r
  <2>1. OpKept(r) /\ ops[r].status = "none"
    BY <1>1 DEF OpsShape, OpStep, OpKept, OpEnded, OpOpened, OpRead
  <2>2. runs[r].status = "none" /\ \A t \in Workers : w[t].pc # "idle" => w[t].run # r
    BY <2>1 DEF SyncInv, Unstarted
  <2>3. runs'[r].status = "none"
    BY <2>2, RunsStep DEF SyncInv, Runs
  <2>4. ASSUME NEW t \in Workers, w'[t].pc # "idle" PROVE w'[t].run # r
    BY <1>1, <2>2, <2>4, SyncAssumption DEF WorkersShape, WorkerStep, WorkerSaw, WorkerLegacy, WorkerKept
  <2> QED
    BY <2>3, <2>4
<1> QED
  BY <1>1 DEF Unstarted

LEMMA PagesStep == ASSUME Stepped PROVE Empty' /\ Closing' /\ Published'
<1> USE DEF Stepped
<1>0. TypeOK /\ Placed /\ Alone /\ Known /\ Requests \subseteq Runs
  BY DEF SyncInv, Runs
<1>1. ASSUME NEW r \in Requests, ops'[r].status = "running", ops'[r].total \in {-1, 0}
      PROVE  StoredItems(r)' = {}
  <2>1. CASE OpKept(r)
    <3>1. StoredItems(r) = {} /\ pages'[r] = pages[r]
      BY <1>1, <2>1 DEF OpKept, SyncInv, Empty, Running
    <3> QED
      BY <3>1 DEF StoredItems
  <2>2. CASE OpOpened(r)
    BY <2>2 DEF OpOpened, StoredItems, NoPages
  <2>3. CASE OpRead(r)
    <3>1. PICK s \in Workers : /\ w[s].pc = "read" /\ w[s].run = r /\ HoldsLease(s)
                               /\ pages'[r] = pages[r] /\ w[s].seen.total \in {-1, 0}
      BY <1>1, <2>3 DEF OpRead
    <3>2. Running(r) /\ ops[r].total = w[s].seen.total
      BY <1>0, <3>1 DEF HoldsLease, Known, Running
    <3>3. StoredItems(r) = {}
      BY <3>1, <3>2 DEF SyncInv, Empty
    <3> QED
      BY <3>1, <3>3 DEF StoredItems
  <2> QED
    BY <1>1, <2>1, <2>2, <2>3 DEF OpsShape, OpStep, OpEnded
<1>2. ASSUME NEW r \in Requests, ops'[r].status = "running", runs'[r].status # "none"
      PROVE  OpKept(r) /\ Publishing(ops[r]) /\ Publishing(ops'[r])
  <2>1. ~OpOpened(r)
    <3>1. SUFFICES ASSUME ops[r].status = "none" PROVE FALSE
      BY DEF OpOpened
    <3>2. runs[r].status = "none" /\ \A s \in Workers : w[s].pc # "idle" => w[s].run # r
      BY <3>1 DEF SyncInv, Unstarted
    <3> QED
      BY <1>0, <1>2, <3>2, RunsStep
  <2>2. Running(r)
    BY <1>2, <2>1 DEF OpsShape, OpStep, OpKept, OpEnded, OpRead, HoldsLease, Running
  <2>3. Publishing(ops[r])
    <3>1. CASE runs[r].status # "none"
      BY <2>2, <3>1 DEF SyncInv, Closing
    <3>2. CASE runs[r].status = "none"
      <4>1. PICK s \in Workers : w[s].pc = "claimRun" /\ w[s].run = r
        BY <1>0, <1>2, <3>2, RunsStep
      <4>2. At(s, AtPublication)
        BY <4>1 DEF At, AtPublication, Reads
      <4> QED
        BY <2>2, <4>1, <4>2 DEF SyncInv, Joined
    <3> QED
      BY <3>1, <3>2
  <2>4. OpKept(r)
    BY <1>0, <1>2, <2>2, <2>3, PublishingStays DEF OpsShape, OpEnded
  <2> QED
    BY <2>3, <2>4 DEF OpKept, Publishing, Collecting
<1>3. ASSUME NEW r \in Requests, ops'[r].status = "running", gens'[r] = "published"
      PROVE  Visible' = StoredItems(r)'
  <2>1. CASE UNCHANGED inventory /\ gens[r] = "published"
    <3>1. runs[r].status # "none"
      BY <1>0, <2>1 DEF Alone, Untried
    <3>2. runs'[r].status # "none"
      BY <1>0, <3>1, RunsStep
    <3>3. OpKept(r) /\ Running(r)
      BY <1>2, <1>3, <3>2 DEF OpKept, Running
    <3>4. Visible = StoredItems(r)
      BY <2>1, <3>3 DEF SyncInv, Published
    <3> QED
      BY <2>1, <3>3, <3>4 DEF OpKept, StoredItems, Visible
  <2>2. ASSUME NEW s \in Workers, Publish(s), w[s].run = r PROVE Visible' = StoredItems(r)'
    <3>1. UNCHANGED <<ops, pages>> /\ w[s].pc = "publish"
      BY <2>2 DEF Publish
    <3>2. Running(r) /\ At(s, Reads)
      BY <1>3, <2>2, <3>1 DEF Running, At, Reads, Begun
    <3>3. w[s].reading = StoredItems(r)
      BY <2>2, <3>2 DEF SyncInv, Reading
    <3>4. Visible' = w[s].reading
      BY <2>2, PublishLeavesReading DEF SyncInv
    <3> QED
      BY <3>1, <3>3, <3>4 DEF StoredItems
  <2> QED
    BY <1>0, <1>3, <2>1, <2>2, OnlyPublish
<1> QED
  BY <1>1, <1>2, <1>3 DEF Empty, Closing, Published, Running

\* A worker at the publication of an operation that goes on found it there.
LEMMA JoinedStays ==
  ASSUME Stepped, NEW t \in Workers, w'[t].run = w[t].run, At(t, AtPublication), ops'[w[t].run].status = "running"
  PROVE  OpKept(w[t].run) /\ Running(w[t].run)
<1> USE DEF Stepped
<1>1. w[t].run \in Requests /\ w[t].pc # "idle"
  BY DEF At, AtPublication, Reads, Begun
<1>2. ops[w[t].run].status # "none"
  BY <1>1 DEF SyncInv, Unstarted
<1>3. Running(w[t].run)
  BY <1>1, <1>2 DEF OpsShape, OpStep, OpKept, OpEnded, OpOpened, OpRead, HoldsLease, Running
<1>4. Publishing(ops[w[t].run])
  BY <1>3 DEF SyncInv, Joined
<1> QED
  BY <1>1, <1>3, <1>4, PublishingStays DEF SyncInv, OpsShape, OpEnded

\* A publication of a run that a worker has nothing to do with supersedes what it has.
LEMMA AfterPublish ==
  ASSUME Stepped, NEW r \in Runs, gens'[r] = "published"
  PROVE  \/ UNCHANGED inventory /\ gens[r] = "published" /\ Visible' = Visible
         \/ \E s \in Workers : Publish(s) /\ w[s].run = r /\ runs[r].status = "running" /\ Visible' = w[s].reading
<1> USE DEF Stepped
<1>1. CASE UNCHANGED inventory /\ gens[r] = "published"
  BY <1>1 DEF Visible
<1>2. ASSUME NEW s \in Workers, Publish(s), w[s].run = r
      PROVE  runs[r].status = "running" /\ Visible' = w[s].reading
  <2>1. w[s].pc \in Begun
    BY <1>2 DEF Publish, Begun
  <2>2. runs[r].status = "running"
    BY <1>2, <2>1 DEF SyncInv, Alone, Turn
  <2>3. Visible' = w[s].reading
    BY <1>2, PublishLeavesReading DEF SyncInv
  <2> QED
    BY <2>2, <2>3
<1> QED
  BY <1>1, <1>2, OnlyPublish DEF SyncInv

LEMMA ReadingStep == ASSUME Stepped PROVE Joined' /\ Reading' /\ Emptied' /\ Agreed'
<1> USE DEF Stepped
<1>0. /\ TypeOK /\ Placed /\ Requests \subseteq Runs /\ Requests \cap Legacy = {}
      /\ Empty' /\ Closing' /\ Published'
  BY PagesStep, SyncAssumption DEF SyncInv, Runs
<1>1. ASSUME NEW t \in Workers, At(t, AtPublication)'
      PROVE  (WorkerSaw(t) /\ w'[t].pc = "replay") \/ (WorkerKept(t) /\ At(t, AtPublication))
  <2>1. w'[t].pc \in AtPublication /\ w'[t].run \in Requests
    BY <1>1 DEF At
  <2>2. w'[t].pc # "idle" /\ w'[t].pc \notin {"prepay", "uncertain", "ready", "read"}
    BY <2>1 DEF AtPublication, Reads, Begun
  <2>3. CASE WorkerSaw(t)
    BY <2>2, <2>3 DEF WorkerSaw
  <2>4. CASE WorkerKept(t)
    BY <2>1, <2>4 DEF WorkerKept, At
  <2> QED
    BY <1>0, <2>1, <2>2, <2>3, <2>4 DEF WorkersShape, WorkerStep, WorkerLegacy
<1>2. ASSUME NEW t \in Workers, At(t, AtPublication)', ops'[w'[t].run].status = "running"
      PROVE  Publishing(ops'[w'[t].run]) /\ w'[t].seen.total = ops'[w'[t].run].total
  <2>1. CASE WorkerSaw(t) /\ w'[t].pc = "replay"
    BY <2>1 DEF WorkerSaw
  <2>2. CASE WorkerKept(t) /\ At(t, AtPublication)
    <3>1. w'[t].run = w[t].run /\ w'[t].seen = w[t].seen
      BY <2>2 DEF WorkerKept
    <3>2. OpKept(w[t].run) /\ Running(w[t].run)
      BY <1>2, <2>2, <3>1, JoinedStays
    <3>3. Publishing(ops[w[t].run]) /\ w[t].seen.total = ops[w[t].run].total
      BY <2>2, <3>2 DEF SyncInv, Joined
    <3> QED
      BY <3>1, <3>2, <3>3 DEF OpKept, Publishing, Collecting
  <2> QED
    BY <1>1, <1>2, <2>1, <2>2
<1>3. ASSUME NEW t \in Workers, At(t, Reads)'
      PROVE  /\ ops'[w'[t].run].status = "running" => w'[t].reading = UNION {pages'[w'[t].run][k].items : k \in DOMAIN pages'[w'[t].run]}
             /\ w'[t].seen.total = 0 => w'[t].reading = {}
  <2>1. At(t, AtPublication)' /\ w'[t].pc # "replay" /\ w'[t].pc \in Reads
    BY <1>3 DEF At, AtPublication, Reads, Begun
  <2>2. WorkerKept(t) /\ At(t, AtPublication)
    BY <1>1, <2>1
  <2>3. /\ w'[t].run = w[t].run /\ w'[t].seen = w[t].seen /\ w[t].run \in Requests
        /\ (w[t].pc \in Reads /\ w'[t].reading = w[t].reading) \/ Replayed(t)
    BY <1>3, <2>1, <2>2 DEF WorkerKept, At
  <2>4. w'[t].seen.total = 0 => w'[t].reading = {}
    <3>1. CASE w[t].pc \in Reads /\ w'[t].reading = w[t].reading
      BY <2>3, <3>1 DEF SyncInv, Reading, At
    <3>2. CASE Replayed(t)
      BY <1>0, <2>3, <3>2, StoredNothing DEF Replayed
    <3> QED
      BY <2>3, <3>1, <3>2
  <2>5. ASSUME ops'[w'[t].run].status = "running"
        PROVE  w'[t].reading = StoredItems(w[t].run) /\ pages'[w[t].run] = pages[w[t].run]
    <3>1. OpKept(w[t].run) /\ Running(w[t].run)
      BY <2>2, <2>3, <2>5, JoinedStays
    <3>2. CASE w[t].pc \in Reads /\ w'[t].reading = w[t].reading
      BY <2>3, <3>1, <3>2 DEF SyncInv, Reading, At, OpKept
    <3>3. CASE Replayed(t)
      BY <3>1, <3>3 DEF Replayed, OpKept
    <3> QED
      BY <2>3, <3>2, <3>3
  <2> QED
    BY <2>3, <2>4, <2>5 DEF StoredItems
<1>4. ASSUME NEW t \in Workers, w'[t].pc = "replay", w'[t].seen.total = 0, gens'[w'[t].run] = "published"
      PROVE  Visible' = {}
  <2>1. w'[t].run \in Requests
    BY <1>0, <1>4, StepTypes DEF Placed, OpSteps
  <2>2. At(t, AtPublication)'
    BY <1>4, <2>1 DEF At, AtPublication
  <2>3. CASE WorkerSaw(t)
    <3>1. ops'[w'[t].run].status = "running" /\ ops'[w'[t].run].total = 0
      BY <1>4, <2>3 DEF WorkerSaw
    <3>2. \A r \in Requests : ops'[r].status = "running" /\ ops'[r].total = 0 /\ gens'[r] = "published" => Visible' = {}
      BY <1>0 DEF Empty, Published, Running
    <3> QED
      BY <1>4, <2>1, <3>1, <3>2
  <2>4. CASE WorkerKept(t) /\ At(t, AtPublication)
    <3>1. w'[t].run = w[t].run /\ w'[t].seen = w[t].seen /\ w[t].pc = "replay" /\ w[t].run \in Runs
      BY <1>0, <1>4, <2>1, <2>4 DEF WorkerKept
    <3>2. CASE gens[w[t].run] = "published" /\ Visible' = Visible
      BY <1>4, <3>1, <3>2 DEF SyncInv, Emptied
    <3>3. ASSUME NEW s \in Workers, Publish(s), w[s].run = w[t].run, Visible' = w[s].reading PROVE Visible' = {}
      <4>1. At(s, Reads) /\ At(s, AtPublication)
        BY <2>1, <3>1, <3>3 DEF Publish, At, AtPublication, Reads, Begun
      <4>2. w[s].seen.total = 0
        BY <1>4, <2>4, <3>1, <3>3, <4>1 DEF SyncInv, Agreed
      <4> QED
        BY <3>3, <4>1, <4>2 DEF SyncInv, Reading
    <3> QED
      BY <1>4, <3>1, <3>2, <3>3, AfterPublish
  <2> QED
    BY <1>1, <2>2, <2>3, <2>4
<1>5. ASSUME NEW s \in Workers, NEW t \in Workers, At(s, AtPublication)', At(t, AtPublication)', w'[s].run = w'[t].run
      PROVE  w'[s].seen.total = w'[t].seen.total
  <2>1. CASE ops'[w'[s].run].status = "running"
    BY <1>2, <1>5, <2>1
  <2>2. CASE ops'[w'[s].run].status # "running"
    <3>1. ~WorkerSaw(s) /\ ~WorkerSaw(t)
      BY <1>5, <2>2 DEF WorkerSaw
    <3>2. WorkerKept(s) /\ At(s, AtPublication) /\ WorkerKept(t) /\ At(t, AtPublication)
      BY <1>1, <1>5, <3>1
    <3> QED
      BY <1>5, <3>2 DEF WorkerKept, SyncInv, Agreed
  <2> QED
    BY <2>1, <2>2
<1>6. Joined'
  BY <1>2 DEF Joined, Running
<1>7. Reading'
  BY <1>3 DEF Reading, Running, StoredItems
<1>8. Emptied'
  BY <1>4 DEF Emptied
<1>9. Agreed'
  BY <1>5 DEF Agreed
<1> QED
  BY <1>6, <1>7, <1>8, <1>9

LEMMA CataloguedStep == ASSUME Stepped PROVE Bound' /\ Written' /\ CatalogAgrees'
<1> USE DEF Stepped
<1>0. /\ TypeOK /\ Placed /\ Alone /\ Requests \subseteq Runs /\ Requests \cap Legacy = {}
      /\ \A x \in Requests : ~Running(x) => pages[x] = NoPages
  BY SyncAssumption DEF SyncInv, Runs, Cleared
<1>1. ASSUME NEW t \in Workers, w'[t].pc = "catalog"
      PROVE  runs'[w'[t].run].status = "succeeded" /\ (gens'[w'[t].run] = "published" => w'[t].reading = Visible')
  <2>1. WorkerKept(t)
    BY <1>1 DEF WorkersShape, WorkerStep, WorkerSaw, WorkerLegacy
  <2>2. w[t].run \in Runs /\ w'[t].run = w[t].run
    <3>1. w[t].pc # "idle" /\ w'[t].run = w[t].run
      BY <1>1, <2>1 DEF WorkerKept
    <3> QED
      BY <1>0, <3>1 DEF Placed
  <2>3. CASE w'[t] = w[t]
    <3>1. runs[w[t].run].status = "succeeded" /\ (gens[w[t].run] = "published" => w[t].reading = Visible)
      BY <1>1, <2>3 DEF SyncInv, Bound
    <3>2. runs'[w[t].run].status = "succeeded"
      BY <1>0, <2>2, <3>1, RunsStep
    <3>3. ASSUME gens'[w[t].run] = "published" PROVE w[t].reading = Visible'
      BY <2>2, <3>1, <3>3, AfterPublish
    <3> QED
      BY <2>3, <3>2, <3>3
  <2>4. CASE Publish(t) /\ w'[t].reading = w[t].reading
    <3>1. runs[w[t].run].status = "running"
      BY <1>0, <2>4 DEF Publish, Alone, Turn, Begun
    <3>2. runs'[w[t].run].status = "succeeded"
      BY <1>0, <2>2, <2>4, <3>1 DEF Publish, EndedRun, TypeOK
    <3>3. Visible' = w[t].reading
      BY <2>4, PublishLeavesReading DEF SyncInv
    <3> QED
      BY <2>2, <2>4, <3>2, <3>3
  <2>5. CASE Replayed(t) /\ runs[w[t].run].status = "succeeded" /\ UNCHANGED <<runs, gens, inventory>>
    <3>1. ASSUME gens[w[t].run] = "published" PROVE StoredItems(w[t].run) = Visible
      <4>1. CASE Running(w[t].run)
        BY <2>5, <3>1, <4>1 DEF Replayed, SyncInv, Published
      <4>2. CASE ~Running(w[t].run)
        <5>1. StoredItems(w[t].run) = {} /\ w[t].seen.total = 0
          BY <1>0, <2>5, <4>2, StoredNothing DEF Replayed
        <5>2. Visible = {}
          BY <2>5, <3>1, <5>1 DEF Replayed, SyncInv, Emptied
        <5> QED
          BY <5>1, <5>2
      <4> QED
        BY <4>1, <4>2
    <3>2. Visible' = Visible
      BY <2>5 DEF Visible
    <3> QED
      BY <2>2, <2>5, <3>1, <3>2 DEF Replayed
  <2> QED
    BY <1>1, <2>1, <2>3, <2>4, <2>5 DEF WorkerKept
<1>2. CASE UNCHANGED catalog
  <2>1. ASSUME catalog.run # None
        PROVE  /\ runs'[catalog.run].status = "succeeded"
               /\ gens'[catalog.run] = "published" => catalog.items = Visible'
    <3>1. catalog.run \in Runs /\ runs[catalog.run].status = "succeeded"
      BY <1>0, <2>1 DEF TypeOK, SyncInv, Written
    <3>2. runs'[catalog.run].status = "succeeded"
      BY <1>0, <3>1, RunsStep
    <3>3. ASSUME gens'[catalog.run] = "published" PROVE catalog.items = Visible'
      <4>1. gens[catalog.run] = "published" /\ Visible' = Visible
        BY <3>1, <3>3, AfterPublish
      <4> QED
        BY <2>1, <4>1 DEF SyncInv, CatalogAgrees
    <3> QED
      BY <3>2, <3>3
  <2> QED
    BY <1>1, <1>2, <2>1 DEF Bound, Written, CatalogAgrees
<1>3. ASSUME NEW s \in Workers, w[s].pc = "catalog", runs[w[s].run].status = "succeeded",
             catalog' = [run |-> w[s].run, items |-> w[s].reading], UNCHANGED <<runs, gens, inventory>>
      PROVE  Bound' /\ Written' /\ CatalogAgrees'
  <2>1. catalog'.run = w[s].run /\ catalog'.items = w[s].reading
    BY <1>3
  <2>2. gens[w[s].run] = "published" => w[s].reading = Visible
    BY <1>3 DEF SyncInv, Bound
  <2>3. Visible' = Visible
    BY <1>3 DEF Visible
  <2> QED
    BY <1>1, <1>3, <2>1, <2>2, <2>3 DEF Bound, Written, CatalogAgrees
<1> QED
  BY <1>2, <1>3, CatalogStep

LEMMA SyncStep == ASSUME SyncInv, [Next]_vars PROVE SyncInv'
<1>1. TypeOK' /\ Placed' /\ Alone' /\ Deltas'
  BY StepTypes, AloneStep DEF SyncInv
<1>2. Stepped
  BY StepShape DEF Stepped, SyncInv
<1> QED
  BY <1>1, <1>2, KnownStep, UnstartedStep, PagesStep, ReadingStep, CataloguedStep DEF SyncInv

THEOREM Invariance == Spec => []SyncInv
<1>1. Init => SyncInv
  <2>1. ASSUME Init PROVE SyncInv
    <3>1. TypeOK /\ Placed
      BY <2>1, InitTypeOK
    <3>2. Alone /\ Deltas
      BY <2>1 DEF Init, Alone, Untried, OneRun, OneInside, Turn, Inside, Begun, Deltas, Delta, Idle
    <3>3. /\ \A r \in Requests : ops[r].status = "none" /\ pages[r] = NoPages
          /\ \A r \in Runs : runs[r].status = "none"
          /\ \A s \in Workers : w[s].pc = "idle"
          /\ catalog.run = None /\ Requests \subseteq Runs
      BY <2>1 DEF Init, FreshOp, Idle, Runs
    <3>4. Cleared /\ Known /\ Unstarted /\ Empty /\ Closing /\ Published
      BY <3>3 DEF Cleared, Known, Unstarted, Empty, Closing, Published, Running
    <3>5. Joined /\ Reading /\ Emptied /\ Agreed /\ Bound /\ Written /\ CatalogAgrees
      BY <3>3 DEF Joined, Reading, Emptied, Agreed, Bound, Written, CatalogAgrees, At, AtPublication, Reads, Begun
    <3> QED
      BY <3>1, <3>2, <3>4, <3>5 DEF SyncInv
  <2> QED
    BY <2>1
<1> QED
  BY <1>1, SyncStep, PTL DEF Spec

\* CatalogAgrees: while the generation of the catalogue's run is the published one, the
\* catalogue lists exactly the items the inventory shows, whoever wrote each of them.
THEOREM CatalogShowsInventory == Spec => []CatalogAgrees
<1>1. SyncInv => CatalogAgrees
  BY DEF SyncInv
<1> QED
  BY <1>1, Invariance, PTL
=============================================================================
