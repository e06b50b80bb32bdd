------------------------------ MODULE DuxSync ------------------------------
(***************************************************************************)
(* The resumable synchronisation of the Dux catalogue.  A caller (the      *)
(* cron relay, the GitHub runner, the administrator's panel) repeats one   *)
(* request until its operation ends; each request performs one reading of  *)
(* Dux or the final publication, under a lease with a token of its own.    *)
(* Readings are kept as pages; the publication replays them, stages the    *)
(* delta against the visible inventory as a generation, replaces the       *)
(* inventory in one transaction and then writes the catalogue.  Callers    *)
(* of the historical contract (Legacy) run the publication in one request. *)
(*                                                                         *)
(* A worker is one invocation of a handler.  It may die at any await, or   *)
(* stall past its lease and go on.  One page holds one item.  The clocks   *)
(* are events: LeaseExpires, RetryDue, DeadlinePasses, RunAges.            *)
(***************************************************************************)
EXTENDS Integers, FiniteSets

CONSTANTS
  Requests,     \* identities of resumable operations, also the ids of their runs
  Legacy,       \* runs of the callers that send no request identity
  Workers,      \* invocations that may be alive at once
  NumCodes,     \* Dux codes are 1..NumCodes
  Values,       \* observations (name, price, stock) an item may show
  Identity,     \* number of identity readings: companies, branches, warehouses
  MaxAttempts,  \* 45 readings per operation in the code
  MaxTries,     \* 3 claims per reading in the code
  MaxDeaths,    \* bound: invocations that die
  MaxChanges    \* bound: changes of the items in Dux

ASSUME SyncAssumption ==
  /\ Requests \cap Legacy = {} /\ IsFiniteSet(Requests) /\ IsFiniteSet(Workers)
  /\ "none" \notin Requests \cup Legacy \cup Values
  /\ NumCodes \in Nat /\ Identity \in Nat
  /\ MaxAttempts \in Nat \ {0} /\ MaxTries \in Nat \ {0}
  /\ MaxDeaths \in Nat /\ MaxChanges \in Nat

None  == "none"
Codes == 1..NumCodes
Runs  == Requests \cup Legacy
Items == [code : Codes, value : Values]
Row   == [st : {"never", "ok", "absent"}, value : Values \cup {None}]

VARIABLES
  ops,        \* dux_sync_operations
  pages,      \* dux_sync_operation_pages, the item pages: offset -> what was read
  runs,       \* dux_sync_runs: status, and whether its last heartbeat is 30 min old
  gens,       \* dux_inventory_generations.status
  staged,     \* dux_inventory_generation_items: code -> row, NoRow when not staged
  inventory,  \* dux_inventory_items: what the shop reads
  catalog,    \* dux_catalog_snapshots_v2
  collecting, \* dux_catalog_control.snapshot_collection_enabled
  dux,        \* the enabled items of the provider
  w,          \* the workers
  deaths, changes

vars == <<ops, pages, runs, gens, staged, inventory, catalog, collecting, dux, w, deaths, changes>>
tables == <<ops, pages, runs, gens, staged, inventory, catalog, collecting>>
world == <<dux, collecting, deaths, changes>>

EndedRun(status) == [status |-> status, old |-> FALSE]
NoRow  == [st |-> "never", value |-> None]
NoDelta == [c \in Codes |-> NoRow]
NoPages == [k \in 0..NumCodes-1 |-> [items |-> {}, total |-> -1]]
FreshOp == [status |-> "none", phase |-> 0, offset |-> 0, total |-> -1, token |-> 0, live |-> FALSE,
            attempts |-> 0, tries |-> 0, overdue |-> FALSE, wait |-> FALSE, error |-> None]
\* An operation that ended: the diagnostics it keeps (phase, processed) are left out, and of its
\* error only whether its message says that the previous catalogue is kept.
Closed(status, error) == [FreshOp EXCEPT !.status = status, !.error = error]

\* A lease token is fresh: nobody holds it and nobody remembers it.
Tokens == 1..Cardinality(Requests) + Cardinality(Workers) + 1
FreshToken == CHOOSE t \in Tokens : (\A r \in Requests : ops[r].token # t) /\ (\A s \in Workers : w[s].seen.token # t)

Idle == [pc |-> "idle", run |-> None, seen |-> FreshOp, reading |-> {}, known |-> NoDelta]

\* Mutant: a lease holds until it is released.
LeaseReleased(o) == o.token = 0
LeaseFree(o) == ~o.live
Collecting(o) == o.phase < Identity + 1   \* phases 0..Identity-1 identity, Identity items, then publish
Publishing(o) == ~Collecting(o)
Exhausted(o)  == Collecting(o) /\ (o.tries >= MaxTries \/ o.attempts >= MaxAttempts) /\ LeaseFree(o)
\* A first claim counts an attempt: an expired token without one is an unconfirmed start.
Entry(o)      == IF o.phase = 0 /\ o.attempts = 0 /\ o.token # 0 THEN "uncertain" ELSE "ready"
Goto(s, pc)   == w' = [w EXCEPT ![s].pc = pc]
Rest(s)       == w' = [w EXCEPT ![s] = Idle]
HoldsLease(s) == ops[w[s].run].status = "running" /\ ops[w[s].run].token = w[s].seen.token
IsOperation(s) == w[s].run \in Requests

Init ==
  /\ ops = [r \in Requests |-> FreshOp]
  /\ pages = [r \in Requests |-> NoPages]
  /\ runs = [r \in Runs |-> [status |-> "none", old |-> FALSE]]
  /\ gens = [r \in Runs |-> "none"]
  /\ staged = [r \in Runs |-> NoDelta]
  /\ inventory \in {NoDelta} \cup {[c \in Codes |-> [st |-> "ok", value |-> v]] : v \in Values}
  /\ catalog = [run |-> None, items |-> {}]
  /\ collecting = TRUE
  /\ \E v \in Values : dux = [c \in Codes |-> v]
  /\ w = [s \in Workers |-> Idle]
  /\ deaths = 0 /\ changes = 0

----------------------------------------------------------------------------
(* One request: read or start the operation, then claim its lease.         *)

\* Mutant: a failure that trusts the request's identity alone.
FailedAnyway(r, seen, error) ==
  IF ops[r].status = "running"
  THEN /\ ops' = [ops EXCEPT ![r] = Closed("failed", error)]
       /\ pages' = [pages EXCEPT ![r] = NoPages]
  ELSE UNCHANGED <<ops, pages>>

\* failOperation: fenced by the token, phase, offset and attempts the caller saw.
Failed(r, seen, error) ==
  LET o == ops[r] IN
  IF o.status = "running" /\ o.token = seen.token /\ o.phase = seen.phase
     /\ o.offset = seen.offset /\ o.attempts = seen.attempts
  THEN /\ ops' = [ops EXCEPT ![r] = Closed("failed", error)]
       /\ pages' = [pages EXCEPT ![r] = NoPages]
  ELSE UNCHANGED <<ops, pages>>

\* readOperation, then the checks of advanceDuxSyncOperation on the row just read:
\* a live lease, a final status or an unconfirmed start end the request.
Ask(s, r) ==
  /\ w[s].pc = "idle"
  /\ ops[r].status = "running" /\ LeaseFree(ops[r])
  /\ w' = [w EXCEPT ![s] = [Idle EXCEPT !.run = r, !.seen = ops[r], !.pc = Entry(ops[r])]]
  /\ UNCHANGED <<tables, dux, deaths, changes>>

\* startOperation up to the insertion: expired operations are closed, then the row is
\* inserted unless a run is alive or the company has a running operation.
Start(s, r) ==
  /\ w[s].pc = "idle"
  /\ ops[r].status = "none"
  /\ LET expired == {x \in Requests : ops[x].status = "running" /\ LeaseFree(ops[x]) /\ ops[x].overdue}
         closed  == [x \in Requests |-> IF x \in expired THEN Closed("failed", "kept") ELSE ops[x]]
         free    == /\ \A x \in Runs : runs[x].status = "running" => runs[x].old
                    /\ \A x \in Requests : closed[x].status # "running"
     IN /\ ops' = IF free
                  THEN [closed EXCEPT ![r] = [FreshOp EXCEPT !.status = "running", !.token = FreshToken, !.live = TRUE]]
                  ELSE closed
        /\ pages' = [x \in Requests |-> IF closed[x].status = "running" THEN pages[x] ELSE NoPages]
        /\ IF free THEN w' = [w EXCEPT ![s] = [Idle EXCEPT !.run = r, !.pc = "prepay", !.seen = ops'[r]]]
                   ELSE UNCHANGED w
        /\ free \/ expired # {}
  /\ UNCHANGED <<runs, gens, staged, inventory, catalog, world>>

\* The reservation of the writes of the collection is refused (the operation fails), is
\* not confirmed (the initial lease stays), or is granted and the initial lease released.
Prepay(s) ==
  /\ w[s].pc = "prepay"
  /\ LET r == w[s].run IN
     \/ /\ Failed(r, w[s].seen, "other") /\ Rest(s)
     \/ /\ Rest(s) /\ UNCHANGED <<ops, pages>>
     \/ /\ ops' = IF HoldsLease(s) THEN [ops EXCEPT ![r] = [@ EXCEPT !.token = 0, !.live = FALSE]] ELSE ops
        /\ IF ops'[r].status = "running" /\ LeaseFree(ops'[r])
           THEN w' = [w EXCEPT ![s].pc = Entry(ops'[r]), ![s].seen = ops'[r]]
           ELSE Rest(s)
        /\ UNCHANGED pages
  /\ UNCHANGED <<runs, gens, staged, inventory, catalog, world>>

\* A start that was never confirmed is closed: its reservation cannot be assumed.
CloseUncertain(s) ==
  /\ w[s].pc = "uncertain"
  /\ Failed(w[s].run, w[s].seen, "kept") /\ Goto(s, "current")
  /\ UNCHANGED <<runs, gens, staged, inventory, catalog, world>>

\* Past the seven minutes, or the UTC day of the reservation, the operation is closed.
CloseOverdue(s) ==
  /\ w[s].pc = "ready" /\ ops[w[s].run].overdue
  /\ Failed(w[s].run, w[s].seen, "kept") /\ Rest(s)
  /\ UNCHANGED <<runs, gens, staged, inventory, catalog, world>>

\* The claim returns the row as it is now, not as it was read; without one (another
\* worker has it, or its attempts are spent) the request answers with the current state.
Claim(s) ==
  /\ w[s].pc = "ready" /\ ~ops[w[s].run].overdue
  /\ LET r == w[s].run
         o == ops[r]
         step == IF Publishing(o) THEN 0 ELSE 1
         claimed == [o EXCEPT !.token = FreshToken, !.live = TRUE, !.attempts = @ + step, !.tries = @ + step] IN
     IF o.status = "running" /\ LeaseFree(o) /\ ~o.wait /\ ~Exhausted(o)
     THEN /\ ops' = [ops EXCEPT ![r] = claimed]
          /\ w' = [w EXCEPT ![s].pc = IF Publishing(o) THEN "replay" ELSE "read", ![s].seen = claimed]
     ELSE UNCHANGED ops /\ Goto(s, "current")
  /\ UNCHANGED <<pages, runs, gens, staged, inventory, catalog, world>>

\* currentResponse: an operation whose attempts are spent is closed on the way.
Current(s) ==
  /\ w[s].pc = "current"
  /\ LET o == ops[w[s].run] IN
     IF o.status = "running" /\ Exhausted(o)
     THEN Failed(w[s].run, o, IF o.tries >= MaxTries THEN "kept" ELSE "other")
     ELSE UNCHANGED <<ops, pages>>
  /\ Rest(s)
  /\ UNCHANGED <<runs, gens, staged, inventory, catalog, world>>

----------------------------------------------------------------------------
(* Collecting: one reading of Dux per claim.                               *)

Present == {c \in Codes : dux[c] # None}
\* The item at an offset of the list Dux returns, ordered by code.
ItemAt(k) == {[code |-> c, value |-> dux[c]] : c \in {d \in Present : Cardinality({e \in Present : e < d}) = k}}

\* Mutant: the page is inserted for any worker of a running operation.
StoresAnyPage(s) == ops[w[s].run].status = "running"
StoresPage(s) == HoldsLease(s)

\* The page and the checkpoint are one batch, fenced by the token.
Checkpoint(s) ==
  /\ w[s].pc = "read"
  /\ LET r == w[s].run
         o == w[s].seen
         here  == o.phase = Identity
         total == IF here /\ o.total = -1 THEN Cardinality(Present) ELSE o.total
         page  == ItemAt(o.offset)
         next  == IF here THEN o.offset + Cardinality(page) ELSE o.offset
         done  == here => next = total
         mine  == HoldsLease(s)
         kept  == StoresPage(s) IN
     /\ here => Cardinality(Present) = total
     /\ ops' = IF mine THEN [ops EXCEPT ![r] = [@ EXCEPT
                    !.phase = IF done THEN o.phase + 1 ELSE o.phase, !.offset = next, !.total = total,
                    !.token = 0, !.live = FALSE, !.tries = 0, !.wait = FALSE]]
               ELSE ops
     /\ pages' = IF kept /\ here /\ page # {}
                 THEN [pages EXCEPT ![r][o.offset] = [items |-> page, total |-> total]] ELSE pages
     /\ IF mine THEN Rest(s) ELSE Goto(s, "current")
  /\ UNCHANGED <<runs, gens, staged, inventory, catalog, world>>

\* A transient failure, with attempts and time left, releases the lease and waits.
Defer(s) ==
  /\ w[s].pc = "read"
  /\ LET r == w[s].run
         o == w[s].seen IN
     /\ o.tries < MaxTries /\ o.attempts < MaxAttempts /\ ~ops[r].overdue
     /\ ops' = IF /\ HoldsLease(s) /\ ops[r].phase = o.phase
                  /\ ops[r].offset = o.offset /\ ops[r].attempts = o.attempts
               THEN [ops EXCEPT ![r] = [@ EXCEPT !.token = 0, !.live = FALSE, !.wait = TRUE]]
               ELSE ops
  /\ Goto(s, "current")
  /\ UNCHANGED <<pages, runs, gens, staged, inventory, catalog, world>>

\* Any other failure of the reading: refused budget, invalid or inconsistent page, a
\* total that changed, a rejection, a transient failure with nothing left.
ReadFails(s) ==
  /\ w[s].pc = "read"
  /\ Failed(w[s].run, w[s].seen, "other") /\ Rest(s)
  /\ UNCHANGED <<runs, gens, staged, inventory, catalog, world>>

----------------------------------------------------------------------------
(* Publishing: publishOperation and syncDuxInventory.                      *)

StoredItems(r) == UNION {pages[r][k].items : k \in DOMAIN pages[r]}
StoredTotal(r) == Cardinality({k \in DOMAIN pages[r] : pages[r][k].items # {}})

\* The pages are loaded and the run is looked up: none yet, published before by a
\* worker that did not finish, or in an uncertain state (409).  The reservation of the
\* writes of the publication may be refused before.
Replay(s) ==
  /\ w[s].pc = "replay"
  /\ LET r == w[s].run IN
     \/ /\ Failed(r, w[s].seen, "other") /\ Rest(s)
     \/ /\ StoredTotal(r) = w[s].seen.total
        /\ runs[r].status \in {"none", "succeeded"}
        /\ w' = [w EXCEPT ![s].pc = IF runs[r].status = "none" THEN "recover" ELSE "catalog",
                          ![s].reading = StoredItems(r)]
        /\ UNCHANGED <<ops, pages>>
  /\ UNCHANGED <<runs, gens, staged, inventory, catalog, world>>

\* A caller of the historical contract enters the same publication.
LegacyCall(s, r) ==
  /\ w[s].pc = "idle" /\ r \in Legacy
  /\ \A t \in Workers : w[t].run # r
  /\ runs[r].status = "none"
  /\ w' = [w EXCEPT ![s] = [Idle EXCEPT !.run = r, !.pc = "recover"]]
  /\ UNCHANGED <<tables, dux, deaths, changes>>

\* recoverAbandonedSync: runs silent for thirty minutes and their generations fail.
Recover(s) ==
  /\ w[s].pc = "recover"
  /\ LET abandoned == {x \in Runs : runs[x].status = "running" /\ runs[x].old} IN
     /\ gens' = [x \in Runs |-> IF x \in abandoned /\ gens[x] = "loading" THEN "failed" ELSE gens[x]]
     /\ staged' = [x \in Runs |-> IF gens'[x] = "failed" THEN NoDelta ELSE staged[x]]
     /\ runs' = [x \in Runs |-> IF x \in abandoned THEN EndedRun("failed") ELSE runs[x]]
  /\ Goto(s, "claimRun")
  /\ UNCHANGED <<ops, pages, inventory, catalog, world>>

\* The error of a publication reaches the catch of the operation; a historical caller just ends.
PublicationFails(s) ==
  /\ IF IsOperation(s) THEN Failed(w[s].run, w[s].seen, "other") ELSE UNCHANGED <<ops, pages>>
  /\ Rest(s)

\* INSERT OR IGNORE INTO dux_sync_runs: one running run at most, and no operation but its own.
\* Mutants: without the index of the running run and the trigger; without the primary key.
CanClaimRunBeside(r) == runs[r].status = "none"
CanClaimRun(r) ==
  /\ runs[r].status = "none"
  /\ \A x \in Runs : runs[x].status # "running"
  /\ \A x \in Requests : ops[x].status = "running" => x = r

ClaimRun(s) ==
  /\ w[s].pc = "claimRun"
  /\ LET r == w[s].run IN
     IF CanClaimRun(r)
     THEN /\ runs' = [runs EXCEPT ![r] = [status |-> "running", old |-> FALSE]]
          /\ Goto(s, "begin") /\ UNCHANGED <<ops, pages>>
     ELSE PublicationFails(s) /\ UNCHANGED runs
  /\ UNCHANGED <<gens, staged, inventory, catalog, world>>

BeginGeneration(s) ==
  /\ w[s].pc = "begin"
  /\ gens' = [gens EXCEPT ![w[s].run] = "loading"]
  /\ Goto(s, "index")
  /\ UNCHANGED <<ops, pages, runs, staged, inventory, catalog, world>>

\* One code twice is refused by mapInventoryItems.
Distinct(reading) == \A i, j \in reading : i.code = j.code => i = j
ValueOf(reading, c) == (CHOOSE i \in reading : i.code = c).value
CodesOf(reading) == {i.code : i \in reading}

\* The reading (the historical caller makes it now) is compared with the visible inventory.
ReadIndex(s) ==
  /\ w[s].pc = "index"
  /\ LET reading == IF IsOperation(s) THEN w[s].reading ELSE {[code |-> c, value |-> dux[c]] : c \in Present} IN
     w' = [w EXCEPT ![s].pc = IF Distinct(reading) THEN "stage" ELSE "failGeneration",
                    ![s].reading = reading, ![s].known = inventory]
  /\ UNCHANGED <<tables, dux, deaths, changes>>

Changed(s) == {c \in CodesOf(w[s].reading) :
                 w[s].known[c] # [st |-> "ok", value |-> ValueOf(w[s].reading, c)]}
NewlyAbsent(s) == {c \in Codes \ CodesOf(w[s].reading) : w[s].known[c].st = "ok"}
KnownAbsent(s) == {c \in Codes \ CodesOf(w[s].reading) : w[s].known[c].st # "never"}

\* Two writes: the changed rows, then (from the inventory as it is now) the rows gone absent.
StageChanged(s) ==
  /\ w[s].pc = "stage"
  /\ staged' = [staged EXCEPT ![w[s].run] = [c \in Codes |->
       IF c \in Changed(s) THEN [st |-> "ok", value |-> ValueOf(w[s].reading, c)] ELSE @[c]]]
  /\ Goto(s, "stageAbsent")
  /\ UNCHANGED <<ops, pages, runs, gens, inventory, catalog, world>>

StageAbsent(s) ==
  /\ w[s].pc = "stageAbsent"
  /\ staged' = [staged EXCEPT ![w[s].run] = [c \in Codes |->
       IF NewlyAbsent(s) # {} /\ inventory[c].st = "ok" /\ c \notin CodesOf(w[s].reading)
       THEN [st |-> "absent", value |-> inventory[c].value] ELSE @[c]]]
  /\ Goto(s, "publish")
  /\ UNCHANGED <<ops, pages, runs, gens, inventory, catalog, world>>

\* A reading, a refused reservation or a write of the generation fails.
StagingFails(s) ==
  /\ w[s].pc \in {"index", "stage", "stageAbsent"}
  /\ w' = [w EXCEPT ![s].pc = "failGeneration", ![s].known = NoDelta, ![s].reading = {}]
  /\ UNCHANGED <<tables, dux, deaths, changes>>

Staged(r) == {c \in Codes : staged[r][c] # NoRow}
Applied(r) == [c \in Codes |-> IF c \in Staged(r) THEN staged[r][c] ELSE inventory[c]]

\* The guards of the batch that publishes: its own and the trigger's.
MayPublish(s) ==
  LET r == w[s].run IN
  /\ gens[r] = "loading"
  /\ Cardinality(Staged(r)) = Cardinality(Changed(s) \cup NewlyAbsent(s))
  /\ Cardinality({c \in Codes : Applied(r)[c].st # "never"})
       = Cardinality(CodesOf(w[s].reading)) + Cardinality(KnownAbsent(s))

\* One batch: the delta, the generation, the run and the staging move together.  When its
\* answer is lost the generation is read again; if that fails too the caller sees a failure.
Publish(s) ==
  /\ w[s].pc = "publish" /\ MayPublish(s)
  /\ LET r == w[s].run IN
     /\ inventory' = Applied(r)
     /\ gens' = [x \in Runs |-> IF x = r THEN "published"
                                ELSE IF gens[x] = "published" THEN "superseded" ELSE gens[x]]
     /\ runs' = IF runs[r].status = "running" THEN [runs EXCEPT ![r] = EndedRun("succeeded")] ELSE runs
     /\ staged' = [staged EXCEPT ![r] = NoDelta]
  /\ \E next \in {"catalog", "failGeneration"} :
       w' = [w EXCEPT ![s].pc = next, ![s].known = NoDelta, ![s].reading = IF next = "catalog" THEN @ ELSE {}]
  /\ UNCHANGED <<ops, pages, catalog, world>>

\* The batch aborts, or its call fails before it is applied.
PublishFails(s) ==
  /\ w[s].pc = "publish"
  /\ w' = [w EXCEPT ![s].pc = "failGeneration", ![s].known = NoDelta, ![s].reading = {}]
  /\ UNCHANGED <<tables, dux, deaths, changes>>

FailGeneration(s) ==
  /\ w[s].pc = "failGeneration"
  /\ LET r == w[s].run IN
     /\ gens' = IF gens[r] = "loading" THEN [gens EXCEPT ![r] = "failed"] ELSE gens
     /\ staged' = IF gens'[r] = "failed" THEN [staged EXCEPT ![r] = NoDelta] ELSE staged
     /\ runs' = IF runs[r].status = "running" /\ gens[r] # "published"
                THEN [runs EXCEPT ![r] = EndedRun("failed")] ELSE runs
  /\ PublicationFails(s)
  /\ UNCHANGED <<inventory, catalog, world>>

\* persistDuxCatalogSnapshotWhenEnabled: only a completed run, only while collecting.
WriteCatalog(s) ==
  /\ w[s].pc = "catalog"
  /\ LET r == w[s].run IN
     IF collecting /\ runs[r].status = "succeeded" /\ Distinct(w[s].reading)
     THEN /\ catalog' = [run |-> r, items |-> w[s].reading]
          /\ IF IsOperation(s) THEN w' = [w EXCEPT ![s].pc = "commit", ![s].reading = {}] ELSE Rest(s)
          /\ UNCHANGED <<ops, pages>>
     ELSE PublicationFails(s) /\ UNCHANGED catalog
  /\ UNCHANGED <<runs, gens, staged, inventory, world>>

\* The result is stored and the pages removed, fenced by the token.
Commit(s) ==
  /\ w[s].pc = "commit"
  /\ LET r == w[s].run IN
     IF HoldsLease(s)
     THEN /\ ops' = [ops EXCEPT ![r] = Closed("completed", None)]
          /\ pages' = [pages EXCEPT ![r] = NoPages]
          /\ Rest(s)
     ELSE UNCHANGED <<ops, pages>> /\ Goto(s, "current")
  /\ UNCHANGED <<runs, gens, staged, inventory, catalog, world>>

----------------------------------------------------------------------------
(* Time, the provider, the administrator and failures.                     *)

LeaseExpires(r) ==
  /\ ops[r].live
  /\ ops' = [ops EXCEPT ![r].live = FALSE]
  /\ UNCHANGED <<pages, runs, gens, staged, inventory, catalog, world, w>>

RetryDue(r) ==
  /\ ops[r].wait
  /\ ops' = [ops EXCEPT ![r].wait = FALSE]
  /\ UNCHANGED <<pages, runs, gens, staged, inventory, catalog, world, w>>

DeadlinePasses(r) ==
  /\ ops[r].status = "running" /\ ~ops[r].overdue
  /\ ops' = [ops EXCEPT ![r].overdue = TRUE]
  /\ UNCHANGED <<pages, runs, gens, staged, inventory, catalog, world, w>>

\* A run is thirty minutes old only when no worker is at it: the seven minutes of its
\* client and the limits of an invocation end a worker long before.
RunAges(r) ==
  /\ runs[r].status = "running" /\ ~runs[r].old
  /\ \A s \in Workers : w[s].run # r
  /\ runs' = [runs EXCEPT ![r].old = TRUE]
  /\ UNCHANGED <<ops, pages, gens, staged, inventory, catalog, world, w>>

Die(s) ==
  /\ deaths < MaxDeaths /\ w[s].pc # "idle"
  /\ deaths' = deaths + 1 /\ Rest(s)
  /\ UNCHANGED <<tables, dux, changes>>

DuxChanges ==
  /\ changes < MaxChanges /\ changes' = changes + 1
  /\ \E c \in Codes, v \in Values \cup {None} : dux[c] # v /\ dux' = [dux EXCEPT ![c] = v]
  /\ UNCHANGED <<tables, w, deaths>>

\* updateDuxCatalogControl: the administrator stops the collection of snapshots.
StopCollecting ==
  /\ collecting /\ changes < MaxChanges /\ changes' = changes + 1
  /\ collecting' = FALSE
  /\ UNCHANGED <<ops, pages, runs, gens, staged, inventory, catalog, dux, w, deaths>>

Continue(s) ==
  \/ Prepay(s) \/ CloseUncertain(s) \/ CloseOverdue(s) \/ Claim(s) \/ Current(s)
  \/ Checkpoint(s) \/ Defer(s) \/ ReadFails(s)
  \/ Replay(s) \/ Recover(s) \/ ClaimRun(s) \/ BeginGeneration(s) \/ ReadIndex(s)
  \/ StageChanged(s) \/ StageAbsent(s) \/ StagingFails(s)
  \/ Publish(s) \/ PublishFails(s) \/ FailGeneration(s) \/ WriteCatalog(s) \/ Commit(s)

Call == \E s \in Workers : \E r \in Requests : Ask(s, r) \/ Start(s, r)

Next ==
  \/ Call
  \/ \E s \in Workers : Continue(s) \/ Die(s) \/ \E r \in Legacy : LegacyCall(s, r)
  \/ \E r \in Requests : LeaseExpires(r) \/ RetryDue(r) \/ DeadlinePasses(r)
  \/ \E r \in Runs : RunAges(r)
  \/ DuxChanges \/ StopCollecting

Spec == Init /\ [][Next]_vars

\* Callers keep calling (the relay and the scheduler), invocations that do not die go
\* on, and time passes.
Fairness ==
  /\ WF_vars(Call)
  /\ \A s \in Workers : WF_vars(Continue(s))
  /\ \A r \in Requests : WF_vars(LeaseExpires(r)) /\ WF_vars(RetryDue(r)) /\ WF_vars(DeadlinePasses(r))
FairSpec == Spec /\ Fairness

----------------------------------------------------------------------------
(* Properties.                                                             *)

OpRecord == [status : {"none", "running", "completed", "failed"}, phase : 0..Identity+1,
             offset : 0..NumCodes, total : -1..NumCodes, token : Tokens \cup {0}, live : BOOLEAN,
             attempts : 0..MaxAttempts, tries : 0..MaxTries, overdue : BOOLEAN, wait : BOOLEAN,
             error : {None, "kept", "other"}]
Steps == {"idle", "prepay", "uncertain", "ready", "current", "read", "replay", "recover", "claimRun", "begin", "index",
          "stage", "stageAbsent", "publish", "failGeneration", "catalog", "commit"}

\* Every variable keeps its type.
TypeOK ==
  /\ ops \in [Requests -> OpRecord]
  /\ pages \in [Requests -> [0..NumCodes-1 -> [items : SUBSET Items, total : -1..NumCodes]]]
  /\ runs \in [Runs -> [status : {"none", "running", "succeeded", "failed"}, old : BOOLEAN]]
  /\ gens \in [Runs -> {"none", "loading", "published", "superseded", "failed"}]
  /\ staged \in [Runs -> [Codes -> Row]] /\ inventory \in [Codes -> Row]
  /\ catalog \in [run : Runs \cup {None}, items : SUBSET Items]
  /\ collecting \in BOOLEAN /\ dux \in [Codes -> Values \cup {None}]
  /\ w \in [Workers -> [pc : Steps, run : Runs \cup {None}, seen : OpRecord,
                         reading : SUBSET Items, known : [Codes -> Row]]]
  /\ deaths \in 0..MaxDeaths /\ changes \in 0..MaxChanges

\* What the shop reads as present in Dux.
Visible == {[code |-> c, value |-> inventory[c].value] : c \in {d \in Codes : inventory[d].st = "ok"}}

\* The visible inventory is replaced whole or not at all: it changes only when a run
\* publishes, and a run that publishes leaves exactly what it read, whatever inventory its
\* delta was compared with.
Publishes(s) == w[s].pc = "publish" /\ gens[w[s].run] # "published" /\ gens'[w[s].run] = "published"
ReplacedWhole ==
  [][/\ Visible' # Visible => \E s \in Workers : Publishes(s)
     /\ \A s \in Workers : Publishes(s) => Visible' = w[s].reading]_vars

\* A run publishes once: neither a resumed operation nor a second worker of the same
\* operation begins or publishes again a generation that was published or failed.
PublishedOnce ==
  [][\A r \in Runs : gens[r] \in {"published", "superseded", "failed"}
                        => gens'[r] # "loading" /\ (gens'[r] = "published" => gens[r] = "published")]_vars

\* Both: the catalogue moves from one reading to the next as a whole, once per run.
MovesWhole == ReplacedWhole /\ PublishedOnce

\* While the generation of the catalogue's run is the published one, the catalogue and
\* the inventory show the same items, though different workers may have written them.
CatalogAgrees ==
  catalog.run # None /\ gens[catalog.run] = "published" => catalog.items = Visible

\* A live lease protects its operation: only the worker that holds it can fail it, so a
\* late failure or a stale reading never discards the progress of a successor.
LeaseProtects ==
  [][\A r \in Requests : ops[r].live /\ ops'[r].status = "failed" =>
       \E s \in Workers : w[s].run = r /\ ops[r].token = w[s].seen.token /\ w'[s] = Idle]_vars

\* An operation never stays running for ever, whoever dies: its own callers, or the
\* start of the next one, close it.
SyncEnds == \A r \in Requests : ops[r].status = "running" ~> ops[r].status # "running"

\* What the message of the deadline says of the operation it closes: the previous
\* catalogue is kept.
DeadlineKeepsCatalog ==
  [][\A r \in Requests : ops[r].status = "failed" /\ ops[r].error = "kept" =>
       (catalog'.run = r => catalog.run = r)]_vars

-----------------------------------------------------------------------------
(* The instances TLC checks *)

\* The first synchronisation ever: the shop has no inventory.
Bootstrap == Init /\ inventory = NoDelta
BootstrapSpec == Bootstrap /\ [][Next]_vars /\ Fairness
=============================================================================
