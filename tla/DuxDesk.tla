------------------------------ MODULE DuxDesk ------------------------------
(***************************************************************************)
(* The page "Actualizaciones" of the administrator (admin/DuxPanel and     *)
(* admin/DuxCatalogControls): updating the products from Dux, step by step *)
(* under one identity, and publishing or hiding the catalogue.  DuxSync    *)
(* has what a step does; here an operation is a number of steps, and one   *)
(* invocation takes it one further, leaves it, ends it or fails it.        *)
(*                                                                         *)
(* A request the page gave up may still reach the server.  A render and    *)
(* its effects are one step; texts, metrics and the shape of the status    *)
(* are left out; an expired session unmounts the page (AdminConsole).      *)
(***************************************************************************)
EXTENDS Naturals, FiniteSets

CONSTANTS
  Mine,        \* identities this page can take for its updates
  Scheduled,   \* the update of the cron relay
  None,
  LastPhase,   \* the phase that publishes; "companies" is phase 0
  MaxRetries,  \* SYNC_MAX_TRANSPORT_RETRIES, 2
  MaxPosts,    \* bound: requests of updates
  MaxReads,    \* bound: readings of the status and of the control
  MaxChanges,  \* bound: changes of the control asked for here
  MaxVisits    \* bound: times the page is opened

Runs == Mine \cup Scheduled

DuxDeskAssumption ==
  /\ None \notin Runs /\ Mine \cap Scheduled = {} /\ \A s \in SUBSET Runs : s # None
  /\ None \notin {"sent", "pause", "reading", "done", "refused"}
  /\ LastPhase \in Nat /\ MaxRetries \in Nat /\ MaxPosts \in Nat
  /\ MaxReads \in Nat /\ MaxChanges \in Nat /\ MaxVisits \in Nat

VARIABLES
  ops,       \* server: the operations, each with its state and its phase
  control,   \* server: dux_catalog_control, and the changes it has had
  posts,     \* requests of updates on their way
  panel,     \* DuxPanel
  session,   \* syncSessionRef
  switches,  \* DuxCatalogControls
  reads,     \* readings on their way
  change,    \* the change of the control that is waited for
  late,      \* changes given up that may still reach the server
  count,     \* bounds: posts, reads, changes and visits made
  dropped,   \* history: updates the page let go: it was left, or the server gave an error of its own
  garbled    \* history: an answer of an update could not be read

vars == <<ops, control, posts, panel, session, switches, reads, change, late, count, dropped, garbled>>
server  == <<ops, control>>
changes == <<change, late>>
history == <<dropped, garbled>>

Completed  == {r \in Runs : ops[r].state = "completed"}
NoSession  == [id |-> None, phase |-> 0]
NoChange   == [stage |-> None, body |-> None, n |-> 0]
\* status, state: which updates had been published when they were read.
Closed     == [open |-> FALSE, status |-> None, loading |-> FALSE, error |-> FALSE, busy |-> None,
               retries |-> 0, action |-> "new", said |-> None]
Off        == [state |-> None, loading |-> FALSE, error |-> FALSE, busy |-> None, asking |-> FALSE, said |-> 0]
CatalogBusy == switches.busy # None

-----------------------------------------------------------------------------
(* The server *)

\* startOperation: while an operation runs, another does not start.
NobodyRuns == \A r \in Runs : ops[r].state # "running"

\* What one invocation may leave of an operation: not started beside another, as it was
\* (its lease is held, or Dux asks to wait), one phase further, failed, or published.
Steps(r) ==
  LET o == ops[r]
      failed == [o EXCEPT !.state = "failed"]
      next == IF o.phase < LastPhase THEN [o EXCEPT !.phase = @ + 1]
              ELSE IF control.collecting THEN [o EXCEPT !.state = "completed"] ELSE failed
  IN CASE o.state = "none"    -> IF NobodyRuns THEN {[o EXCEPT !.state = "running"], failed} ELSE {o}
       [] o.state = "running" -> {o, next, failed}
       [] OTHER               -> {o}

\* The answer tells the operation; any error the server itself gives is told by its code.
AnswerOf(o) ==
  CASE o.state = "running"   -> [kind |-> "progress", phase |-> o.phase]
    [] o.state = "completed" -> [kind |-> "done", phase |-> o.phase]
    [] OTHER                 -> [kind |-> "refused", phase |-> 0]
Refusal == [kind |-> "refused", phase |-> 0]

Invoke ==
  \E m \in posts :
    /\ m.got = None
    /\ \E o \in Steps(m.run), told \in BOOLEAN :
         /\ ops' = [ops EXCEPT ![m.run] = o]
         /\ posts' = IF m.live
                     THEN (posts \ {m}) \cup {[m EXCEPT !.got = IF told THEN AnswerOf(o) ELSE Refusal]}
                     ELSE posts \ {m}
    /\ UNCHANGED <<control, panel, session, switches, reads, changes, count, history>>

\* The cron relay takes its own update forward.
OthersUpdate ==
  /\ \E r \in Scheduled : \E o \in Steps(r) : o # ops[r] /\ ops' = [ops EXCEPT ![r] = o]
  /\ UNCHANGED <<control, posts, panel, session, switches, reads, changes, count, history>>

-----------------------------------------------------------------------------
(* Readings: of the status for the panel, of the control for its switches *)

Read(of) == [of |-> of, n |-> count.reads + 1, live |-> TRUE, got |-> None]
Forget(of) == {IF r.of = of THEN [r EXCEPT !.live = FALSE] ELSE r : r \in reads}
CanRead(k) == count.reads + k <= MaxReads

\* DuxPanel's refresh
RefreshStatus(p) == [p EXCEPT !.loading = TRUE, !.error = FALSE]
\* DuxCatalogControls' refresh keeps the error until an answer is read.
RefreshSwitches(s) == [s EXCEPT !.loading = TRUE]

IsCurrent(r) == r.live

ServeRead ==
  \E r \in reads :
    /\ r.got = None
    /\ reads' = (reads \ {r}) \cup {[r EXCEPT !.got = [published |-> Completed, control |-> control]]}
    /\ UNCHANGED <<server, posts, panel, session, switches, changes, count, history>>

\* A change, or an update, that waits for its own reading ends with it.
AfterOwnRead(s) ==
  IF s.busy = "reading" THEN [s EXCEPT !.busy = None, !.said = change.n] ELSE s

StatusRead ==
  \E r \in reads, failed \in BOOLEAN :
    /\ r.of = "status" /\ (failed \/ r.got # None)
    /\ LET p == IF ~IsCurrent(r) THEN panel
                ELSE IF failed THEN [panel EXCEPT !.loading = FALSE, !.error = TRUE]
                ELSE [panel EXCEPT !.loading = FALSE, !.status = r.got.published]
           first == panel.status = None /\ p.status # None
           ends  == panel.busy = "reading" /\ r.live
       \* With the first status the switches appear and read the control; so does the
       \* announcement of new products, once the panel has read its own status.
       IN /\ panel' = IF ends THEN [p EXCEPT !.busy = None] ELSE p
          /\ IF first \/ (ends /\ panel.status # None)
             THEN /\ CanRead(1)
                  /\ reads' = (Forget("control") \ {r}) \cup {Read("control")}
                  /\ count' = [count EXCEPT !.reads = @ + 1]
                  /\ switches' = RefreshSwitches(IF first THEN Off ELSE switches)
             ELSE reads' = reads \ {r} /\ UNCHANGED <<count, switches>>
    /\ UNCHANGED <<server, posts, session, changes, history>>

ControlRead ==
  \E r \in reads, failed \in BOOLEAN :
    /\ r.of = "control" /\ (failed \/ r.got # None)
    /\ reads' = reads \ {r}
    /\ switches' = IF ~IsCurrent(r) THEN switches
                   ELSE AfterOwnRead(IF failed THEN [switches EXCEPT !.loading = FALSE, !.error = TRUE]
                                     ELSE [switches EXCEPT !.loading = FALSE, !.error = FALSE, !.state = r.got])
    /\ UNCHANGED <<server, posts, panel, session, changes, count, history>>

\* "Volver a consultar Dux", "Volver a consultar el catálogo"
ReadAgain ==
  /\ CanRead(1)
  /\ \/ /\ panel.error /\ ~panel.loading /\ panel.busy = None /\ ~CatalogBusy
        /\ panel' = RefreshStatus(panel) /\ UNCHANGED switches
        /\ reads' = Forget("status") \cup {Read("status")}
     \/ /\ switches.error /\ ~switches.loading /\ panel.busy = None /\ ~CatalogBusy
        /\ switches' = RefreshSwitches(switches) /\ UNCHANGED panel
        /\ reads' = Forget("control") \cup {Read("control")}
  /\ count' = [count EXCEPT !.reads = @ + 1]
  /\ UNCHANGED <<server, posts, session, changes, history>>

-----------------------------------------------------------------------------
(* Updating the products *)

Open ==
  /\ ~panel.open /\ count.visits < MaxVisits /\ CanRead(1)
  /\ panel' = RefreshStatus([Closed EXCEPT !.open = TRUE])
  /\ reads' = reads \cup {Read("status")}
  /\ count' = [count EXCEPT !.reads = @ + 1, !.visits = @ + 1]
  /\ UNCHANGED <<server, posts, session, switches, changes, history>>

\* Leaving aborts the request of the update and forgets its identity.
Leave ==
  /\ panel.open
  /\ panel' = Closed /\ switches' = Off /\ session' = NoSession
  /\ posts' = {[m EXCEPT !.live = FALSE] : m \in {x \in posts : x.got = None}}
  /\ reads' = {} /\ change' = NoChange
  /\ late' = late \cup (IF change.stage = "sent" THEN {change.body} ELSE {})
  /\ dropped' = dropped \cup ({session.id} \ {None})
  /\ UNCHANGED <<server, count, garbled>>

Send(id) ==
  /\ count.posts < MaxPosts
  /\ posts' = posts \cup {[run |-> id, n |-> count.posts + 1, live |-> TRUE, got |-> None]}
  /\ count' = [count EXCEPT !.posts = @ + 1]

\* Mutant: every click takes a new identity.
FreshEachTime(r) == r \notin dropped /\ ops[r].state = "none" /\ \A m \in posts : m.run # r
\* The identity an update goes on with, or a new one.
TakesIdentity(r) ==
  IF session.id # None THEN r = session.id
  ELSE r \notin dropped /\ ops[r].state = "none" /\ \A m \in posts : m.run # r

Synchronize ==
  /\ panel.open /\ panel.status # None /\ panel.busy = None /\ ~panel.loading /\ ~CatalogBusy
  /\ \E r \in Mine :
       /\ TakesIdentity(r)
       /\ session' = IF session.id = r THEN session ELSE [NoSession EXCEPT !.id = r]
       /\ Send(r)
  /\ panel' = [panel EXCEPT !.busy = "sent", !.retries = 0, !.error = FALSE, !.said = None]
  /\ UNCHANGED <<server, switches, reads, changes, history>>

\* After the pause of a step the next request is sent, unless the steps or the time are over.
NextStep ==
  /\ panel.busy = "pause"
  /\ \/ /\ Send(session.id) /\ panel' = [panel EXCEPT !.busy = "sent"]
     \/ /\ panel' = [panel EXCEPT !.busy = None, !.action = "resume", !.error = TRUE]
        /\ UNCHANGED <<posts, count>>
  /\ UNCHANGED <<server, session, switches, reads, changes, history>>

\* The connection breaks, a minute passes, or a gateway answers without a code.
Interrupted ==
  \E m \in posts :
    /\ m.live
    /\ posts' = (posts \ {m}) \cup (IF m.got = None THEN {[m EXCEPT !.live = FALSE]} ELSE {})
    /\ panel' = IF panel.retries < MaxRetries THEN [panel EXCEPT !.busy = "pause", !.retries = @ + 1]
                ELSE [panel EXCEPT !.busy = None, !.action = "resume", !.error = TRUE]
    /\ UNCHANGED <<server, session, switches, reads, changes, count, history>>

\* parseSyncProgress: of this update, and never behind what it had reached.
Follows(got) == got.phase >= session.phase

Distrust ==
  /\ panel' = [panel EXCEPT !.busy = None, !.action = "check", !.error = TRUE]
  /\ UNCHANGED <<session, reads, count>>

Progress(m) ==
  /\ m.got.kind = "progress"
  /\ IF Follows(m.got)
     THEN /\ session' = [session EXCEPT !.phase = m.got.phase]
          /\ panel' = [panel EXCEPT !.busy = "pause", !.retries = 0]
          /\ UNCHANGED <<reads, count>>
     ELSE Distrust
  /\ UNCHANGED <<dropped, garbled>>

Done(m) ==
  /\ m.got.kind = "done" /\ CanRead(1)
  /\ session' = NoSession
  /\ panel' = RefreshStatus([panel EXCEPT !.busy = "reading", !.action = "new", !.said = m.run])
  /\ reads' = Forget("status") \cup {Read("status")}
  /\ count' = [count EXCEPT !.reads = @ + 1]
  /\ UNCHANGED <<dropped, garbled>>

\* An error of the server ends the update for this page: the next one has a new identity.
LetGo == session' = NoSession /\ dropped' = dropped \cup {session.id}

Refused(m) ==
  /\ m.got.kind = "refused"
  /\ LetGo
  /\ panel' = [panel EXCEPT !.busy = None, !.action = "new", !.error = TRUE]
  /\ UNCHANGED <<reads, count, garbled>>

\* The body of a confirmation was cut.
Unreadable(m) ==
  /\ m.got.kind \in {"progress", "done"}
  /\ garbled' = TRUE /\ Distrust /\ UNCHANGED dropped

Answered ==
  \E m \in posts :
    /\ m.got # None
    /\ posts' = posts \ {m}
    /\ Progress(m) \/ Done(m) \/ Refused(m) \/ Unreadable(m)
    /\ UNCHANGED <<server, switches, changes>>

-----------------------------------------------------------------------------
(* Publishing and hiding the catalogue *)

Blocked == CatalogBusy \/ panel.busy # None

\* "Mostrar catálogo en la tienda" and the answers of its dialog
Ask ==
  /\ switches.state # None /\ ~switches.state.control.public /\ ~Blocked
  /\ ~switches.asking /\ switches.state.published # {}
  /\ switches' = [switches EXCEPT !.asking = TRUE]
  /\ UNCHANGED <<server, posts, panel, session, reads, changes, count, history>>
Cancel ==
  /\ switches.asking /\ ~Blocked /\ switches' = [switches EXCEPT !.asking = FALSE]
  /\ UNCHANGED <<server, posts, panel, session, reads, changes, count, history>>

\* What each button sends.
Bodies ==
  LET c == switches.state.control IN
  (IF c.public THEN {"hide"} ELSE {}) \cup (IF switches.asking THEN {"publish"} ELSE {})
  \cup (IF c.collecting THEN {"stop"} ELSE {"collect"})

Change ==
  /\ switches.state # None /\ ~Blocked /\ count.changes < MaxChanges
  /\ \E b \in Bodies : change' = [stage |-> "sent", body |-> b, n |-> 0]
  /\ reads' = Forget("control")
  /\ switches' = [switches EXCEPT !.busy = "sent", !.loading = FALSE, !.error = FALSE, !.said = 0]
  /\ count' = [count EXCEPT !.changes = @ + 1]
  /\ UNCHANGED <<server, posts, panel, session, late, history>>

\* updateDuxCatalogControl: publishing requires a snapshot.
Applied(b) ==
  LET c == [control EXCEPT !.n = @ + 1] IN
  CASE b = "hide" -> [c EXCEPT !.public = FALSE]
    [] b = "publish" -> IF Completed # {} THEN [c EXCEPT !.public = TRUE] ELSE control
    [] b = "stop" -> [c EXCEPT !.collecting = FALSE]
    [] b = "collect" -> [c EXCEPT !.collecting = TRUE]

ServeChange ==
  /\ \/ /\ change.stage = "sent"
        /\ control' = Applied(change.body)
        /\ change' = [change EXCEPT !.stage = IF control' # control THEN "done" ELSE "refused", !.n = control'.n]
        /\ UNCHANGED late
     \/ \E b \in late : control' = Applied(b) /\ late' = late \ {b} /\ UNCHANGED change
  /\ UNCHANGED <<ops, posts, panel, session, switches, reads, count, history>>

\* Mutant: the confirmed change is said without reading the control again.
SayAtOnce ==
  /\ switches' = [switches EXCEPT !.asking = FALSE, !.busy = None, !.said = change.n] /\ UNCHANGED <<reads, count>>
\* A confirmed change reads the control before it says so.
ReadBack ==
  /\ CanRead(1)
  /\ switches' = RefreshSwitches([switches EXCEPT !.asking = FALSE, !.busy = "reading"])
  /\ reads' = Forget("control") \cup {Read("control")}
  /\ count' = [count EXCEPT !.reads = @ + 1]

ChangeAnswered ==
  /\ switches.busy = "sent"
  /\ \/ /\ change.stage = "done" /\ ReadBack /\ UNCHANGED late
        /\ change' = [change EXCEPT !.stage = None]
     \/ /\ change' = NoChange
        /\ late' = late \cup (IF change.stage = "sent" THEN {change.body} ELSE {})
        /\ switches' = [switches EXCEPT !.busy = None, !.error = TRUE] /\ UNCHANGED <<reads, count>>
  /\ UNCHANGED <<server, posts, panel, session, history>>

-----------------------------------------------------------------------------
Init ==
  /\ ops = [r \in Runs |-> [state |-> "none", phase |-> 0]]
  /\ control = [collecting |-> TRUE, public |-> FALSE, n |-> 0]
  /\ posts = {} /\ panel = Closed /\ session = NoSession /\ switches = Off
  /\ reads = {} /\ change = NoChange /\ late = {}
  /\ count = [posts |-> 0, reads |-> 0, changes |-> 0, visits |-> 0]
  /\ dropped = {} /\ garbled = FALSE

Next ==
  \/ Invoke \/ OthersUpdate
  \/ ServeRead \/ StatusRead \/ ControlRead \/ ReadAgain
  \/ Open \/ Leave \/ Synchronize \/ NextStep \/ Interrupted \/ Answered
  \/ Ask \/ Cancel \/ Change \/ ServeChange \/ ChangeAnswered

Spec == Init /\ [][Next]_vars

-----------------------------------------------------------------------------
TypeOK ==
  /\ ops \in [Runs -> [state : {"none", "running", "completed", "failed"}, phase : 0..LastPhase]]
  /\ control \in [collecting : BOOLEAN, public : BOOLEAN, n : Nat]
  /\ \A m \in posts : m.run \in Mine /\ m.live \in BOOLEAN
  /\ panel.busy \in {None, "sent", "pause", "reading"} /\ panel.action \in {"new", "resume", "check"}
  /\ session.id \in Mine \cup {None} /\ session.phase \in 0..LastPhase
  /\ switches.busy \in {None, "sent", "reading"} /\ switches.said \in Nat
  /\ \A r \in reads : r.of \in {"status", "control"} /\ r.live \in BOOLEAN
  /\ change.stage \in {None, "sent", "done", "refused"}

\* However often the connection breaks, an update of this page goes on under its identity: as
\* long as it runs, the page still has it, unless the page was left or the server itself refused
\* a step; and at most one of its requests is waited for at a time (docs/DUX_RESUMABLE_SYNC.md).
OneUpdateAtATime ==
  /\ \A r \in Mine : ops[r].state = "running" => r = session.id \/ r \in dropped
  /\ Cardinality({m \in posts : m.live}) <= 1
  /\ panel.busy = "sent" <=> \E m \in posts : m.live

\* The page distrusts the server ("Consultar resultado") only after an answer it could not read:
\* the progress of the operation it goes on with is never behind what it had shown.  That is
\* its phase; the counts parseSyncProgress also compares are not modelled.
DistrustHasReason == panel.action = "check" => garbled

\* An update said to be complete is published, and what the page shows of it -the status, and
\* the control of the catalogue- is read after the publication, or is loading, or says it failed.
SaidIsShown ==
  panel.said # None =>
    /\ panel.said \in Completed
    /\ panel.loading \/ panel.error \/ panel.said \in panel.status
    /\ panel.busy = "reading" \/ CatalogBusy \/ switches.loading \/ switches.error
         \/ panel.said \in switches.state.published

\* A change of the control that is said to be made is in what is shown, unless its reading failed.
ChangeIsShown ==
  switches.said # 0 => switches.error \/ switches.loading \/ switches.state.control.n >= switches.said

\* Both of the updates, and both of what the page says, as single invariants.
UpdateIsFollowed  == OneUpdateAtATime /\ DistrustHasReason
WhatIsSaidIsShown == SaidIsShown /\ ChangeIsShown
=============================================================================
