----------------------------- MODULE DirectWatch -----------------------------
(***************************************************************************)
(* How much of the direct checkout one buyer's panel can carry.  A         *)
(* preparation advances by at most one provider call per request, and the  *)
(* panel that watches it (WebOrderRequestSection.tsx) asks at most 120     *)
(* times before it pauses, and no more after any error; only a click goes  *)
(* on from there.  This module follows one such effect of the panel over   *)
(* DirectCheckout and counts the checks it spends.  Nothing here says that *)
(* the panel asks, that a click follows or that Dux answers: other callers *)
(* and the panel's own stops fall anywhere.                                *)
(***************************************************************************)
EXTENDS DirectCheckout, TLC

VARIABLES
  watching,   \* the effect is mounted and not stopped
  call,       \* the worker that serves the panel's check, or NoOne
  checks,     \* checks that could advance something, of this effect
  lost        \* readings grown old, and faults of other calls, meanwhile

panel     == <<watching, call, checks, lost>>
watchVars == <<vars, panel>>

Preparing == prep \in {"preparing", "uncertain"}

Stopped == watching' = FALSE /\ call' = NoOne /\ checks' = 0 /\ lost' = 0

WatchInit == Init /\ watching = FALSE /\ call = NoOne /\ checks = 0 /\ lost = 0

\* The effect starts: the panel was opened, its receipt is of a preparation
\* again, or the buyer clicked.
Open ==
  /\ ~watching /\ Preparing
  /\ watching' = TRUE
  /\ UNCHANGED <<vars, call, checks, lost>>

\* 120 checks, a hidden or closed page, a lost answer, a refused quota, a click.
Close == watching /\ Stopped /\ UNCHANGED vars

\* A check that claims the row.  One that meets a live lease or a row that is
\* not for claiming changes nothing; one that looks for an order Dux does not
\* have yet waits for Dux, and is not counted.
Ask(w) ==
  /\ watching /\ call = NoOne
  /\ Claim(w, FALSE)
  /\ call' = w
  /\ checks' = IF op.attempted /\ dux.id = 0 THEN checks ELSE checks + 1
  /\ UNCHANGED <<watching, lost>>

\* The step just taken makes the check an error: the worker threw or died.
Thrown(w) == \/ pc'[w] \in {"failing", "close"}
             \/ faults' # faults /\ pc'[w] # pc[w]

Answered(w) == pc[w] = "leaving" /\ pc'[w] = "idle"

\* The check that is out fails, or finds that nothing is being prepared.
Ends == /\ call # NoOne
        /\ \/ Thrown(call)
           \/ Answered(call) /\ ~Preparing'

\* What a step takes from a preparation: its readings grow old, or a call fails.
Setback == (epoch' - epoch) + (faults' - faults)

\* What the panel makes of a step of the system: an error stops it, an answer
\* frees it for the next check or ends the watch, and an administrator who
\* resumes what was in review starts the count again.
React ==
  \/ ~watching /\ UNCHANGED panel
  \/ watching /\ Ends /\ Stopped
  \/ /\ watching /\ ~Ends
     /\ call' = IF call # NoOne /\ Answered(call) THEN NoOne ELSE call
     /\ IF prep = "requires_review" /\ prep' = "preparing"
          THEN checks' = 0 /\ lost' = 0
          ELSE checks' = checks /\ lost' = lost + Setback
     /\ UNCHANGED watching

\* Any step of the system, other callers' claims included.
Serve == Next /\ React

WatchNext == Open \/ Close \/ Serve \/ \E w \in Workers : Ask(w)

WatchSpec == WatchInit /\ [][WatchNext]_watchVars

-----------------------------------------------------------------------------
(* Properties *)

\* A preparation needs a reading of each line, the draft, the POST, finding
\* the order, a second reading of each line and the confirmation.
Needed == 2 * Items + 4


-----------------------------------------------------------------------------
(* The instance TLC checks *)

Alike == Permutations(Workers)
=============================================================================
