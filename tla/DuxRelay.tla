------------------------------- MODULE DuxRelay -------------------------------
(***************************************************************************)
(* The two programs that carry a synchronisation with Dux to its end from  *)
(* outside the shop: the Cron Trigger (src/server/dux-cron.ts) and the     *)
(* script an operator or a workflow runs (src/scripts/run-dux-             *)
(* reconcile.mjs).  Each draws one identifier when it starts and repeats   *)
(* one request with it: the endpoint advances that operation a step per    *)
(* request and answers how far it is.  Requests may be lost, before the    *)
(* endpoint works or after, and their work may be done late.               *)
(***************************************************************************)
EXTENDS Integers, Sequences

CONSTANTS
  Checkpoints,  \* what the operation reports after each of its steps, in order
  Budget,       \* requests each runner may make: [{"cron", "script"} -> Nat]
  Deadline,     \* time a runner has
  Timeout,      \* time of one request
  Breath,       \* pause after a step
  RetryWaits,   \* pauses of each before a retry: 2 s, or what the answer asks the script for
  MaxLate       \* bound on requests whose work is done after they were given up

VARIABLES
  runner,    \* which of the two runs
  phase,     \* what it does: "ready" to ask, "sent", "resting" or "over"
  requests,  \* requests it made
  attempt,   \* attempts of the step under way
  elapsed,   \* time since it started
  rest,      \* the pause it takes
  seen,      \* checkpoints of the operation it was told of, the last one's place
  outcome,   \* what it reports: "none" until it ends
  stage,     \* checkpoints the operation passed, the last being its publication
  late       \* requests given up whose work is still to be done

relayVars == <<runner, phase, requests, attempt, elapsed, rest, seen, outcome, stage, late>>

Runners == {"cron", "script"}
Phases == <<"companies", "branches", "warehouses", "items", "publish">>

\* A checkpoint: the phase to come, products processed and their total, -1
\* until the first page tells it.
CheckpointRecords == [phase : 1..Len(Phases), processed : Nat, total : Nat \cup {-1}]

\* A later checkpoint never takes back what an earlier one said.
GoesOn(new, old) ==
  /\ new.processed >= old.processed /\ new.phase >= old.phase
  /\ old.total = -1 \/ new.total = old.total

\* How the endpoint reports its steps (progressResponse): the phases in their
\* order, the offset of the next page, and the total the first page fixes.
RelayAssumption ==
  /\ Checkpoints \in Seq(CheckpointRecords)
  /\ \A i \in DOMAIN Checkpoints : LET c == Checkpoints[i] IN c.total = -1 \/ c.processed <= c.total
  /\ \A i, j \in DOMAIN Checkpoints : i <= j => GoesOn(Checkpoints[j], Checkpoints[i])
  /\ Budget \in [Runners -> Nat]
  /\ RetryWaits \in [Runners -> SUBSET Nat]
  /\ {Deadline, Timeout, Breath, MaxLate} \subseteq Nat
ASSUME RelayAssumption

\* The operation ends one step after its last checkpoint, when the catalogue is
\* published.
Publication == Len(Checkpoints) + 1
-----------------------------------------------------------------------------
RelayInit ==
  /\ runner \in Runners
  /\ phase = "ready" /\ requests = 0 /\ attempt = 1 /\ elapsed = 0 /\ rest = 0
  /\ seen = 0 /\ outcome = "none"
  /\ stage = 0 /\ late = 0

Remaining == Deadline - elapsed
Smaller(m, n) == IF m <= n THEN m ELSE n

End(o) == phase' = "over" /\ outcome' = o
Rest(t) == phase' = "resting" /\ rest' = t

\* A runner asks while it has time and requests.
Request ==
  /\ phase = "ready"
  /\ IF Remaining <= 0 THEN End("deadline") /\ UNCHANGED requests
     ELSE IF requests >= Budget[runner] THEN End("steps") /\ UNCHANGED requests
     ELSE phase' = "sent" /\ requests' = requests + 1 /\ UNCHANGED outcome
  /\ UNCHANGED <<runner, attempt, elapsed, rest, seen, stage, late>>

\* A pause: the Cron Trigger ends when it does not fit in its time, the script
\* rests for what is left; neither asks again with no time left.
Resume ==
  /\ phase = "resting"
  /\ LET fits == IF runner = "cron" THEN rest < Remaining ELSE Remaining > 0 IN
       IF ~fits THEN End("deadline") /\ UNCHANGED elapsed
       ELSE /\ elapsed' = elapsed + Smaller(rest, Remaining)
            /\ IF elapsed' >= Deadline THEN End("deadline") ELSE phase' = "ready" /\ UNCHANGED outcome
  /\ rest' = 0
  /\ UNCHANGED <<runner, requests, attempt, seen, stage, late>>
-----------------------------------------------------------------------------
(* What the endpoint does with a request *)

\* A request advances the operation by a step, the one that starts it takes the
\* first as well, or it finds it leased, cooling or already over and leaves it.
Worked == stage..Smaller(Publication, IF stage = 0 THEN 2 ELSE stage + 1)

\* The time an answer takes; a request without one ends by its timeout.
Durations == 0..Smaller(Timeout, Remaining)

\* The work of a request the runner gave up is done at last.
LateWork ==
  /\ late > 0 /\ late' = late - 1
  /\ stage' \in Worked
  /\ UNCHANGED <<runner, phase, requests, attempt, elapsed, rest, seen, outcome>>
-----------------------------------------------------------------------------
(* What a runner makes of an answer *)

\* Mutant: a report with no more products processed is taken for a step back.
ProgressAdvances(new, old) ==
  /\ new \in 1..Len(Checkpoints)
  /\ LET c == Checkpoints[new] IN
       /\ c.total = -1 \/ c.processed <= c.total
       /\ old # 0 => LET d == Checkpoints[old] IN
            /\ c.processed > d.processed /\ c.phase >= d.phase
            /\ d.total = -1 \/ c.total = d.total

\* Both runners admit a report of their operation that is sound and does not
\* go back on the previous one.
ProgressFollows(new, old) ==
  /\ new \in 1..Len(Checkpoints)
  /\ LET c == Checkpoints[new] IN
       /\ c.total = -1 \/ c.processed <= c.total
       /\ old # 0 => LET d == Checkpoints[old] IN
            /\ c.processed >= d.processed /\ c.phase >= d.phase
            /\ d.total = -1 \/ c.total = d.total

\* A fresh attempt of a step that could not be confirmed, or the end.
Retry ==
  IF attempt = 2 THEN End("transport") /\ UNCHANGED <<attempt, rest>>
  ELSE attempt' = 2 /\ (\E t \in RetryWaits[runner] : Rest(t)) /\ UNCHANGED outcome

\* The Cron Trigger looks at its time again once it has the whole answer.
OutOfTime(t) == runner = "cron" /\ elapsed + t >= Deadline

\* A step was done: it is noted and the next asked for after a breath.
\* The Cron Trigger does not rest after its last request.
Progress ==
  /\ phase = "sent"
  /\ \E s \in Worked, t \in Durations :
       /\ s \in 1..Len(Checkpoints)
       /\ stage' = s /\ elapsed' = elapsed + t
       /\ IF OutOfTime(t) THEN End("deadline") /\ UNCHANGED <<seen, attempt, rest>>
          ELSE IF ~ProgressFollows(s, seen) THEN End("invalid") /\ UNCHANGED <<seen, attempt, rest>>
          ELSE /\ seen' = s /\ attempt' = 1
               /\ IF runner = "cron" /\ requests >= Budget[runner]
                  THEN End("steps") /\ UNCHANGED rest
                  ELSE Rest(Breath) /\ UNCHANGED outcome
  /\ UNCHANGED <<runner, requests, late>>

\* The operation is over and its result is what was stored: of the runs that
\* published with some product wrong, the script reports that they need
\* attention and the Cron Trigger that it could not confirm them.
Completed ==
  /\ phase = "sent"
  /\ \E t \in Durations, whole \in BOOLEAN :
       /\ Publication \in Worked
       /\ stage' = Publication /\ elapsed' = elapsed + t
       /\ End(IF OutOfTime(t) THEN "deadline" ELSE IF whole THEN "published"
              ELSE IF runner = "script" THEN "attention" ELSE "unconfirmed")
  /\ UNCHANGED <<runner, requests, attempt, rest, seen, late>>

\* Why the endpoint refuses: another synchronisation runs, the last one cools,
\* or the operation failed or the connection is switched off.
Refusals == {"overlap", "cooldown", "failed"}

\* The Cron Trigger reports every refusal alike, reading the answer of the last
\* kind only; the script tells an overlap its first attempt meets from the rest.
Refused ==
  /\ phase = "sent"
  /\ \E t \in Durations, why \in Refusals :
       /\ elapsed' = elapsed + t
       /\ End(IF runner = "cron"
              THEN IF why = "failed" /\ OutOfTime(t) THEN "deadline" ELSE "unconfirmed"
              ELSE IF why = "overlap" /\ attempt = 1 THEN "overlap" ELSE "refused")
  /\ UNCHANGED <<runner, requests, attempt, rest, seen, stage, late>>

\* The answer says nothing of the step: a gateway's error, or the endpoint's
\* own unclassified one, after it worked or before.
Uncertain ==
  /\ phase = "sent"
  /\ \E s \in Worked, t \in Durations :
       /\ stage' = s /\ elapsed' = elapsed + t
       /\ IF OutOfTime(t) THEN End("deadline") /\ UNCHANGED <<attempt, rest>> ELSE Retry
  /\ UNCHANGED <<runner, requests, seen, late>>

\* An answer that says it is good and cannot be read, after the endpoint worked
\* or before: no runner asks again.
Garbled ==
  /\ phase = "sent"
  /\ \E s \in Worked, t \in Durations :
       /\ stage' = s /\ elapsed' = elapsed + t
       /\ End("unreadable")
  /\ UNCHANGED <<runner, requests, attempt, rest, seen, late>>

\* No answer comes: the step was done, or will be, or never is.
Lost ==
  /\ phase = "sent"
  /\ \E s \in Worked, t \in Durations, pending \in BOOLEAN :
       /\ pending => s = stage /\ late < MaxLate
       /\ stage' = s /\ elapsed' = elapsed + t
       /\ late' = IF pending THEN late + 1 ELSE late
  /\ Retry
  /\ UNCHANGED <<runner, requests, seen>>
-----------------------------------------------------------------------------
RelayNext ==
  \/ Request \/ Resume \/ LateWork
  \/ Progress \/ Completed \/ Refused \/ Uncertain \/ Garbled \/ Lost

RelaySpec == RelayInit /\ [][RelayNext]_relayVars
-----------------------------------------------------------------------------
(* Properties *)

RelayTypeOK ==
  /\ runner \in Runners /\ phase \in {"ready", "sent", "resting", "over"}
  /\ requests \in Nat /\ attempt \in {1, 2} /\ elapsed \in Nat /\ rest \in Nat
  /\ seen \in Nat /\ stage \in Nat /\ late \in Nat
  /\ outcome \in {"none", "published", "attention", "unconfirmed", "invalid", "deadline",
                  "steps", "transport", "overlap", "refused", "unreadable"}

\* A runner that reports a publication had one, and has heard of no step the
\* operation did not take.
ReportsAreTrue ==
  /\ outcome \in {"published", "attention"} => stage = Publication
  /\ seen <= stage

\* A runner keeps to its requests and its time, however often it retries, and
\* gives up a step only after two attempts of it.
RelayIsBounded ==
  /\ requests <= Budget[runner] /\ elapsed <= Deadline
  /\ outcome = "steps" => requests = Budget[runner]
  /\ outcome = "transport" => attempt = 2

\* Whatever is lost, retried or done late, a runner tells the truth of the
\* operation, stays in its bounds, and never takes a report of the endpoint for
\* an impossible one.
RelayIsHonest == ReportsAreTrue /\ RelayIsBounded /\ outcome # "invalid"
=============================================================================
