--------------------------- MODULE DuxRequestGate ---------------------------
(***************************************************************************)
(* The gate that checkout and synchronisation share before every request   *)
(* to Dux (server/dux-request-gate.ts): one UPDATE of the single row of    *)
(* dux_api_request_gate reserves a turn, the caller sleeps until the turn  *)
(* starts and looks at its clock again.  A read is sent at once; the POST  *)
(* of an order first runs its beforeSend batch (server/dux-order-api.ts).  *)
(*                                                                         *)
(* Time is counted in seconds.  Each caller has a clock of its own, ahead  *)
(* of the real time by a constant skew.  A sleep, a D1 statement or an     *)
(* await may take longer than it should: time may always pass, except      *)
(* between the permission for a read and its fetch.                        *)
(***************************************************************************)
EXTENDS Naturals

CONSTANTS
  Callers,    \* calls of the gate that can be under way at once
  Interval,   \* REQUEST_INTERVAL_MS
  Window,     \* START_WINDOW_MS
  MaxQueue,   \* MAX_QUEUE_MS
  MaxSkew,    \* how far two callers' clocks may differ
  MaxTime     \* bound: when the run of the clock ends

ASSUME TimesAssumption ==
  /\ Interval \in Nat /\ Window \in Nat /\ MaxQueue \in Nat
  /\ MaxSkew \in Nat /\ MaxTime \in Nat
  /\ Interval > Window + MaxSkew

VARIABLES
  now,         \* the real time
  skew,        \* what each caller's clock is ahead
  next,        \* dux_api_request_gate.next_request_at_ms
  pc,          \* where each caller is
  stamp,       \* the clock as the caller read it before its UPDATE
  slot,        \* startsAt, the turn the caller waits for
  lastPermit,  \* history: when the gate let a caller through for the last time
  lastSend     \* history: when a request was sent to Dux for the last time

clocks  == <<now, skew>>
history == <<lastPermit, lastSend>>
vars    == <<clocks, next, pc, stamp, slot, history>>

Labels == {"idle", "claim", "turn", "read", "fence", "sent"}

\* No instant the gate handles lies beyond this one.
Horizon == Interval + MaxTime + MaxSkew + MaxQueue + Interval

\* Every variable has its type; no turn lies beyond the horizon.
TypeOK ==
  /\ now \in Nat /\ skew \in [Callers -> 0..MaxSkew]
  /\ next \in 0..Horizon
  /\ pc \in [Callers -> Labels]
  /\ stamp \in [Callers -> Nat] /\ slot \in [Callers -> 0..Horizon]
  /\ lastPermit \in Nat /\ lastSend \in Nat

\* The row of the migration says 0, long ago.
Init ==
  /\ now = Interval /\ skew \in [Callers -> 0..MaxSkew]
  /\ next = 0
  /\ pc = [c \in Callers |-> "idle"]
  /\ stamp = [c \in Callers |-> 0] /\ slot = stamp
  /\ lastPermit = 0 /\ lastSend = 0

Clock(c)   == now + skew[c]
Goto(c, l) == pc' = [pc EXCEPT ![c] = l]
Later(s, t) == IF s > t THEN s ELSE t
Leave(c) == /\ stamp' = [stamp EXCEPT ![c] = 0] /\ slot' = [slot EXCEPT ![c] = 0]
            /\ Goto(c, "idle")

-----------------------------------------------------------------------------
(* The gate *)

Ask(c) ==
  /\ pc[c] = "idle"
  /\ stamp' = [stamp EXCEPT ![c] = Clock(c)]
  /\ Goto(c, "claim")
  /\ UNCHANGED <<clocks, next, slot, history>>

\* The UPDATE ... RETURNING.
Claim(c) ==
  /\ pc[c] = "claim" /\ next <= stamp[c] + MaxQueue
  /\ slot' = [slot EXCEPT ![c] = Later(next, stamp[c])]
  /\ stamp' = [stamp EXCEPT ![c] = 0]
  /\ next' = Later(next, stamp[c]) + Interval
  /\ Goto(c, "turn")
  /\ UNCHANGED <<clocks, history>>

\* No row was changed: the queue is full, and the call fails.
ClaimRefused(c) ==
  /\ pc[c] = "claim" /\ next > stamp[c] + MaxQueue
  /\ Leave(c)
  /\ UNCHANGED <<clocks, next, history>>

\* Mutant: nobody looks at the clock after the sleep.
PermitLate(c) ==
  /\ pc[c] = "turn" /\ slot[c] <= Clock(c)
  /\ lastPermit' = now
  /\ slot' = [slot EXCEPT ![c] = 0]
  /\ Goto(c, "read") \/ Goto(c, "fence")
  /\ UNCHANGED <<clocks, next, stamp, lastSend>>

\* After the sleep the clock is within the turn's window; the request is a read
\* or a POST.
Permit(c) ==
  /\ pc[c] = "turn" /\ slot[c] <= Clock(c) /\ Clock(c) <= slot[c] + Window
  /\ lastPermit' = now
  /\ slot' = [slot EXCEPT ![c] = 0]
  /\ Goto(c, "read") \/ Goto(c, "fence")
  /\ UNCHANGED <<clocks, next, stamp, lastSend>>

\* The sleep took too long: the turn is lost, and the call fails.
SlotBusy(c) ==
  /\ pc[c] = "turn" /\ Clock(c) > slot[c] + Window
  /\ Leave(c)
  /\ UNCHANGED <<clocks, next, history>>

-----------------------------------------------------------------------------
(* The request behind the gate *)

\* A GET right away, a POST once its batch has committed.
Send(c) ==
  /\ pc[c] \in {"read", "fence"}
  /\ lastSend' = now
  /\ Goto(c, "sent")
  /\ UNCHANGED <<clocks, next, stamp, slot, lastPermit>>

Answered(c) ==
  /\ pc[c] = "sent"
  /\ Goto(c, "idle")
  /\ UNCHANGED <<clocks, next, stamp, slot, history>>

\* An await throws (D1's answer to the UPDATE among them), a sleep ends before
\* the turn, the batch of the POST finds its lease lost, or the invocation
\* dies; a reserved turn stays reserved.
Abandon(c) ==
  /\ \/ pc[c] \in {"claim", "turn", "fence"} /\ UNCHANGED next
     \/ /\ pc[c] = "claim" /\ next <= stamp[c] + MaxQueue
        /\ next' = Later(next, stamp[c]) + Interval
  /\ Leave(c)
  /\ UNCHANGED <<clocks, history>>

Tick ==
  /\ now < Interval + MaxTime
  /\ \A c \in Callers : pc[c] # "read"
  /\ now' = now + 1
  /\ UNCHANGED <<skew, next, pc, stamp, slot, history>>

CallerStep(c) ==
  \/ Ask(c) \/ Claim(c) \/ ClaimRefused(c) \/ Permit(c) \/ SlotBusy(c)
  \/ Send(c) \/ Answered(c) \/ Abandon(c)

Next == Tick \/ \E c \in Callers : CallerStep(c)

Spec == Init /\ [][Next]_vars

-----------------------------------------------------------------------------
(* Properties *)

\* What remains of the interval when a turn is used at the end of its window
\* and the next one by a clock that is ahead.
Gap == Interval - Window - MaxSkew

\* Permissions lie apart, whoever sleeps too long, loses its turn or dies
\* ("separadas por al menos cinco segundos", dux-request-gate.ts:4).
PermitsSpaced ==
  [][\A c \in Callers :
       pc[c] = "turn" /\ pc'[c] \in {"read", "fence"} => now >= lastPermit + Gap]_vars

\* Nobody is ever told to wait longer than the queue allows, and the row never
\* runs away from the clock: turns that are lost do not pile up.
QueueBounded ==
  /\ next <= now + MaxSkew + MaxQueue + Interval
  /\ \A c \in Callers : pc[c] = "turn" => slot[c] <= now + MaxSkew + MaxQueue

\* The gate keeps its pace and its queue.
GateHolds == PermitsSpaced /\ []QueueBounded

\* The same distance between the requests themselves, as the documentation has
\* it (DIRECT_CHECKOUT.md:67).
RequestsSpaced ==
  [][\A c \in Callers : pc[c] # "sent" /\ pc'[c] = "sent" => now >= lastSend + Gap]_vars

=============================================================================
