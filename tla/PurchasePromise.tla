-------------------------- MODULE PurchasePromise --------------------------
(***************************************************************************)
(* What the buyer and the shop are promised about one direct purchase,     *)
(* whatever the browser, the workers and the provider do in between: the   *)
(* purchase is decided once, the provider is asked at most once and only   *)
(* after that decision, and nothing is reserved without having asked.      *)
(***************************************************************************)
EXTENDS Naturals

VARIABLES
  stage,   \* open, closed, reserving or reserved
  asked    \* how often the provider was asked for the order

Init == stage = "open" /\ asked = 0

Close == stage = "open" /\ stage' = "closed" /\ UNCHANGED asked

Commit == stage = "open" /\ stage' = "reserving" /\ UNCHANGED asked

Ask == stage = "reserving" /\ asked = 0 /\ asked' = 1 /\ UNCHANGED stage

Reserve == stage = "reserving" /\ asked = 1 /\ stage' = "reserved"
           /\ UNCHANGED asked

Next == Close \/ Commit \/ Ask \/ Reserve

Spec == Init /\ [][Next]_<<stage, asked>>
=============================================================================
