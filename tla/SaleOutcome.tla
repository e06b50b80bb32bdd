---------------------------- MODULE SaleOutcome ----------------------------
(***************************************************************************)
(* What the shop is promised about the goods it reserved for one sale and  *)
(* the money that the provider holds for it: the goods go one way, they    *)
(* are delivered only against money, and once they are released no money   *)
(* can come in any more.                                                   *)
(***************************************************************************)
VARIABLES
  goods,   \* held for the buyer, released to the shop, or delivered
  money    \* which of pending, approved and refunded the payments are

Statuses == {"pending", "approved", "refunded"}

Init == goods = "held" /\ money = {}

\* An approval only ends in a refund, and a refund is for good.
Move ==
  /\ goods # "released"
  /\ money' \in SUBSET Statuses
  /\ "approved" \in money => money' \cap {"approved", "refunded"} # {}
  /\ "refunded" \in money => "refunded" \in money'
  /\ UNCHANGED goods

Release ==
  /\ goods = "held" /\ money \cap {"pending", "approved"} = {}
  /\ goods' = "released" /\ UNCHANGED money

Deliver ==
  /\ goods = "held" /\ money \cap {"approved", "refunded"} # {}
  /\ goods' = "delivered" /\ UNCHANGED money

Next == Move \/ Release \/ Deliver

Spec == Init /\ [][Next]_<<goods, money>>
=============================================================================
