---------------------------- MODULE MCStorefront -----------------------------
(***************************************************************************)
(* What a customer's browser keeps, for TLC: the cart, the purchase panel  *)
(* and the consent to analytics of two tabs.  They share no state: a       *)
(* behaviour is one of one of them, `part`, and the others stay as they    *)
(* begin.                                                                  *)
(***************************************************************************)
EXTENDS AnalyticsConsent, CartTabs, BuyerPanel, TLC

VARIABLE part

-----------------------------------------------------------------------------
\* The buyer comes back to a cart with one piece of everything in stock; what
\* edits and changes of the shop make of it is the rest of the instance.
MCInit ==
  /\ part \in {"cart", "panel", "consent"}
  /\ Init /\ CartInit /\ PanelInit
  /\ shop = [p \in Products |-> 2] /\ stored = [lines |-> [p \in Products |-> 1], at |-> 0]

MCNext ==
  \/ part = "cart" /\ CartNext /\ UNCHANGED <<part, panelVars, vars>>
  \/ part = "panel" /\ PanelNext /\ UNCHANGED <<part, cartVars, vars>>
  \/ part = "consent" /\ Next /\ UNCHANGED <<part, cartVars, panelVars>>

MCSpec == MCInit /\ [][MCNext]_<<part, cartVars, panelVars, vars>>

\* Two edits of the cart and changes of the shop in all, one request that moves
\* twice, three sessions drawn and purges claimed.
FewChanges ==
  /\ edits + changes <= 2
  /\ Cardinality({k \in DOMAIN request : request[k].version > 1}) <= 1
  /\ drawn + claimed <= 3

Symmetry == Permutations(Tabs)
=============================================================================
