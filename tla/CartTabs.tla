------------------------------ MODULE CartTabs ------------------------------
(***************************************************************************)
(* The cart of one browser: the CartProvider of every open tab             *)
(* (cart/CartContext.tsx), the operations on a cart (cart/model.ts), the   *)
(* catalogue each tab loads (data/runtime-catalog.ts) and the localStorage *)
(* entry all tabs share, whose changes reach the other tabs as storage     *)
(* events some time later.                                                 *)
(*                                                                         *)
(* A render and the effects it runs are one step, Commit; the handlers of  *)
(* clicks, storage events and catalogue answers run between two of them.   *)
(* The order of the lines of a cart is left out, its updatedAt is kept as  *)
(* a stamp: two carts with the same lines may still differ.  pending is    *)
(* not kept once the cart is hydrated: nothing reads it afterwards.  A     *)
(* browser that refuses to store leaves each tab with its own cart; that   *)
(* one is left out.                                                        *)
(***************************************************************************)
EXTENDS Naturals, Sequences, FiniteSets

CONSTANTS
  ShopTabs, Products,
  Max,          \* MAX_CART_QUANTITY
  MaxLines,     \* MAX_CART_LINES
  NoEntry,      \* no entry in localStorage
  MaxEdits,     \* bound: edits of the buyer
  MaxChanges    \* bound: changes of the shop's catalogue

VARIABLES
  cartTab,   \* the CartProvider and the runtime catalogue of each tab
  stored,    \* localStorage[CART_STORAGE_KEY]
  shop,      \* what GET /api/catalog answers
  edits, changes,
  first,     \* history: the lines stored at the beginning
  excused,   \* history: products a buyer removed or the shop did not sell
  overlap,   \* history: a tab wrote before it had heard of the others' cart
  missed     \* history: a tab dropped part of a storage event, or closed unsaved

cartVars == <<cartTab, stored, shop, edits, changes, first, excused, overlap, missed>>

\* What a catalogue says of a product: Gone (not listed, or without a usable
\* price), or how many can go into a cart; 0 is listed but not available.
Gone     == Max + 1
Catalogs == [Products -> 0..Gone]
Nothing  == [p \in Products |-> Gone]
Sellable(catalog, p) == catalog[p] \in 1..Max

Carts == [lines : [Products -> 0..Max], at : 0..MaxEdits]

ASSUME CartAssumption ==
  /\ IsFiniteSet(Products) /\ Max \in Nat \ {0} /\ MaxLines \in Nat \ {0} /\ MaxEdits \in Nat
  /\ NoEntry \notin Carts

Empty(at) == [lines |-> [p \in Products |-> 0], at |-> at]

Closed == [open |-> FALSE, cache |-> Nothing, resolved |-> FALSE, fresh |-> FALSE, view |-> Nothing,
           cart |-> Empty(0), changed |-> FALSE, hydrated |-> FALSE, skip |-> FALSE,
           pending |-> NoEntry, inbox |-> <<>>]

-----------------------------------------------------------------------------
(* cart/model.ts *)

\* parseStoredCart: lines of products that are gone are dropped, the others
\* stay whatever their stock.
Normalised(cart, catalog) ==
  IF cart = NoEntry THEN Empty(0)
  ELSE [cart EXCEPT !.lines = [p \in Products |-> IF catalog[p] = Gone THEN 0 ELSE @[p]]]

InCart(cart) == {p \in Products : cart.lines[p] > 0}
Least(a, b)  == IF a < b THEN a ELSE b

\* addCartItem, setCartItemQuantity, removeCartItem and clearCart: the lines
\* they leave, the same ones when they refuse.
Added(cart, p, maximum) ==
  IF cart.lines[p] = 0 /\ Cardinality(InCart(cart)) >= MaxLines THEN cart.lines
  ELSE [cart.lines EXCEPT ![p] = Least(@ + 1, maximum)]
WithQuantity(cart, p, quantity, maximum) ==
  IF quantity > maximum \/ cart.lines[p] = 0 THEN cart.lines
  ELSE [cart.lines EXCEPT ![p] = quantity]
Without(cart, p) == [cart.lines EXCEPT ![p] = 0]
Cleared == [p \in Products |-> 0]

-----------------------------------------------------------------------------
CartInit ==
  /\ cartTab = [t \in ShopTabs |-> Closed]
  /\ \E lines \in [Products -> 0..Max] :
       /\ Cardinality({p \in Products : lines[p] > 0}) <= MaxLines
       /\ stored \in {NoEntry, [lines |-> lines, at |-> 0]}
       /\ first = IF stored = NoEntry THEN Cleared ELSE lines
  /\ shop \in Catalogs
  /\ edits = 0 /\ changes = 0
  /\ excused = {p \in Products : shop[p] = Gone}
  /\ overlap = FALSE /\ missed = FALSE

\* Somebody else's cart is on its way: to this tab, or from another one.
Crossing(t) ==
  \/ cartTab[t].inbox # <<>> \/ cartTab[t].skip
  \/ \E u \in ShopTabs \ {t} : cartTab[u].changed /\ ~cartTab[u].skip

Open(t) ==
  /\ ~cartTab[t].open
  /\ cartTab' = [cartTab EXCEPT ![t] = [Closed EXCEPT !.open = TRUE, !.pending = stored]]
  /\ UNCHANGED <<stored, shop, edits, changes, first, excused, overlap, missed>>

\* Closing a tab or leaving the site: what was not rendered is not stored.
Close(t) ==
  /\ cartTab[t].open
  /\ cartTab' = [cartTab EXCEPT ![t] = Closed]
  /\ missed' = (missed \/ cartTab[t].changed)
  /\ UNCHANGED <<stored, shop, edits, changes, first, excused, overlap>>

ShopChanges ==
  /\ changes < MaxChanges /\ changes' = changes + 1
  /\ \E p \in Products, n \in 0..Gone : shop' = [shop EXCEPT ![p] = n]
  /\ excused' = excused \cup {p \in Products : shop'[p] = Gone}
  /\ UNCHANGED <<cartTab, stored, edits, first, overlap, missed>>

\* refreshRuntimeCatalog: a list that could not be read leaves the products as
\* they were, marked unavailable (the cart does not look at that mark).
CatalogAnswers(t) ==
  /\ cartTab[t].open
  /\ \/ cartTab' = [cartTab EXCEPT ![t].cache = shop, ![t].resolved = TRUE, ![t].fresh = TRUE]
     \/ cartTab' = [cartTab EXCEPT ![t].resolved = FALSE, ![t].fresh = TRUE]
  /\ UNCHANGED <<stored, shop, edits, changes, first, excused, overlap, missed>>

\* The provider keeps `next` as its cart unless it is the one it had.
Edit(t, lines) ==
  /\ edits < MaxEdits
  /\ lines # cartTab[t].cart.lines
  /\ edits' = edits + 1
  /\ cartTab' = [cartTab EXCEPT ![t].cart = [lines |-> lines, at |-> edits'], ![t].changed = TRUE]
  /\ overlap' = (overlap \/ Crossing(t) \/ ~cartTab[t].hydrated)
  /\ UNCHANGED <<stored, shop, changes, first, missed>>

Add(t, p) ==
  /\ cartTab[t].open /\ Sellable(cartTab[t].view, p)
  /\ Edit(t, Added(cartTab[t].cart, p, cartTab[t].view[p]))
  /\ UNCHANGED excused

SetQuantity(t, p) ==
  /\ cartTab[t].open /\ Sellable(cartTab[t].view, p)
  /\ \E n \in 1..Max : Edit(t, WithQuantity(cartTab[t].cart, p, n, cartTab[t].view[p]))
  /\ UNCHANGED excused

Remove(t, p) ==
  /\ cartTab[t].open
  /\ Edit(t, Without(cartTab[t].cart, p))
  /\ excused' = excused \cup {p}

Clear(t) ==
  /\ cartTab[t].open
  /\ Edit(t, Cleared)
  /\ excused' = excused \cup InCart(cartTab[t].cart)

\* Mutant: the stored cart is taken up with whatever products there are.
FollowAnyCatalog(b) ==
  LET cart == Normalised(IF b.hydrated THEN b.cart ELSE b.pending, b.cache) IN
  IF ~b.fresh \/ (b.hydrated /\ cart = b.cart) THEN b
  ELSE [b EXCEPT !.cart = cart, !.hydrated = TRUE, !.changed = TRUE, !.pending = NoEntry]

\* The effect of [products]: the stored cart is taken up once the catalogue is
\* known, and afterwards the cart follows the catalogue.
FollowCatalog(b) ==
  IF ~b.fresh THEN b
  ELSE IF ~b.hydrated
  THEN IF b.resolved
       THEN [b EXCEPT !.cart = Normalised(b.pending, b.cache), !.hydrated = TRUE, !.changed = TRUE,
                      !.pending = NoEntry]
       ELSE b
  ELSE LET cart == Normalised(b.cart, b.cache)
       IN IF cart = b.cart THEN b ELSE [b EXCEPT !.cart = cart, !.changed = TRUE]

\* The effect of [cart, hydrated]: a cart that came from another tab is not
\* written again.
Persists(b) == b.changed /\ b.hydrated /\ ~b.skip
\* A render with its effects, in their order. The second one stores the cart
\* the render showed, not the one the first one has just set.
Commit(t) ==
  LET b     == cartTab[t]
      next  == FollowCatalog([b EXCEPT !.changed = FALSE])
      done  == [next EXCEPT !.fresh = FALSE, !.view = b.cache,
                            !.skip = b.skip /\ ~(b.changed /\ b.hydrated)]
      write == Persists(b) /\ stored # b.cart
  IN
  /\ b.open /\ (b.fresh \/ b.changed)
  /\ stored' = IF write THEN b.cart ELSE stored
  /\ cartTab' = [u \in ShopTabs |->
       IF u = t THEN done
       ELSE IF write /\ cartTab[u].open THEN [cartTab[u] EXCEPT !.inbox = Append(@, b.cart)]
       ELSE cartTab[u]]
  /\ overlap' = (overlap \/ (next.changed /\ Crossing(t)))
  /\ UNCHANGED <<shop, edits, changes, first, excused, missed>>

\* handleStorage. An event that finds the catalogue unresolved is kept for the
\* hydration only: a tab that is past it drops the event.
Heard(b, cart) ==
  LET incoming == Normalised(cart, b.view)
      told     == [b EXCEPT !.inbox = Tail(@), !.pending = IF b.hydrated THEN NoEntry ELSE cart]
  IN IF ~b.hydrated \/ ~b.resolved \/ incoming = b.cart THEN told
     ELSE [told EXCEPT !.cart = incoming, !.skip = TRUE, !.changed = TRUE]

StorageEvent(t) ==
  LET b == cartTab[t] IN
  /\ b.open /\ b.inbox # <<>>
  /\ cartTab' = [cartTab EXCEPT ![t] = Heard(b, Head(b.inbox))]
  /\ missed' = (missed \/ (b.hydrated /\ cartTab'[t].cart # Head(b.inbox)))
  /\ UNCHANGED <<stored, shop, edits, changes, first, excused, overlap>>

CartNext ==
  \/ ShopChanges
  \/ \E t \in ShopTabs :
       \/ Open(t) \/ Close(t) \/ CatalogAnswers(t) \/ Commit(t) \/ StorageEvent(t) \/ Clear(t)
       \/ \E p \in Products : Add(t, p) \/ SetQuantity(t, p) \/ Remove(t, p)

CartSpec == CartInit /\ [][CartNext]_cartVars

-----------------------------------------------------------------------------
(* Properties *)

\* The variables keep their types: quantities are within the cart's limits.
CartTypeOK ==
  /\ stored \in Carts \cup {NoEntry}
  /\ shop \in Catalogs
  /\ \A t \in ShopTabs :
       /\ cartTab[t].cart \in Carts /\ Cardinality(InCart(cartTab[t].cart)) <= MaxLines
       /\ cartTab[t].pending \in Carts \cup {NoEntry}
       /\ cartTab[t].cache \in Catalogs /\ cartTab[t].view \in Catalogs
       /\ \A i \in 1..Len(cartTab[t].inbox) : cartTab[t].inbox[i] \in Carts

\* A product that was in the stored cart, that nobody removed and that the shop
\* never stopped selling stays in it, and in every tab that has read it: opening
\* tabs, lists that fail to load, storage events and concurrent edits lose
\* quantities at most, never a line (CartContext.tsx waits for the catalogue
\* before it takes up, normalises or writes the cart).
NothingDisappears ==
  \A p \in Products : first[p] > 0 /\ p \notin excused =>
    /\ stored.lines[p] > 0
    /\ \A t \in ShopTabs : cartTab[t].hydrated => cartTab[t].cart.lines[p] > 0

Quiet == \A t \in ShopTabs : ~cartTab[t].changed /\ ~cartTab[t].fresh /\ cartTab[t].inbox = <<>>
Synchronised == \A t \in ShopTabs : cartTab[t].hydrated => cartTab[t].cart = Normalised(stored, cartTab[t].view)

\* When the tabs edit one after the other, each having heard of the last edit,
\* and none dropped an event or closed with an edit unsaved, the stored cart is
\* the one the last edit made and all tabs show it, also the ones that were
\* opened or were still loading in between.
InTurnTheyAgree == Quiet /\ ~overlap /\ ~missed => Synchronised /\ (edits > 0 => stored.at = edits)

\* However tabs, storage events, lists that fail to load and edits interleave,
\* no line that was not removed disappears, and tabs edited in turn agree.
CartIsKept == CartTypeOK /\ NothingDisappears /\ InTurnTheyAgree

\* FULL_STACK_COMMERCE.md:70 calls the cart "sincronizado entre pestanas": with
\* edits that never crossed, the tabs show the stored cart when all is quiet.
TabsSynchronised == Quiet /\ ~overlap => Synchronised
=============================================================================
