------------------------- MODULE WebRequestsProofs --------------------------
(***************************************************************************)
(* What WebRequests promises for any number of tabs, keys, owners,         *)
(* administrators and Dux numbers: the receipts are the buyer's own        *)
(* (ReceiptsAreHonest), a request is sold once (OneSale) and at the terms  *)
(* in force (TermsInForce).                                                *)
(*                                                                         *)
(* The inductive invariant adds to them what the handlers rely on without  *)
(* writing it down: a call carries what its step needs (CallsFilled), the  *)
(* row a tab is about to confirm is there (ConfirmsRow), and the state of a *)
(* direct checkout agrees with its request and its order (Begun, PathOf).  *)
(***************************************************************************)
EXTENDS WebRequests, FiniteSetTheorems, TLAPS

\* A call that has begun knows its key and its owner, one that submits knows
\* its cart; a preparation that has begun knows what it was asked to prepare.
CallsFilled ==
  /\ \A t \in Tabs :
       /\ tabs[t].pc # "idle" => tabs[t].key \in Keys /\ tabs[t].owner \in Owners
       /\ tabs[t].pc \in {"asked", "storing", "confirming"} => tabs[t].cart \in Carts
  /\ \A p \in Admins :
       /\ admins[p].pc # "idle" => admins[p].key \in Keys /\ admins[p].number \in Numbers
       /\ admins[p].pc = "ready" => admins[p].version \in Versions

\* A direct checkout has a request.
Begun == \A k \in Keys : direct[k] # "none" => rows[k] # None

Typed == TypeOK /\ CallsFilled /\ Begun

-----------------------------------------------------------------------------
(* Types *)

LEMMA InitTyped == ASSUME Init PROVE Typed
<1>1. Cardinality(Earlier) \in Nat
  BY EarlierAssumption, FS_Subset, FS_CardinalityType
<1>2. made \in 0..Limit /\ others \in 0..Limit
  BY <1>1, LimitAssumption DEF Init
<1>3. catalog \in [version : Versions, published : BOOLEAN] /\ campaign \in [stamp : Stamps, on : BOOLEAN]
  BY LimitAssumption DEF Init, Versions, Stamps
<1>4. faults \in 0..MaxFaults /\ offer \in [Keys -> Stamps]
  BY LimitAssumption DEF Init, Stamps
<1>5. rows \in [Keys -> Rows \cup {None}] /\ orders \in [Keys -> Orders \cup {None}]
  BY DEF Init
<1> QED
  BY <1>2, <1>3, <1>4, <1>5 DEF Init, Typed, TypeOK, CallsFilled, Begun, NoCall, NoPreparation

\* One lemma for the tabs, one for the sales and one for what surrounds them.
LEMMA TabsKeepTypes ==
  ASSUME Typed, NEW t \in Tabs,
         Ask(t) \/ Replayed(t) \/ Snapshot(t) \/ Store(t) \/ Confirm(t) \/ Recover(t) \/ Close(t)
  PROVE  Typed'
<1> DEFINE Lines == {"idle", "asked", "storing", "confirming", "receipt", "recovered", "conflict", "hidden"}
           Call == [pc : Lines, key : Keys \cup {None}, owner : Owners \cup {None}, cart : Carts \cup {None}]
<1> USE DEF Typed
<1>0. tabs \in [Tabs -> Call]
  BY DEF TypeOK
<1>1. \A l \in Lines : Goto(t, l) =>
         /\ tabs' \in [Tabs -> Call]
         /\ tabs'[t] = IF l = "idle" THEN NoCall ELSE [tabs[t] EXCEPT !.pc = l]
         /\ \A u \in Tabs \ {t} : tabs'[u] = tabs[u]
  BY <1>0 DEF Goto, NoCall
<1>2. Answer(t) \in {"hidden", "conflict", "receipt"}
  BY DEF Answer
<1>3. CASE Ask(t)
  <2>1. tabs' \in [Tabs -> Call]
    BY <1>0, <1>3 DEF Ask
  <2> QED
    BY <2>1, <1>3, <1>0 DEF Ask, TypeOK, CallsFilled, Begun, store, sale, env
<1>4. CASE Replayed(t)
  BY <1>0, <1>1, <1>2, <1>4 DEF Replayed, TypeOK, CallsFilled, Begun, store, sale, env
<1>5. CASE Snapshot(t)
  BY <1>0, <1>1, <1>5 DEF Snapshot, TypeOK, CallsFilled, Begun, store, sale, env, NoCall
<1>6. CASE Store(t)
  <2> DEFINE k == tabs[t].key
  <2>1. k \in Keys /\ tabs[t].owner \in Owners /\ tabs[t].cart \in Carts
    BY <1>6 DEF Store, CallsFilled
  <2>2. tabs' \in [Tabs -> Call] /\ CallsFilled'
    BY <1>0, <1>1, <1>6 DEF Store, CallsFilled, NoCall, sale, env
  <2>3. rows' \in [Keys -> Rows \cup {None}]
    BY <1>6, <2>1 DEF Store, TypeOK, Rows, store
  <2>4. made' \in 0..Limit /\ others' \in 0..Limit /\ faults' \in 0..MaxFaults
    BY <1>6, LimitAssumption DEF Store, TypeOK, WithinLimit, store
  <2>5. Begun'
    BY <1>6, <2>1, RowsAssumption DEF Store, Begun, TypeOK, Rows, sale, store
  <2> QED
    BY <2>2, <2>3, <2>4, <2>5, <1>6 DEF Store, TypeOK, sale, env
<1>7. CASE Confirm(t)
  <2>1. tabs' \in [Tabs -> Call] /\ CallsFilled'
    BY <1>0, <1>1, <1>2, <1>7 DEF Confirm, CallsFilled
  <2> QED
    BY <2>1, <1>7 DEF Confirm, TypeOK, Begun, store, sale, env
<1>8. CASE Recover(t)
  <2>1. tabs' \in [Tabs -> Call]
    BY <1>0, <1>8 DEF Recover
  <2> QED
    BY <2>1, <1>8, <1>0 DEF Recover, TypeOK, CallsFilled, Begun, store, sale, env
<1>9. CASE Close(t)
  <2>1. tabs' \in [Tabs -> Call] /\ CallsFilled'
    BY <1>0, <1>1, <1>9 DEF Close, CallsFilled, NoCall
  <2> QED
    BY <2>1, <1>9 DEF Close, TypeOK, Begun, store, sale, env
<1> QED
  BY <1>3, <1>4, <1>5, <1>6, <1>7, <1>8, <1>9

LEMMA SalesKeepTypes ==
  ASSUME Typed, NEW k \in Keys,
         \/ \E to \in {"accepted", "rejected"} : Resolve(k, to)
         \/ DirectClaim(k) \/ DirectQuote(k) \/ DirectDraft(k) \/ DirectStops(k) \/ Moves(k)
  PROVE  Typed'
<1> USE DEF Typed
<1>1. ASSUME NEW to \in {"accepted", "rejected"}, Resolve(k, to) PROVE Typed'
  <2>1. rows' \in [Keys -> Rows \cup {None}]
    BY <1>1 DEF Resolve, TypeOK, Rows
  <2>2. CallsFilled' /\ Begun'
    BY <1>1, RowsAssumption DEF Resolve, CallsFilled, Begun, calls, TypeOK, Rows
  <2> QED
    BY <1>1, <2>1, <2>2 DEF Resolve, TypeOK, env, calls
<1>2. CASE DirectClaim(k)
  BY <1>2 DEF DirectClaim, TypeOK, CallsFilled, Begun, store, env, calls
<1>3. CASE DirectQuote(k)
  <2>1. campaign.stamp \in Stamps /\ 0 \in Stamps
    BY LimitAssumption DEF TypeOK, Stamps
  <2> QED
    BY <1>3, <2>1 DEF DirectQuote, TypeOK, CallsFilled, Begun, store, env, calls
<1>4. CASE DirectDraft(k)
  <2>0. rows[k] \in Rows
    BY <1>4 DEF DirectDraft, TypeOK, Begun
  <2>1. rows' \in [Keys -> Rows \cup {None}]
    BY <1>4, <2>0 DEF DirectDraft, TypeOK, Rows
  <2>2. offer[k] \in Stamps /\ 0 \in Stamps
    BY LimitAssumption DEF TypeOK, Stamps
  <2>3. orders' \in [Keys -> Orders \cup {None}]
    BY <1>4, <2>2 DEF DirectDraft, TypeOK, Orders
  <2>4. CallsFilled' /\ Begun'
    BY <1>4, <2>0, RowsAssumption DEF DirectDraft, CallsFilled, Begun, calls, TypeOK, Rows
  <2> QED
    BY <1>4, <2>1, <2>2, <2>3, <2>4 DEF DirectDraft, TypeOK, env, calls
<1>5. CASE DirectStops(k)
  <2>1. 0 \in Stamps
    BY LimitAssumption DEF Stamps
  <2> QED
    BY <1>5, <2>1, LimitAssumption DEF DirectStops, TypeOK, CallsFilled, Begun, store, env, calls
<1>6. CASE Moves(k)
  <2>1. orders' \in [Keys -> Orders \cup {None}]
    BY <1>6 DEF Moves, TypeOK, Orders
  <2> QED
    BY <1>6, <2>1 DEF Moves, TypeOK, CallsFilled, Begun, store, env, calls
<1> QED
  BY <1>1, <1>2, <1>3, <1>4, <1>5, <1>6

LEMMA PreparationsKeepTypes ==
  ASSUME Typed, NEW p \in Admins,
         \/ \E k \in Keys, n \in Numbers, s \in 0..1 : PrepareAgain(p, k, n, s) \/ Preview(p, k, n, s)
         \/ Prepare(p) \/ Forget(p)
  PROVE  Typed'
<1> DEFINE Call == [pc : {"idle", "ready", "told"}, key : Keys \cup {None}, number : Numbers \cup {None},
                    shipping : 0..1, version : Versions \cup {0}]
<1> USE DEF Typed
<1>0. admins \in [Admins -> Call] /\ catalog.version \in Versions
  BY DEF TypeOK
<1>1. ASSUME NEW k \in Keys, NEW n \in Numbers, NEW s \in 0..1, PrepareAgain(p, k, n, s) PROVE Typed'
  <2>1. admins' \in [Admins -> Call]
    BY <1>0, <1>1 DEF PrepareAgain
  <2> QED
    BY <1>0, <1>1, <2>1 DEF PrepareAgain, TypeOK, CallsFilled, Begun, store, sale, env
<1>2. ASSUME NEW k \in Keys, NEW n \in Numbers, NEW s \in 0..1, Preview(p, k, n, s) PROVE Typed'
  <2>1. admins' \in [Admins -> Call]
    BY <1>0, <1>2 DEF Preview
  <2> QED
    BY <1>0, <1>2, <2>1 DEF Preview, TypeOK, CallsFilled, Begun, store, sale, env
<1>3. CASE Prepare(p)
  <2>0. /\ admins[p].pc = "ready" /\ admins[p].key \in Keys /\ admins[p].number \in Numbers
        /\ admins[p].version \in Versions /\ admins[p].shipping \in 0..1 /\ 0 \in Stamps
    BY <1>0, <1>3, LimitAssumption DEF Prepare, CallsFilled, Stamps
  <2>1. admins' \in [Admins -> Call] /\ CallsFilled'
    BY <1>0, <1>3, <2>0 DEF Prepare, CallsFilled, NoPreparation
  <2>2. orders' \in [Keys -> Orders \cup {None}]
    BY <1>3, <2>0 DEF Prepare, TypeOK, Orders
  <2> QED
    BY <1>3, <2>1, <2>2 DEF Prepare, TypeOK, Begun, store, env
<1>4. CASE Forget(p)
  BY <1>0, <1>4 DEF Forget, TypeOK, CallsFilled, Begun, NoPreparation, store, sale, env
<1> QED
  BY <1>1, <1>2, <1>3, <1>4

LEMMA AroundKeepsTypes ==
  ASSUME Typed, Republish \/ Publication \/ EditCampaign
  PROVE  Typed'
<1> USE DEF Typed
<1>1. CASE Republish
  BY <1>1, LimitAssumption DEF Republish, TypeOK, Versions, CallsFilled, Begun, store, sale, calls
<1>2. CASE Publication
  BY <1>2 DEF Publication, TypeOK, CallsFilled, Begun, store, sale, calls
<1>3. CASE EditCampaign
  BY <1>3, LimitAssumption DEF EditCampaign, TypeOK, Stamps, CallsFilled, Begun, store, sale, calls
<1> QED
  BY <1>1, <1>2, <1>3

\* The actions, by who takes them.
Tab(t) == Ask(t) \/ Replayed(t) \/ Snapshot(t) \/ Store(t) \/ Confirm(t) \/ Recover(t) \/ Close(t)
Sale(k) == \/ \E to \in {"accepted", "rejected"} : Resolve(k, to)
           \/ DirectClaim(k) \/ DirectQuote(k) \/ DirectDraft(k) \/ DirectStops(k) \/ Moves(k)
Desk(p) == \/ \E k \in Keys, n \in Numbers, s \in 0..1 : PrepareAgain(p, k, n, s) \/ Preview(p, k, n, s)
           \/ Prepare(p) \/ Forget(p)
Around == Republish \/ Publication \/ EditCampaign

LEMMA NextByActor ==
  ASSUME [Next]_vars
  PROVE  \/ \E t \in Tabs : Tab(t)
         \/ \E k \in Keys : Sale(k)
         \/ \E p \in Admins : Desk(p)
         \/ Around
         \/ UNCHANGED vars
BY DEF Next, Tab, Sale, Desk, Around

-----------------------------------------------------------------------------
(* What a step does to the rows and the orders *)

\* A row, once made, keeps its owner and its cart; only its status moves.
Kept(r, s) == r # None => s # None /\ s.owner = r.owner /\ s.cart = r.cart

LEMMA RowsAreKept ==
  ASSUME Typed, [Next]_vars
  PROVE  \A k \in Keys : Kept(rows[k], rows'[k])
<1>0. rows \in [Keys -> Rows \cup {None}]
  BY DEF Typed, TypeOK
<1>1. ASSUME NEW t \in Tabs, Tab(t) PROVE \A k \in Keys : Kept(rows[k], rows'[k])
  <2>1. CASE Store(t)
    <3>1. tabs[t].key \in Keys
      BY <2>1 DEF Store, Typed, CallsFilled
    <3> QED
      BY <2>1, <1>0, <3>1 DEF Store, Kept, store
  <2> QED
    BY <1>1, <2>1 DEF Tab, Kept, Ask, Replayed, Snapshot, Confirm, Recover, Close, store
<1>2. ASSUME NEW k \in Keys, Sale(k) PROVE \A j \in Keys : Kept(rows[j], rows'[j])
  <2>1. ASSUME NEW to \in {"accepted", "rejected"}, Resolve(k, to) PROVE \A j \in Keys : Kept(rows[j], rows'[j])
    BY <2>1, <1>0, RowsAssumption DEF Resolve, Kept, Rows
  <2>2. CASE DirectDraft(k)
    <3>1. rows[k] \in Rows
      BY <2>2, <1>0 DEF DirectDraft, Typed, Begun
    <3> QED
      BY <2>2, <3>1, <1>0, RowsAssumption DEF DirectDraft, Kept, Rows
  <2> QED
    BY <1>2, <2>1, <2>2 DEF Sale, Kept, DirectClaim, DirectQuote, DirectStops, Moves, store
<1>3. ASSUME NEW p \in Admins, Desk(p) PROVE \A k \in Keys : Kept(rows[k], rows'[k])
  BY <1>3 DEF Desk, Kept, PrepareAgain, Preview, Prepare, Forget, store
<1>4. CASE Around
  BY <1>4 DEF Around, Kept, Republish, Publication, EditCampaign, store
<1>5. CASE UNCHANGED vars
  BY <1>5 DEF Kept, vars, store
<1> QED
  BY <1>1, <1>2, <1>3, <1>4, <1>5, NextByActor

LEMMA StaysTyped ==
  ASSUME Typed, [Next]_vars
  PROVE  Typed'
<1>1. ASSUME NEW t \in Tabs, Tab(t) PROVE Typed'
  BY <1>1, TabsKeepTypes DEF Tab
<1>2. ASSUME NEW k \in Keys, Sale(k) PROVE Typed'
  BY <1>2, SalesKeepTypes DEF Sale
<1>3. ASSUME NEW p \in Admins, Desk(p) PROVE Typed'
  BY <1>3, PreparationsKeepTypes DEF Desk
<1>4. CASE Around
  BY <1>4, AroundKeepsTypes DEF Around
<1>5. CASE UNCHANGED vars
  BY <1>5 DEF vars, store, sale, env, calls, Typed, TypeOK, CallsFilled, Begun
<1> QED
  BY <1>1, <1>2, <1>3, <1>4, <1>5, NextByActor

\* What PathsAgree and OnePath say of one key.
PathOf(k) ==
  /\ direct[k] \in {"idle", "claimed", "quoted"} => rows[k].status = "submitted"
  /\ direct[k] = "failed" => rows[k].status # "accepted"
  /\ direct[k] = "drafted" => orders[k] # None
  /\ orders[k] # None =>
       /\ rows[k] # None /\ rows[k].status = "accepted"
       /\ orders[k].by = "assisted" => direct[k] = "none" /\ ~rows[k].cart.coupon
       /\ orders[k].by = "automatic" => direct[k] = "drafted"

\* A preparation that is ready is of a request without a coupon.
ReadyFor(p) ==
  admins[p].pc = "ready" => rows[admins[p].key] # None /\ ~rows[admins[p].key].cart.coupon

LEMMA PathsStay ==
  ASSUME Typed, \A k \in Keys : PathOf(k), \A p \in Admins : ReadyFor(p), [Next]_vars
  PROVE  \A k \in Keys : PathOf(k)'
<1>0. /\ rows \in [Keys -> Rows \cup {None}] /\ orders \in [Keys -> Orders \cup {None}]
      /\ direct \in [Keys -> {"none", "idle", "claimed", "quoted", "failed", "drafted"}]
      /\ \A k \in Keys : direct[k] # "none" => rows[k] \in Rows
  BY DEF Typed, TypeOK, Begun
<1>1. ASSUME NEW t \in Tabs, Tab(t) PROVE \A k \in Keys : PathOf(k)'
  <2>1. CASE Store(t)
    <3>1. tabs[t].key \in Keys
      BY <2>1 DEF Store, Typed, CallsFilled
    <3>2. direct' = direct /\ orders' = orders
      BY <2>1 DEF Store, sale
    <3>3. \A k \in Keys : rows'[k] = rows[k] \/ rows[k] = None
      BY <2>1, <3>1, <1>0 DEF Store, store
    <3> QED
      BY <3>2, <3>3, <1>0, RowsAssumption DEF PathOf
  <2> QED
    BY <1>1, <2>1 DEF Tab, PathOf, Ask, Replayed, Snapshot, Confirm, Recover, Close, store, sale
<1>2. ASSUME NEW j \in Keys, Sale(j) PROVE \A k \in Keys : PathOf(k)'
  <2>1. ASSUME NEW to \in {"accepted", "rejected"}, Resolve(j, to) PROVE \A k \in Keys : PathOf(k)'
    <3>1. rows[j] \in Rows /\ orders[j] = None
      BY <2>1, <1>0 DEF Resolve, PathOf
    <3> QED
      BY <2>1, <3>1, <1>0, RowsAssumption DEF Resolve, MayResolve, PathOf, Rows
  <2>2. CASE DirectClaim(j)
    BY <2>2, <1>0 DEF DirectClaim, PathOf, store
  <2>3. CASE DirectQuote(j)
    BY <2>3, <1>0 DEF DirectQuote, PathOf, store
  <2>4. CASE DirectDraft(j)
    <3>1. rows[j] \in Rows /\ rows[j].status = "submitted"
      BY <2>4, <1>0 DEF DirectDraft, PathOf
    <3>2. \A k \in Keys \ {j} : PathOf(k)'
      BY <2>4, <1>0 DEF DirectDraft, PathOf
    <3>3. PathOf(j)'
      <4> DEFINE draft == [by |-> "automatic", number |-> None, shipping |-> 0,
                           version |-> 0, promo |-> offer[j], state |-> "confirmed"]
      <4>1. draft # None
        <5>1. draft \in Orders
          BY DEF Typed, TypeOK, Orders
        <5> QED
          BY <5>1, RowsAssumption
      <4>2. CASE orders'[j] = draft /\ direct'[j] = "drafted" /\ rows'[j] = [rows[j] EXCEPT !.status = "accepted"]
        <5>1. rows'[j] \in Rows /\ rows'[j].status = "accepted"
          BY <3>1, <4>2 DEF Rows
        <5> QED
          BY <4>1, <4>2, <5>1, RowsAssumption DEF PathOf
      <4>3. CASE UNCHANGED <<rows, orders>> /\ direct'[j] = "failed"
        BY <4>3, <3>1, <2>4 DEF PathOf, DirectDraft
      <4> QED
        BY <4>2, <4>3, <2>4, <1>0 DEF DirectDraft
    <3> QED
      BY <3>2, <3>3
  <2>5. CASE DirectStops(j)
    BY <2>5, <1>0 DEF DirectStops, PathOf, store
  <2>6. CASE Moves(j)
    BY <2>6, <1>0, RowsAssumption DEF Moves, PathOf, store, Orders
  <2> QED
    BY <1>2, <2>1, <2>2, <2>3, <2>4, <2>5, <2>6 DEF Sale
<1>3. ASSUME NEW p \in Admins, Desk(p) PROVE \A k \in Keys : PathOf(k)'
  <2>1. CASE Prepare(p)
    <3>1. admins[p].key \in Keys
      BY <2>1 DEF Prepare, Typed, CallsFilled
    <3>2. rows' = rows /\ direct' = direct
      BY <2>1 DEF Prepare, store
    <3>3. \A k \in Keys \ {admins[p].key} : orders'[k] = orders[k]
      BY <2>1, <3>1, <1>0 DEF Prepare
    <3>4. \/ orders'[admins[p].key] = orders[admins[p].key]
          \/ /\ OrderInsertable(admins[p].key)
             /\ orders'[admins[p].key].by = "assisted"
      BY <2>1, <3>1, <1>0 DEF Prepare
    <3>5. ~rows[admins[p].key].cart.coupon /\ rows[admins[p].key] # None
      BY <2>1 DEF Prepare, ReadyFor
    <3> QED
      BY <3>1, <3>2, <3>3, <3>4, <3>5, <1>0 DEF PathOf, OrderInsertable
  <2> QED
    BY <1>3, <2>1 DEF Desk, PathOf, PrepareAgain, Preview, Forget, store, sale
<1>4. CASE Around
  BY <1>4 DEF Around, PathOf, Republish, Publication, EditCampaign, store, sale
<1>5. CASE UNCHANGED vars
  BY <1>5 DEF PathOf, vars, store, sale
<1> QED
  BY <1>1, <1>2, <1>3, <1>4, <1>5, NextByActor

LEMMA ReadyStays ==
  ASSUME Typed, \A p \in Admins : ReadyFor(p), [Next]_vars
  PROVE  \A p \in Admins : ReadyFor(p)'
<1>0. \A k \in Keys : Kept(rows[k], rows'[k])
  BY RowsAreKept
<1>1. \A p \in Admins : admins[p].pc = "ready" => admins[p].key \in Keys
  BY DEF Typed, CallsFilled
<1>2. CASE admins' = admins
  BY <1>0, <1>1, <1>2 DEF ReadyFor, Kept
<1>3. ASSUME NEW p \in Admins, Desk(p) PROVE \A q \in Admins : ReadyFor(q)'
  <2>1. rows' = rows /\ admins \in [Admins -> [pc : {"idle", "ready", "told"}, key : Keys \cup {None},
                            number : Numbers \cup {None}, shipping : 0..1, version : Versions \cup {0}]]
    BY <1>3 DEF Desk, PrepareAgain, Preview, Prepare, Forget, store, Typed, TypeOK
  <2> QED
    BY <1>3, <2>1 DEF Desk, ReadyFor, PrepareAgain, Preview, Prepare, Forget, NoPreparation
<1> QED
  BY <1>2, <1>3, NextByActor
     DEF Tab, Sale, Around, Ask, Replayed, Snapshot, Store, Confirm, Recover, Close, Resolve, DirectClaim,
         DirectQuote, DirectDraft, DirectStops, Moves, Republish, Publication, EditCampaign, calls, vars

-----------------------------------------------------------------------------
(* Receipts *)

\* The row of a tab that is about to confirm is there.
ConfirmsRow == \A t \in Tabs : tabs[t].pc = "confirming" => rows[tabs[t].key] # None

LEMMA ReceiptsStay ==
  ASSUME Typed, ReceiptHonest, ConfirmsRow, [Next]_vars
  PROVE  ReceiptHonest' /\ ConfirmsRow'
<1> DEFINE Of(t) == /\ tabs[t].pc \in {"receipt", "recovered"} =>
                        rows[tabs[t].key] # None /\ rows[tabs[t].key].owner = tabs[t].owner
                    /\ tabs[t].pc = "receipt" => rows[tabs[t].key].cart = tabs[t].cart
                    /\ tabs[t].pc = "confirming" => rows[tabs[t].key] # None
<1>a. ReceiptHonest /\ ConfirmsRow <=> \A t \in Tabs : Of(t)
  BY DEF ReceiptHonest, ConfirmsRow
<1>b. (ReceiptHonest /\ ConfirmsRow)' <=> \A t \in Tabs : Of(t)'
  BY DEF ReceiptHonest, ConfirmsRow
<1> HIDE DEF Of
<1>0. \A k \in Keys : Kept(rows[k], rows'[k])
  BY RowsAreKept
<1>1. \A t \in Tabs : tabs[t].pc # "idle" => tabs[t].key \in Keys
  BY DEF Typed, CallsFilled
<1>2. ASSUME NEW t \in Tabs, tabs'[t] = tabs[t] PROVE Of(t)'
  <2>1. Of(t) /\ (tabs[t].pc # "idle" => Kept(rows[tabs[t].key], rows'[tabs[t].key]))
    BY <1>0, <1>1, <1>a
  <2> QED
    BY <1>2, <2>1 DEF Of, Kept
<1>3. ASSUME NEW t \in Tabs, Tab(t) PROVE \A u \in Tabs : Of(u)'
  <2>0. tabs \in [Tabs -> [pc : {"idle", "asked", "storing", "confirming", "receipt", "recovered", "conflict", "hidden"},
                           key : Keys \cup {None}, owner : Owners \cup {None}, cart : Carts \cup {None}]]
    BY DEF Typed, TypeOK
  <2>1. \A u \in Tabs \ {t} : tabs'[u] = tabs[u]
    BY <1>3, <2>0 DEF Tab, Ask, Replayed, Snapshot, Store, Confirm, Recover, Close, Goto
  <2>2. Of(t)'
    <3>1. CASE Replayed(t) \/ Confirm(t)
      <4>1. rows' = rows /\ tabs' = [tabs EXCEPT ![t] = [@ EXCEPT !.pc = Answer(t)]] /\ rows[tabs[t].key] # None
        BY <3>1, <1>a DEF Replayed, Confirm, Goto, store, Answer, Of
      <4>2. tabs'[t].pc = Answer(t) /\ tabs'[t].key = tabs[t].key /\ tabs'[t].owner = tabs[t].owner
            /\ tabs'[t].cart = tabs[t].cart
        BY <4>1, <2>0
      <4> QED
        BY <4>1, <4>2 DEF Of, Answer
    <3>2. CASE Store(t)
      <4>1. tabs[t].key \in Keys /\ tabs[t].owner \in Owners /\ tabs[t].cart \in Carts
        BY <3>2 DEF Store, Typed, CallsFilled
      <4>2. CASE tabs'[t] = NoCall
        BY <4>2 DEF Of, NoCall
      <4>3. CASE tabs'[t] = [tabs[t] EXCEPT !.pc = "confirming"] /\ rows'[tabs[t].key] # None
        BY <4>3, <2>0 DEF Of
      <4>4. \A k \in Keys : rows[k] = None =>
              [rows EXCEPT ![k] = [owner |-> tabs[t].owner, cart |-> tabs[t].cart, status |-> "submitted"]][k] # None
        BY <4>1, RowsAssumption DEF Rows, Typed, TypeOK
      <4> QED
        BY <3>2, <4>1, <4>2, <4>3, <4>4, <2>0 DEF Store, Goto, NoCall
    <3>3. CASE Recover(t)
      BY <3>3, <2>0 DEF Recover, Of, store
    <3>4. CASE Ask(t) \/ Snapshot(t) \/ Close(t)
      BY <3>4, <2>0 DEF Ask, Snapshot, Close, Goto, NoCall, Of
    <3> QED
      BY <3>1, <3>2, <3>3, <3>4, <1>3 DEF Tab
  <2> QED
    BY <2>1, <2>2, <1>2
<1>4. CASE tabs' = tabs
  BY <1>4, <1>2, <1>b
<1> QED
  BY <1>3, <1>4, <1>b, NextByActor
     DEF Desk, Sale, Around, Resolve, DirectClaim, DirectQuote, DirectDraft, DirectStops, Moves, PrepareAgain,
         Preview, Prepare, Forget, Republish, Publication, EditCampaign, sale, store, calls, vars

\* The limit moves with the rows.
LEMMA LimitStays ==
  ASSUME Typed, LimitCountsRows, [Next]_vars
  PROVE  LimitCountsRows'
<1> DEFINE Made == {k \in Keys : rows[k] # None}
<1>0. IsFiniteSet(Made) /\ Cardinality(Made) \in Nat
  BY EarlierAssumption, FS_Subset, FS_CardinalityType
<1>1. CASE made' = made /\ others' = others /\ \A k \in Keys : (rows'[k] # None) <=> (rows[k] # None)
  <2>1. Made' = Made
    BY <1>1
  <2> QED
    BY <1>1, <2>1 DEF LimitCountsRows
<1>2. ASSUME NEW t \in Tabs, Store(t) PROVE LimitCountsRows'
  <2> DEFINE k == tabs[t].key
             row == [owner |-> tabs[t].owner, cart |-> tabs[t].cart, status |-> "submitted"]
  <2>1. k \in Keys /\ row \in Rows /\ row # None
    BY <1>2, RowsAssumption DEF Store, Typed, CallsFilled, Rows
  <2>2. CASE rows[k] = None /\ rows' = [rows EXCEPT ![k] = row] /\ made' = made + 1 /\ others' = others
    <3>1. Made' = Made \cup {k} /\ k \notin Made
      BY <2>1, <2>2 DEF Typed, TypeOK
    <3>2. Cardinality(Made \cup {k}) = Cardinality(Made) + 1
      BY <1>0, <3>1, FS_AddElement
    <3>3. made \in Nat /\ others \in Nat /\ made = others + Cardinality(Made)
      BY LimitAssumption DEF LimitCountsRows, Typed, TypeOK
    <3>4. Cardinality(Made)' = Cardinality(Made) + 1
      BY <3>1, <3>2
    <3>5. made' = others' + Cardinality(Made)'
      BY <2>2, <3>3, <3>4, <1>0
    <3> QED
      BY <3>5 DEF LimitCountsRows
  <2> QED
    BY <1>1, <1>2, <2>1, <2>2 DEF Store, Counts, store
<1>3. CASE UNCHANGED <<rows, made, others>>
  BY <1>1, <1>3
<1>4. ASSUME NEW j \in Keys, Sale(j) PROVE LimitCountsRows'
  <2>1. made' = made /\ others' = others
    BY <1>4 DEF Sale, Resolve, DirectClaim, DirectQuote, DirectDraft, DirectStops, Moves, store
  <2>2. \A k \in Keys : rows[k] = None => rows'[k] = None
    <3>1. rows' = rows \/ (rows[j] # None /\ \A k \in Keys \ {j} : rows'[k] = rows[k])
      BY <1>4 DEF Sale, Resolve, DirectClaim, DirectQuote, DirectDraft, DirectStops, Moves, store, Typed, TypeOK, Begun
    <3> QED
      BY <3>1
  <2> QED
    BY <1>1, <2>1, <2>2, RowsAreKept DEF Kept
<1> QED
  BY <1>2, <1>3, <1>4, NextByActor
     DEF Tab, Ask, Replayed, Snapshot, Confirm, Recover, Close, Desk, PrepareAgain, Preview, Prepare, Forget,
         Around, Republish, Publication, EditCampaign, store, vars

-----------------------------------------------------------------------------
(* Evidence *)

\* An order, once made, keeps its number, its freight and its origin.
SameOrder(o, n) == o # None => n # None /\ n.number = o.number /\ n.shipping = o.shipping

LEMMA OrdersAreKept ==
  ASSUME Typed, \A k \in Keys : PathOf(k), [Next]_vars
  PROVE  \A k \in Keys : SameOrder(orders[k], orders'[k])
<1>0. orders \in [Keys -> Orders \cup {None}]
  BY DEF Typed, TypeOK
<1>1. ASSUME NEW j \in Keys, Sale(j) PROVE \A k \in Keys : SameOrder(orders[k], orders'[k])
  <2>1. CASE DirectDraft(j)
    <3>1. orders[j] = None
      BY <2>1 DEF DirectDraft, PathOf, Orders, Typed, TypeOK
    <3> QED
      BY <2>1, <3>1, <1>0 DEF DirectDraft, SameOrder
  <2>2. CASE Moves(j)
    BY <2>2, <1>0, RowsAssumption DEF Moves, SameOrder, Orders
  <2> QED
    BY <1>1, <2>1, <2>2 DEF Sale, SameOrder, Resolve, DirectClaim, DirectQuote, DirectStops
<1>2. ASSUME NEW p \in Admins, Desk(p) PROVE \A k \in Keys : SameOrder(orders[k], orders'[k])
  <2>1. CASE Prepare(p)
    BY <2>1, <1>0 DEF Prepare, SameOrder, OrderInsertable
  <2> QED
    BY <1>2, <2>1 DEF Desk, SameOrder, PrepareAgain, Preview, Forget, sale
<1>3. CASE UNCHANGED orders
  BY <1>3 DEF SameOrder
<1> QED
  BY <1>1, <1>2, <1>3, NextByActor
     DEF Tab, Ask, Replayed, Snapshot, Store, Confirm, Recover, Close, Around, Republish, Publication, EditCampaign,
         sale, vars

LEMMA EvidenceStays ==
  ASSUME Typed, \A k \in Keys : PathOf(k), EvidenceUnique, [Next]_vars
  PROVE  EvidenceUnique'
<1> DEFINE Distinct == \A j, k \in Keys :
             orders[j] # None /\ orders[k] # None /\ orders[j].number # None /\ j # k
               => orders[j].number # orders[k].number
           Told(p) == admins[p].pc = "told" =>
             /\ orders[admins[p].key] # None
             /\ orders[admins[p].key].number = admins[p].number
             /\ orders[admins[p].key].shipping = admins[p].shipping
<1>a. EvidenceUnique <=> Distinct /\ \A p \in Admins : Told(p)
  BY DEF EvidenceUnique
<1>b. EvidenceUnique' <=> Distinct' /\ \A p \in Admins : Told(p)'
  BY DEF EvidenceUnique
<1> HIDE DEF Told
<1>0. /\ orders \in [Keys -> Orders \cup {None}]
      /\ admins \in [Admins -> [pc : {"idle", "ready", "told"}, key : Keys \cup {None},
                                number : Numbers \cup {None}, shipping : 0..1, version : Versions \cup {0}]]
      /\ \A p \in Admins : admins[p].pc # "idle" => admins[p].key \in Keys /\ admins[p].number \in Numbers
  BY DEF Typed, TypeOK, CallsFilled
<1>1. \A k \in Keys : SameOrder(orders[k], orders'[k])
  BY OrdersAreKept
<1>2. ASSUME NEW p \in Admins, admins'[p] = admins[p] PROVE Told(p)'
  BY <1>0, <1>1, <1>2, <1>a DEF Told, SameOrder
<1>3. Distinct'
  <2>1. CASE \E j \in Keys, o \in Orders : orders' = [orders EXCEPT ![j] = o] /\ o # None
                /\ (o.number # None => NumberFree(o.number)) /\ orders[j] = None
    BY <2>1, <1>0, <1>a DEF NumberFree
  <2>2. CASE \A k \in Keys : /\ orders[k] = None => orders'[k] = None
    BY <2>2, <1>1, <1>0, <1>a DEF SameOrder
  <2>3. ASSUME NEW p \in Admins, Prepare(p) PROVE Distinct'
    <3> DEFINE o == [by |-> "assisted", number |-> admins[p].number, shipping |-> admins[p].shipping,
                     version |-> admins[p].version, promo |-> 0, state |-> "confirmed"]
    <3>1. /\ o \in Orders /\ o # None /\ admins[p].key \in Keys
      BY <2>3, <1>0, RowsAssumption, LimitAssumption DEF Prepare, Orders, Typed, TypeOK, CallsFilled, Stamps
    <3>2. CASE orders' = [orders EXCEPT ![admins[p].key] = o] /\ OrderInsertable(admins[p].key)
                 /\ NumberFree(admins[p].number)
      BY <2>1, <3>1, <3>2 DEF OrderInsertable
    <3>3. CASE orders' = orders
      BY <2>2, <3>3
    <3> QED
      BY <2>3, <3>2, <3>3 DEF Prepare
  <2>4. ASSUME NEW j \in Keys, DirectDraft(j) PROVE Distinct'
    <3> DEFINE o == [by |-> "automatic", number |-> None, shipping |-> 0,
                     version |-> 0, promo |-> offer[j], state |-> "confirmed"]
    <3>1. o \in Orders /\ o # None
      BY RowsAssumption DEF Orders, Typed, TypeOK
    <3>2. CASE orders' = [orders EXCEPT ![j] = o] /\ orders[j] = None
      BY <2>1, <3>1, <3>2
    <3>3. CASE orders' = orders
      BY <2>2, <3>3
    <3>4. orders[j] = None
      BY <2>4 DEF DirectDraft, PathOf, Orders, Typed, TypeOK
    <3> QED
      BY <2>4, <3>2, <3>3, <3>4 DEF DirectDraft
  <2>5. ASSUME NEW j \in Keys, Moves(j) PROVE Distinct'
    BY <2>5, <2>2, <1>0 DEF Moves
  <2> QED
    BY <2>2, <2>3, <2>4, <2>5, NextByActor
       DEF Tab, Ask, Replayed, Snapshot, Store, Confirm, Recover, Close, Around, Republish, Publication,
           EditCampaign, Sale, Resolve, DirectClaim, DirectQuote, DirectStops, Desk, PrepareAgain, Preview, Forget,
           sale, vars
<1>4. \A p \in Admins : Told(p)'
  <2>1. ASSUME NEW p \in Admins, Desk(p), NEW q \in Admins PROVE Told(q)'
    <3>1. CASE q # p
      BY <3>1, <2>1, <1>0, <1>2 DEF Desk, PrepareAgain, Preview, Prepare, Forget
    <3>2. CASE q = p
      <4>1. CASE Prepare(p)
        <5> DEFINE o == [by |-> "assisted", number |-> admins[p].number, shipping |-> admins[p].shipping,
                         version |-> admins[p].version, promo |-> 0, state |-> "confirmed"]
        <5>1. /\ o \in Orders /\ o # None /\ admins[p].key \in Keys
          BY <4>1, <1>0, RowsAssumption, LimitAssumption DEF Prepare, Orders, Typed, TypeOK, CallsFilled, Stamps
        <5>2. CASE orders' = [orders EXCEPT ![admins[p].key] = o] /\ admins' = [admins EXCEPT ![p].pc = "told"]
          BY <5>1, <5>2, <1>0, <3>2 DEF Told
        <5>3. CASE /\ orders' = orders
                   /\ admins' = [admins EXCEPT ![p] =
                        IF orders[@.key] # None /\ Replay(orders[@.key], @.number, @.shipping)
                        THEN [@ EXCEPT !.pc = "told"] ELSE NoPreparation]
          BY <5>1, <5>3, <1>0, <3>2 DEF Told, Replay, NoPreparation
        <5> QED
          BY <4>1, <5>2, <5>3 DEF Prepare
      <4>2. ASSUME NEW k \in Keys, NEW n \in Numbers, NEW s \in 0..1, PrepareAgain(p, k, n, s) PROVE Told(p)'
        BY <4>2, <1>0 DEF PrepareAgain, Told, Replay, sale
      <4>3. ASSUME NEW k \in Keys, NEW n \in Numbers, NEW s \in 0..1, Preview(p, k, n, s) PROVE Told(p)'
        BY <4>3, <1>0 DEF Preview, Told
      <4>4. ASSUME Forget(p) PROVE Told(p)'
        <5>1. admins'[p].pc # "told"
          BY <4>4, <1>0 DEF Forget, NoPreparation
        <5> QED
          BY <5>1 DEF Told
      <4> QED
        BY <2>1, <3>2, <4>1, <4>2, <4>3, <4>4 DEF Desk
    <3> QED
      BY <3>1, <3>2
  <2>2. CASE admins' = admins
    BY <2>2, <1>2
  <2> QED
    BY <2>1, <2>2, NextByActor
       DEF Tab, Ask, Replayed, Snapshot, Store, Confirm, Recover, Close, Around, Republish, Publication,
           EditCampaign, Sale, Resolve, DirectClaim, DirectQuote, DirectDraft, DirectStops, Moves, calls, vars
<1> QED
  BY <1>3, <1>4, <1>b

-----------------------------------------------------------------------------
(* The theorems *)

IInv ==
  /\ Typed
  /\ ConfirmsRow /\ ReceiptHonest /\ LimitCountsRows
  /\ (\A k \in Keys : PathOf(k)) /\ (\A p \in Admins : ReadyFor(p))
  /\ EvidenceUnique

LEMMA InitIInv == ASSUME Init PROVE IInv
<1>1. Typed
  BY InitTyped
<1>2. ConfirmsRow /\ ReceiptHonest /\ (\A p \in Admins : ReadyFor(p))
  BY DEF Init, ConfirmsRow, ReceiptHonest, ReadyFor, NoCall, NoPreparation
<1>3. (\A k \in Keys : PathOf(k)) /\ EvidenceUnique
  BY DEF Init, PathOf, EvidenceUnique, NoPreparation
<1>4. LimitCountsRows
  <2>1. {k \in Keys : rows[k] # None} = Earlier
    BY EarlierAssumption DEF Init
  <2> QED
    BY <2>1 DEF Init, LimitCountsRows
<1> QED
  BY <1>1, <1>2, <1>3, <1>4 DEF IInv

LEMMA StepIInv == ASSUME IInv, [Next]_vars PROVE IInv'
BY StaysTyped, ReceiptsStay, LimitStays, PathsStay, ReadyStays, EvidenceStays DEF IInv

\* The invariant the theorems below rest on.
THEOREM Invariance == Spec => []IInv
<1>1. Init => IInv
  BY InitIInv
<1>2. IInv /\ [Next]_vars => IInv'
  BY StepIInv
<1> QED
  BY <1>1, <1>2, PTL DEF Spec

\* Every variable keeps its type.
THEOREM TypeCorrect == Spec => []TypeOK
<1>1. IInv => TypeOK
  BY DEF IInv, Typed
<1> QED
  BY <1>1, Invariance, PTL

\* A receipt is of the buyer's own request and cart, and the day's limit counts
\* the requests that were made (createWebOrderRequest).
THEOREM ReceiptsHonest == Spec => []ReceiptsAreHonest
<1>1. IInv => ReceiptsAreHonest
  BY DEF IInv, ReceiptsAreHonest
<1> QED
  BY <1>1, Invariance, PTL

\* An order has one origin, and a Dux order pays for one request
\* (resolveWebOrderRequest, prepareAssistedCheckout, createDraft).
THEOREM SoldOnce == Spec => []OneSale
<1>1. IInv => OneSale
  BY DEF IInv, OneSale, OnePath, PathOf
<1> QED
  BY <1>1, Invariance, PTL

LEMMA TermsOfStep ==
  ASSUME Typed, \A k \in Keys : PathOf(k), [Next]_vars,
         NEW k \in Keys, orders[k] = None, orders'[k] # None
  PROVE  /\ orders'[k].by = "assisted" => orders'[k].version = catalog.version
         /\ orders'[k].promo # 0 =>
              /\ campaign.on /\ orders'[k].promo = campaign.stamp
              /\ Cardinality(Redeemed') <= Slots
<1>0. orders \in [Keys -> Orders \cup {None}]
  BY DEF Typed, TypeOK
<1>1. ASSUME NEW p \in Admins, Prepare(p)
      PROVE  orders'[k].by = "assisted" /\ orders'[k].version = catalog.version /\ orders'[k].promo = 0
  <2>1. admins[p].key \in Keys
    BY <1>1 DEF Prepare, Typed, CallsFilled
  <2> QED
    BY <1>1, <2>1, <1>0 DEF Prepare, ItemsCurrent
<1>2. ASSUME NEW j \in Keys, DirectDraft(j)
      PROVE  /\ orders'[k].by = "automatic"
             /\ orders'[k].promo # 0 => /\ campaign.on /\ orders'[k].promo = campaign.stamp
                                       /\ Cardinality(Redeemed') <= Slots
  <2>1. j = k /\ orders'[k].by = "automatic" /\ orders'[k].promo = offer[k]
        /\ \A i \in Keys \ {k} : orders'[i] = orders[i]
    BY <1>2, <1>0 DEF DirectDraft
  <2>2. CASE offer[k] # 0
    <3>1. RedemptionAllowed(k)
      BY <1>2, <2>1, <2>2, <1>0 DEF DirectDraft
    <3>2. Redeemed' = Redeemed \cup {k} /\ k \notin Redeemed
      BY <2>1, <2>2 DEF Redeemed
    <3>3. IsFiniteSet(Redeemed)
      BY EarlierAssumption, FS_Subset DEF Redeemed
    <3>4. Cardinality(Redeemed') = Cardinality(Redeemed) + 1
      BY <3>2, <3>3, FS_AddElement
    <3>5. Cardinality(Redeemed) < Slots /\ Cardinality(Redeemed) \in Nat
      BY <3>1, <3>3, FS_CardinalityType DEF RedemptionAllowed, Active
    <3> QED
      BY <2>1, <3>1, <3>4, <3>5, LimitAssumption DEF RedemptionAllowed, Active
  <2> QED
    BY <2>1, <2>2
<1>3. CASE \A i \in Keys : orders[i] = None => orders'[i] = None
  BY <1>3
<1>4. ASSUME NEW j \in Keys, Moves(j) PROVE FALSE
  BY <1>4, <1>0 DEF Moves
<1> QED
  BY <1>1, <1>2, <1>3, <1>4, NextByActor
     DEF Tab, Ask, Replayed, Snapshot, Store, Confirm, Recover, Close, Around, Republish, Publication,
         EditCampaign, Sale, Resolve, DirectClaim, DirectQuote, DirectStops, Desk, PrepareAgain, Preview, Forget,
         sale, vars

\* A redemption is of the campaign as it stands and never beyond its slots; an
\* assisted order is charged at the catalogue in force
\* (marketing_redemption_insert_guard, assisted_order_items_require_dux_catalog_snapshot).
THEOREM TermsAreInForce == Spec => TermsInForce
<1>1. IInv /\ [Next]_vars =>
        [\A k \in Keys : orders[k] = None /\ orders'[k] # None =>
           /\ orders'[k].by = "assisted" => orders'[k].version = catalog.version
           /\ orders'[k].promo # 0 =>
                /\ campaign.on /\ orders'[k].promo = campaign.stamp
                /\ Cardinality(Redeemed') <= Slots]_vars
  BY TermsOfStep DEF IInv
<1> QED
  BY <1>1, Invariance, PTL DEF Spec, TermsInForce
=============================================================================
