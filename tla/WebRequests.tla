---------------------------- MODULE WebRequests ----------------------------
(***************************************************************************)
(* The life of web order requests up to their order: browsers submit them  *)
(* (web-order-requests.ts behind functions/api/orders/request.ts), the     *)
(* administrator accepts or rejects them, and an order comes out of one of *)
(* two paths that must exclude each other: the direct checkout (here only  *)
(* its claims, its offer and its draft; DirectCheckout has the rest) and   *)
(* the assisted checkout, where the administrator types the number of an   *)
(* order made by hand in Dux (assisted-checkout.ts).  Around them move the *)
(* catalogue, the publication of its products and a marketing campaign     *)
(* with a limited number of redemptions (marketing.ts).                    *)
(*                                                                         *)
(* Every await is a step, every D1 statement or batch is one action, and   *)
(* its guard is what the triggers of migrations 0020 to 0022, 0028 and     *)
(* 0029 let through.  A catalogue version stands for its prices.           *)
(***************************************************************************)
EXTENDS Naturals, FiniteSets, TLC

CONSTANTS
  Tabs, Keys,     \* browser tabs, and the idempotency keys they hold
  Earlier,        \* keys whose request was submitted before
  Owners,         \* owner secrets
  Admins,         \* calls of prepareAssistedCheckout under way at once
  Numbers,        \* Dux order numbers an administrator can type
  None,
  Limit,          \* requests a day (commerce_request_rate_limits)
  Slots,          \* max_redemptions of the campaign
  MaxVersion, MaxEdits, MaxFaults  \* bounds

ASSUME EarlierAssumption == Earlier \subseteq Keys /\ IsFiniteSet(Keys)
ASSUME LimitAssumption ==
  /\ Limit \in Nat /\ Cardinality(Earlier) <= Limit /\ Slots \in Nat
  /\ MaxVersion \in Nat \ {0} /\ MaxEdits \in Nat /\ MaxFaults \in Nat
ASSUME NoneAssumption == None \notin Keys \cup Owners \cup Numbers

VARIABLES
  catalog,   \* dux_catalog_snapshots_v2: its version, and whether the products
             \* of the carts are published (dux_product_web_settings)
  rows,      \* checkout_intents of kind web_request, by key
  made,      \* request_count of the creation limit
  others,    \* how much of it other visitors had used before
  direct,    \* the direct checkout of each request
  offer,     \* the campaign its marketing quote holds, by stamp (0 is none)
  orders,    \* orders, links, operations and redemptions of each request
  campaign,  \* marketing_campaigns: one campaign, stamped by updated_at
  tabs,      \* the call each tab has under way
  admins,    \* the preparation each administrator has under way
  faults

store == <<rows, made, others>>
sale  == <<direct, offer, orders>>
env   == <<catalog, campaign>>
calls == <<tabs, admins>>
vars  == <<store, sale, env, calls, faults>>

-----------------------------------------------------------------------------
(* Types *)

Versions == 1..MaxVersion
Stamps   == 0..MaxEdits + 1

\* A cart is what the fingerprint covers: the offer code, the delivery and the
\* catalogue version of every line.
Carts == [coupon : BOOLEAN, pickup : BOOLEAN, version : Versions]

\* parseWebRequestInput: a coupon is for pickup only.
Admissible(c) == c.coupon => c.pickup

Rows   == [owner : Owners, cart : Carts,
           status : {"submitted", "accepted", "rejected"}]
Orders == [by : {"assisted", "automatic"}, number : Numbers \cup {None},
           shipping : 0..1, version : Versions \cup {0}, promo : Stamps,
           state : {"confirmed", "moved"}]

\* None stands for a row that is not there.
ASSUME RowsAssumption == None \notin Rows \cup Orders

NoCall == [pc |-> "idle", key |-> None, owner |-> None, cart |-> None]
NoPreparation == [pc |-> "idle", key |-> None, number |-> None, shipping |-> 0,
                  version |-> 0]

TypeOK ==
  /\ catalog \in [version : Versions, published : BOOLEAN]
  /\ rows \in [Keys -> Rows \cup {None}]
  /\ made \in 0..Limit /\ others \in 0..Limit
  /\ direct \in [Keys -> {"none", "idle", "claimed", "quoted", "failed", "drafted"}]
  /\ offer \in [Keys -> Stamps]
  /\ orders \in [Keys -> Orders \cup {None}]
  /\ campaign \in [stamp : Stamps, on : BOOLEAN]
  /\ tabs \in [Tabs -> [pc : {"idle", "asked", "storing", "confirming",
                              "receipt", "recovered", "conflict", "hidden"},
                        key : Keys \cup {None}, owner : Owners \cup {None},
                        cart : Carts \cup {None}]]
  /\ admins \in [Admins -> [pc : {"idle", "ready", "told"}, key : Keys \cup {None},
                            number : Numbers \cup {None}, shipping : 0..1,
                            version : Versions \cup {0}]]
  /\ faults \in 0..MaxFaults

Init ==
  /\ catalog = [version |-> 1, published |-> TRUE]
  /\ rows \in [Keys -> {None} \cup
                {r \in Rows : r.status = "submitted" /\ Admissible(r.cart)
                              /\ r.cart.version = 1}]
  /\ \A k \in Keys : k \in Earlier <=> rows[k] # None
  /\ others \in {0, Limit - Cardinality(Earlier)}
  /\ made = others + Cardinality(Earlier)
  /\ direct = [k \in Keys |-> "none"] /\ offer = [k \in Keys |-> 0]
  /\ orders = [k \in Keys |-> None]
  /\ campaign = [stamp |-> 1, on |-> TRUE]
  /\ tabs = [t \in Tabs |-> NoCall]
  /\ admins = [p \in Admins |-> NoPreparation]
  /\ faults = 0

-----------------------------------------------------------------------------
(* Submission: createWebOrderRequest and recoverWebOrderRequest *)

Goto(t, l) ==
  tabs' = [tabs EXCEPT ![t] = IF l = "idle" THEN NoCall ELSE [@ EXCEPT !.pc = l]]

\* Mutant: whoever finds a row under the key takes it for its own.
AnswerAnyRow(t) == "receipt"

\* What a stored row answers to a tab: assertOwner, then the fingerprint.
Answer(t) ==
  LET r == rows[tabs[t].key]
  IN IF r.owner # tabs[t].owner THEN "hidden"
     ELSE IF r.cart # tabs[t].cart THEN "conflict" ELSE "receipt"

\* A tab submits its cart, priced by the catalogue it sees now, for the first
\* time or again after a failure; a retry may carry another cart.
Ask(t) ==
  /\ tabs[t].pc = "idle"
  /\ \E k \in Keys \ Earlier, w \in Owners, c \in Carts :
       /\ Admissible(c) /\ c.version = catalog.version
       /\ tabs' = [tabs EXCEPT ![t] = [pc |-> "asked", key |-> k, owner |-> w,
                                       cart |-> c]]
  /\ UNCHANGED <<store, sale, env, admins, faults>>

\* The first replay finds the row.
Replayed(t) ==
  /\ tabs[t].pc = "asked" /\ rows[tabs[t].key] # None
  /\ Goto(t, Answer(t))
  /\ UNCHANGED <<store, sale, env, admins, faults>>

\* buildWebRequestSnapshot and assertDuxProductsPublished.
Snapshot(t) ==
  /\ tabs[t].pc = "asked" /\ rows[tabs[t].key] = None
  /\ Goto(t, IF catalog.published /\ tabs[t].cart.version = catalog.version
             THEN "storing" ELSE "idle")
  /\ UNCHANGED <<store, sale, env, admins, faults>>

\* The counters only move for the call whose request id was inserted.
Counts(k) == rows[k] = None

\* CONSTRAINT commerce_request_limit.
WithinLimit(k) == Counts(k) => made < Limit

\* dux_web_publication_request_guard: no row is made for a product that was
\* taken off the shop since the snapshot.
InsertPublished(k) == rows[k] = None => catalog.published

\* The batch: INSERT ... ON CONFLICT DO NOTHING and the counters, whose CHECK
\* aborts all of it.  Its answer may be lost.
Store(t) ==
  LET k == tabs[t].key IN
  /\ tabs[t].pc = "storing"
  /\ \/ /\ WithinLimit(k) /\ InsertPublished(k)
        /\ rows' = IF rows[k] # None THEN rows
                   ELSE [rows EXCEPT ![k] = [owner |-> tabs[t].owner,
                           cart |-> tabs[t].cart, status |-> "submitted"]]
        /\ made' = IF Counts(k) THEN made + 1 ELSE made
        /\ \/ Goto(t, "confirming") /\ UNCHANGED faults
           \/ /\ faults < MaxFaults /\ faults' = faults + 1
              /\ Goto(t, "idle")
        /\ UNCHANGED others
     \/ /\ ~(WithinLimit(k) /\ InsertPublished(k))
        /\ Goto(t, "idle")
        /\ UNCHANGED <<store, faults>>
  /\ UNCHANGED <<sale, env, admins>>

\* The row that is there, whoever stored it, decides the answer.
Confirm(t) ==
  /\ tabs[t].pc = "confirming"
  /\ Goto(t, Answer(t))
  /\ UNCHANGED <<store, sale, env, admins, faults>>

\* mode 'recover' has no cart: the key and the owner secret are enough.
Recover(t) ==
  /\ tabs[t].pc = "idle"
  /\ \E k \in Keys \ Earlier, w \in Owners :
       /\ rows[k] # None
       /\ tabs' = [tabs EXCEPT ![t] =
            [pc |-> IF rows[k].owner = w THEN "recovered" ELSE "hidden",
             key |-> k, owner |-> w, cart |-> None]]
  /\ UNCHANGED <<store, sale, env, admins, faults>>

\* The tab has its answer and is done with the request.
Close(t) ==
  /\ tabs[t].pc \in {"receipt", "recovered", "conflict", "hidden"}
  /\ Goto(t, "idle")
  /\ UNCHANGED <<store, sale, env, admins, faults>>

-----------------------------------------------------------------------------
(* The administrator's decision *)

\* Mutant: an accepted request may have a direct checkout under way.
MayResolveBusy(k, to) == orders[k] = None

\* The WHERE clause of resolveWebOrderRequest.
MayResolve(k, to) ==
  \/ direct[k] = "none"
  \/ to = "rejected" /\ direct[k] \in {"idle", "failed"} /\ orders[k] = None

Resolve(k, to) ==
  /\ rows[k] # None /\ rows[k].status = "submitted"
  /\ MayResolve(k, to)
  /\ rows' = [rows EXCEPT ![k].status = to]
  /\ direct' = [direct EXCEPT ![k] = IF @ = "none" THEN "none" ELSE "failed"]
  /\ UNCHANGED <<made, others, offer, orders, env, calls, faults>>

-----------------------------------------------------------------------------
(* The direct checkout, as far as its order *)

\* advanceDirectCheckout's claim; a delivery by post keeps the assisted path.
DirectClaim(k) ==
  /\ rows[k] # None /\ rows[k].status # "rejected" /\ rows[k].cart.pickup
  /\ \/ direct[k] = "idle"
     \/ direct[k] = "none" /\ rows[k].status = "submitted"
  /\ direct' = [direct EXCEPT ![k] = "claimed"]
  /\ UNCHANGED <<store, offer, orders, env, calls, faults>>

Redeemed == {k \in Keys : orders[k] # None /\ orders[k].promo # 0}

\* active: enabled, within its dates, and redemptions left.
Active == campaign.on /\ Cardinality(Redeemed) < Slots

\* readMarketingQuote: the campaign as it stands, when it applies to the cart;
\* without it the full price, or the refusal of the code.  The price itself is
\* read from Dux (DirectCheckout), not from the catalogue.
DirectQuote(k) ==
  /\ direct[k] = "claimed"
  /\ \/ /\ Active
        /\ direct' = [direct EXCEPT ![k] = "quoted"]
        /\ offer' = [offer EXCEPT ![k] = campaign.stamp]
     \/ /\ ~rows[k].cart.coupon
        /\ direct' = [direct EXCEPT ![k] = "quoted"]
        /\ offer' = [offer EXCEPT ![k] = 0]
     \/ /\ rows[k].cart.coupon
        /\ direct' = [direct EXCEPT ![k] = "failed"]
        /\ UNCHANGED offer
  /\ UNCHANGED <<store, orders, env, calls, faults>>

\* Mutant: the quote is trusted; nobody counts at the insertion.
RedemptionUncounted(k) == campaign.stamp = offer[k]

\* marketing_redemption_insert_guard: the campaign is still the one quoted,
\* still active, and has a redemption left.
RedemptionAllowed(k) == campaign.stamp = offer[k] /\ Active

\* createDraft: acceptance, order, link, operation and redemption together.
DirectDraft(k) ==
  /\ direct[k] = "quoted"
  /\ \/ /\ offer[k] # 0 => RedemptionAllowed(k)
        /\ catalog.published
        /\ rows[k].status = "submitted"
        /\ rows' = [rows EXCEPT ![k].status = "accepted"]
        /\ orders' = [orders EXCEPT ![k] =
             [by |-> "automatic", number |-> None, shipping |-> 0,
              version |-> 0, promo |-> offer[k],
              state |-> "confirmed"]]
        /\ direct' = [direct EXCEPT ![k] = "drafted"]
     \/ /\ \/ offer[k] # 0 /\ ~RedemptionAllowed(k)
           \/ ~catalog.published
        /\ direct' = [direct EXCEPT ![k] = "failed"]
        /\ UNCHANGED <<rows, orders>>
  /\ offer' = [offer EXCEPT ![k] = 0]
  /\ UNCHANGED <<made, others, env, calls, faults>>

\* A failed call, a death or a lease that ran out: the row can be claimed
\* again, and what the worker still sends is fenced off.
DirectStops(k) ==
  /\ direct[k] \in {"claimed", "quoted"} /\ faults < MaxFaults
  /\ direct' = [direct EXCEPT ![k] = "idle"]
  /\ offer' = [offer EXCEPT ![k] = 0]
  /\ faults' = faults + 1
  /\ UNCHANGED <<store, orders, env, calls>>

-----------------------------------------------------------------------------
(* The assisted checkout *)

\* validateReplay: the order is the one this administrator asks for.
Replay(o, number, shipping) ==
  /\ o.by = "assisted" /\ o.state = "confirmed"
  /\ o.number = number /\ o.shipping = shipping

\* readPrepared finds an order of the request already.
PrepareAgain(p, k, number, shipping) ==
  /\ admins[p].pc = "idle" /\ orders[k] # None
  /\ Replay(orders[k], number, shipping)
  /\ admins' = [admins EXCEPT ![p] = [pc |-> "told", key |-> k, number |-> number,
                                      shipping |-> shipping, version |-> 0]]
  /\ UNCHANGED <<store, sale, env, tabs, faults>>

\* validateShipping: what is picked up has no freight, what is sent has one.
ShippingFits(c, shipping) == c.pickup <=> shipping = 0

\* readAcceptedRequest and previewAssistedCheckout: a request that may be
\* prepared, priced by the catalogue as it is now.  A snapshot older than
\* DUX_SNAPSHOT_MAX_AGE_SECONDS, like every refusal, leaves nothing behind.
Preview(p, k, number, shipping) ==
  /\ admins[p].pc = "idle" /\ orders[k] = None
  /\ rows[k] # None /\ rows[k].status = "accepted"
  /\ ~rows[k].cart.coupon
  /\ ShippingFits(rows[k].cart, shipping)
  /\ catalog.published
  /\ admins' = [admins EXCEPT ![p] = [pc |-> "ready", key |-> k, number |-> number,
                                      shipping |-> shipping,
                                      version |-> catalog.version]]
  /\ UNCHANGED <<store, sale, env, tabs, faults>>

\* web_request_checkout_order_insert_guard and idx_orders_web_request_id.
OrderInsertable(k) == rows[k].status = "accepted" /\ orders[k] = None

\* assisted_order_items_require_dux_catalog_snapshot.
ItemsCurrent(version) == version = catalog.version

\* idx_dux_assisted_order_number_unique and the guard of the link.
NumberFree(number) ==
  \A k \in Keys : orders[k] # None => orders[k].number # number

\* The batch and what follows it: the order as stored when it succeeded, the
\* order another call stored when it did not, or an error.  The answer of the
\* batch may be lost, which the second reading makes good.
Prepare(p) ==
  LET a == admins[p]
      made_ == [by |-> "assisted", number |-> a.number, shipping |-> a.shipping,
                version |-> a.version, promo |-> 0, state |-> "confirmed"]
      ok == /\ OrderInsertable(a.key) /\ ItemsCurrent(a.version)
            /\ NumberFree(a.number) /\ catalog.published
  IN
  /\ a.pc = "ready"
  /\ \/ /\ ok
        /\ orders' = [orders EXCEPT ![a.key] = made_]
        /\ admins' = [admins EXCEPT ![p].pc = "told"]
     \/ /\ ~ok
        /\ admins' = [admins EXCEPT ![p] =
             IF orders[a.key] # None /\ Replay(orders[a.key], a.number, a.shipping)
             THEN [@ EXCEPT !.pc = "told"] ELSE NoPreparation]
        /\ UNCHANGED orders
  /\ UNCHANGED <<store, direct, offer, env, tabs, faults>>

\* The administrator read the answer and closes the panel.
Forget(p) ==
  /\ admins[p].pc = "told"
  /\ admins' = [admins EXCEPT ![p] = NoPreparation]
  /\ UNCHANGED <<store, sale, env, tabs, faults>>

\* A payment, a release or a finalisation (OrderPayment), as the replay of a
\* preparation sees it.
Moves(k) ==
  /\ orders[k] # None /\ orders[k].by = "assisted"
  /\ orders[k].state = "confirmed"
  /\ orders' = [orders EXCEPT ![k].state = "moved"]
  /\ UNCHANGED <<store, direct, offer, env, calls, faults>>

-----------------------------------------------------------------------------
(* Around them *)

\* A synchronisation publishes a catalogue with other prices.
Republish ==
  /\ catalog.version < MaxVersion
  /\ catalog' = [catalog EXCEPT !.version = @ + 1]
  /\ UNCHANGED <<store, sale, campaign, calls, faults>>

\* writeDuxProductWebSettings takes a product off the shop or puts it back.
Publication ==
  /\ catalog' = [catalog EXCEPT !.published = ~@]
  /\ UNCHANGED <<store, sale, campaign, calls, faults>>

\* writeMarketingCampaign: the whole row, with a new updated_at.
EditCampaign ==
  /\ campaign.stamp <= MaxEdits
  /\ \E on \in BOOLEAN : campaign' = [stamp |-> campaign.stamp + 1, on |-> on]
  /\ UNCHANGED <<store, sale, catalog, calls, faults>>

Next ==
  \/ \E t \in Tabs : \/ Ask(t) \/ Replayed(t) \/ Snapshot(t) \/ Store(t)
                     \/ Confirm(t) \/ Recover(t) \/ Close(t)
  \/ \E k \in Keys, to \in {"accepted", "rejected"} : Resolve(k, to)
  \/ \E k \in Keys : \/ DirectClaim(k) \/ DirectQuote(k) \/ DirectDraft(k)
                     \/ DirectStops(k) \/ Moves(k)
  \/ \E p \in Admins, k \in Keys, n \in Numbers, s \in 0..1 :
       PrepareAgain(p, k, n, s) \/ Preview(p, k, n, s)
  \/ \E p \in Admins : Prepare(p) \/ Forget(p)
  \/ Republish \/ Publication \/ EditCampaign

Spec == Init /\ [][Next]_vars

-----------------------------------------------------------------------------
(* Properties *)

\* createWebOrderRequest: whoever holds a receipt holds one for a request of
\* its own, and if it submitted a cart, for that very cart.
ReceiptHonest ==
  \A t \in Tabs :
    LET r == rows[tabs[t].key] IN
    /\ tabs[t].pc \in {"receipt", "recovered"} => r # None /\ r.owner = tabs[t].owner
    /\ tabs[t].pc = "receipt" => r.cart = tabs[t].cart

\* The limit of new requests counts the rows made, not the calls: a retry or
\* the loser of a race does not use up the day.
LimitCountsRows == made = others + Cardinality({k \in Keys : rows[k] # None})

\* An order has one origin.  An assisted one belongs to a request the
\* administrator accepted before any direct checkout began, without a coupon;
\* a rejected request has none.
OnePath ==
  \A k \in Keys : orders[k] # None =>
    /\ rows[k].status = "accepted"
    /\ orders[k].by = "assisted" => direct[k] = "none" /\ ~rows[k].cart.coupon
    /\ orders[k].by = "automatic" => direct[k] = "drafted"

\* prepareAssistedCheckout: a Dux order pays for one request only, and what
\* the administrator was told is what is stored.
EvidenceUnique ==
  /\ \A j, k \in Keys :
       orders[j] # None /\ orders[k] # None /\ orders[j].number # None /\ j # k
         => orders[j].number # orders[k].number
  /\ \A p \in Admins : admins[p].pc = "told" =>
       LET o == orders[admins[p].key]
       IN o # None /\ o.number = admins[p].number /\ o.shipping = admins[p].shipping

\* A receipt is of the buyer's own request, and only requests that were made count
\* towards the limit of the day.
ReceiptsAreHonest == ReceiptHonest /\ LimitCountsRows

\* A request is sold once: by one path, with a Dux order no other request has.
OneSale == OnePath /\ EvidenceUnique

\* A limited campaign is redeemed only while it has redemptions left and only
\* at the terms it has at that moment; an assisted order charges the prices of
\* the catalogue in force when it is stored, not those of its preview.
TermsInForce ==
  [][\A k \in Keys : orders[k] = None /\ orders'[k] # None =>
       /\ orders'[k].by = "assisted" => orders'[k].version = catalog.version
       /\ orders'[k].promo # 0 =>
            /\ campaign.on /\ orders'[k].promo = campaign.stamp
            /\ Cardinality(Redeemed') <= Slots]_vars

\* assisted-checkout.ts tells the administrator that an accepted request with
\* a coupon goes on by its direct checkout.
CouponGoesOn ==
  \A k \in Keys :
    rows[k] # None /\ rows[k].status = "accepted" /\ rows[k].cart.coupon
      => direct[k] # "none"

-----------------------------------------------------------------------------
(* The instances TLC checks *)

\* A submission reads and writes its row, the counter and the catalogue only:
\* its interleavings are explored while no sale is under way.
SubmitFirst ==
  (\E t \in Tabs : tabs[t] # NoCall) =>
    /\ \A p \in Admins : admins[p] = NoPreparation
    /\ \A k \in Keys : orders[k] = None /\ direct[k] = "none"
    /\ campaign.stamp = 1

\* Tabs, buyers, administrators and the numbers they type are interchangeable.
Symmetry ==
  Permutations(Admins) \cup Permutations(Numbers) \cup Permutations(Tabs) \cup Permutations(Owners)
=============================================================================
