--------------------------- MODULE StorefrontProofs ---------------------------
(***************************************************************************)
(* What the three parts of a customer's browser promise for any number of  *)
(* tabs and any bounds.                                                    *)
(*                                                                         *)
(* AnalyticsConsent: a visit whose deletion was confirmed is not stored    *)
(* again while its revocation is kept, and one purge a month is carried    *)
(* out.  A revocation is only younger than what it revokes (Forgotten);    *)
(* the month of a purge stays claimed by that purge alone (Claimed).       *)
(*                                                                         *)
(* CartTabs: no line disappears that nobody removed, because no tab takes  *)
(* up a cart by a catalogue that lacks the line (KeepsLine); tabs edited   *)
(* in turn agree, because one of them at most has a cart that is not       *)
(* stored yet and the stored one is on its way to the others (Follows).    *)
(*                                                                         *)
(* BuyerPanel: one request at most is under way, because an identity is    *)
(* given up only for an answer that says its request is closed             *)
(* (Identities, Past); what a panel shows goes forward and never ends in   *)
(* nothing to do (Refreshing, Pacing, Leading).                            *)
(***************************************************************************)
EXTENDS AnalyticsConsent, CartTabs, BuyerPanel, FiniteSetTheorems, SequenceTheorems, TLAPS

-----------------------------------------------------------------------------
(* Consent: the inductive invariant *)

Events == [session : Sessions, at : 1..MaxDay]
Purges == [day : 1..MaxDay, purge : Nat \ {0}]

\* The types, with those of the claims and of the counters behind them.
ConsentTyped ==
  /\ TypeOK
  /\ kept \in [events : SUBSET Events, sessions : [Sessions -> 0..MaxDay], revoked : [Sessions -> 0..MaxDay]]
  /\ day \in 1..MaxDay /\ drawn \in 0..MaxSessions /\ sent \in 0..MaxEvents /\ claimed \in Nat
  /\ \A s \in Sessions : events[s] <= sent
  /\ claim \in Purges \cup {Never} /\ purges \subseteq Purges /\ finished \subseteq Purges
  /\ told \subseteq [session : Sessions, day : 1..MaxDay]

\* Session s was deleted on day d.
Forgotten(s, d) ==
  /\ d <= day
  /\ day <= d + Retention => kept.revoked[s] >= d /\ \A e \in kept.events : e.session # s

Deletions ==
  /\ \A w \in told : Forgotten(w.session, w.day)
  /\ \A d \in deletions : d.done # 0 => Forgotten(d.session, d.done)

\* Every purge has its number and its month, and this month's holds the claim.
Claimed ==
  /\ purges \cap finished = {}
  /\ \A p \in purges \cup finished :
       /\ p.purge <= claimed /\ p.day <= day
       /\ Month(p.day) = Month(day) => claim = p
  /\ \A p, q \in purges \cup finished : p # q => Month(p.day) # Month(q.day)

ConsentInv == ConsentTyped /\ Deletions /\ Claimed

-----------------------------------------------------------------------------
(* Types *)

LEMMA InitTyped == ASSUME Init PROVE ConsentTyped
BY ConsentAssumption DEF Init, ConsentTyped, TypeOK, Sessions, Never

LEMMA SentTyped ==
  ASSUME ConsentTyped, NEW t \in Tabs, sent < MaxEvents, consent' \in {"undecided", "accepted", "rejected"},
         \/ tab[t].session # 0 /\ UNCHANGED <<tab, drawn>>
         \/ /\ tab[t].session = 0 /\ drawn < MaxSessions
            /\ drawn' = drawn + 1
            /\ tab' = [tab EXCEPT ![t].session = drawn + 1],
         sent' = sent + 1, events' = [events EXCEPT ![tab'[t].session] = @ + 1],
         UNCHANGED <<deletions, day, serverVars, told>>
  PROVE  ConsentTyped'
<1>1. /\ tab' \in [Tabs -> [session : 0..MaxSessions, waits : 0..MaxSessions]]
      /\ tab'[t].session \in Sessions /\ drawn' \in 0..MaxSessions
  <2>1. /\ tab \in [Tabs -> [session : 0..MaxSessions, waits : 0..MaxSessions]]
        /\ MaxSessions \in Nat /\ drawn \in 0..MaxSessions
    BY ConsentAssumption DEF ConsentTyped, TypeOK
  <2>2. CASE tab[t].session # 0 /\ UNCHANGED <<tab, drawn>>
    BY <2>1, <2>2 DEF Sessions
  <2>3. CASE /\ tab[t].session = 0 /\ drawn < MaxSessions /\ drawn' = drawn + 1
             /\ tab' = [tab EXCEPT ![t].session = drawn + 1]
    <3>1. drawn + 1 \in Sessions /\ drawn + 1 \in 0..MaxSessions
      BY <2>1, <2>3 DEF Sessions
    <3>2. tab'[t].session = drawn + 1
      BY <2>1, <2>3
    <3> QED
      BY <2>1, <2>3, <3>1, <3>2
  <2> QED
    BY <2>2, <2>3
<1>2. /\ events' \in [Sessions -> 0..MaxEvents] /\ sent' \in 0..MaxEvents
      /\ \A s \in Sessions : events'[s] <= sent'
  <2>1. /\ events \in [Sessions -> 0..MaxEvents] /\ MaxEvents \in Nat /\ sent \in 0..MaxEvents
        /\ \A s \in Sessions : events[s] <= sent
    BY ConsentAssumption DEF ConsentTyped, TypeOK
  <2>2. events' = [events EXCEPT ![tab'[t].session] = events[tab'[t].session] + 1]
    OBVIOUS
  <2> QED
    BY <1>1, <2>1, <2>2
<1> QED
  BY <1>1, <1>2 DEF ConsentTyped, TypeOK, serverVars

LEMMA TabTyped ==
  ASSUME ConsentTyped, NEW t \in Tabs,
         Track(t) \/ Grant(t) \/ Reject(t) \/ Withdraw(t) \/ Confirmed(t) \/ Unconfirmed(t)
  PROVE  ConsentTyped'
<1>1. CASE Track(t)
  BY <1>1, SentTyped DEF Track, ConsentTyped, TypeOK
<1>2. CASE Grant(t)
  BY <1>2, SentTyped DEF Grant
<1>3. CASE Reject(t)
  BY <1>3, ConsentAssumption DEF Reject, ConsentTyped, TypeOK, serverVars
<1>4. CASE Withdraw(t)
  <2>1. /\ tab' \in [Tabs -> [session : 0..MaxSessions, waits : 0..MaxSessions]]
        /\ deletions' \subseteq [session : Sessions, tab : Tabs, done : 0..MaxDay]
    BY <1>4, ConsentAssumption DEF Withdraw, ConsentTyped, TypeOK, Sessions
  <2> QED
    BY <1>4, <2>1 DEF Withdraw, ConsentTyped, TypeOK, serverVars
<1>5. CASE Confirmed(t)
  <2>1. PICK d \in deletions :
          /\ d.done # 0 /\ deletions' = deletions \ {d}
          /\ tab' = [tab EXCEPT ![t].waits = 0]
          /\ told' = told \cup {[session |-> d.session, day |-> d.done]}
    BY <1>5 DEF Confirmed
  <2>2. tab' \in [Tabs -> [session : 0..MaxSessions, waits : 0..MaxSessions]]
    BY <2>1, ConsentAssumption DEF ConsentTyped, TypeOK
  <2>3. d.session \in Sessions /\ d.done \in 1..MaxDay
    BY <2>1, ConsentAssumption DEF ConsentTyped, TypeOK
  <2>4. deletions' \subseteq deletions /\ told' \subseteq [session : Sessions, day : 1..MaxDay]
    BY <2>1, <2>3 DEF ConsentTyped
  <2> QED
    BY <1>5, <2>2, <2>4 DEF Confirmed, ConsentTyped, TypeOK, serverVars
<1>6. CASE Unconfirmed(t)
  BY <1>6, ConsentAssumption DEF Unconfirmed, ConsentTyped, TypeOK, serverVars
<1> QED
  BY <1>1, <1>2, <1>3, <1>4, <1>5, <1>6

LEMMA DuplicateTyped ==
  ASSUME ConsentTyped, NEW t \in Tabs, NEW other \in Tabs, Duplicate(t, other)
  PROVE  ConsentTyped'
<1>1. tab' \in [Tabs -> [session : 0..MaxSessions, waits : 0..MaxSessions]]
  BY DEF Duplicate, ConsentTyped, TypeOK
<1> QED
  BY <1>1 DEF Duplicate, ConsentTyped, TypeOK, serverVars

LEMMA ClaimTyped ==
  ASSUME ConsentTyped, Claim
  PROVE  /\ claimed' \in Nat /\ claim' \in Purges \cup {Never} /\ purges' \subseteq Purges
BY ConsentAssumption DEF Claim, ConsentTyped, Purges

LEMMA ServerTyped ==
  ASSUME ConsentTyped, ReceiveEvent \/ ReceiveDeletion \/ Purge \/ PurgeFails \/ PurgeDies \/ DayPasses
  PROVE  ConsentTyped'
<1>1. CASE ReceiveEvent
  <2>1. PICK s \in Sessions : events[s] > 0 /\ events' = [events EXCEPT ![s] = @ - 1] /\ kept' = Stored(s)
    BY <1>1 DEF ReceiveEvent
  <2>2. /\ kept' \in [events : SUBSET Events, sessions : [Sessions -> 0..MaxDay], revoked : [Sessions -> 0..MaxDay]]
        /\ \A e \in kept'.events : kept'.sessions[e.session] # 0
    <3>1. CASE Revoked(s)
      BY <2>1, <3>1 DEF Stored, ConsentTyped, TypeOK
    <3>2. CASE ~Revoked(s)
      <4>1. kept' = [events |-> kept.events \cup {[session |-> s, at |-> day]},
                     sessions |-> [kept.sessions EXCEPT ![s] = day], revoked |-> kept.revoked]
        BY <2>1, <3>2 DEF Stored, ConsentTyped
      <4>2. day \in 1..MaxDay /\ day # 0 /\ day \in 0..MaxDay
        BY ConsentAssumption DEF ConsentTyped
      <4> QED
        BY <4>1, <4>2 DEF ConsentTyped, TypeOK, Events
    <3> QED
      BY <3>1, <3>2
  <2>3. events' \in [Sessions -> 0..MaxEvents] /\ \A r \in Sessions : events'[r] <= sent
    BY <2>1, ConsentAssumption DEF ConsentTyped, TypeOK
  <2> QED
    BY <1>1, <2>2, <2>3, ClaimTyped DEF ReceiveEvent, ConsentTyped, TypeOK, clientVars, Events
<1>2. CASE ReceiveDeletion
  <2>1. PICK d \in deletions :
          /\ deletions' = (deletions \ {d}) \cup (IF tab[d.tab].waits = d.session THEN {[d EXCEPT !.done = day]} ELSE {})
          /\ kept' = Deleted(d.session)
    BY <1>2 DEF ReceiveDeletion
  <2>2. d.session \in Sessions /\ [d EXCEPT !.done = day] \in [session : Sessions, tab : Tabs, done : 0..MaxDay]
    BY ConsentAssumption DEF ConsentTyped, TypeOK
  <2>3. /\ kept' \in [events : SUBSET Events, sessions : [Sessions -> 0..MaxDay], revoked : [Sessions -> 0..MaxDay]]
        /\ \A e \in kept'.events : kept'.sessions[e.session] # 0
    <3>1. kept' = [events |-> {e \in kept.events : e.session # d.session},
                   sessions |-> [kept.sessions EXCEPT ![d.session] = 0],
                   revoked |-> [kept.revoked EXCEPT ![d.session] = day]]
      BY <2>1 DEF Deleted, ConsentTyped
    <3>2. day \in 0..MaxDay /\ 0 \in 0..MaxDay
      BY ConsentAssumption DEF ConsentTyped
    <3> QED
      BY <2>2, <3>1, <3>2 DEF ConsentTyped, TypeOK, Events
  <2> QED
    BY <1>2, <2>1, <2>2, <2>3 DEF ReceiveDeletion, ConsentTyped, TypeOK, clientVars, Events
<1>3. CASE Purge
  <2>1. PICK p \in purges : kept' = Purged(Cutoff(p.day)) /\ purges' = purges \ {p} /\ finished' = finished \cup {p}
    BY <1>3 DEF Purge
  <2>2. /\ kept' \in [events : SUBSET Events, sessions : [Sessions -> 0..MaxDay], revoked : [Sessions -> 0..MaxDay]]
        /\ \A e \in kept'.events : kept'.sessions[e.session] # 0
    BY <2>1, ConsentAssumption DEF Purged, ConsentTyped, TypeOK, Events
  <2> QED
    BY <1>3, <2>1, <2>2 DEF Purge, ConsentTyped, TypeOK, clientVars, Events
<1>4. CASE PurgeFails \/ PurgeDies
  BY <1>4 DEF PurgeFails, PurgeDies, GivenBack, ConsentTyped, TypeOK, clientVars
<1>5. CASE DayPasses
  BY <1>5, ConsentAssumption DEF DayPasses, ConsentTyped, TypeOK, clientVars, serverVars
<1> QED
  BY <1>1, <1>2, <1>3, <1>4, <1>5

LEMMA StaysTyped == ASSUME ConsentTyped, [Next]_vars PROVE ConsentTyped'
<1>1. CASE UNCHANGED vars
  BY <1>1 DEF vars, ConsentTyped, TypeOK
<1> QED
  BY <1>1, TabTyped, DuplicateTyped, ServerTyped DEF Next

-----------------------------------------------------------------------------
(* Deletions *)

\* A purge that was claimed on day p or before leaves what is younger.
LEMMA CutoffBounded ==
  ASSUME NEW p \in Nat, NEW today \in Nat, NEW d \in Nat, p <= today, today <= d + Retention
  PROVE  Cutoff(p) \in Nat /\ Cutoff(p) <= d
BY ConsentAssumption DEF Cutoff

LEMMA ForgottenStays ==
  ASSUME ConsentTyped, Claimed, [Next]_vars, NEW s \in Sessions, NEW d \in 1..MaxDay, Forgotten(s, d)
  PROVE  Forgotten(s, d)'
<1>1. CASE UNCHANGED <<kept, day>>
  BY <1>1 DEF Forgotten
<1>2. CASE ReceiveEvent
  <2>1. PICK r \in Sessions : kept' = Stored(r)
    BY <1>2 DEF ReceiveEvent
  <2>2. CASE Revoked(r)
    BY <1>2, <1>1, <2>1, <2>2 DEF Stored, ReceiveEvent
  <2>3. CASE ~Revoked(r)
    <3>1. kept'.revoked = kept.revoked /\ kept'.events = kept.events \cup {[session |-> r, at |-> day]} /\ day' = day
      BY <1>2, <2>1, <2>3 DEF Stored, ReceiveEvent, ConsentTyped
    <3>2. r = s => ~(day <= d + Retention)
      BY <2>3 DEF Forgotten, Revoked, ConsentTyped
    <3> QED
      BY <3>1, <3>2 DEF Forgotten
  <2> QED
    BY <2>2, <2>3
<1>3. CASE ReceiveDeletion
  <2>1. PICK r \in Sessions : kept' = Deleted(r)
    BY <1>3 DEF ReceiveDeletion, ConsentTyped, TypeOK
  <2>2. /\ kept'.revoked = [kept.revoked EXCEPT ![r] = day] /\ day' = day
        /\ kept'.events \subseteq kept.events
    BY <1>3, <2>1 DEF Deleted, ReceiveDeletion, ConsentTyped
  <2> QED
    BY <2>1, <2>2, ConsentAssumption DEF Forgotten, ConsentTyped, Deleted
<1>4. CASE Purge
  <2>1. PICK p \in purges : kept' = Purged(Cutoff(p.day))
    BY <1>4 DEF Purge
  <2>2. day' = day /\ p.day <= day /\ p.day \in Nat /\ day \in Nat /\ d \in Nat
    BY <1>4 DEF Purge, Claimed, ConsentTyped, Purges
  <2>3. day <= d + Retention => Cutoff(p.day) \in Nat /\ Cutoff(p.day) <= d
    BY <2>2, CutoffBounded
  <2>4. /\ kept'.events \subseteq kept.events
        /\ kept'.revoked[s] = IF kept.revoked[s] < Cutoff(p.day) THEN 0 ELSE kept.revoked[s]
    BY <2>1 DEF Purged
  <2> QED
    BY <2>2, <2>3, <2>4, ConsentAssumption DEF Forgotten, ConsentTyped
<1>5. CASE DayPasses
  BY <1>5, ConsentAssumption DEF DayPasses, Forgotten, ConsentTyped, serverVars
<1> QED
  BY <1>1, <1>2, <1>3, <1>4, <1>5
     DEF Next, Track, Grant, Reject, Withdraw, Confirmed, Unconfirmed, Duplicate, PurgeFails, PurgeDies, vars, serverVars

LEMMA DeletionsStay == ASSUME ConsentInv, [Next]_vars PROVE Deletions'
<1>0. /\ told \subseteq [session : Sessions, day : 1..MaxDay]
      /\ deletions \subseteq [session : Sessions, tab : Tabs, done : 0..MaxDay]
  BY DEF ConsentInv, ConsentTyped, TypeOK
<1>1. \A w \in told : Forgotten(w.session, w.day)'
  BY <1>0, ForgottenStays DEF ConsentInv, Deletions
<1>2. \A d \in deletions : d.done # 0 => Forgotten(d.session, d.done)'
  <2>1. \A d \in deletions : d.done # 0 => d.done \in 1..MaxDay /\ d.session \in Sessions
    BY <1>0, ConsentAssumption
  <2> QED
    BY <2>1, ForgottenStays DEF ConsentInv, Deletions
<1>3. ASSUME NEW t \in Tabs, Withdraw(t) PROVE Deletions'
  BY <1>1, <1>2, <1>3 DEF Withdraw, Deletions
<1>4. ASSUME NEW t \in Tabs, Confirmed(t) PROVE Deletions'
  BY <1>1, <1>2, <1>4 DEF Confirmed, Deletions
<1>5. CASE ReceiveDeletion
  <2>1. PICK d \in deletions :
          /\ deletions' = (deletions \ {d}) \cup (IF tab[d.tab].waits = d.session THEN {[d EXCEPT !.done = day]} ELSE {})
          /\ kept' = Deleted(d.session)
    BY <1>5 DEF ReceiveDeletion
  <2>2. UNCHANGED <<day, told>> /\ day \in Nat /\ d.session \in Sessions
    BY <1>5, <1>0 DEF ReceiveDeletion, ConsentInv, ConsentTyped
  <2>3. /\ kept'.revoked[d.session] = day
        /\ \A e \in kept'.events : e.session # d.session
    BY <2>1, <2>2 DEF Deleted, ConsentInv, ConsentTyped
  <2>4. Forgotten(d.session, day)'
    BY <2>2, <2>3, ConsentAssumption DEF Forgotten
  <2>5. [d EXCEPT !.done = day].session = d.session /\ [d EXCEPT !.done = day].done = day
    BY <1>0
  <2> QED
    BY <1>1, <1>2, <2>1, <2>2, <2>4, <2>5 DEF Deletions
<1>6. CASE told' = told /\ deletions' \subseteq deletions
  BY <1>1, <1>2, <1>6 DEF Deletions
<1> QED
  BY <1>3, <1>4, <1>5, <1>6
     DEF Next, Track, Grant, Reject, Unconfirmed, Duplicate, ReceiveEvent, Purge, PurgeFails, PurgeDies, DayPasses, vars

-----------------------------------------------------------------------------
(* Purges *)

\* A later day is of the same month or of a later one.
LEMMA MonthGrows ==
  ASSUME NEW a \in Nat \ {0}, NEW b \in Nat \ {0}, a <= b
  PROVE  Month(a) <= Month(b) /\ Month(a) \in Nat
BY ConsentAssumption DEF Month

LEMMA ClaimedStays == ASSUME ConsentInv, [Next]_vars PROVE Claimed'
<1>0. purges \subseteq Purges /\ finished \subseteq Purges /\ day \in Nat \ {0} /\ claimed \in Nat
  BY DEF ConsentInv, ConsentTyped
<1>1. CASE Claim /\ UNCHANGED <<day, finished>>
  <2>1. CASE UNCHANGED <<claim, purges, claimed>>
    BY <1>1, <2>1 DEF ConsentInv, Claimed
  <2>2. CASE /\ Month(claim.day) < Month(day) \/ claim = Never
             /\ claimed' = claimed + 1
             /\ claim' = [day |-> day, purge |-> claimed + 1]
             /\ purges' = purges \cup {claim'}
    <3>1. \A p \in purges \cup finished : claim' # p /\ p.purge <= claimed'
      BY <1>0, <2>2 DEF ConsentInv, Claimed, Purges
    <3>2. \A p \in purges \cup finished : Month(p.day) # Month(day)
      <4>1. SUFFICES ASSUME NEW p \in purges \cup finished, Month(p.day) = Month(day) PROVE FALSE
        OBVIOUS
      <4>2. claim = p /\ claim # Never
        BY <4>1, <1>0 DEF ConsentInv, Claimed, Never, Purges
      <4>3. Month(day) \in Nat
        BY <1>0, MonthGrows
      <4> QED
        BY <2>2, <4>1, <4>2, <4>3
    <3>3. claim'.day = day' /\ claim'.purge = claimed'
      BY <1>1, <2>2
    <3> QED
      BY <1>0, <1>1, <2>2, <3>1, <3>2, <3>3 DEF ConsentInv, Claimed
  <2> QED
    BY <1>1, <2>1, <2>2 DEF Claim
<1>2. CASE Purge
  BY <1>2 DEF Purge, ConsentInv, Claimed
<1>3. CASE PurgeFails \/ PurgeDies
  BY <1>3 DEF PurgeFails, PurgeDies, GivenBack, ConsentInv, Claimed
<1>4. CASE DayPasses
  <2>1. ASSUME NEW p \in purges \cup finished, Month(p.day) = Month(day')
        PROVE  claim = p
    <3>1. p.day \in Nat \ {0} /\ p.day <= day /\ day' = day + 1
      BY <1>0, <1>4 DEF ConsentInv, Claimed, Purges, DayPasses
    <3>2. Month(p.day) <= Month(day) /\ Month(day) <= Month(day') /\ Month(day) \in Nat /\ Month(p.day) \in Nat
      BY <1>0, <3>1, MonthGrows
    <3> QED
      BY <2>1, <3>2 DEF ConsentInv, Claimed
  <2> QED
    BY <1>0, <1>4, <2>1 DEF DayPasses, serverVars, ConsentInv, Claimed, Purges
<1>5. CASE UNCHANGED <<purges, finished, claim, claimed, day>>
  BY <1>5 DEF ConsentInv, Claimed
<1> QED
  BY <1>1, <1>2, <1>3, <1>4, <1>5
     DEF Next, Track, Grant, Reject, Withdraw, Confirmed, Unconfirmed, Duplicate, ReceiveEvent, ReceiveDeletion,
         vars, serverVars

-----------------------------------------------------------------------------
LEMMA ConsentInitInv == ASSUME Init PROVE ConsentInv
BY InitTyped DEF Init, ConsentInv, Deletions, Claimed

\* The invariant the theorems below rest on.
THEOREM ConsentInvariance == Spec => []ConsentInv
<1>1. Init => ConsentInv
  BY ConsentInitInv
<1>2. ConsentInv /\ [Next]_vars => ConsentInv'
  BY StaysTyped, DeletionsStay, ClaimedStays DEF ConsentInv
<1> QED
  BY <1>1, <1>2, PTL DEF Spec

\* Every variable keeps its type.
THEOREM ConsentTypeCorrect == Spec => []TypeOK
<1>1. ConsentInv => TypeOK
  BY DEF ConsentInv, ConsentTyped
<1> QED
  BY <1>1, ConsentInvariance, PTL

\* What a person was told was deleted stays deleted while the retention lasts,
\* whatever was on its way (storeAnalyticsEvent, deleteAnalyticsSession); and
\* one purge a month is carried out (purgeAnalyticsIfDue).
THEOREM ConsentKept == Spec => []ConsentIsKept
<1>1. ConsentInv => WithdrawnIsForgotten
  BY DEF ConsentInv, Deletions, Forgotten, WithdrawnIsForgotten
<1>2. ConsentInv => PurgedOnceAMonth
  BY DEF ConsentInv, Claimed, PurgedOnceAMonth, ConsentTyped, Purges, Never
<1> QED
  BY <1>1, <1>2, ConsentInvariance, PTL DEF ConsentIsKept

-----------------------------------------------------------------------------
(* The cart: the inductive invariant *)

\* Carts within the limit of lines.
GoodCarts == {c \in Carts : Cardinality(InCart(c)) <= MaxLines}

TabRecords ==
  [open : BOOLEAN, cache : Catalogs, resolved : BOOLEAN, fresh : BOOLEAN, view : Catalogs,
   cart : GoodCarts, changed : BOOLEAN, hydrated : BOOLEAN, skip : BOOLEAN,
   pending : GoodCarts \cup {NoEntry}, inbox : Seq(GoodCarts)]

\* A tab that is closed knows nothing; the cart of one that took it up has
\* nothing that is gone from what the tab shows.
TabSound(b) ==
  /\ b \in TabRecords
  /\ ~b.open => b = Closed
  /\ ~b.fresh => b.cache = b.view
  /\ b.hydrated => Normalised(b.cart, b.view) = b.cart
  /\ b.skip => b.changed /\ b.hydrated

CartTyped ==
  /\ DOMAIN cartTab = ShopTabs
  /\ stored \in GoodCarts \cup {NoEntry} /\ shop \in Catalogs /\ edits \in 0..MaxEdits
  /\ first \in [Products -> 0..Max] /\ overlap \in BOOLEAN /\ missed \in BOOLEAN

\* Product p was never taken out of what the tab will show.
KeepsLine(b, p) ==
  /\ b.resolved \/ b.hydrated => b.cache[p] # Gone
  /\ b.hydrated => b.view[p] # Gone /\ b.cart.lines[p] > 0
  /\ b.open /\ ~b.hydrated => b.pending # NoEntry /\ b.pending.lines[p] > 0
  /\ \A i \in 1..Len(b.inbox) : b.inbox[i].lines[p] > 0

LinesKept ==
  \A p \in Products : first[p] > 0 /\ p \notin excused =>
    /\ stored # NoEntry /\ stored.lines[p] > 0 /\ shop[p] # Gone
    /\ \A t \in ShopTabs : KeepsLine(cartTab[t], p)

\* A tab whose cart is its own and not stored yet.
Author(b) == b.changed /\ ~b.skip

\* The cart c is of the last edit.
Latest(c, n) == n > 0 => c # NoEntry /\ c.at = n

\* While everybody edits in turn, a tab has the stored cart, has it on its way,
\* or is about to store a newer one.
Follows(b, entry, n) ==
  /\ b.changed => b.hydrated
  /\ Author(b) => b.inbox = <<>> /\ Latest(b.cart, n)
  /\ b.inbox # <<>> => b.inbox[Len(b.inbox)] = entry
  /\ b.inbox = <<>> /\ b.open /\ ~b.hydrated => b.pending = entry
  /\ b.inbox = <<>> /\ b.hydrated /\ ~Author(b) => b.cart = entry

InTurn ==
  ~overlap /\ ~missed =>
    /\ \A t, u \in ShopTabs : Author(cartTab[t]) /\ Author(cartTab[u]) => t = u
    /\ \A t \in ShopTabs : Follows(cartTab[t], stored, edits)
    /\ (\A t \in ShopTabs : ~Author(cartTab[t])) => Latest(stored, edits)

CartInv == CartTyped /\ (\A t \in ShopTabs : TabSound(cartTab[t])) /\ LinesKept /\ InTurn

-----------------------------------------------------------------------------
(* The cart: its operations *)

LEMMA CartsApart ==
  /\ Max \in Nat /\ Max # 0 /\ Gone \in Nat /\ Gone > Max /\ MaxLines \in Nat /\ MaxLines # 0 /\ MaxEdits \in Nat
  /\ NoEntry \notin Carts /\ NoEntry \notin GoodCarts /\ IsFiniteSet(Products)
  BY CartAssumption DEF CartAssumption, Gone, GoodCarts

LEMMA FewerLines ==
  ASSUME NEW n \in Nat, NEW S \in SUBSET Products, Cardinality(S) <= n, NEW T \in SUBSET S
  PROVE  Cardinality(T) <= n
  <1>1. IsFiniteSet(S) /\ IsFiniteSet(T)
    BY FS_Subset, CartsApart
  <1>2. Cardinality(T) <= Cardinality(S) /\ Cardinality(S) \in Nat /\ Cardinality(T) \in Nat
    BY <1>1, FS_Subset, FS_CardinalityType
  <1> QED BY <1>2

LEMMA EmptyGood ==
  ASSUME NEW n \in 0..MaxEdits
  PROVE  Empty(n) \in GoodCarts /\ Empty(n).at = n /\ \A p \in Products : Empty(n).lines[p] = 0
  <1>1. Empty(n) \in Carts
    BY CartsApart DEF Empty, Carts
  <1>2. InCart(Empty(n)) = {}
    BY DEF InCart, Empty
  <1>3. Cardinality(InCart(Empty(n))) <= MaxLines
    BY <1>2, FS_EmptySet, CartsApart
  <1> QED BY <1>1, <1>3 DEF GoodCarts, Empty

LEMMA NormalisedGood ==
  ASSUME NEW c \in GoodCarts \cup {NoEntry}, NEW catalog \in Catalogs
  PROVE  /\ Normalised(c, catalog) \in GoodCarts
         /\ \A p \in Products : Normalised(c, catalog).lines[p] =
              IF c = NoEntry \/ catalog[p] = Gone THEN 0 ELSE c.lines[p]
         /\ Normalised(c, catalog).at = IF c = NoEntry THEN 0 ELSE c.at
  <1>1. CASE c = NoEntry
    BY <1>1, EmptyGood, CartsApart DEF Normalised
  <1>2. CASE c # NoEntry
    <2> DEFINE n == Normalised(c, catalog)
    <2>1. c \in Carts /\ Cardinality(InCart(c)) <= MaxLines
      BY <1>2 DEF GoodCarts
    <2>2. n = [c EXCEPT !.lines = [p \in Products |-> IF catalog[p] = Gone THEN 0 ELSE c.lines[p]]]
      BY <1>2 DEF Normalised
    <2>3. n \in Carts /\ n.at = c.at
          /\ \A p \in Products : n.lines[p] = IF catalog[p] = Gone THEN 0 ELSE c.lines[p]
      BY <2>1, <2>2, CartsApart DEF Carts
    <2>4. InCart(n) \subseteq InCart(c) /\ InCart(c) \subseteq Products
      BY <2>1, <2>3, CartsApart DEF InCart, Carts
    <2>5. Cardinality(InCart(n)) <= MaxLines
      BY <2>1, <2>4, FewerLines, CartsApart
    <2> QED BY <1>2, <2>3, <2>5 DEF GoodCarts
  <1> QED BY <1>1, <1>2

\* Two carts are one when their lines and their stamps are.
LEMMA SameCart ==
  ASSUME NEW c \in Carts, NEW d \in Carts, c.at = d.at, \A p \in Products : c.lines[p] = d.lines[p]
  PROVE  c = d
  <1>1. c.lines = d.lines
    BY DEF Carts
  <1> QED BY <1>1 DEF Carts

LEMMA Unchanging ==
  ASSUME NEW c \in GoodCarts, NEW catalog \in Catalogs
  PROVE  Normalised(c, catalog) = c <=> \A p \in Products : catalog[p] = Gone => c.lines[p] = 0
  <1>1. /\ Normalised(c, catalog) \in Carts /\ c \in Carts /\ c # NoEntry
        /\ Normalised(c, catalog).at = c.at
        /\ \A p \in Products : Normalised(c, catalog).lines[p] =
              IF catalog[p] = Gone THEN 0 ELSE c.lines[p]
    BY NormalisedGood, CartsApart DEF GoodCarts
  <1> QED BY <1>1, SameCart

LEMMA NormalisedOnce ==
  ASSUME NEW c \in GoodCarts \cup {NoEntry}, NEW catalog \in Catalogs
  PROVE  Normalised(Normalised(c, catalog), catalog) = Normalised(c, catalog)
  BY NormalisedGood, Unchanging

-----------------------------------------------------------------------------
(* What one tab does *)

\* The tab after a render and its effects.
Followed(b) == FollowCatalog([b EXCEPT !.changed = FALSE])
Rendered(b) ==
  [Followed(b) EXCEPT !.fresh = FALSE, !.view = b.cache, !.skip = b.skip /\ ~(b.changed /\ b.hydrated)]

LEMMA TabFields ==
  ASSUME NEW b \in TabRecords
  PROVE  /\ b.open \in BOOLEAN /\ b.cache \in Catalogs /\ b.resolved \in BOOLEAN /\ b.fresh \in BOOLEAN
         /\ b.view \in Catalogs /\ b.cart \in GoodCarts /\ b.changed \in BOOLEAN /\ b.hydrated \in BOOLEAN
         /\ b.skip \in BOOLEAN /\ b.pending \in GoodCarts \cup {NoEntry} /\ b.inbox \in Seq(GoodCarts)
  BY DEF TabRecords

LEMMA ClosedSound == TabSound(Closed)
  <1>1. Nothing \in Catalogs
    BY CartsApart DEF Nothing, Catalogs
  <1>2. Closed \in TabRecords
    BY <1>1, EmptyGood, CartsApart DEF Closed, TabRecords
  <1> QED BY <1>2 DEF TabSound, Closed

LEMMA OpenedSound ==
  ASSUME NEW c \in GoodCarts \cup {NoEntry}
  PROVE  TabSound([Closed EXCEPT !.open = TRUE, !.pending = c])
  <1>1. Closed \in TabRecords
    BY ClosedSound DEF TabSound
  <1>2. [Closed EXCEPT !.open = TRUE, !.pending = c] \in TabRecords
    BY <1>1 DEF TabRecords
  <1> QED BY <1>2 DEF TabSound, Closed

LEMMA AnsweredSound ==
  ASSUME NEW b, TabSound(b), b.open, NEW catalog \in Catalogs
  PROVE  /\ TabSound([b EXCEPT !.cache = catalog, !.resolved = TRUE, !.fresh = TRUE])
         /\ TabSound([b EXCEPT !.resolved = FALSE, !.fresh = TRUE])
  BY DEF TabSound, TabRecords

LEMMA EditedSound ==
  ASSUME NEW b, TabSound(b), b.open, NEW c \in GoodCarts,
         \A p \in Products : b.view[p] = Gone /\ b.cart.lines[p] = 0 => c.lines[p] = 0
  PROVE  TabSound([b EXCEPT !.cart = c, !.changed = TRUE])
  <1> DEFINE d == [b EXCEPT !.cart = c, !.changed = TRUE]
  <1>1. b \in TabRecords
    BY DEF TabSound
  <1>2. d \in TabRecords /\ d.open /\ d.cart = c /\ d.view = b.view /\ d.hydrated = b.hydrated
        /\ d.fresh = b.fresh /\ d.cache = b.cache /\ d.changed /\ d.skip = b.skip
    BY <1>1 DEF TabRecords
  <1>3. ASSUME d.hydrated PROVE Normalised(d.cart, d.view) = d.cart
    BY <1>1, <1>2, <1>3, Unchanging, TabFields DEF TabSound
  <1> QED BY <1>2, <1>3 DEF TabSound

LEMMA ToldSound ==
  ASSUME NEW b, TabSound(b), b.open, NEW c \in GoodCarts
  PROVE  TabSound([b EXCEPT !.inbox = Append(@, c)])
  <1> DEFINE d == [b EXCEPT !.inbox = Append(@, c)]
  <1>1. b \in TabRecords
    BY DEF TabSound
  <1>2. Append(b.inbox, c) \in Seq(GoodCarts)
    BY <1>1, TabFields
  <1>3. d \in TabRecords
    BY <1>1, <1>2 DEF TabRecords
  <1>4. /\ d.open = b.open /\ d.cache = b.cache /\ d.fresh = b.fresh /\ d.view = b.view /\ d.cart = b.cart
        /\ d.changed = b.changed /\ d.hydrated = b.hydrated /\ d.skip = b.skip
    BY <1>1 DEF TabRecords
  <1> QED BY <1>3, <1>4 DEF TabSound

LEMMA FollowedFields ==
  ASSUME NEW b, TabSound(b), b.open
  PROVE  /\ Followed(b) \in TabRecords
         /\ \/ /\ Followed(b) = [b EXCEPT !.changed = FALSE]
               /\ b.hydrated => (b.fresh => Normalised(b.cart, b.cache) = b.cart)
            \/ /\ b.fresh /\ ~b.hydrated /\ b.resolved
               /\ Followed(b) = [b EXCEPT !.cart = Normalised(b.pending, b.cache), !.hydrated = TRUE,
                                          !.changed = TRUE, !.pending = NoEntry]
            \/ /\ b.fresh /\ b.hydrated /\ Normalised(b.cart, b.cache) # b.cart
               /\ Followed(b) = [b EXCEPT !.cart = Normalised(b.cart, b.cache), !.changed = TRUE]
  <1> DEFINE u == [b EXCEPT !.changed = FALSE]
  <1>1. b \in TabRecords
    BY DEF TabSound
  <1>2. /\ u \in TabRecords /\ u.fresh = b.fresh /\ u.hydrated = b.hydrated /\ u.resolved = b.resolved
        /\ u.cart = b.cart /\ u.cache = b.cache /\ u.pending = b.pending
    BY <1>1 DEF TabRecords
  <1>3. /\ Normalised(b.pending, b.cache) \in GoodCarts
        /\ Normalised(b.cart, b.cache) \in GoodCarts
    BY <1>1, TabFields, NormalisedGood
  <1>4. CASE ~b.fresh
    <2>1. Followed(b) = u
      BY <1>2, <1>4 DEF Followed, FollowCatalog
    <2> QED BY <1>2, <1>4, <2>1
  <1>5. CASE b.fresh /\ ~b.hydrated /\ ~b.resolved
    <2>1. Followed(b) = u
      BY <1>2, <1>5 DEF Followed, FollowCatalog
    <2> QED BY <1>2, <1>5, <2>1
  <1>6. CASE b.fresh /\ ~b.hydrated /\ b.resolved
    <2>1. Followed(b) = [u EXCEPT !.cart = Normalised(b.pending, b.cache), !.hydrated = TRUE,
                                  !.changed = TRUE, !.pending = NoEntry]
      BY <1>2, <1>6 DEF Followed, FollowCatalog
    <2>2. Followed(b) = [b EXCEPT !.cart = Normalised(b.pending, b.cache), !.hydrated = TRUE,
                                  !.changed = TRUE, !.pending = NoEntry]
      BY <1>1, <2>1 DEF TabRecords
    <2>3. Followed(b) \in TabRecords
      BY <1>1, <1>3, <2>2 DEF TabRecords
    <2> QED BY <1>6, <2>2, <2>3
  <1>7. CASE b.fresh /\ b.hydrated /\ Normalised(b.cart, b.cache) = b.cart
    <2>1. Followed(b) = u
      BY <1>2, <1>7 DEF Followed, FollowCatalog
    <2> QED BY <1>2, <1>7, <2>1
  <1>8. CASE b.fresh /\ b.hydrated /\ Normalised(b.cart, b.cache) # b.cart
    <2>1. Followed(b) = [u EXCEPT !.cart = Normalised(b.cart, b.cache), !.changed = TRUE]
      BY <1>2, <1>8 DEF Followed, FollowCatalog
    <2>2. Followed(b) = [b EXCEPT !.cart = Normalised(b.cart, b.cache), !.changed = TRUE]
      BY <1>1, <2>1 DEF TabRecords
    <2>3. Followed(b) \in TabRecords
      BY <1>1, <1>3, <2>2 DEF TabRecords
    <2> QED BY <1>8, <2>2, <2>3
  <1> QED BY <1>1, <1>4, <1>5, <1>6, <1>7, <1>8, TabFields

\* What a render leaves of the fields.
LEMMA RenderedFields ==
  ASSUME NEW b, TabSound(b), b.open
  PROVE  LET d == Rendered(b) IN
         /\ d \in TabRecords /\ d.open /\ ~d.fresh /\ d.view = b.cache /\ d.cache = b.cache
         /\ d.resolved = b.resolved /\ d.inbox = b.inbox
         /\ d.skip = (b.skip /\ ~(b.changed /\ b.hydrated))
         /\ d.changed = Followed(b).changed /\ d.cart = Followed(b).cart
         /\ d.hydrated = Followed(b).hydrated /\ d.pending = Followed(b).pending
         /\ \/ /\ ~d.changed /\ d.cart = b.cart /\ d.hydrated = b.hydrated /\ d.pending = b.pending
               /\ b.hydrated => (b.fresh => Normalised(b.cart, b.cache) = b.cart)
            \/ /\ b.fresh /\ ~b.hydrated /\ b.resolved
               /\ d.changed /\ d.hydrated /\ d.cart = Normalised(b.pending, b.cache)
            \/ /\ b.fresh /\ b.hydrated /\ Normalised(b.cart, b.cache) # b.cart
               /\ d.changed /\ d.hydrated /\ d.cart = Normalised(b.cart, b.cache)
  <1> DEFINE f == Followed(b)  d == Rendered(b)
  <1>1. b \in TabRecords /\ f \in TabRecords
    BY FollowedFields DEF TabSound
  <1>2. f.open = b.open /\ f.cache = b.cache /\ f.resolved = b.resolved /\ f.inbox = b.inbox
    <2>1. CASE f = [b EXCEPT !.changed = FALSE]
      BY <1>1, <2>1 DEF TabRecords
    <2>2. CASE f = [b EXCEPT !.cart = Normalised(b.pending, b.cache), !.hydrated = TRUE,
                             !.changed = TRUE, !.pending = NoEntry]
      BY <1>1, <2>2 DEF TabRecords
    <2>3. CASE f = [b EXCEPT !.cart = Normalised(b.cart, b.cache), !.changed = TRUE]
      BY <1>1, <2>3 DEF TabRecords
    <2> HIDE DEF f
    <2> QED BY <2>1, <2>2, <2>3, FollowedFields DEF f
  <1>3. d = [f EXCEPT !.fresh = FALSE, !.view = b.cache, !.skip = b.skip /\ ~(b.changed /\ b.hydrated)]
    BY DEF Rendered
  <1>4. b.cache \in Catalogs /\ (b.skip /\ ~(b.changed /\ b.hydrated)) \in BOOLEAN
    BY <1>1, TabFields
  <1>5. /\ d \in TabRecords /\ ~d.fresh /\ d.view = b.cache
        /\ d.skip = (b.skip /\ ~(b.changed /\ b.hydrated))
        /\ d.open = f.open /\ d.cache = f.cache /\ d.resolved = f.resolved /\ d.inbox = f.inbox
        /\ d.changed = f.changed /\ d.cart = f.cart /\ d.hydrated = f.hydrated /\ d.pending = f.pending
    BY <1>1, <1>3, <1>4 DEF TabRecords
  <1>6. CASE f = [b EXCEPT !.changed = FALSE] /\ (b.hydrated => (b.fresh => Normalised(b.cart, b.cache) = b.cart))
    <2>1. ~f.changed /\ f.cart = b.cart /\ f.hydrated = b.hydrated /\ f.pending = b.pending
      BY <1>1, <1>6 DEF TabRecords
    <2> HIDE DEF f, d
    <2> QED BY <1>2, <1>5, <1>6, <2>1 DEF f, d
  <1>7. CASE /\ b.fresh /\ ~b.hydrated /\ b.resolved
             /\ f = [b EXCEPT !.cart = Normalised(b.pending, b.cache), !.hydrated = TRUE,
                              !.changed = TRUE, !.pending = NoEntry]
    <2>1. f.changed /\ f.hydrated /\ f.cart = Normalised(b.pending, b.cache)
      BY <1>1, <1>7 DEF TabRecords
    <2> HIDE DEF f, d
    <2> QED BY <1>2, <1>5, <1>7, <2>1 DEF f, d
  <1>8. CASE /\ b.fresh /\ b.hydrated /\ Normalised(b.cart, b.cache) # b.cart
             /\ f = [b EXCEPT !.cart = Normalised(b.cart, b.cache), !.changed = TRUE]
    <2>1. f.changed /\ f.hydrated /\ f.cart = Normalised(b.cart, b.cache)
      BY <1>1, <1>8 DEF TabRecords
    <2> HIDE DEF f, d
    <2> QED BY <1>2, <1>5, <1>8, <2>1 DEF f, d
  <1> QED BY <1>6, <1>7, <1>8, FollowedFields

LEMMA RenderedSound ==
  ASSUME NEW b, TabSound(b), b.open
  PROVE  TabSound(Rendered(b))
  <1> DEFINE d == Rendered(b)
  <1>1. b \in TabRecords /\ d \in TabRecords
    BY RenderedFields DEF TabSound
  <1>2. /\ d.open /\ ~d.fresh /\ d.view = b.cache /\ d.cache = b.cache
        /\ d.skip = (b.skip /\ ~(b.changed /\ b.hydrated))
    BY RenderedFields
  <1>3. ~d.skip
    BY <1>2 DEF TabSound
  <1>4. ASSUME d.hydrated PROVE Normalised(d.cart, d.view) = d.cart
    <2>1. CASE d.cart = b.cart /\ d.hydrated = b.hydrated /\ (b.hydrated => (b.fresh => Normalised(b.cart, b.cache) = b.cart))
      BY <1>2, <1>4, <2>1 DEF TabSound
    <2>2. CASE d.cart = Normalised(b.pending, b.cache)
      BY <1>1, <1>2, <2>2, NormalisedOnce, TabFields
    <2>3. CASE d.cart = Normalised(b.cart, b.cache)
      BY <1>1, <1>2, <2>3, NormalisedOnce, TabFields
    <2> HIDE DEF d
    <2> QED BY <2>1, <2>2, <2>3, RenderedFields DEF d
  <1> HIDE DEF d
  <1> QED BY <1>1, <1>2, <1>3, <1>4 DEF TabSound, d

LEMMA HeardFields ==
  ASSUME NEW b, TabSound(b), b.open, b.inbox # <<>>
  PROVE  LET d == Heard(b, Head(b.inbox)) incoming == Normalised(Head(b.inbox), b.view) IN
         /\ Head(b.inbox) \in GoodCarts /\ incoming \in GoodCarts
         /\ d \in TabRecords /\ d.open /\ d.fresh = b.fresh /\ d.view = b.view /\ d.cache = b.cache
         /\ d.resolved = b.resolved /\ d.inbox = Tail(b.inbox) /\ d.hydrated = b.hydrated
         /\ ~b.hydrated => d.pending = Head(b.inbox)
         /\ \/ d.cart = b.cart /\ d.skip = b.skip /\ d.changed = b.changed
            \/ b.hydrated /\ b.resolved /\ d.cart = incoming /\ d.skip /\ d.changed
  <1> DEFINE c == Head(b.inbox)
             incoming == Normalised(c, b.view)
             noted == [b EXCEPT !.inbox = Tail(@), !.pending = IF b.hydrated THEN NoEntry ELSE c]
             d == Heard(b, c)
  <1>1. b \in TabRecords
    BY DEF TabSound
  <1>2. b.inbox \in Seq(GoodCarts)
    BY <1>1, TabFields
  <1>3. c \in GoodCarts /\ Tail(b.inbox) \in Seq(GoodCarts)
    BY <1>2, HeadTailProperties
  <1>4. incoming \in GoodCarts
    BY <1>1, <1>3, NormalisedGood, TabFields
  <1>5. /\ noted \in TabRecords /\ noted.open = b.open /\ noted.fresh = b.fresh /\ noted.view = b.view
        /\ noted.cache = b.cache /\ noted.resolved = b.resolved /\ noted.inbox = Tail(b.inbox)
        /\ noted.hydrated = b.hydrated /\ noted.cart = b.cart /\ noted.skip = b.skip /\ noted.changed = b.changed
        /\ ~b.hydrated => noted.pending = c
    BY <1>1, <1>3 DEF TabRecords
  <1>6. CASE ~b.hydrated \/ ~b.resolved \/ incoming = b.cart
    <2>1. d = noted
      BY <1>6 DEF Heard
    <2> HIDE DEF noted, d, incoming, c
    <2> QED BY <1>3, <1>4, <1>5, <2>1 DEF d, c, incoming
  <1>7. CASE ~(~b.hydrated \/ ~b.resolved \/ incoming = b.cart)
    <2>1. d = [noted EXCEPT !.cart = incoming, !.skip = TRUE, !.changed = TRUE]
      BY <1>7 DEF Heard
    <2>2. /\ d \in TabRecords /\ d.open = noted.open /\ d.fresh = noted.fresh /\ d.view = noted.view
          /\ d.cache = noted.cache /\ d.resolved = noted.resolved /\ d.inbox = noted.inbox
          /\ d.hydrated = noted.hydrated /\ d.cart = incoming /\ d.skip /\ d.changed
      BY <1>4, <1>5, <2>1 DEF TabRecords
    <2> HIDE DEF noted, d, incoming, c
    <2> QED BY <1>3, <1>4, <1>5, <1>7, <2>2 DEF d, c, incoming
  <1> QED BY <1>6, <1>7

LEMMA HeardSound ==
  ASSUME NEW b, TabSound(b), b.open, b.inbox # <<>>
  PROVE  TabSound(Heard(b, Head(b.inbox)))
  <1> DEFINE c == Head(b.inbox)  d == Heard(b, c)  incoming == Normalised(c, b.view)
  <1>1. /\ c \in GoodCarts /\ b.view \in Catalogs
        /\ d \in TabRecords /\ d.open /\ d.fresh = b.fresh /\ d.view = b.view /\ d.cache = b.cache
        /\ d.hydrated = b.hydrated
        /\ \/ d.cart = b.cart /\ d.skip = b.skip /\ d.changed = b.changed
           \/ b.hydrated /\ b.resolved /\ d.cart = incoming /\ d.skip /\ d.changed
    BY HeardFields, TabFields DEF TabSound
  <1>2. Normalised(incoming, b.view) = incoming
    BY <1>1, NormalisedOnce
  <1> HIDE DEF d, incoming, c
  <1>3. b.fresh = d.fresh /\ (~b.fresh => b.cache = b.view) /\ (b.skip => b.changed /\ b.hydrated)
        /\ (b.hydrated => Normalised(b.cart, b.view) = b.cart)
    BY <1>1 DEF TabSound
  <1>4. TabSound(d)
    BY <1>1, <1>2, <1>3 DEF TabSound
  <1> QED BY <1>4 DEF d, c

-----------------------------------------------------------------------------
(* The cart: its steps *)

\* Only tab t changes, to d.
Becomes(t, d) ==
  /\ DOMAIN cartTab' = ShopTabs /\ cartTab'[t] = d
  /\ \A u \in ShopTabs : u # t => cartTab'[u] = cartTab[u]

\* The buyer edits the cart of tab t, that becomes c.
EditsTo(t, c) ==
  /\ c \in GoodCarts /\ edits < MaxEdits /\ edits' = edits + 1 /\ c.at = edits'
  /\ cartTab[t].open /\ Becomes(t, [cartTab[t] EXCEPT !.cart = c, !.changed = TRUE])
  /\ overlap' = (overlap \/ Crossing(t) \/ ~cartTab[t].hydrated)
  /\ excused \subseteq excused'
  /\ \A p \in Products : LET was == cartTab[t].cart.lines[p] IN
       /\ c.lines[p] = 0 /\ was > 0 => p \in excused'
       /\ cartTab[t].view[p] = Gone /\ was = 0 => c.lines[p] = 0
  /\ UNCHANGED <<stored, shop, first, missed>>

LEMMA AddedLines ==
  ASSUME NEW c \in GoodCarts, NEW p \in Products, NEW maximum \in 1..Max
  PROVE  LET lines == Added(c, p, maximum) IN
         /\ lines \in [Products -> 0..Max] /\ Cardinality({q \in Products : lines[q] > 0}) <= MaxLines
         /\ \A q \in Products : IF q = p THEN c.lines[p] > 0 => lines[p] > 0 ELSE lines[q] = c.lines[q]
  <1> DEFINE lines == Added(c, p, maximum)
             more == [c.lines EXCEPT ![p] = Least(@ + 1, maximum)]
  <1>1. /\ c \in Carts /\ c.lines \in [Products -> 0..Max] /\ Cardinality(InCart(c)) <= MaxLines
        /\ InCart(c) \subseteq Products /\ InCart(c) = {q \in Products : c.lines[q] > 0}
    BY DEF GoodCarts, Carts, InCart
  <1>2. CASE c.lines[p] = 0 /\ Cardinality(InCart(c)) >= MaxLines
    BY <1>1, <1>2 DEF Added
  <1>3. CASE ~(c.lines[p] = 0 /\ Cardinality(InCart(c)) >= MaxLines)
    <2>1. lines = more
      BY <1>3 DEF Added
    <2>2. more \in [Products -> 0..Max] /\ more[p] > 0 /\ \A q \in Products : q # p => more[q] = c.lines[q]
      BY <1>1, CartsApart DEF Least
    <2>3. {q \in Products : more[q] > 0} = InCart(c) \cup {p}
      BY <1>1, <2>2
    <2>4. IsFiniteSet(InCart(c)) /\ Cardinality(InCart(c)) \in Nat
      BY <1>1, CartsApart, FS_Subset, FS_CardinalityType
    <2>5. Cardinality(InCart(c) \cup {p}) = IF p \in InCart(c) THEN Cardinality(InCart(c))
                                            ELSE Cardinality(InCart(c)) + 1
      BY <2>4, FS_AddElement
    <2>6. p \in InCart(c) \/ Cardinality(InCart(c)) < MaxLines
      BY <1>1, <1>3, <2>4, CartsApart
    <2>7. Cardinality(InCart(c) \cup {p}) <= MaxLines
      BY <1>1, <2>4, <2>5, <2>6, CartsApart
    <2> HIDE DEF lines, more
    <2> QED BY <2>1, <2>2, <2>3, <2>7 DEF lines
  <1> QED BY <1>2, <1>3

LEMMA FewerLinesGood ==
  ASSUME NEW c \in GoodCarts, NEW lines \in [Products -> 0..Max], NEW n \in 0..MaxEdits,
         \A p \in Products : c.lines[p] = 0 => lines[p] = 0
  PROVE  [lines |-> lines, at |-> n] \in GoodCarts
  <1>1. /\ c.lines \in [Products -> 0..Max] /\ Cardinality(InCart(c)) <= MaxLines
        /\ InCart(c) \subseteq Products
    BY DEF GoodCarts, Carts, InCart
  <1>2. InCart([lines |-> lines, at |-> n]) \subseteq InCart(c)
    BY <1>1, CartsApart DEF InCart
  <1>3. Cardinality(InCart([lines |-> lines, at |-> n])) <= MaxLines
    BY <1>1, <1>2, FewerLines, CartsApart
  <1> QED BY <1>3 DEF GoodCarts, Carts

LEMMA EditGives ==
  ASSUME CartInv, NEW t \in ShopTabs, cartTab[t].open, NEW lines,
         edits' <= MaxEdits => [lines |-> lines, at |-> edits'] \in GoodCarts,
         Edit(t, lines), excused \subseteq excused',
         \A p \in Products : LET was == cartTab[t].cart.lines[p] IN
           /\ lines[p] = 0 /\ was > 0 => p \in excused'
           /\ cartTab[t].view[p] = Gone /\ was = 0 => lines[p] = 0
  PROVE  EditsTo(t, [lines |-> lines, at |-> edits'])
  <1> DEFINE c == [lines |-> lines, at |-> edits']
  <1>1. /\ edits < MaxEdits /\ edits' = edits + 1 /\ edits' <= MaxEdits
        /\ overlap' = (overlap \/ Crossing(t) \/ ~cartTab[t].hydrated)
        /\ UNCHANGED <<stored, shop, first, missed>>
        /\ cartTab' = [cartTab EXCEPT ![t].cart = [lines |-> lines, at |-> edits'], ![t].changed = TRUE]
    BY CartsApart DEF Edit, CartInv, CartTyped
  <1>2. Becomes(t, [cartTab[t] EXCEPT !.cart = c, !.changed = TRUE])
    BY <1>1 DEF Becomes, CartInv, CartTyped
  <1> QED BY <1>1, <1>2 DEF EditsTo

LEMMA EditsGive ==
  ASSUME CartInv, NEW t \in ShopTabs,
         Clear(t) \/ \E p \in Products : Add(t, p) \/ SetQuantity(t, p) \/ Remove(t, p)
  PROVE  \E c : EditsTo(t, c)
  <1> DEFINE b == cartTab[t]
  <1>1. /\ b.cart \in GoodCarts /\ b.view \in Catalogs /\ b.cart.lines \in [Products -> 0..Max]
        /\ edits \in Nat
        /\ edits' \in Nat /\ edits' <= MaxEdits => edits' \in 0..MaxEdits
    <2>1. b \in TabRecords /\ edits \in 0..MaxEdits
      BY DEF CartInv, CartTyped, TabSound
    <2>2. b.cart \in GoodCarts /\ b.view \in Catalogs
      BY <2>1, TabFields
    <2>3. b.cart.lines \in [Products -> 0..Max]
      BY <2>2 DEF GoodCarts, Carts
    <2> HIDE DEF b
    <2> QED BY <2>1, <2>2, <2>3, CartsApart
  <1>2. CASE Clear(t)
    <2>1. b.open /\ Edit(t, Cleared) /\ excused' = excused \cup InCart(b.cart)
      BY <1>2 DEF Clear
    <2>2. edits' \in Nat
      BY <1>1, <2>1 DEF Edit
    <2>3. edits' <= MaxEdits => [lines |-> Cleared, at |-> edits'] \in GoodCarts
      BY <1>1, <2>2, FewerLinesGood, CartsApart DEF Cleared
    <2>4. \A p \in Products : Cleared[p] = 0 /\ (b.cart.lines[p] > 0 => p \in excused')
      BY <2>1 DEF Cleared, InCart
    <2> QED BY <2>1, <2>3, <2>4, EditGives
  <1>3. ASSUME NEW p \in Products, Remove(t, p) PROVE \E c : EditsTo(t, c)
    <2> DEFINE lines == Without(b.cart, p)
    <2>1. b.open /\ Edit(t, lines) /\ excused' = excused \cup {p}
      BY <1>3 DEF Remove
    <2>2. edits' \in Nat
      BY <1>1, <2>1 DEF Edit
    <2>3. lines \in [Products -> 0..Max] /\ \A q \in Products : lines[q] = IF q = p THEN 0 ELSE b.cart.lines[q]
      BY <1>1, CartsApart DEF Without
    <2> HIDE DEF lines
    <2>4. edits' <= MaxEdits => [lines |-> lines, at |-> edits'] \in GoodCarts
      BY <1>1, <2>2, <2>3, FewerLinesGood, CartsApart
    <2> QED BY <2>1, <2>3, <2>4, EditGives
  <1>4. ASSUME NEW p \in Products, SetQuantity(t, p) PROVE \E c : EditsTo(t, c)
    <2>1. b.open /\ b.view[p] \in 1..Max /\ excused' = excused
      BY <1>4 DEF SetQuantity, Sellable
    <2>2. PICK n \in 1..Max : Edit(t, WithQuantity(b.cart, p, n, b.view[p]))
      BY <1>4 DEF SetQuantity
    <2> DEFINE lines == WithQuantity(b.cart, p, n, b.view[p])
    <2>3. edits' \in Nat /\ Edit(t, lines)
      BY <1>1, <2>2 DEF Edit
    <2>4. /\ lines \in [Products -> 0..Max]
          /\ \A q \in Products : b.cart.lines[q] = 0 <=> lines[q] = 0
      BY <1>1, CartsApart DEF WithQuantity
    <2> HIDE DEF lines
    <2>5. edits' <= MaxEdits => [lines |-> lines, at |-> edits'] \in GoodCarts
      BY <1>1, <2>3, <2>4, FewerLinesGood, CartsApart
    <2> QED BY <1>1, <2>1, <2>3, <2>4, <2>5, EditGives
  <1>5. ASSUME NEW p \in Products, Add(t, p) PROVE \E c : EditsTo(t, c)
    <2> DEFINE lines == Added(b.cart, p, b.view[p])
    <2>1. b.open /\ b.view[p] \in 1..Max /\ excused' = excused /\ Edit(t, lines)
      BY <1>5 DEF Add, Sellable
    <2>2. edits' \in Nat
      BY <1>1, <2>1 DEF Edit
    <2>3. /\ lines \in [Products -> 0..Max] /\ Cardinality({q \in Products : lines[q] > 0}) <= MaxLines
          /\ \A q \in Products : IF q = p THEN b.cart.lines[p] > 0 => lines[p] > 0 ELSE lines[q] = b.cart.lines[q]
      BY <1>1, <2>1, AddedLines
    <2> HIDE DEF lines
    <2>4. edits' <= MaxEdits => [lines |-> lines, at |-> edits'] \in GoodCarts
      BY <1>1, <2>2, <2>3 DEF GoodCarts, Carts, InCart
    <2>5. b.view[p] # Gone
      BY <2>1, CartsApart
    <2> QED BY <1>1, <2>1, <2>3, <2>4, <2>5, EditGives
  <1> QED BY <1>2, <1>3, <1>4, <1>5

\* Tab t renders, and stores the cart it showed when that is its own.
Renders(t) ==
  LET b == cartTab[t]  write == Persists(b) /\ stored # b.cart IN
  /\ b.open /\ DOMAIN cartTab' = ShopTabs /\ cartTab'[t] = Rendered(b)
  /\ stored' = IF write THEN b.cart ELSE stored
  /\ \A u \in ShopTabs : u # t =>
       cartTab'[u] = IF write /\ cartTab[u].open THEN [cartTab[u] EXCEPT !.inbox = Append(@, b.cart)]
                     ELSE cartTab[u]
  /\ overlap' = (overlap \/ (Rendered(b).changed /\ Crossing(t)))
  /\ UNCHANGED <<shop, edits, first, excused, missed>>

LEMMA CommitRenders ==
  ASSUME CartInv, NEW t \in ShopTabs, Commit(t)
  PROVE  Renders(t)
  <1> DEFINE b == cartTab[t]
  <1>1. TabSound(b) /\ b.open
    BY DEF CartInv, Commit
  <1>2. Rendered(b).changed = Followed(b).changed
    BY <1>1, RenderedFields
  <1> QED BY <1>1, <1>2 DEF Commit, Renders, Rendered, Followed

LEMMA AnswersBecome ==
  ASSUME CartInv, NEW t \in ShopTabs, CatalogAnswers(t)
  PROVE  /\ cartTab[t].open /\ UNCHANGED <<stored, shop, edits, first, excused, overlap, missed>>
         /\ \/ Becomes(t, [cartTab[t] EXCEPT !.cache = shop, !.resolved = TRUE, !.fresh = TRUE])
            \/ Becomes(t, [cartTab[t] EXCEPT !.resolved = FALSE, !.fresh = TRUE])
  <1>1. cartTab[t].open /\ UNCHANGED <<stored, shop, edits, first, excused, overlap, missed>>
    BY DEF CatalogAnswers
  <1>2. CASE cartTab' = [cartTab EXCEPT ![t].cache = shop, ![t].resolved = TRUE, ![t].fresh = TRUE]
    BY <1>1, <1>2 DEF Becomes, CartInv, CartTyped
  <1>3. CASE cartTab' = [cartTab EXCEPT ![t].resolved = FALSE, ![t].fresh = TRUE]
    BY <1>1, <1>3 DEF Becomes, CartInv, CartTyped
  <1> QED BY <1>1, <1>2, <1>3 DEF CatalogAnswers

\* What the steps of the tabs are.
LEMMA TabSteps ==
  ASSUME CartInv, CartNext
  PROVE  \/ ShopChanges
         \/ \E t \in ShopTabs :
              \/ Open(t) /\ Becomes(t, [Closed EXCEPT !.open = TRUE, !.pending = stored])
              \/ Close(t) /\ Becomes(t, Closed)
              \/ CatalogAnswers(t)
              \/ Renders(t)
              \/ StorageEvent(t) /\ Becomes(t, Heard(cartTab[t], Head(cartTab[t].inbox)))
              \/ \E c : EditsTo(t, c)
  <1>1. DOMAIN cartTab = ShopTabs
    BY DEF CartInv, CartTyped
  <1>2. \A t \in ShopTabs : Open(t) => Becomes(t, [Closed EXCEPT !.open = TRUE, !.pending = stored])
    BY <1>1 DEF Open, Becomes
  <1>3. \A t \in ShopTabs : Close(t) => Becomes(t, Closed)
    BY <1>1 DEF Close, Becomes
  <1>4. \A t \in ShopTabs : StorageEvent(t) => Becomes(t, Heard(cartTab[t], Head(cartTab[t].inbox)))
    BY <1>1 DEF StorageEvent, Becomes
  <1> QED BY <1>2, <1>3, <1>4, CommitRenders, EditsGive DEF CartNext

LEMMA TabsSound ==
  ASSUME CartInv, CartNext
  PROVE  CartTyped' /\ \A t \in ShopTabs : TabSound(cartTab'[t])
  <1>1. /\ DOMAIN cartTab = ShopTabs /\ stored \in GoodCarts \cup {NoEntry} /\ shop \in Catalogs
        /\ edits \in 0..MaxEdits /\ first \in [Products -> 0..Max] /\ overlap \in BOOLEAN /\ missed \in BOOLEAN
        /\ \A t \in ShopTabs : TabSound(cartTab[t])
        /\ CartTyped
    BY DEF CartInv, CartTyped
  <1>2. CASE ShopChanges
    <2>1. shop' \in Catalogs
      BY <1>1, <1>2 DEF ShopChanges, Catalogs
    <2> QED BY <1>1, <1>2, <2>1 DEF ShopChanges, CartTyped
  <1>3. ASSUME NEW t \in ShopTabs, Open(t), Becomes(t, [Closed EXCEPT !.open = TRUE, !.pending = stored])
        PROVE  CartTyped' /\ \A u \in ShopTabs : TabSound(cartTab'[u])
    BY <1>1, <1>3, OpenedSound DEF Open, Becomes, CartTyped
  <1>4. ASSUME NEW t \in ShopTabs, Close(t), Becomes(t, Closed)
        PROVE  CartTyped' /\ \A u \in ShopTabs : TabSound(cartTab'[u])
    <2>1. missed' \in BOOLEAN
      BY <1>1, <1>4, TabFields DEF Close, TabSound
    <2> QED BY <1>1, <1>4, <2>1, ClosedSound DEF Close, Becomes, CartTyped
  <1>5. ASSUME NEW t \in ShopTabs, CatalogAnswers(t)
        PROVE  CartTyped' /\ \A u \in ShopTabs : TabSound(cartTab'[u])
    <2>1. cartTab[t].open /\ UNCHANGED <<stored, shop, edits, first, excused, overlap, missed>>
      BY <1>5, AnswersBecome
    <2>2. ASSUME NEW d, TabSound(d), Becomes(t, d)
          PROVE  CartTyped' /\ \A u \in ShopTabs : TabSound(cartTab'[u])
      BY <1>1, <2>1, <2>2 DEF Becomes, CartTyped
    <2> QED BY <1>1, <1>5, <2>1, <2>2, AnswersBecome, AnsweredSound
  <1>6. ASSUME NEW t \in ShopTabs, Renders(t)
        PROVE  CartTyped' /\ \A u \in ShopTabs : TabSound(cartTab'[u])
    <2> DEFINE b == cartTab[t]  d == Rendered(b)
    <2>1. /\ TabSound(b) /\ b.open /\ TabSound(d) /\ b.cart \in GoodCarts
          /\ overlap' = (overlap \/ (d.changed /\ Crossing(t)))
      BY <1>1, <1>6, RenderedSound, TabFields DEF Renders, TabSound
    <2>2. stored' \in GoodCarts \cup {NoEntry} /\ overlap' \in BOOLEAN
      BY <1>1, <1>6, <2>1 DEF Renders
    <2>3. ASSUME NEW u \in ShopTabs, u # t PROVE TabSound(cartTab'[u])
      BY <1>1, <1>6, <2>1, <2>3, ToldSound DEF Renders
    <2> HIDE DEF d
    <2> QED BY <1>1, <1>6, <2>1, <2>2, <2>3 DEF Renders, CartTyped, d
  <1>7. ASSUME NEW t \in ShopTabs, StorageEvent(t), Becomes(t, Heard(cartTab[t], Head(cartTab[t].inbox)))
        PROVE  CartTyped' /\ \A u \in ShopTabs : TabSound(cartTab'[u])
    <2>1. TabSound(Heard(cartTab[t], Head(cartTab[t].inbox)))
      BY <1>1, <1>7, HeardSound DEF StorageEvent
    <2>2. missed' \in BOOLEAN
      BY <1>1, <1>7, TabFields DEF StorageEvent, TabSound
    <2> QED BY <1>1, <1>7, <2>1, <2>2 DEF StorageEvent, Becomes, CartTyped
  <1>8. ASSUME NEW t \in ShopTabs, NEW c, EditsTo(t, c)
        PROVE  CartTyped' /\ \A u \in ShopTabs : TabSound(cartTab'[u])
    <2> DEFINE b == cartTab[t]
    <2>1. /\ TabSound(b) /\ b.open /\ c \in GoodCarts /\ edits' \in 0..MaxEdits
          /\ overlap' = (overlap \/ Crossing(t) \/ ~b.hydrated)
      BY <1>1, <1>8, CartsApart DEF EditsTo
    <2>2. b.cart.lines \in [Products -> 0..Max]
      BY <2>1, TabFields DEF TabSound, GoodCarts, Carts
    <2>3. \A p \in Products : b.view[p] = Gone /\ b.cart.lines[p] = 0 => c.lines[p] = 0
      BY <1>8, <2>2 DEF EditsTo
    <2>4. TabSound([b EXCEPT !.cart = c, !.changed = TRUE])
      BY <2>1, <2>3, EditedSound
    <2>5. overlap' \in BOOLEAN
      BY <1>1, <2>1
    <2> QED BY <1>1, <1>8, <2>1, <2>4, <2>5 DEF EditsTo, Becomes, CartTyped
  <1> QED BY <1>2, <1>3, <1>4, <1>5, <1>6, <1>7, <1>8, TabSteps

-----------------------------------------------------------------------------
(* The cart: no line disappears *)

LEMMA RenderedKeeps ==
  ASSUME NEW b, TabSound(b), b.open, NEW p \in Products, KeepsLine(b, p)
  PROVE  KeepsLine(Rendered(b), p)
  <1> DEFINE d == Rendered(b)
  <1>1. /\ b.cart \in GoodCarts /\ b.pending \in GoodCarts \cup {NoEntry} /\ b.cache \in Catalogs
    BY TabFields DEF TabSound
  <1>2. /\ d.open /\ d.view = b.cache /\ d.cache = b.cache /\ d.resolved = b.resolved /\ d.inbox = b.inbox
        /\ \/ d.cart = b.cart /\ d.hydrated = b.hydrated /\ d.pending = b.pending
           \/ /\ b.fresh /\ ~b.hydrated /\ b.resolved
              /\ d.hydrated /\ d.cart = Normalised(b.pending, b.cache)
           \/ /\ b.hydrated /\ d.hydrated /\ d.cart = Normalised(b.cart, b.cache)
    BY RenderedFields
  <1>3. b.hydrated \/ b.resolved => b.cache[p] # Gone
    BY DEF KeepsLine
  <1>4. /\ b.cache[p] # Gone /\ b.pending # NoEntry => Normalised(b.pending, b.cache).lines[p] = b.pending.lines[p]
        /\ b.cache[p] # Gone => Normalised(b.cart, b.cache).lines[p] = b.cart.lines[p]
    BY <1>1, NormalisedGood, CartsApart
  <1> HIDE DEF d
  <1>5. KeepsLine(d, p)
    BY <1>2, <1>3, <1>4 DEF KeepsLine
  <1> QED BY <1>5 DEF d

LEMMA HeardKeeps ==
  ASSUME NEW b, TabSound(b), b.open, b.inbox # <<>>, NEW p \in Products, KeepsLine(b, p)
  PROVE  KeepsLine(Heard(b, Head(b.inbox)), p)
  <1> DEFINE c == Head(b.inbox)  d == Heard(b, c)
  <1>1. b.view \in Catalogs /\ b.inbox \in Seq(GoodCarts)
    BY TabFields DEF TabSound
  <1>2. /\ c \in GoodCarts /\ d.open /\ d.view = b.view /\ d.cache = b.cache /\ d.resolved = b.resolved
        /\ d.inbox = Tail(b.inbox) /\ d.hydrated = b.hydrated /\ (~b.hydrated => d.pending = c)
        /\ \/ d.cart = b.cart
           \/ b.hydrated /\ d.cart = Normalised(c, b.view)
    BY HeardFields
  <1>3. /\ Len(Tail(b.inbox)) = Len(b.inbox) - 1 /\ Len(b.inbox) \in Nat /\ Len(b.inbox) >= 1 /\ c = b.inbox[1]
        /\ \A i \in 1..Len(Tail(b.inbox)) : Tail(b.inbox)[i] = b.inbox[i + 1]
    BY <1>1
  <1>4. c.lines[p] > 0 /\ c # NoEntry /\ \A i \in 1..Len(Tail(b.inbox)) : Tail(b.inbox)[i].lines[p] > 0
    BY <1>2, <1>3, CartsApart DEF KeepsLine
  <1>5. b.view[p] # Gone => Normalised(c, b.view).lines[p] = c.lines[p]
    BY <1>1, <1>2, <1>4, NormalisedGood
  <1> HIDE DEF c, d
  <1>6. KeepsLine(d, p)
    BY <1>2, <1>4, <1>5 DEF KeepsLine
  <1> QED BY <1>6 DEF c, d

LEMMA LinesStay ==
  ASSUME CartInv, CartNext
  PROVE  LinesKept'
  <1> SUFFICES ASSUME NEW p \in Products, first'[p] > 0, p \notin excused'
               PROVE  /\ stored' # NoEntry /\ stored'.lines[p] > 0 /\ shop'[p] # Gone
                      /\ \A t \in ShopTabs : KeepsLine(cartTab'[t], p)
    BY DEF LinesKept
  <1>0. first' = first /\ excused \subseteq excused'
    <2>1. ASSUME NEW t \in ShopTabs, CatalogAnswers(t) PROVE first' = first /\ excused \subseteq excused'
      BY <2>1, AnswersBecome
    <2> QED BY <2>1, TabSteps DEF ShopChanges, Open, Close, Renders, StorageEvent, EditsTo
  <1>1. /\ stored # NoEntry /\ stored.lines[p] > 0 /\ shop[p] # Gone
        /\ \A t \in ShopTabs : KeepsLine(cartTab[t], p) /\ TabSound(cartTab[t])
    BY <1>0 DEF LinesKept, CartInv
  <1> DEFINE Goal == /\ stored' # NoEntry /\ stored'.lines[p] > 0 /\ shop'[p] # Gone
                     /\ \A t \in ShopTabs : KeepsLine(cartTab'[t], p)
  <1>2. CASE ShopChanges
    BY <1>1, <1>2 DEF ShopChanges
  <1> HIDE DEF Goal
  <1>b. ASSUME NEW t \in ShopTabs, NEW d, Becomes(t, d), KeepsLine(d, p), UNCHANGED <<stored, shop>>
        PROVE  Goal
    BY <1>1, <1>b DEF Becomes, Goal
  <1>3. ASSUME NEW t \in ShopTabs, Open(t), Becomes(t, [Closed EXCEPT !.open = TRUE, !.pending = stored])
        PROVE  Goal
    <2>1. KeepsLine([Closed EXCEPT !.open = TRUE, !.pending = stored], p)
      BY <1>1 DEF KeepsLine, Closed
    <2> QED BY <1>3, <1>b, <2>1 DEF Open
  <1>4. ASSUME NEW t \in ShopTabs, Close(t), Becomes(t, Closed)
        PROVE  Goal
    <2>1. KeepsLine(Closed, p)
      BY DEF KeepsLine, Closed
    <2> QED BY <1>4, <1>b, <2>1 DEF Close
  <1>5. ASSUME NEW t \in ShopTabs, CatalogAnswers(t)
        PROVE  Goal
    <2> DEFINE b == cartTab[t]
               d == [b EXCEPT !.cache = shop, !.resolved = TRUE, !.fresh = TRUE]
               e == [b EXCEPT !.resolved = FALSE, !.fresh = TRUE]
    <2>1. b \in TabRecords /\ KeepsLine(b, p)
      BY <1>1 DEF TabSound
    <2>2. /\ d.open = b.open /\ d.cache = shop /\ d.hydrated = b.hydrated /\ d.view = b.view
          /\ d.cart = b.cart /\ d.pending = b.pending /\ d.inbox = b.inbox
      BY <2>1 DEF TabRecords
    <2>3. /\ e.open = b.open /\ e.cache = b.cache /\ e.hydrated = b.hydrated /\ e.view = b.view
          /\ e.cart = b.cart /\ e.pending = b.pending /\ e.inbox = b.inbox /\ ~e.resolved
      BY <2>1 DEF TabRecords
    <2> HIDE DEF d, e, b
    <2>4. KeepsLine(d, p) /\ KeepsLine(e, p)
      BY <1>1, <2>1, <2>2, <2>3 DEF KeepsLine
    <2> QED BY <1>5, <1>b, <2>4, AnswersBecome DEF d, e, b
  <1>6. ASSUME NEW t \in ShopTabs, Renders(t)
        PROVE  Goal
    <2> DEFINE b == cartTab[t]
    <2>1. b.open /\ TabSound(b) /\ KeepsLine(b, p) /\ cartTab'[t] = Rendered(b) /\ shop' = shop
      BY <1>1, <1>6 DEF Renders
    <2>2. b.cart \in GoodCarts /\ b.cart # NoEntry
      BY <2>1, TabFields, CartsApart DEF TabSound
    <2>3. KeepsLine(cartTab'[t], p)
      BY <2>1, RenderedKeeps
    <2>4. Persists(b) => b.cart.lines[p] > 0
      BY <2>1 DEF Persists, KeepsLine
    <2>5. ASSUME NEW u \in ShopTabs, u # t PROVE KeepsLine(cartTab'[u], p)
      <3> DEFINE o == cartTab[u]  d == [o EXCEPT !.inbox = Append(@, b.cart)]
      <3>1. /\ o \in TabRecords /\ o.inbox \in Seq(GoodCarts) /\ KeepsLine(o, p)
            /\ cartTab'[u] = o \/ (Persists(b) /\ cartTab'[u] = d)
        BY <1>1, <1>6, <2>5, TabFields DEF TabSound, Renders
      <3>2. /\ d.open = o.open /\ d.cache = o.cache /\ d.hydrated = o.hydrated /\ d.view = o.view
            /\ d.resolved = o.resolved /\ d.cart = o.cart /\ d.pending = o.pending /\ d.inbox = Append(o.inbox, b.cart)
        BY <3>1 DEF TabRecords
      <3>3. ASSUME Persists(b) PROVE \A i \in 1..Len(Append(o.inbox, b.cart)) : Append(o.inbox, b.cart)[i].lines[p] > 0
        BY <2>4, <3>1, <3>3 DEF KeepsLine
      <3> HIDE DEF d, o
      <3>4. Persists(b) => KeepsLine(d, p)
        BY <3>1, <3>2, <3>3 DEF KeepsLine
      <3> QED BY <3>1, <3>4
    <2>6. stored' # NoEntry /\ stored'.lines[p] > 0
      BY <1>1, <1>6, <2>2, <2>4 DEF Renders
    <2> QED BY <1>1, <2>1, <2>3, <2>5, <2>6 DEF Goal
  <1>7. ASSUME NEW t \in ShopTabs, StorageEvent(t), Becomes(t, Heard(cartTab[t], Head(cartTab[t].inbox)))
        PROVE  Goal
    BY <1>1, <1>7, <1>b, HeardKeeps DEF StorageEvent
  <1>8. ASSUME NEW t \in ShopTabs, NEW c, EditsTo(t, c)
        PROVE  Goal
    <2> DEFINE b == cartTab[t]  d == [b EXCEPT !.cart = c, !.changed = TRUE]
    <2>1. b \in TabRecords /\ KeepsLine(b, p) /\ c \in GoodCarts /\ b.cart \in GoodCarts
      BY <1>1, <1>8, TabFields DEF TabSound, EditsTo
    <2>2. /\ d.open = b.open /\ d.cache = b.cache /\ d.hydrated = b.hydrated /\ d.view = b.view
          /\ d.cart = c /\ d.pending = b.pending /\ d.inbox = b.inbox /\ d.resolved = b.resolved
      BY <2>1 DEF TabRecords
    <2>3. c.lines[p] \in Nat /\ b.cart.lines[p] \in Nat
      BY <2>1, CartsApart DEF GoodCarts, Carts
    <2>4. b.hydrated => c.lines[p] > 0
      BY <1>8, <2>1, <2>3 DEF EditsTo, KeepsLine
    <2> HIDE DEF d, b
    <2>5. KeepsLine(d, p)
      BY <2>1, <2>2, <2>4 DEF KeepsLine
    <2> QED BY <1>8, <1>b, <2>5 DEF EditsTo, d, b
  <1> QED BY <1>2, <1>3, <1>4, <1>5, <1>6, <1>7, <1>8, TabSteps DEF Goal

-----------------------------------------------------------------------------
(* The cart: tabs edited in turn agree *)

\* What a tab follows depends on these fields.
LEMMA SameFollowing ==
  ASSUME NEW b, NEW d, NEW entry, NEW n,
         d.open = b.open, d.changed = b.changed, d.skip = b.skip, d.hydrated = b.hydrated,
         d.inbox = b.inbox, d.cart = b.cart, d.pending = b.pending
  PROVE  (Author(d) <=> Author(b)) /\ (Follows(b, entry, n) => Follows(d, entry, n))
  BY DEF Author, Follows

LEMMA ClosedFollows ==
  ASSUME NEW entry, NEW n
  PROVE  ~Author(Closed) /\ Follows(Closed, entry, n)
  BY DEF Author, Follows, Closed

LEMMA LatestNormalised ==
  ASSUME NEW c \in GoodCarts \cup {NoEntry}, NEW catalog \in Catalogs, NEW n, Latest(c, n)
  PROVE  Latest(Normalised(c, catalog), n)
  BY NormalisedGood, CartsApart DEF Latest

\* An event heard in turn brings the stored cart when it is the last one.
LEMMA HeardFollows ==
  ASSUME NEW b, TabSound(b), b.open, b.inbox # <<>>, NEW entry, NEW n, Follows(b, entry, n),
         b.hydrated => Heard(b, Head(b.inbox)).cart = Head(b.inbox)
  PROVE  ~Author(b) /\ ~Author(Heard(b, Head(b.inbox))) /\ Follows(Heard(b, Head(b.inbox)), entry, n)
  <1> DEFINE c == Head(b.inbox)  d == Heard(b, c)
  <1>1. b.inbox \in Seq(GoodCarts)
    BY TabFields DEF TabSound
  <1>2. /\ d.open /\ d.inbox = Tail(b.inbox) /\ d.hydrated = b.hydrated /\ (~b.hydrated => d.pending = c)
        /\ (b.hydrated => d.cart = c)
        /\ \/ d.cart = b.cart /\ d.skip = b.skip /\ d.changed = b.changed
           \/ b.hydrated /\ d.skip /\ d.changed
    BY HeardFields
  <1>3. ~Author(b) /\ b.inbox[Len(b.inbox)] = entry
    BY DEF Follows
  <1>4. CASE Tail(b.inbox) = <<>>
    <2>1. Len(b.inbox) \in Nat /\ Len(Tail(b.inbox)) = Len(b.inbox) - 1 /\ Len(Tail(b.inbox)) = 0 /\ c = b.inbox[1]
      <3>1. Len(b.inbox) \in Nat /\ Len(b.inbox) > 0
        BY <1>1, EmptySeq, LenProperties
      <3>2. Len(Tail(b.inbox)) = Len(b.inbox) - 1
        BY <1>1, HeadTailProperties
      <3>3. Len(Tail(b.inbox)) = 0
        <4>1. Len(<<>>) = 0
          BY EmptySeq
        <4> QED BY <1>4, <4>1
      <3> HIDE DEF d
      <3> QED BY <3>1, <3>2, <3>3
    <2>2. c = entry
      BY <1>3, <2>1
    <2> HIDE DEF c, d
    <2>3. ~Author(d) /\ Follows(d, entry, n)
      BY <1>2, <1>3, <1>4, <2>2 DEF Author, Follows
    <2> QED BY <1>3, <2>3 DEF c, d
  <1>5. CASE Tail(b.inbox) # <<>>
    <2>1. Tail(b.inbox)[Len(Tail(b.inbox))] = entry
      BY <1>1, <1>3, <1>5
    <2> HIDE DEF c, d
    <2>2. ~Author(d) /\ Follows(d, entry, n)
      BY <1>2, <1>3, <1>5, <2>1 DEF Author, Follows
    <2> QED BY <1>3, <2>2 DEF c, d
  <1> QED BY <1>4, <1>5

\* A tab that hears of a stored cart has it last in its inbox.
LEMMA ToldFollows ==
  ASSUME NEW b \in TabRecords, ~Author(b), NEW n, NEW entry, Follows(b, entry, n), NEW c \in GoodCarts
  PROVE  LET d == [b EXCEPT !.inbox = Append(@, c)] IN ~Author(d) /\ Follows(d, c, n)
  <1> DEFINE d == [b EXCEPT !.inbox = Append(@, c)]
  <1>1. b.inbox \in Seq(GoodCarts)
    BY TabFields
  <1>2. /\ d.changed = b.changed /\ d.skip = b.skip /\ d.hydrated = b.hydrated /\ d.inbox = Append(b.inbox, c)
    BY DEF TabRecords
  <1>3. Append(b.inbox, c) # <<>> /\ Append(b.inbox, c)[Len(Append(b.inbox, c))] = c
    BY <1>1
  <1> HIDE DEF d
  <1>4. ~Author(d) /\ Follows(d, c, n)
    BY <1>2, <1>3 DEF Author, Follows
  <1> QED BY <1>4 DEF d

LEMMA InTurnStays ==
  ASSUME CartInv, CartNext
  PROVE  InTurn'
  <1> DEFINE Goal == /\ \A t, u \in ShopTabs : Author(cartTab'[t]) /\ Author(cartTab'[u]) => t = u
                     /\ \A t \in ShopTabs : Follows(cartTab'[t], stored', edits')
                     /\ (\A t \in ShopTabs : ~Author(cartTab'[t])) => Latest(stored', edits')
  <1> SUFFICES ASSUME ~overlap', ~missed' PROVE Goal
    BY DEF InTurn
  <1>0. ~overlap /\ ~missed
    <2>1. CASE ShopChanges
      BY <2>1 DEF ShopChanges
    <2>2. ASSUME NEW t \in ShopTabs, CatalogAnswers(t) PROVE ~overlap /\ ~missed
      BY <2>2, AnswersBecome
    <2>3. ASSUME NEW t \in ShopTabs, Renders(t) PROVE ~overlap /\ ~missed
      BY <2>3 DEF Renders
    <2>4. ASSUME NEW t \in ShopTabs, NEW c, EditsTo(t, c) PROVE ~overlap /\ ~missed
      BY <2>4 DEF EditsTo
    <2>5. ASSUME NEW t \in ShopTabs, Open(t) PROVE ~overlap /\ ~missed
      BY <2>5 DEF Open
    <2>6. ASSUME NEW t \in ShopTabs, Close(t) PROVE ~overlap /\ ~missed
      <3>1. overlap' = overlap /\ missed' = (missed \/ cartTab[t].changed)
        BY <2>6 DEF Close
      <3> QED BY <3>1
    <2>7. ASSUME NEW t \in ShopTabs, StorageEvent(t) PROVE ~overlap /\ ~missed
      <3>1. overlap' = overlap
            /\ missed' = (missed \/ (cartTab[t].hydrated /\ cartTab'[t].cart # Head(cartTab[t].inbox)))
        BY <2>7 DEF StorageEvent
      <3> QED BY <3>1
    <2> QED BY <2>1, <2>2, <2>3, <2>4, <2>5, <2>6, <2>7, TabSteps
  <1>1. /\ \A t, u \in ShopTabs : Author(cartTab[t]) /\ Author(cartTab[u]) => t = u
        /\ \A t \in ShopTabs : Follows(cartTab[t], stored, edits) /\ TabSound(cartTab[t])
        /\ (\A t \in ShopTabs : ~Author(cartTab[t])) => Latest(stored, edits)
        /\ stored \in GoodCarts \cup {NoEntry}
    BY <1>0 DEF CartInv, CartTyped, InTurn
  <1>2. CASE ShopChanges
    BY <1>1, <1>2 DEF ShopChanges
  <1> HIDE DEF Goal
  \* A step that leaves the stored cart and does not change who is the author.
  <1>b. ASSUME NEW t \in ShopTabs, NEW d, Becomes(t, d), UNCHANGED <<stored, edits>>,
               Follows(d, stored, edits), Author(d) <=> Author(cartTab[t])
        PROVE  Goal
    <2>1. \A u \in ShopTabs : Author(cartTab'[u]) <=> Author(cartTab[u])
      BY <1>b DEF Becomes
    <2>2. \A u \in ShopTabs : Follows(cartTab'[u], stored', edits')
      BY <1>1, <1>b DEF Becomes
    <2> QED BY <1>1, <1>b, <2>1, <2>2 DEF Goal
  \* A step after which tab t is the only author.
  <1>a. ASSUME NEW t \in ShopTabs, Author(cartTab'[t]), Follows(cartTab'[t], stored', edits'),
               \A u \in ShopTabs : u # t => ~Author(cartTab'[u]) /\ Follows(cartTab'[u], stored', edits')
        PROVE  Goal
    BY <1>a DEF Goal
  <1>3. ASSUME NEW t \in ShopTabs, Open(t), Becomes(t, [Closed EXCEPT !.open = TRUE, !.pending = stored])
        PROVE  Goal
    <2> DEFINE d == [Closed EXCEPT !.open = TRUE, !.pending = stored]
    <2>1. ~Author(d) /\ Follows(d, stored, edits)
      BY DEF Author, Follows, Closed
    <2>2. ~Author(cartTab[t])
      BY <1>1, <1>3, ClosedFollows DEF Open, TabSound
    <2> HIDE DEF d
    <2>3. Becomes(t, d) /\ UNCHANGED <<stored, edits>>
      BY <1>3 DEF Open, d
    <2> QED BY <1>b, <2>1, <2>2, <2>3
  <1>4. ASSUME NEW t \in ShopTabs, Close(t), Becomes(t, Closed)
        PROVE  Goal
    <2>1. ~Author(cartTab[t]) /\ UNCHANGED <<stored, edits>>
      BY <1>4 DEF Close, Author
    <2> QED BY <1>4, <1>b, <2>1, ClosedFollows
  <1>5. ASSUME NEW t \in ShopTabs, CatalogAnswers(t)
        PROVE  Goal
    <2> DEFINE b == cartTab[t]
               d == [b EXCEPT !.cache = shop, !.resolved = TRUE, !.fresh = TRUE]
               e == [b EXCEPT !.resolved = FALSE, !.fresh = TRUE]
    <2>1. b \in TabRecords /\ Follows(b, stored, edits)
      BY <1>1 DEF TabSound
    <2>2. /\ d.open = b.open /\ d.changed = b.changed /\ d.skip = b.skip /\ d.hydrated = b.hydrated
          /\ d.inbox = b.inbox /\ d.cart = b.cart /\ d.pending = b.pending
      BY <2>1 DEF TabRecords
    <2>3. /\ e.open = b.open /\ e.changed = b.changed /\ e.skip = b.skip /\ e.hydrated = b.hydrated
          /\ e.inbox = b.inbox /\ e.cart = b.cart /\ e.pending = b.pending
      BY <2>1 DEF TabRecords
    <2> HIDE DEF d, e
    <2>4. /\ Author(d) <=> Author(b)
          /\ Author(e) <=> Author(b)
          /\ Follows(d, stored, edits) /\ Follows(e, stored, edits)
      BY <2>1, <2>2, <2>3, SameFollowing
    <2> QED BY <1>5, <1>b, <2>4, AnswersBecome DEF d, e
  <1>6. ASSUME NEW t \in ShopTabs, Renders(t)
        PROVE  Goal
    <2> DEFINE b == cartTab[t]  d == Rendered(b)
    <2>1. /\ b.open /\ TabSound(b) /\ Follows(b, stored, edits) /\ cartTab'[t] = d /\ edits' = edits
          /\ d.changed => ~Crossing(t)
      BY <1>1, <1>6 DEF Renders
    <2>2. /\ b.cart \in GoodCarts /\ b.cart # NoEntry /\ b.pending \in GoodCarts \cup {NoEntry}
          /\ b.cache \in Catalogs /\ (b.skip => b.changed /\ b.hydrated)
      BY <2>1, TabFields, CartsApart DEF TabSound
    <2>3. /\ d.inbox = b.inbox /\ d.open
          /\ d.skip = (b.skip /\ ~(b.changed /\ b.hydrated))
          /\ \/ ~d.changed /\ d.cart = b.cart /\ d.hydrated = b.hydrated /\ d.pending = b.pending
             \/ /\ b.fresh /\ ~b.hydrated /\ b.resolved
                /\ d.changed /\ d.hydrated /\ d.cart = Normalised(b.pending, b.cache)
             \/ /\ b.fresh /\ b.hydrated /\ Normalised(b.cart, b.cache) # b.cart
                /\ d.changed /\ d.hydrated /\ d.cart = Normalised(b.cart, b.cache)
      BY <2>1, RenderedFields
    <2>4. Persists(b) <=> Author(b)
      BY <2>1 DEF Persists, Author, Follows
    <2>5. ~d.skip
      BY <2>2, <2>3
    <2> HIDE DEF d
    <2>6. CASE Author(b)
      <3>1. b.changed /\ b.hydrated /\ b.inbox = <<>> /\ Latest(b.cart, edits)
        BY <2>1, <2>6 DEF Follows, Author
      <3>2. stored' = b.cart
        BY <1>6, <2>4, <2>6 DEF Renders
      <3>3. ASSUME NEW u \in ShopTabs, u # t
            PROVE  ~Author(cartTab'[u]) /\ Follows(cartTab'[u], stored', edits')
        <4> DEFINE o == cartTab[u]
        <4>1. ~Author(o) /\ o \in TabRecords /\ Follows(o, stored, edits) /\ (~o.open => o = Closed)
          BY <1>1, <2>6, <3>3 DEF TabSound
        <4>2. CASE stored # b.cart /\ o.open
          <5>1. cartTab'[u] = [o EXCEPT !.inbox = Append(@, b.cart)]
            BY <1>6, <2>4, <2>6, <3>3, <4>2 DEF Renders
          <5> QED BY <2>1, <2>2, <3>2, <4>1, <5>1, ToldFollows
        <4>3. CASE ~o.open
          <5>1. cartTab'[u] = Closed
            BY <1>6, <3>3, <4>1, <4>3 DEF Renders
          <5> QED BY <5>1, ClosedFollows
        <4>4. CASE stored = b.cart
          <5>1. cartTab'[u] = o
            BY <1>6, <3>3, <4>4 DEF Renders
          <5> QED BY <2>1, <3>2, <4>1, <4>4, <5>1
        <4> QED BY <4>2, <4>3, <4>4
      <3>4. CASE d.changed
        <4>1. d.hydrated /\ d.cart = Normalised(b.cart, b.cache)
          BY <2>3, <3>1, <3>4
        <4>2. Latest(d.cart, edits)
          BY <2>2, <3>1, <4>1, LatestNormalised
        <4>3. Author(d) /\ Follows(d, stored', edits')
          BY <2>1, <2>3, <2>5, <3>1, <3>4, <4>1, <4>2 DEF Author, Follows
        <4> QED BY <1>a, <2>1, <3>3, <4>3
      <3>5. CASE ~d.changed
        <4>1. ~Author(d) /\ Follows(d, stored', edits')
          BY <2>3, <2>5, <3>1, <3>2, <3>5 DEF Author, Follows
        <4>2. Latest(stored', edits')
          BY <2>1, <3>1, <3>2
        <4> QED BY <2>1, <3>3, <4>1, <4>2 DEF Goal
      <3> QED BY <3>4, <3>5
    <2>7. CASE ~Author(b)
      <3>1. stored' = stored /\ Becomes(t, d)
        BY <1>6, <2>1, <2>4, <2>7 DEF Renders, Becomes
      <3>2. CASE d.changed
        <4>1. b.inbox = <<>> /\ \A u \in ShopTabs \ {t} : ~Author(cartTab[u])
          BY <2>1, <3>2 DEF Crossing, Author
        <4>2. Latest(stored, edits)
          BY <1>1, <2>7, <4>1
        <4>3. d.cart = Normalised(stored, b.cache)
          BY <2>1, <2>3, <2>7, <3>2, <4>1 DEF Follows
        <4>4. Latest(d.cart, edits) /\ d.hydrated
          BY <1>1, <2>2, <2>3, <3>2, <4>2, <4>3, LatestNormalised
        <4>5. Author(d) /\ Follows(d, stored', edits')
          BY <2>1, <2>3, <2>5, <3>2, <4>1, <4>4 DEF Author, Follows
        <4>6. ASSUME NEW u \in ShopTabs, u # t
              PROVE  ~Author(cartTab'[u]) /\ Follows(cartTab'[u], stored', edits')
          BY <1>1, <2>1, <3>1, <4>1, <4>6 DEF Becomes
        <4> QED BY <1>a, <2>1, <4>5, <4>6
      <3>3. CASE ~d.changed
        <4>1. ~Author(d) /\ Follows(d, stored, edits)
          BY <2>1, <2>3, <2>5, <2>7, <3>3 DEF Author, Follows
        <4> QED BY <1>b, <2>1, <2>7, <3>1, <4>1
      <3> QED BY <3>2, <3>3
    <2> QED BY <2>6, <2>7
  <1>7. ASSUME NEW t \in ShopTabs, StorageEvent(t), Becomes(t, Heard(cartTab[t], Head(cartTab[t].inbox)))
        PROVE  Goal
    <2> DEFINE b == cartTab[t]  d == Heard(b, Head(b.inbox))
    <2>1. /\ b.open /\ b.inbox # <<>> /\ TabSound(b) /\ Follows(b, stored, edits)
          /\ UNCHANGED <<stored, edits>>
          /\ b.hydrated => d.cart = Head(b.inbox)
      BY <1>1, <1>7 DEF StorageEvent, Becomes
    <2>2. ~Author(b) /\ ~Author(d) /\ Follows(d, stored, edits)
      BY <2>1, HeardFollows
    <2> HIDE DEF d
    <2>3. Becomes(t, d)
      BY <1>7 DEF d
    <2> QED BY <1>b, <2>1, <2>2, <2>3
  <1>8. ASSUME NEW t \in ShopTabs, NEW c, EditsTo(t, c)
        PROVE  Goal
    <2> DEFINE b == cartTab[t]  d == [b EXCEPT !.cart = c, !.changed = TRUE]
    <2>1. /\ b \in TabRecords /\ c \in GoodCarts /\ c.at = edits' /\ stored' = stored /\ Becomes(t, d)
          /\ ~Crossing(t) /\ b.hydrated
      BY <1>1, <1>8 DEF TabSound, EditsTo
    <2>2. /\ d.changed /\ d.cart = c /\ d.hydrated /\ d.skip = b.skip /\ d.inbox = b.inbox
      BY <2>1 DEF TabRecords
    <2>3. b.inbox = <<>> /\ ~b.skip /\ \A u \in ShopTabs \ {t} : ~Author(cartTab[u])
      BY <2>1 DEF Crossing, Author
    <2>4. Latest(c, edits')
      BY <2>1, CartsApart DEF Latest
    <2> HIDE DEF d
    <2>5. Author(d) /\ Follows(d, stored', edits')
      BY <2>2, <2>3, <2>4 DEF Author, Follows
    <2>6. ASSUME NEW u \in ShopTabs, u # t
          PROVE  ~Author(cartTab'[u]) /\ Follows(cartTab'[u], stored', edits')
      BY <1>1, <2>1, <2>3, <2>6 DEF Becomes, Follows
    <2> QED BY <1>a, <2>1, <2>5, <2>6 DEF Becomes
  <1> QED BY <1>2, <1>3, <1>4, <1>5, <1>6, <1>7, <1>8, TabSteps

-----------------------------------------------------------------------------
(* The cart: what the steps establish together *)

LEMMA CartInitInv == CartInit => CartInv
  <1> SUFFICES ASSUME CartInit PROVE CartInv
    OBVIOUS
  <1>1. /\ cartTab = [t \in ShopTabs |-> Closed] /\ shop \in Catalogs /\ edits = 0
        /\ excused = {p \in Products : shop[p] = Gone} /\ overlap = FALSE /\ missed = FALSE
    BY DEF CartInit
  <1>2. PICK lines \in [Products -> 0..Max] :
          /\ Cardinality({p \in Products : lines[p] > 0}) <= MaxLines
          /\ stored \in {NoEntry, [lines |-> lines, at |-> 0]}
          /\ first = IF stored = NoEntry THEN Cleared ELSE lines
    BY DEF CartInit
  <1>3. Cleared \in [Products -> 0..Max] /\ \A p \in Products : Cleared[p] = 0
    BY CartsApart DEF Cleared
  <1>4. [lines |-> lines, at |-> 0] \in GoodCarts
    BY <1>2, CartsApart DEF GoodCarts, Carts, InCart
  <1>5. CartTyped
    <2>1. first \in [Products -> 0..Max] /\ stored \in GoodCarts \cup {NoEntry}
      BY <1>2, <1>3, <1>4
    <2>2. DOMAIN cartTab = ShopTabs /\ 0 \in 0..MaxEdits
      BY <1>1, CartsApart
    <2> QED BY <1>1, <2>1, <2>2 DEF CartTyped
  <1>6. \A t \in ShopTabs : TabSound(cartTab[t])
    BY <1>1, ClosedSound
  <1>7. LinesKept
    BY <1>1, <1>2, <1>3 DEF LinesKept, KeepsLine, Closed
  <1>8. InTurn
    BY <1>1, ClosedFollows DEF InTurn, Latest
  <1> QED BY <1>5, <1>6, <1>7, <1>8 DEF CartInv

LEMMA CartStepInv ==
  ASSUME CartInv, [CartNext]_cartVars
  PROVE  CartInv'
  <1>1. CASE CartNext
    BY <1>1, TabsSound, LinesStay, InTurnStays DEF CartInv
  <1>2. CASE UNCHANGED cartVars
    BY <1>2 DEF CartInv, cartVars, CartTyped, LinesKept, InTurn
  <1> QED BY <1>1, <1>2

LEMMA CartInvKeeps == CartInv => CartIsKept
  <1> SUFFICES ASSUME CartInv PROVE CartIsKept
    OBVIOUS
  <1>1. \A t \in ShopTabs : TabSound(cartTab[t]) /\ cartTab[t] \in TabRecords
    BY DEF CartInv, TabSound
  <1>2. CartTypeOK
    <2>1. GoodCarts \subseteq Carts /\ \A c \in GoodCarts : Cardinality(InCart(c)) <= MaxLines
      BY DEF GoodCarts
    <2>2. stored \in Carts \cup {NoEntry} /\ shop \in Catalogs
      BY <2>1 DEF CartInv, CartTyped
    <2>3. ASSUME NEW t \in ShopTabs
          PROVE  /\ cartTab[t].cart \in GoodCarts /\ cartTab[t].pending \in GoodCarts \cup {NoEntry}
                 /\ cartTab[t].cache \in Catalogs /\ cartTab[t].view \in Catalogs
                 /\ \A i \in 1..Len(cartTab[t].inbox) : cartTab[t].inbox[i] \in GoodCarts
      <3>1. cartTab[t].inbox \in Seq(GoodCarts)
        BY <1>1, TabFields
      <3>2. \A i \in 1..Len(cartTab[t].inbox) : cartTab[t].inbox[i] \in GoodCarts
        BY <3>1
      <3> QED BY <1>1, <3>2, TabFields
    <2> QED BY <2>1, <2>2, <2>3 DEF CartTypeOK
  <1>3. NothingDisappears
    BY DEF NothingDisappears, CartInv, LinesKept, KeepsLine
  <1>4. InTurnTheyAgree
    <2> SUFFICES ASSUME Quiet, ~overlap, ~missed
                 PROVE  Synchronised /\ (edits > 0 => stored.at = edits)
      BY DEF InTurnTheyAgree
    <2>1. \A t \in ShopTabs : ~Author(cartTab[t]) /\ cartTab[t].inbox = <<>>
      BY DEF Quiet, Author
    <2>2. Latest(stored, edits) /\ \A t \in ShopTabs : Follows(cartTab[t], stored, edits)
      BY <2>1 DEF CartInv, InTurn
    <2>3. ASSUME NEW t \in ShopTabs, cartTab[t].hydrated
          PROVE  cartTab[t].cart = Normalised(stored, cartTab[t].view)
      BY <1>1, <2>1, <2>2, <2>3 DEF Follows, TabSound
    <2> QED BY <2>2, <2>3 DEF Synchronised, Latest
  <1> QED BY <1>2, <1>3, <1>4 DEF CartIsKept

\* The invariant of the cart holds in every state.
THEOREM CartInvariance == CartSpec => []CartInv
  BY CartInitInv, CartStepInv, PTL DEF CartSpec

\* However the tabs of a browser, their storage events, the answers of the
\* catalogue and the buyer's edits interleave (CartContext.tsx), with any number
\* of tabs, products, edits and changes of the shop: no line disappears that was
\* not removed, and tabs edited in turn end up showing the last edit.
THEOREM CartIsAlwaysKept == CartSpec => []CartIsKept
  BY CartInvariance, CartInvKeeps, PTL

-----------------------------------------------------------------------------
(* The panel: the inductive invariant *)

Known      == Receipts \cup {None}
Calls      == [kind : {"idle", "mount", "create", "recover", "new", "checkout"}, answer : Known]
LoopCalls  == [kind : {"idle", "prepare", "read", "after"}, answer : Known]
Loops      == [call : LoopCalls, checks : 0..MaxChecks, state : {"watching", "paused", "error"},
               stopped : BOOLEAN, wait : 0..Interval]
PanelRecords ==
  [mounted : BOOLEAN, link : BOOLEAN, key : Keys \cup {None}, receipt : Known, op : Calls,
   needsRecovery : BOOLEAN, missingLink : BOOLEAN, url : BOOLEAN, error : BOOLEAN,
   continue : BOOLEAN, attempted : SUBSET Keys, since : 0..Interval \cup {None}, loop : Loops]
VisitRecords == [asked : SUBSET Keys, started : SUBSET Keys, gap : 0..Interval]

\* An answer is what the request of the panel was at some time since the receipt
\* on the screen; a request that is closed stays closed.
Past(b, a, q) ==
  a # None =>
    /\ b.key # None
    /\ a.version <= q[b.key].version /\ (a.status = "closed" => q[b.key].status = "closed")
    /\ b.receipt # None => b.receipt.version <= a.version

Told(b, q) ==
  /\ b.receipt # None => b.key # None /\ b.receipt.version <= q[b.key].version
  /\ Past(b, b.op.answer, q) /\ Past(b, b.loop.call.answer, q)

\* The refresh has a call on its way only while nothing else changes the panel.
Refreshing(b) ==
  /\ b.op.kind = "idle" => b.op = NoCall
  /\ b.loop.call.kind = "idle" => b.loop.call = NoCall
  /\ b.loop.call.kind # "idle" => b.op.kind = "idle" /\ ShouldWatch(b.receipt)
  /\ b.loop.call.kind \in {"prepare", "after"} => Direct(b.receipt) /\ b.since # None
  /\ b.loop.call.kind = "read" => ~Direct(b.receipt)
  /\ b.loop.stopped => b.loop.state # "watching"

\* What is left to wait, and what was waited since the last preparation.
Pacing(b, v) ==
  /\ b.since # None => v.gap = b.since
  /\ Direct(b.receipt) /\ b.loop.call.kind = "idle" /\ ~b.loop.stopped => v.gap + b.loop.wait >= Interval

\* What the panel does by itself was asked for, and once.
Asked(b, v) ==
  /\ v.started \subseteq b.attempted
  /\ b.continue => b.key \in v.asked

Leading(b) ==
  /\ b.receipt # None \/ b.op.kind \in {"mount", "create", "recover"} => b.needsRecovery
  /\ b.link /\ ~b.missingLink => b.needsRecovery
  /\ b.op.kind = "new" => ~b.link /\ b.attempted = {}
  /\ b.op.kind = "mount" => b.receipt = None
  /\ b.attempted # {} \/ b.op.kind = "checkout" \/ b.url =>
       /\ CanPay(b.receipt) /\ b.key \in b.attempted
       /\ b.op.kind = "checkout" \/ (b.op.kind = "idle" /\ (b.url \/ b.error))

PanelSound(b, v, q) ==
  /\ b \in PanelRecords /\ v \in VisitRecords
  /\ Told(b, q) /\ Refreshing(b) /\ Pacing(b, v) /\ Asked(b, v) /\ Leading(b)

\* Only the request of the browser's identity can still be under way.
Identities ==
  /\ active \in Keys \cup {None} /\ keysDrawn \in 0..MaxKeys /\ created \subseteq Keys
  /\ request \in [Keys -> Receipts]
  /\ \A k \in Keys : request[k] # Absent => k \in created
  /\ \A k \in created : k = active \/ request[k].status = "closed"

PanelInv ==
  /\ Identities /\ surprised = FALSE
  /\ DOMAIN panel = PanelTabs /\ DOMAIN visit = PanelTabs
  /\ \A t \in PanelTabs : PanelSound(panel[t], visit[t], request)

-----------------------------------------------------------------------------
(* The panel: its records *)

LEMMA PanelApart ==
  /\ MaxKeys \in Nat /\ MaxVersion \in Nat /\ MaxChecks \in Nat /\ Interval \in Nat
  /\ None \notin Nat /\ None \notin Keys /\ None \notin 0..Interval /\ None \notin Receipts
  /\ Absent \in Receipts /\ Absent.version = 0 /\ Absent.status = "absent"
  /\ NoCall \in Calls /\ NoCall \in LoopCalls /\ NoCall.kind = "idle" /\ NoCall.answer = None
  BY PanelAssumption DEF PanelAssumption, Keys, Receipts, Absent, Statuses, NoCall, Calls, LoopCalls, Known

LEMMA PanelFields ==
  ASSUME NEW b \in PanelRecords
  PROVE  /\ b.mounted \in BOOLEAN /\ b.link \in BOOLEAN /\ b.key \in Keys \cup {None} /\ b.receipt \in Known
         /\ b.op \in Calls /\ b.needsRecovery \in BOOLEAN /\ b.missingLink \in BOOLEAN /\ b.url \in BOOLEAN
         /\ b.error \in BOOLEAN /\ b.continue \in BOOLEAN /\ b.attempted \subseteq Keys
         /\ b.since \in 0..Interval \cup {None} /\ b.loop \in Loops
         /\ b.op.answer \in Known
         /\ b.op.kind \in {"idle", "mount", "create", "recover", "new", "checkout"}
         /\ b.loop.call \in LoopCalls /\ b.loop.checks \in 0..MaxChecks
         /\ b.loop.state \in {"watching", "paused", "error"} /\ b.loop.stopped \in BOOLEAN /\ b.loop.wait \in 0..Interval
         /\ b.loop.call.answer \in Known /\ b.loop.call.kind \in {"idle", "prepare", "read", "after"}
  <1>1. b.op \in Calls /\ b.loop \in Loops
    BY DEF PanelRecords
  <1>2. b.loop.call \in LoopCalls
    BY <1>1 DEF Loops
  <1> QED BY <1>1, <1>2 DEF PanelRecords, Calls, Loops, LoopCalls

\* The fields of a panel that the refresh and the receipt leave alone.
SameFace(b, d) ==
  /\ d.mounted = b.mounted /\ d.link = b.link /\ d.key = b.key /\ d.op = b.op
  /\ d.needsRecovery = b.needsRecovery /\ d.missingLink = b.missingLink /\ d.url = b.url /\ d.error = b.error
  /\ d.continue = b.continue /\ d.attempted = b.attempted /\ d.since = b.since

\* What the refresh is after it starts anew.
Anew(b, d) ==
  /\ d.loop.call = NoCall /\ ~d.loop.stopped
  /\ Direct(d.receipt) => d.loop.wait = IF b.since = None THEN Interval ELSE Interval - b.since

LEMMA WatchFields ==
  ASSUME NEW b \in PanelRecords
  PROVE  Watch(b) \in PanelRecords /\ SameFace(b, Watch(b)) /\ Watch(b).receipt = b.receipt /\ Anew(b, Watch(b))
  <1> DEFINE l == Watch(b).loop
             old == [NoLoop EXCEPT !.state = b.loop.state]
             w == IF ~Direct(b.receipt) THEN 0 ELSE IF b.since = None THEN Interval ELSE Interval - b.since
             new == [NoLoop EXCEPT !.wait = w]
  <1>1. /\ b.loop.state \in {"watching", "paused", "error"} /\ b.since \in 0..Interval \cup {None}
        /\ b.receipt \in Known
    BY PanelFields
  <1>2. w \in 0..Interval
    BY <1>1, PanelApart
  <1>3. NoLoop \in Loops
    BY PanelApart DEF NoLoop, Loops
  <1>4. old \in Loops /\ old.call = NoCall /\ ~old.stopped
    BY <1>1, <1>3 DEF Loops, NoLoop
  <1>5. new \in Loops /\ new.call = NoCall /\ ~new.stopped /\ new.wait = w
    BY <1>2, <1>3 DEF Loops, NoLoop
  <1> HIDE DEF old, new
  <1>6. Watch(b) = [b EXCEPT !.loop = IF ~ShouldWatch(b.receipt) THEN old ELSE new]
    BY DEF Watch, old, new
  <1>7. /\ Watch(b) \in PanelRecords /\ SameFace(b, Watch(b)) /\ Watch(b).receipt = b.receipt
        /\ Watch(b).loop = IF ~ShouldWatch(b.receipt) THEN old ELSE new
    BY <1>4, <1>5, <1>6 DEF PanelRecords, SameFace
  <1>8. Direct(b.receipt) => ShouldWatch(b.receipt)
    BY DEF Direct, ShouldWatch
  <1>9. Anew(b, Watch(b))
    BY <1>4, <1>5, <1>7, <1>8 DEF Anew
  <1> QED BY <1>7, <1>9

LEMMA ShownFields ==
  ASSUME NEW b \in PanelRecords, NEW r \in Receipts
  PROVE  LET d == Shown(b, r) IN
         /\ d \in PanelRecords /\ SameFace(b, d) /\ d.receipt = r
         /\ \/ /\ d.loop = b.loop
               /\ ShouldWatch(r) <=> ShouldWatch(b.receipt)
               /\ Direct(r) <=> Direct(b.receipt)
            \/ Anew(b, d)
  <1> DEFINE c == [b EXCEPT !.receipt = r]
  <1>1. c \in PanelRecords /\ SameFace(b, c) /\ c.receipt = r /\ c.loop = b.loop
    BY DEF PanelRecords, SameFace, Known
  <1> HIDE DEF c
  <1>2. CASE ShouldWatch(r) = ShouldWatch(b.receipt) /\ Direct(r) = Direct(b.receipt)
    <2>1. Shown(b, r) = c
      BY <1>2 DEF Shown, c
    <2> QED BY <1>1, <1>2, <2>1
  <1>3. CASE ~(ShouldWatch(r) = ShouldWatch(b.receipt) /\ Direct(r) = Direct(b.receipt))
    <2>1. Shown(b, r) = Watch(c)
      BY <1>3 DEF Shown, c
    <2>2. /\ Watch(c) \in PanelRecords /\ SameFace(c, Watch(c)) /\ Watch(c).receipt = c.receipt
          /\ Anew(c, Watch(c))
      BY <1>1, WatchFields
    <2>3. SameFace(b, Watch(c)) /\ Anew(b, Watch(c)) /\ Watch(c).receipt = r
      BY <1>1, <2>2 DEF SameFace, Anew
    <2> QED BY <2>1, <2>2, <2>3
  <1> QED BY <1>2, <1>3

LEMMA Unopened == Unmounted \in PanelRecords /\ NoVisit \in VisitRecords
  <1>1. NoLoop \in Loops
    BY PanelApart DEF NoLoop, Loops
  <1> QED BY <1>1, PanelApart DEF Unmounted, PanelRecords, NoVisit, VisitRecords, Known

-----------------------------------------------------------------------------
(* The panel: what one step does to one tab *)

Forward(b, d) ==
  b.receipt # None /\ d.receipt # None /\ b.key = d.key => d.receipt.version >= b.receipt.version
Spaced(b, v, d) ==
  d.loop.call.kind = "prepare" /\ b.loop.call = NoCall => v.gap = Interval

\* From panel b with history v to d with e.
GoesOn(b, v, d, e, q) == PanelSound(d, e, q) /\ Forward(b, d) /\ Spaced(b, v, d)

LEMMA Versions ==
  ASSUME NEW r \in Known, r # None
  PROVE  r \in Receipts /\ r.version \in Nat /\ r.version \in 0..MaxVersion
  BY PanelApart DEF Known, Receipts

LEMMA StaysSound ==
  ASSUME NEW b, NEW v, NEW q, PanelSound(b, v, q)
  PROVE  GoesOn(b, v, b, v, q)
  <1>1. b.receipt # None => b.receipt.version \in Nat
    BY PanelFields, Versions DEF PanelSound
  <1> QED BY <1>1, PanelApart DEF GoesOn, Forward, Spaced

\* A receipt is shown while nothing is on its way.
LEMMA ShownSound ==
  ASSUME NEW b, NEW v, NEW q \in [Keys -> Receipts], PanelSound(b, v, q), b.op = NoCall, b.loop.call = NoCall,
         b.attempted = {}, ~b.url, b.needsRecovery, b.key # None,
         NEW r \in Receipts, r.version <= q[b.key].version, b.receipt # None => b.receipt.version <= r.version
  PROVE  GoesOn(b, v, Shown(b, r), v, q)
  <1> DEFINE d == Shown(b, r)
  <1>1. b \in PanelRecords /\ v \in VisitRecords /\ r # None
    BY PanelApart DEF PanelSound
  <1>2. /\ d \in PanelRecords /\ SameFace(b, d) /\ d.receipt = r
        /\ \/ /\ d.loop = b.loop
              /\ ShouldWatch(r) <=> ShouldWatch(b.receipt)
              /\ Direct(r) <=> Direct(b.receipt)
           \/ Anew(b, d)
    BY <1>1, ShownFields
  <1>3. d.loop.call = NoCall /\ d.op = NoCall
    BY <1>2 DEF SameFace, Anew
  <1> HIDE DEF d
  <1>4. Told(d, q)
    BY <1>1, <1>2, <1>3, PanelApart DEF PanelSound, Told, Past, SameFace
  <1>5. Refreshing(d)
    BY <1>2, <1>3, PanelApart DEF PanelSound, Refreshing, Anew
  <1>6. Pacing(d, v)
    <2>1. v.gap \in 0..Interval /\ Interval \in Nat /\ b.since \in 0..Interval \cup {None}
      BY <1>1, PanelFields, PanelApart DEF VisitRecords
    <2>2. CASE Anew(b, d)
      BY <1>2, <2>1, <2>2 DEF PanelSound, Pacing, Anew, SameFace
    <2>3. CASE d.loop = b.loop /\ (Direct(r) <=> Direct(b.receipt))
      BY <1>2, <1>3, <2>3, PanelApart DEF PanelSound, Pacing, SameFace
    <2> QED BY <1>2, <2>2, <2>3
  <1>7. Asked(d, v)
    BY <1>2 DEF PanelSound, Asked, SameFace
  <1>8. Leading(d)
    BY <1>2, <1>3, PanelApart DEF PanelSound, Leading, SameFace
  <1>9. Forward(b, d) /\ Spaced(b, v, d)
    BY <1>2, <1>3, PanelApart, Versions DEF Forward, Spaced, Receipts
  <1> QED BY <1>1, <1>2, <1>4, <1>5, <1>6, <1>7, <1>8, <1>9 DEF GoesOn, PanelSound, d

\* The server answers the operation, or the refresh.
LEMMA ServeSound ==
  ASSUME NEW b, NEW v, NEW q \in [Keys -> Receipts], PanelSound(b, v, q), b.key # None
  PROVE  /\ Answered(b.op, b.key) => GoesOn(b, v, [b EXCEPT !.op.answer = q[b.key]], v, q)
         /\ Answered(b.loop.call, b.key) => GoesOn(b, v, [b EXCEPT !.loop.call.answer = q[b.key]], v, q)
  <1>1. /\ b \in PanelRecords /\ v \in VisitRecords /\ b.key \in Keys /\ q[b.key] \in Receipts
        /\ b.op \in Calls /\ b.loop \in Loops /\ b.loop.call \in LoopCalls
        /\ q[b.key] # None /\ q[b.key].version \in Nat
    BY PanelFields, PanelApart, Versions DEF PanelSound, Known
  <1>2. ASSUME Answered(b.op, b.key) PROVE GoesOn(b, v, [b EXCEPT !.op.answer = q[b.key]], v, q)
    <2> DEFINE o == [b.op EXCEPT !.answer = q[b.key]]
               d == [b EXCEPT !.op.answer = q[b.key]]
    <2>1. o \in Calls /\ o.kind = b.op.kind /\ o.answer = q[b.key]
      BY <1>1 DEF Calls, Known
    <2> HIDE DEF o
    <2>2. d = [b EXCEPT !.op = o]
      BY <1>1 DEF PanelRecords, o
    <2>3. /\ d \in PanelRecords /\ d.op = o /\ d.mounted = b.mounted /\ d.link = b.link /\ d.key = b.key
          /\ d.receipt = b.receipt /\ d.needsRecovery = b.needsRecovery /\ d.missingLink = b.missingLink
          /\ d.url = b.url /\ d.error = b.error /\ d.continue = b.continue /\ d.attempted = b.attempted
          /\ d.since = b.since /\ d.loop = b.loop
      BY <1>1, <2>1, <2>2 DEF PanelRecords
    <2> HIDE DEF d
    <2>4. Told(d, q)
      BY <1>1, <2>1, <2>3 DEF PanelSound, Told, Past
    <2>5. Refreshing(d) /\ Pacing(d, v) /\ Asked(d, v) /\ Leading(d)
      BY <1>2, <2>1, <2>3 DEF PanelSound, Refreshing, Pacing, Asked, Leading, Answered
    <2>6. Forward(b, d) /\ Spaced(b, v, d)
      BY <2>3, StaysSound DEF GoesOn, Forward, Spaced
    <2> QED BY <1>1, <2>3, <2>4, <2>5, <2>6 DEF GoesOn, PanelSound, d
  <1>3. ASSUME Answered(b.loop.call, b.key) PROVE GoesOn(b, v, [b EXCEPT !.loop.call.answer = q[b.key]], v, q)
    <2> DEFINE o == [b.loop.call EXCEPT !.answer = q[b.key]]
               l == [b.loop EXCEPT !.call = o]
               d == [b EXCEPT !.loop.call.answer = q[b.key]]
    <2>1. o \in LoopCalls /\ o.kind = b.loop.call.kind /\ o.answer = q[b.key] /\ o.kind # "idle"
      BY <1>1, <1>3 DEF LoopCalls, Known, Answered
    <2> HIDE DEF o
    <2>2. l \in Loops /\ l.call = o /\ l.stopped = b.loop.stopped /\ l.state = b.loop.state
      BY <1>1, <2>1 DEF Loops
    <2>3. d = [b EXCEPT !.loop = l]
      BY <1>1 DEF PanelRecords, Loops, l, o
    <2> HIDE DEF l
    <2>4. /\ d \in PanelRecords /\ d.op = b.op /\ d.mounted = b.mounted /\ d.link = b.link /\ d.key = b.key
          /\ d.receipt = b.receipt /\ d.needsRecovery = b.needsRecovery /\ d.missingLink = b.missingLink
          /\ d.url = b.url /\ d.error = b.error /\ d.continue = b.continue /\ d.attempted = b.attempted
          /\ d.since = b.since /\ d.loop = l
      BY <1>1, <2>2, <2>3 DEF PanelRecords
    <2> HIDE DEF d
    <2>5. Told(d, q)
      BY <1>1, <2>1, <2>2, <2>4 DEF PanelSound, Told, Past
    <2>6. Refreshing(d) /\ Pacing(d, v) /\ Asked(d, v) /\ Leading(d)
      BY <2>1, <2>2, <2>4 DEF PanelSound, Refreshing, Pacing, Asked, Leading
    <2>7. b.loop.call # NoCall
      BY <2>1, PanelApart
    <2>8. Forward(b, d) /\ Spaced(b, v, d)
      BY <2>4, <2>7, StaysSound DEF GoesOn, Forward, Spaced
    <2> QED BY <1>1, <2>4, <2>5, <2>6, <2>8 DEF GoesOn, PanelSound, d
  <1> QED BY <1>2, <1>3

\* A section that has just been mounted, or is not.
LEMMA FreshSound ==
  ASSUME NEW b, NEW v, NEW q, NEW d \in PanelRecords,
         d.receipt = None, d.op \in {NoCall, Call("mount")}, d.loop = NoLoop, d.since = None,
         ~d.continue, d.attempted = {}, ~d.url,
         d.link \/ d.op = Call("mount") => d.needsRecovery
  PROVE  GoesOn(b, v, d, NoVisit, q)
  <1>1. /\ d.loop.call = NoCall /\ ~d.loop.stopped /\ d.op.answer = None /\ d.op.kind \in {"idle", "mount"}
        /\ d.op.kind = "mount" => d.op = Call("mount")
        /\ d.op.kind = "idle" => d.op = NoCall
    BY PanelApart DEF NoLoop, Call, NoCall
  <1>2. NoVisit \in VisitRecords /\ NoVisit.started = {}
    BY Unopened DEF NoVisit
  <1>3. ~Direct(d.receipt) /\ ~ShouldWatch(d.receipt)
    BY DEF Direct, ShouldWatch
  <1>4. Told(d, q) /\ Refreshing(d)
    BY <1>1, <1>3, PanelApart DEF Told, Past, Refreshing
  <1>5. Pacing(d, NoVisit) /\ Asked(d, NoVisit) /\ Leading(d)
    BY <1>1, <1>2, <1>3 DEF Pacing, Asked, Leading
  <1>6. Forward(b, d) /\ Spaced(b, v, d)
    BY <1>1, PanelApart DEF Forward, Spaced
  <1> QED BY <1>2, <1>4, <1>5, <1>6 DEF GoesOn, PanelSound

\* An operation that ends leaves the refresh as it was: it does not run.
LEMMA EndSound ==
  ASSUME NEW b, NEW v, NEW q, PanelSound(b, v, q), b.op.kind \in {"mount", "create", "recover", "new"}
  PROVE  LET c == [b EXCEPT !.op = NoCall] IN
         /\ PanelSound(c, v, q) /\ c.op = NoCall /\ c.loop.call = NoCall /\ c.loop = b.loop
         /\ c.attempted = {} /\ ~c.url
         /\ c.key = b.key /\ c.receipt = b.receipt /\ c.needsRecovery = b.needsRecovery /\ c.link = b.link
         /\ b.op.kind # "new" => c.needsRecovery
  <1> DEFINE c == [b EXCEPT !.op = NoCall]
  <1>1. b \in PanelRecords /\ v \in VisitRecords
    BY DEF PanelSound
  <1>2. /\ c \in PanelRecords /\ c.op = NoCall /\ c.mounted = b.mounted /\ c.link = b.link /\ c.key = b.key
        /\ c.receipt = b.receipt /\ c.needsRecovery = b.needsRecovery /\ c.missingLink = b.missingLink
        /\ c.url = b.url /\ c.error = b.error /\ c.continue = b.continue /\ c.attempted = b.attempted
        /\ c.since = b.since /\ c.loop = b.loop
    BY <1>1, PanelApart DEF PanelRecords
  <1> HIDE DEF c
  <1>3. b.attempted = {} /\ ~b.url /\ (b.op.kind # "new" => b.needsRecovery)
    BY DEF PanelSound, Leading
  <1>4. Told(c, q) /\ Refreshing(c) /\ Pacing(c, v) /\ Asked(c, v)
    BY <1>2, PanelApart DEF PanelSound, Told, Past, Refreshing, Pacing, Asked
  <1>5. Leading(c)
    BY <1>2, <1>3, PanelApart DEF PanelSound, Leading
  <1>6. b.loop.call = NoCall
    BY PanelApart DEF PanelSound, Refreshing
  <1> QED BY <1>1, <1>2, <1>3, <1>4, <1>5, <1>6 DEF PanelSound, c

LEMMA EndedFields ==
  ASSUME NEW c, NEW v, NEW q, PanelSound(c, v, q), c.op = NoCall, c.loop.call = NoCall, c.attempted = {}, ~c.url
  PROVE  /\ GoesOn(c, v, [c EXCEPT !.error = TRUE], v, q)
         /\ c.link => GoesOn(c, v, [c EXCEPT !.missingLink = TRUE], v, q)
         /\ ~c.link /\ c.receipt = None => GoesOn(c, v, [c EXCEPT !.needsRecovery = FALSE], v, q)
  <1>1. c \in PanelRecords /\ v \in VisitRecords /\ Forward(c, c) /\ Spaced(c, v, c)
    BY StaysSound DEF PanelSound, GoesOn
  <1>2. ASSUME NEW d \in PanelRecords, d.op = NoCall, d.link = c.link, d.key = c.key, d.receipt = c.receipt,
               d.url = c.url, d.continue = c.continue, d.attempted = c.attempted, d.since = c.since, d.loop = c.loop,
               \/ d.needsRecovery = c.needsRecovery /\ (c.missingLink => d.missingLink)
               \/ ~c.link /\ c.receipt = None
        PROVE  GoesOn(c, v, d, v, q)
    <2>1. Told(d, q) /\ Refreshing(d) /\ Pacing(d, v) /\ Asked(d, v)
      BY <1>2, PanelApart DEF PanelSound, Told, Past, Refreshing, Pacing, Asked
    <2>2. Leading(d)
      BY <1>2, PanelApart DEF PanelSound, Leading
    <2>3. Forward(c, d) /\ Spaced(c, v, d)
      BY <1>1, <1>2, PanelApart DEF Forward, Spaced
    <2> QED BY <1>1, <1>2, <2>1, <2>2, <2>3 DEF GoesOn, PanelSound
  <1>3. GoesOn(c, v, [c EXCEPT !.error = TRUE], v, q)
    <2> DEFINE d == [c EXCEPT !.error = TRUE]
    <2>1. /\ d \in PanelRecords /\ d.op = NoCall /\ d.link = c.link /\ d.key = c.key /\ d.receipt = c.receipt
          /\ d.url = c.url /\ d.continue = c.continue /\ d.attempted = c.attempted /\ d.since = c.since
          /\ d.loop = c.loop /\ d.needsRecovery = c.needsRecovery /\ d.missingLink = c.missingLink
      BY <1>1 DEF PanelRecords
    <2> HIDE DEF d
    <2>2. GoesOn(c, v, d, v, q)
      BY <1>2, <2>1
    <2> QED BY <2>2 DEF d
  <1>4. ASSUME c.link PROVE GoesOn(c, v, [c EXCEPT !.missingLink = TRUE], v, q)
    <2> DEFINE d == [c EXCEPT !.missingLink = TRUE]
    <2>1. /\ d \in PanelRecords /\ d.op = NoCall /\ d.link = c.link /\ d.key = c.key /\ d.receipt = c.receipt
          /\ d.url = c.url /\ d.continue = c.continue /\ d.attempted = c.attempted /\ d.since = c.since
          /\ d.loop = c.loop /\ d.needsRecovery = c.needsRecovery /\ d.missingLink
      BY <1>1 DEF PanelRecords
    <2> HIDE DEF d
    <2>2. GoesOn(c, v, d, v, q)
      BY <1>2, <2>1
    <2> QED BY <2>2 DEF d
  <1>5. ASSUME ~c.link, c.receipt = None PROVE GoesOn(c, v, [c EXCEPT !.needsRecovery = FALSE], v, q)
    <2> DEFINE d == [c EXCEPT !.needsRecovery = FALSE]
    <2>1. /\ d \in PanelRecords /\ d.op = NoCall /\ d.link = c.link /\ d.key = c.key /\ d.receipt = c.receipt
          /\ d.url = c.url /\ d.continue = c.continue /\ d.attempted = c.attempted /\ d.since = c.since
          /\ d.loop = c.loop
      BY <1>1 DEF PanelRecords
    <2> HIDE DEF d
    <2>2. GoesOn(c, v, d, v, q)
      BY <1>2, <1>5, <2>1
    <2> QED BY <2>2 DEF d
  <1> QED BY <1>3, <1>4, <1>5

\* What the panel makes of the answer of a mount, a creation or a recovery.
LEMMA AnswerSound ==
  ASSUME NEW b, NEW v, NEW q \in [Keys -> Receipts], PanelSound(b, v, q), b.op.kind \in {"mount", "create", "recover"}
  PROVE  LET c == [b EXCEPT !.op = NoCall] IN
         /\ GoesOn(b, v, [c EXCEPT !.error = TRUE], v, q)
         /\ b.op.answer # None => GoesOn(b, v, Shown(c, b.op.answer), v, q)
         /\ b.link => GoesOn(b, v, [c EXCEPT !.missingLink = TRUE], v, q)
         /\ ~b.link /\ b.receipt = None => GoesOn(b, v, [c EXCEPT !.needsRecovery = FALSE], v, q)
  <1> DEFINE c == [b EXCEPT !.op = NoCall]
  <1>1. /\ PanelSound(c, v, q) /\ c.op = NoCall /\ c.loop.call = NoCall /\ c.loop = b.loop
        /\ c.attempted = {} /\ ~c.url
        /\ c.key = b.key /\ c.receipt = b.receipt /\ c.needsRecovery /\ c.link = b.link
    BY EndSound
  <1> HIDE DEF c
  <1>2. \A d : GoesOn(c, v, d, v, q) => GoesOn(b, v, d, v, q)
    BY <1>1 DEF GoesOn, Forward, Spaced
  <1>3. ASSUME b.op.answer # None PROVE GoesOn(c, v, Shown(c, b.op.answer), v, q)
    <2>1. /\ b.op.answer \in Receipts /\ b.key # None /\ b.op.answer.version <= q[b.key].version
          /\ b.receipt # None => b.receipt.version <= b.op.answer.version
      BY <1>3, PanelFields, Versions DEF PanelSound, Told, Past
    <2> QED BY <1>1, <2>1, ShownSound
  <1>4. /\ GoesOn(c, v, [c EXCEPT !.error = TRUE], v, q)
        /\ b.link => GoesOn(c, v, [c EXCEPT !.missingLink = TRUE], v, q)
        /\ ~b.link /\ b.receipt = None => GoesOn(c, v, [c EXCEPT !.needsRecovery = FALSE], v, q)
    BY <1>1, EndedFields
  <1>5. /\ GoesOn(b, v, [c EXCEPT !.error = TRUE], v, q)
        /\ b.op.answer # None => GoesOn(b, v, Shown(c, b.op.answer), v, q)
        /\ b.link => GoesOn(b, v, [c EXCEPT !.missingLink = TRUE], v, q)
        /\ ~b.link /\ b.receipt = None => GoesOn(b, v, [c EXCEPT !.needsRecovery = FALSE], v, q)
    BY <1>2, <1>3, <1>4
  <1> QED BY <1>5 DEF c

\* A panel whose refresh has started anew.
LEMMA RestartSound ==
  ASSUME NEW b, NEW v, NEW q \in [Keys -> Receipts], PanelSound(b, v, q), b.attempted = {}, ~b.url,
         NEW d \in PanelRecords, NEW e \in VisitRecords,
         Anew(b, d), d.receipt = b.receipt, d.key = b.key \/ b.receipt = None, d.link = b.link,
         d.missingLink = b.missingLink, d.url = b.url, d.attempted = b.attempted,
         e.started = v.started, d.continue => d.key \in e.asked,
         \/ d.since = b.since /\ e.gap = v.gap
         \/ d.since = e.gap /\ b.receipt = None,
         b.needsRecovery => d.needsRecovery,
         d.op.answer = None, d.op.kind \in {"create", "recover", "new"} \/ d.op = NoCall,
         d.op.kind \in {"create", "recover"} => d.needsRecovery, d.op.kind = "new" => ~d.link
  PROVE  GoesOn(b, v, d, e, q)
  <1>1. b \in PanelRecords /\ v \in VisitRecords /\ Forward(b, b)
    BY StaysSound DEF PanelSound, GoesOn
  <1>2. /\ d.loop.call = NoCall /\ d.loop.call.kind = "idle" /\ d.loop.call.answer = None /\ ~d.loop.stopped
        /\ d.op.kind \in {"idle", "create", "recover", "new"} /\ (d.op.kind = "idle" => d.op = NoCall)
    BY PanelApart DEF Anew
  <1>3. Told(d, q) /\ Refreshing(d)
    BY <1>2 DEF PanelSound, Told, Past, Refreshing
  <1>4. Pacing(d, e)
    <2>1. e.gap \in 0..Interval /\ Interval \in Nat /\ v.gap \in 0..Interval
      BY <1>1, PanelApart DEF VisitRecords
    <2>2. b.receipt = None => ~Direct(d.receipt)
      BY DEF Direct
    <2> QED BY <1>2, <2>1, <2>2, PanelApart DEF PanelSound, Pacing, Anew
  <1>5. Asked(d, e) /\ Leading(d)
    BY <1>2 DEF PanelSound, Asked, Leading
  <1>6. Forward(b, d) /\ Spaced(b, v, d)
    BY <1>1, <1>2 DEF Forward, Spaced
  <1> QED BY <1>3, <1>4, <1>5, <1>6 DEF GoesOn, PanelSound

\* operate begins: what it needs of the panel.
LEMMA OperatingFields ==
  ASSUME NEW b \in PanelRecords, NEW kind \in {"create", "recover", "new"}
  PROVE  LET d == Operating(b, kind) IN
         /\ d \in PanelRecords /\ Anew(b, d) /\ d.receipt = b.receipt /\ d.op = Call(kind)
         /\ d.mounted = b.mounted /\ d.link = b.link /\ d.key = b.key /\ d.needsRecovery = b.needsRecovery
         /\ d.missingLink = b.missingLink /\ d.url = b.url /\ d.continue = b.continue
         /\ d.attempted = b.attempted /\ d.since = b.since
         /\ d.op.answer = None /\ d.op.kind = kind
  <1> DEFINE c == [b EXCEPT !.op = Call(kind), !.error = FALSE]
  <1>1. Call(kind) \in Calls /\ Call(kind).answer = None /\ Call(kind).kind = kind
    BY DEF Call, Calls, Known
  <1>2. /\ c \in PanelRecords /\ c.op = Call(kind) /\ c.receipt = b.receipt
        /\ c.mounted = b.mounted /\ c.link = b.link /\ c.key = b.key /\ c.needsRecovery = b.needsRecovery
        /\ c.missingLink = b.missingLink /\ c.url = b.url /\ c.continue = b.continue
        /\ c.attempted = b.attempted /\ c.since = b.since
    BY <1>1 DEF PanelRecords
  <1>3. Operating(b, kind) = Watch(c)
    BY DEF Operating
  <1> HIDE DEF c
  <1>4. Watch(c) \in PanelRecords /\ SameFace(c, Watch(c)) /\ Watch(c).receipt = c.receipt /\ Anew(c, Watch(c))
    BY <1>2, WatchFields
  <1> QED BY <1>1, <1>2, <1>3, <1>4 DEF SameFace, Anew

\* The refresh is between two calls, or was stopped by an error.
LEMMA RestSound ==
  ASSUME NEW b, NEW v, NEW q \in [Keys -> Receipts], PanelSound(b, v, q), b.loop.call.kind # "idle",
         NEW c \in PanelRecords, c.op = b.op, c.link = b.link, c.key = b.key, c.receipt = b.receipt,
         c.needsRecovery = b.needsRecovery, c.missingLink = b.missingLink, c.url = b.url, c.continue = b.continue,
         c.attempted = b.attempted, c.since = b.since, c.loop.call = NoCall,
         c.loop.stopped => c.loop.state # "watching",
         Direct(b.receipt) /\ ~c.loop.stopped => b.since # None /\ c.loop.wait = Interval - b.since
  PROVE  /\ PanelSound(c, v, q) /\ c.op = NoCall /\ c.attempted = {} /\ ~c.url /\ c.needsRecovery /\ c.key # None
         /\ \A d : GoesOn(c, v, d, v, q) => GoesOn(b, v, d, v, q)
  <1>1. /\ b \in PanelRecords /\ v \in VisitRecords /\ b.op = NoCall /\ ShouldWatch(b.receipt)
        /\ b.receipt # None /\ ~CanPay(b.receipt)
    BY DEF PanelSound, Refreshing, ShouldWatch, CanPay
  <1>2. b.attempted = {} /\ ~b.url /\ b.needsRecovery /\ b.key # None
    BY <1>1 DEF PanelSound, Leading, Told
  <1>3. Told(c, q) /\ Refreshing(c) /\ Asked(c, v)
    BY <1>1, PanelApart DEF PanelSound, Told, Past, Refreshing, Asked
  <1>4. Leading(c)
    BY <1>1, <1>2, PanelApart DEF PanelSound, Leading
  <1>5. Pacing(c, v)
    <2>1. v.gap \in 0..Interval /\ Interval \in Nat /\ b.since \in 0..Interval \cup {None}
      BY <1>1, PanelFields, PanelApart DEF VisitRecords
    <2> QED BY <1>1, <2>1 DEF PanelSound, Pacing
  <1>6. \A d : GoesOn(c, v, d, v, q) => GoesOn(b, v, d, v, q)
    BY DEF GoesOn, Forward, Spaced
  <1> QED BY <1>1, <1>2, <1>3, <1>4, <1>5, <1>6 DEF PanelSound

-----------------------------------------------------------------------------
(* The panel: its actions *)

\* Tab t makes a step, the others and the requests stay as they are.
TabGoesOn(t) ==
  /\ DOMAIN panel' = PanelTabs /\ DOMAIN visit' = PanelTabs /\ request' = request
  /\ \A u \in PanelTabs : u # t => panel'[u] = panel[u] /\ visit'[u] = visit[u]
  /\ GoesOn(panel[t], visit[t], panel'[t], visit'[t], request)

LEMMA AtTab ==
  ASSUME PanelInv, NEW t \in PanelTabs
  PROVE  /\ DOMAIN panel = PanelTabs /\ DOMAIN visit = PanelTabs /\ request \in [Keys -> Receipts]
         /\ PanelSound(panel[t], visit[t], request) /\ panel[t] \in PanelRecords /\ visit[t] \in VisitRecords
         /\ active \in Keys \cup {None} /\ keysDrawn \in 0..MaxKeys /\ created \subseteq Keys
  BY DEF PanelInv, Identities, PanelSound

\* A step of one tab alone.
LEMMA TabStep ==
  ASSUME PanelInv, NEW t \in PanelTabs, NEW d, panel' = [panel EXCEPT ![t] = d], UNCHANGED visit, request' = request,
         GoesOn(panel[t], visit[t], d, visit[t], request)
  PROVE  TabGoesOn(t)
  BY AtTab DEF TabGoesOn

LEMMA ServeGoesOn ==
  ASSUME PanelInv, NEW t \in PanelTabs, Serve(t)
  PROVE  TabGoesOn(t)
  <1> DEFINE b == panel[t]
  <1>1. PanelSound(b, visit[t], request) /\ request \in [Keys -> Receipts] /\ DOMAIN panel = PanelTabs
    BY AtTab
  <1>2. CASE Answered(b.op, b.key) /\ panel' = [panel EXCEPT ![t].op.answer = request[b.key]]
    <2>1. GoesOn(b, visit[t], [b EXCEPT !.op.answer = request[b.key]], visit[t], request)
      BY <1>1, <1>2, ServeSound DEF Answered
    <2>2. panel' = [panel EXCEPT ![t] = [b EXCEPT !.op.answer = request[b.key]]]
      BY <1>1, <1>2
    <2> QED BY <2>1, <2>2, TabStep DEF Serve
  <1>3. CASE Answered(b.loop.call, b.key) /\ panel' = [panel EXCEPT ![t].loop.call.answer = request[b.key]]
    <2>1. GoesOn(b, visit[t], [b EXCEPT !.loop.call.answer = request[b.key]], visit[t], request)
      BY <1>1, <1>3, ServeSound DEF Answered
    <2>2. panel' = [panel EXCEPT ![t] = [b EXCEPT !.loop.call.answer = request[b.key]]]
      BY <1>1, <1>3
    <2> QED BY <2>1, <2>2, TabStep DEF Serve
  <1> QED BY <1>2, <1>3 DEF Serve

LEMMA MountGoesOn ==
  ASSUME PanelInv, NEW t \in PanelTabs, Mount(t) \/ Unmount(t)
  PROVE  TabGoesOn(t)
  <1>1. /\ active \in Keys \cup {None} /\ DOMAIN panel = PanelTabs /\ DOMAIN visit = PanelTabs
        /\ visit' = [visit EXCEPT ![t] = NoVisit] /\ request' = request
    BY AtTab DEF Mount, Unmount, Stays
  <1>2. ASSUME NEW d \in PanelRecords, panel' = [panel EXCEPT ![t] = d],
               d.receipt = None, d.op \in {NoCall, Call("mount")}, d.loop = NoLoop, d.since = None,
               ~d.continue, d.attempted = {}, ~d.url, d.link \/ d.op = Call("mount") => d.needsRecovery
        PROVE  TabGoesOn(t)
    <2>1. GoesOn(panel[t], visit[t], d, NoVisit, request)
      BY <1>2, FreshSound
    <2> QED BY <1>1, <1>2, <2>1 DEF TabGoesOn
  <1>3. Call("mount") \in Calls /\ NoCall \in Calls /\ Call("mount") # NoCall
    BY PanelApart DEF Call, Calls, Known, NoCall
  <1>4. ASSUME NEW k \in Keys,
               panel' = [panel EXCEPT ![t] = [Unmounted EXCEPT
                 !.mounted = TRUE, !.link = TRUE, !.key = k, !.needsRecovery = TRUE, !.op = Call("mount")]]
        PROVE  TabGoesOn(t)
    <2> DEFINE d == [Unmounted EXCEPT
                 !.mounted = TRUE, !.link = TRUE, !.key = k, !.needsRecovery = TRUE, !.op = Call("mount")]
    <2>1. d \in PanelRecords
      BY <1>3, Unopened DEF PanelRecords
    <2>2. /\ d.receipt = None /\ d.op = Call("mount") /\ d.loop = NoLoop /\ d.since = None
          /\ ~d.continue /\ d.attempted = {} /\ ~d.url /\ d.needsRecovery
      BY DEF Unmounted
    <2> HIDE DEF d
    <2> QED BY <1>2, <1>4, <2>1, <2>2 DEF d
  <1>5. ASSUME panel' = [panel EXCEPT ![t] = [Unmounted EXCEPT
                 !.mounted = TRUE, !.key = active, !.needsRecovery = active # None,
                 !.op = IF active = None THEN NoCall ELSE Call("mount")]]
        PROVE  TabGoesOn(t)
    <2> DEFINE d == [Unmounted EXCEPT
                 !.mounted = TRUE, !.key = active, !.needsRecovery = active # None,
                 !.op = IF active = None THEN NoCall ELSE Call("mount")]
    <2>1. d \in PanelRecords
      BY <1>1, <1>3, Unopened DEF PanelRecords
    <2>2. /\ d.receipt = None /\ d.op = (IF active = None THEN NoCall ELSE Call("mount")) /\ d.loop = NoLoop
          /\ d.since = None /\ ~d.continue /\ d.attempted = {} /\ ~d.url /\ ~d.link /\ d.needsRecovery = (active # None)
      BY DEF Unmounted
    <2> HIDE DEF d
    <2> QED BY <1>2, <1>3, <1>5, <2>1, <2>2 DEF d
  <1>6. ASSUME panel' = [panel EXCEPT ![t] = [Unmounted EXCEPT !.mounted = TRUE, !.error = TRUE]]
        PROVE  TabGoesOn(t)
    <2> DEFINE d == [Unmounted EXCEPT !.mounted = TRUE, !.error = TRUE]
    <2>1. d \in PanelRecords
      BY Unopened DEF PanelRecords
    <2>2. /\ d.receipt = None /\ d.op = NoCall /\ d.loop = NoLoop /\ d.since = None
          /\ ~d.continue /\ d.attempted = {} /\ ~d.url /\ ~d.link
      BY DEF Unmounted
    <2> HIDE DEF d
    <2> QED BY <1>2, <1>3, <1>6, <2>1, <2>2 DEF d
  <1>7. ASSUME panel' = [panel EXCEPT ![t] = Unmounted] PROVE TabGoesOn(t)
    <2>1. /\ Unmounted.receipt = None /\ Unmounted.op = NoCall /\ Unmounted.loop = NoLoop /\ Unmounted.since = None
          /\ ~Unmounted.continue /\ Unmounted.attempted = {} /\ ~Unmounted.url /\ ~Unmounted.link
      BY DEF Unmounted
    <2> QED BY <1>2, <1>3, <1>7, <2>1, Unopened
  <1> QED BY <1>4, <1>5, <1>6, <1>7 DEF Mount, Unmount

\* The answer of a mount, a creation or a recovery arrives, or an error does.
LEMMA OperatedGoesOn ==
  ASSUME PanelInv, NEW t \in PanelTabs, Mounted(t) \/ Operated(t)
  PROVE  TabGoesOn(t)
  <1> DEFINE b == panel[t]  c == [b EXCEPT !.op = NoCall]  v == visit[t]
  <1>1. /\ PanelSound(b, v, request) /\ request \in [Keys -> Receipts] /\ UNCHANGED visit /\ request' = request
        /\ b.op.kind \in {"mount", "create", "recover"} /\ (b.op.kind = "mount" => b.receipt = None)
    BY AtTab DEF Mounted, Operated, Stays, Recovering, PanelSound, Leading
  <1>2. /\ GoesOn(b, v, [c EXCEPT !.error = TRUE], v, request)
        /\ b.op.answer # None => GoesOn(b, v, Shown(c, b.op.answer), v, request)
        /\ b.link => GoesOn(b, v, [c EXCEPT !.missingLink = TRUE], v, request)
        /\ ~b.link /\ b.receipt = None => GoesOn(b, v, [c EXCEPT !.needsRecovery = FALSE], v, request)
    BY <1>1, AnswerSound
  <1>3. PICK d : panel' = [panel EXCEPT ![t] = d] /\ GoesOn(b, v, d, v, request)
    <2>1. CASE Mounted(t)
      BY <1>1, <1>2, <2>1 DEF Mounted, Recovering
    <2>2. CASE Operated(t)
      BY <1>2, <2>2 DEF Operated
    <2> QED BY <2>1, <2>2
  <1> QED BY <1>1, <1>3, TabStep

\* The buyer's buttons, that start the refresh anew.
LEMMA OperatingGoesOn ==
  ASSUME PanelInv, NEW t \in PanelTabs, CreateUnstored(t) \/ Recover(t) \/ Another(t)
  PROVE  TabGoesOn(t)
  <1> DEFINE b == panel[t]  v == visit[t]
  <1>1. /\ PanelSound(b, v, request) /\ request \in [Keys -> Receipts] /\ UNCHANGED visit /\ request' = request
        /\ b \in PanelRecords /\ v \in VisitRecords /\ b.op.kind = "idle" /\ b.op = NoCall
    BY AtTab DEF CreateUnstored, Recover, Another, Stays, MayOperate, PanelSound, Refreshing
  <1>2. ~CanPay(b.receipt)
    BY DEF CreateUnstored, Recover, Another, ShowCreate, ShowRecovery, CanStartAnother, CanPrepareAnother, CanPay
  <1>3. b.attempted = {} /\ ~b.url
    BY <1>1, <1>2 DEF PanelSound, Leading
  <1>4. b.continue => b.key \in v.asked
    BY <1>1 DEF PanelSound, Asked
  <1>5. CASE CreateUnstored(t)
    <2> DEFINE c == [b EXCEPT !.error = TRUE]  d == Watch(c)
    <2>1. /\ c \in PanelRecords /\ c.op = b.op /\ c.receipt = b.receipt
          /\ c.mounted = b.mounted /\ c.link = b.link /\ c.key = b.key /\ c.needsRecovery = b.needsRecovery
          /\ c.missingLink = b.missingLink /\ c.url = b.url /\ c.continue = b.continue
          /\ c.attempted = b.attempted /\ c.since = b.since
      BY <1>1 DEF PanelRecords
    <2> HIDE DEF c
    <2>2. d \in PanelRecords /\ SameFace(c, d) /\ d.receipt = c.receipt /\ Anew(c, d)
      BY <2>1, WatchFields
    <2> HIDE DEF d
    <2>3. /\ Anew(b, d) /\ d.op = NoCall /\ d.receipt = b.receipt /\ d.link = b.link /\ d.key = b.key
          /\ d.needsRecovery = b.needsRecovery /\ d.missingLink = b.missingLink /\ d.url = b.url
          /\ d.continue = b.continue /\ d.attempted = b.attempted /\ d.since = b.since
      BY <1>1, <2>1, <2>2 DEF SameFace, Anew
    <2>4. GoesOn(b, v, d, v, request)
      BY <1>1, <1>3, <1>4, <2>2, <2>3, PanelApart, RestartSound
    <2>5. panel' = [panel EXCEPT ![t] = d]
      BY <1>5 DEF CreateUnstored, c, d
    <2> QED BY <1>1, <2>4, <2>5, TabStep
  <1>6. ASSUME NEW kind \in {"recover", "new"}, panel' = [panel EXCEPT ![t] = Operating(b, kind)],
               kind = "recover" => b.needsRecovery, kind = "new" => ~b.link
        PROVE  TabGoesOn(t)
    <2> DEFINE d == Operating(b, kind)
    <2>1. /\ d \in PanelRecords /\ Anew(b, d) /\ d.receipt = b.receipt /\ d.op = Call(kind)
          /\ d.mounted = b.mounted /\ d.link = b.link /\ d.key = b.key /\ d.needsRecovery = b.needsRecovery
          /\ d.missingLink = b.missingLink /\ d.url = b.url /\ d.continue = b.continue
          /\ d.attempted = b.attempted /\ d.since = b.since
          /\ d.op.answer = None /\ d.op.kind = kind
      BY <1>1, OperatingFields
    <2> HIDE DEF d
    <2>2. GoesOn(b, v, d, v, request)
      BY <1>1, <1>3, <1>4, <1>6, <2>1, RestartSound
    <2> QED BY <1>1, <1>6, <2>2, TabStep DEF d
  <1> QED BY <1>5, <1>6 DEF CreateUnstored, Recover, Another, ShowRecovery, CanStartAnother

LEMMA CreateGoesOn ==
  ASSUME PanelInv, NEW t \in PanelTabs, Create(t)
  PROVE  TabGoesOn(t)
  <1> DEFINE b == panel[t]  v == visit[t]  o == Operating(b, "create")
             d == [o EXCEPT !.key = active', !.needsRecovery = TRUE, !.continue = TRUE, !.since = 0]
             e == [[v EXCEPT !.asked = @ \cup {active'}] EXCEPT !.gap = 0]
  <1>1. /\ PanelSound(b, v, request) /\ request \in [Keys -> Receipts] /\ request' = request
        /\ DOMAIN panel = PanelTabs /\ DOMAIN visit = PanelTabs /\ b \in PanelRecords /\ v \in VisitRecords
        /\ b.receipt = None /\ ~b.link /\ active \in Keys \cup {None} /\ keysDrawn \in 0..MaxKeys
    BY AtTab DEF Create, ShowCreate
  <1>2. active' \in Keys /\ 0 \in 0..Interval
    BY <1>1, PanelApart DEF Create, Keys
  <1>3. b.attempted = {} /\ ~b.url
    BY <1>1 DEF PanelSound, Leading, CanPay
  <1>4. /\ o \in PanelRecords /\ Anew(b, o) /\ o.receipt = b.receipt /\ o.op = Call("create")
        /\ o.mounted = b.mounted /\ o.link = b.link /\ o.key = b.key /\ o.needsRecovery = b.needsRecovery
        /\ o.missingLink = b.missingLink /\ o.url = b.url /\ o.continue = b.continue
        /\ o.attempted = b.attempted /\ o.since = b.since
        /\ o.op.answer = None /\ o.op.kind = "create"
    BY <1>1, OperatingFields
  <1> HIDE DEF o
  <1>5. /\ d \in PanelRecords /\ d.loop = o.loop /\ d.receipt = o.receipt /\ d.op = o.op
        /\ d.link = o.link /\ d.key = active' /\ d.needsRecovery
        /\ d.missingLink = o.missingLink /\ d.url = o.url /\ d.continue
        /\ d.attempted = o.attempted /\ d.since = 0
    BY <1>2, <1>4 DEF PanelRecords
  <1>6. e \in VisitRecords /\ e.started = v.started /\ active' \in e.asked /\ e.gap = 0
    BY <1>1, <1>2 DEF VisitRecords
  <1>7. /\ panel' = [panel EXCEPT ![t] = d]
        /\ visit' = [visit EXCEPT ![t].asked = @ \cup {active'}, ![t].gap = 0]
    BY DEF Create, o
  <1>8. visit' = [visit EXCEPT ![t] = e]
    BY <1>1, <1>7
  <1> HIDE DEF d, e
  <1>9. Anew(b, d)
    BY <1>1, <1>4, <1>5 DEF Anew, Direct
  <1>10. GoesOn(b, v, d, e, request)
    BY <1>1, <1>3, <1>4, <1>5, <1>6, <1>9, RestartSound
  <1> QED BY <1>1, <1>7, <1>8, <1>10 DEF TabGoesOn

LEMMA RenewedGoesOn ==
  ASSUME PanelInv, NEW t \in PanelTabs, Renewed(t)
  PROVE  TabGoesOn(t)
  <1> DEFINE b == panel[t]  v == visit[t]  c == [b EXCEPT !.op = NoCall]
             l == [NoLoop EXCEPT !.state = b.loop.state]
             d == [c EXCEPT !.continue = FALSE, !.since = None, !.key = None, !.receipt = None, !.url = FALSE,
                            !.needsRecovery = FALSE, !.loop = l]
  <1>1. /\ PanelSound(b, v, request) /\ request \in [Keys -> Receipts] /\ request' = request /\ UNCHANGED visit
        /\ b.op.kind = "new" /\ b \in PanelRecords /\ v \in VisitRecords /\ ~b.link
    BY AtTab DEF Renewed, PanelSound, Leading
  <1>2. /\ PanelSound(c, v, request) /\ c.op = NoCall /\ c.loop.call = NoCall /\ c.loop = b.loop
        /\ c.attempted = {} /\ ~c.url /\ c.key = b.key /\ c.receipt = b.receipt /\ c.link = b.link
    BY <1>1, EndSound
  <1> HIDE DEF c
  <1>3. CASE panel' = [panel EXCEPT ![t] = [c EXCEPT !.error = TRUE]]
    <2>1. GoesOn(c, v, [c EXCEPT !.error = TRUE], v, request)
      BY <1>2, EndedFields
    <2>2. GoesOn(b, v, [c EXCEPT !.error = TRUE], v, request)
      BY <1>2, <2>1 DEF GoesOn, Forward, Spaced
    <2> QED BY <1>1, <1>3, <2>2, TabStep
  <1>4. CASE panel' = [panel EXCEPT ![t] = d]
    <2>1. NoLoop \in Loops /\ b.loop.state \in {"watching", "paused", "error"}
      BY <1>1, PanelFields, PanelApart DEF NoLoop, Loops
    <2>2. l \in Loops /\ l.call = NoCall /\ ~l.stopped
      BY <2>1 DEF Loops, NoLoop
    <2> HIDE DEF l
    <2>3. c \in PanelRecords
      BY <1>2 DEF PanelSound
    <2>4. /\ d \in PanelRecords /\ d.op = NoCall /\ d.loop = l /\ d.receipt = None /\ d.key = None /\ d.since = None
          /\ ~d.continue /\ ~d.url /\ ~d.needsRecovery /\ d.attempted = {} /\ ~d.link
      BY <1>1, <1>2, <2>2, <2>3 DEF PanelRecords, Known
    <2> HIDE DEF d
    <2>5. ~Direct(d.receipt) /\ ~ShouldWatch(d.receipt)
      BY <2>4 DEF Direct, ShouldWatch
    <2>6. Told(d, request) /\ Refreshing(d)
      BY <2>2, <2>4, <2>5, PanelApart DEF Told, Past, Refreshing
    <2>7. Pacing(d, v) /\ Leading(d)
      BY <2>2, <2>4, <2>5, PanelApart DEF Pacing, Leading
    <2>8. Asked(d, v)
      BY <1>2, <2>4 DEF PanelSound, Asked
    <2>9. Forward(b, d) /\ Spaced(b, v, d)
      BY <2>2, <2>4, PanelApart DEF Forward, Spaced
    <2>10. GoesOn(b, v, d, v, request)
      BY <1>1, <2>4, <2>6, <2>7, <2>8, <2>9 DEF GoesOn, PanelSound
    <2> QED BY <1>1, <1>4, <2>10, TabStep
  <1> QED BY <1>3, <1>4 DEF Renewed, c

LEMMA StartsGoesOn ==
  ASSUME PanelInv, NEW t \in PanelTabs, NEW automatic \in BOOLEAN, Starts(t, automatic), MayOperate(panel[t]),
         automatic => Continue(panel[t]), CanPay(panel[t].receipt)
  PROVE  TabGoesOn(t) /\ surprised' = FALSE
  <1> DEFINE b == panel[t]  v == visit[t]
             d == [[[b EXCEPT !.op = Call("checkout")] EXCEPT !.error = FALSE] EXCEPT !.attempted = @ \cup {b.key}]
             e == [v EXCEPT !.started = @ \cup {b.key}]
  <1>1. /\ PanelSound(b, v, request) /\ request' = request /\ DOMAIN panel = PanelTabs /\ DOMAIN visit = PanelTabs
        /\ b \in PanelRecords /\ v \in VisitRecords /\ b.op.kind = "idle" /\ CanPay(b.receipt) /\ surprised = FALSE
        /\ panel' = [panel EXCEPT ![t].op = Call("checkout"), ![t].error = FALSE, ![t].attempted = @ \cup {b.key}]
        /\ visit' = [visit EXCEPT ![t].started = @ \cup {b.key}]
    BY AtTab DEF Starts, MayOperate, PanelInv
  <1>2. b.receipt # None /\ b.key \in Keys /\ ~ShouldWatch(b.receipt) /\ ~Direct(b.receipt) /\ b.needsRecovery
    BY <1>1, PanelFields DEF CanPay, ShouldWatch, Direct, PanelSound, Told, Leading
  <1>3. Call("checkout") \in Calls /\ Call("checkout").answer = None /\ Call("checkout").kind = "checkout"
    BY DEF Call, Calls, Known
  <1>4. /\ d \in PanelRecords /\ d.op = Call("checkout") /\ d.link = b.link /\ d.key = b.key
        /\ d.receipt = b.receipt /\ d.needsRecovery = b.needsRecovery /\ d.missingLink = b.missingLink
        /\ d.url = b.url /\ d.continue = b.continue /\ d.attempted = b.attempted \cup {b.key}
        /\ d.since = b.since /\ d.loop = b.loop
    BY <1>1, <1>2, <1>3 DEF PanelRecords
  <1>5. /\ e \in VisitRecords /\ e.started = v.started \cup {b.key} /\ e.asked = v.asked /\ e.gap = v.gap
    BY <1>1, <1>2 DEF VisitRecords
  <1>6. panel' = [panel EXCEPT ![t] = d] /\ visit' = [visit EXCEPT ![t] = e]
    BY <1>1
  <1> HIDE DEF d, e
  <1>7. Told(d, request) /\ Refreshing(d)
    BY <1>1, <1>2, <1>3, <1>4, PanelApart DEF PanelSound, Told, Past, Refreshing
  <1>8. Pacing(d, e) /\ Asked(d, e) /\ Leading(d)
    BY <1>1, <1>2, <1>3, <1>4, <1>5 DEF PanelSound, Pacing, Asked, Leading
  <1>9. Forward(b, d) /\ Spaced(b, v, d)
    BY <1>1, <1>4, StaysSound DEF GoesOn, Forward, Spaced
  <1>10. GoesOn(b, v, d, e, request)
    BY <1>4, <1>5, <1>7, <1>8, <1>9 DEF GoesOn, PanelSound
  <1>11. automatic => b.key \notin v.started /\ b.key \in v.asked
    BY <1>1 DEF Continue, PanelSound, Asked
  <1>12. surprised' = (surprised \/ (automatic /\ (b.key \in v.started \/ b.key \notin v.asked)))
    BY DEF Starts
  <1>13. surprised' = FALSE
    BY <1>1, <1>11, <1>12
  <1> QED BY <1>1, <1>6, <1>10, <1>13 DEF TabGoesOn

LEMMA CheckoutGoesOn ==
  ASSUME PanelInv, NEW t \in PanelTabs, CheckoutAnswers(t)
  PROVE  TabGoesOn(t)
  <1> DEFINE b == panel[t]  v == visit[t]
             f == [[b EXCEPT !.op = NoCall] EXCEPT !.url = TRUE]
             g == [[b EXCEPT !.op = NoCall] EXCEPT !.error = TRUE]
  <1>1. /\ PanelSound(b, v, request) /\ request' = request /\ UNCHANGED visit /\ b.op.kind = "checkout"
        /\ b \in PanelRecords /\ v \in VisitRecords /\ DOMAIN panel = PanelTabs
    BY AtTab DEF CheckoutAnswers, Stays
  <1>2. ASSUME NEW d \in PanelRecords, d.op = NoCall, d.link = b.link, d.key = b.key,
               d.receipt = b.receipt, d.needsRecovery = b.needsRecovery, d.missingLink = b.missingLink,
               d.url \/ (d.url = b.url /\ d.error), d.continue = b.continue, d.attempted = b.attempted,
               d.since = b.since, d.loop = b.loop
        PROVE  GoesOn(b, v, d, v, request)
    <2>1. Told(d, request) /\ Refreshing(d) /\ Pacing(d, v) /\ Asked(d, v)
      BY <1>1, <1>2, PanelApart DEF PanelSound, Told, Past, Refreshing, Pacing, Asked
    <2>2. Leading(d)
      BY <1>1, <1>2, PanelApart DEF PanelSound, Leading
    <2>3. Forward(b, d) /\ Spaced(b, v, d)
      BY <1>1, <1>2, StaysSound DEF GoesOn, Forward, Spaced
    <2> QED BY <1>1, <1>2, <2>1, <2>2, <2>3 DEF GoesOn, PanelSound
  <1>3. CASE panel' = [panel EXCEPT ![t].op = NoCall, ![t].url = TRUE]
    <2>1. /\ f \in PanelRecords /\ f.op = NoCall /\ f.link = b.link /\ f.key = b.key
          /\ f.receipt = b.receipt /\ f.needsRecovery = b.needsRecovery /\ f.missingLink = b.missingLink
          /\ f.url /\ f.continue = b.continue /\ f.attempted = b.attempted
          /\ f.since = b.since /\ f.loop = b.loop
      BY <1>1, PanelApart DEF PanelRecords
    <2>2. panel' = [panel EXCEPT ![t] = f]
      BY <1>1, <1>3
    <2> HIDE DEF f
    <2>3. GoesOn(b, v, f, v, request)
      BY <1>2, <2>1
    <2> QED BY <1>1, <2>2, <2>3, TabStep
  <1>4. CASE panel' = [panel EXCEPT ![t].op = NoCall, ![t].error = TRUE]
    <2>1. /\ g \in PanelRecords /\ g.op = NoCall /\ g.link = b.link /\ g.key = b.key
          /\ g.receipt = b.receipt /\ g.needsRecovery = b.needsRecovery /\ g.missingLink = b.missingLink
          /\ g.url = b.url /\ g.error /\ g.continue = b.continue /\ g.attempted = b.attempted
          /\ g.since = b.since /\ g.loop = b.loop
      BY <1>1, PanelApart DEF PanelRecords
    <2>2. panel' = [panel EXCEPT ![t] = g]
      BY <1>1, <1>4
    <2> HIDE DEF g
    <2>3. GoesOn(b, v, g, v, request)
      BY <1>2, <2>1
    <2> QED BY <1>1, <2>2, <2>3, TabStep
  <1> QED BY <1>3, <1>4 DEF CheckoutAnswers

\* The refresh makes a call, or pauses.
LEMMA RefreshGoesOn ==
  ASSUME PanelInv, NEW t \in PanelTabs, Refresh(t)
  PROVE  TabGoesOn(t)
  <1> DEFINE b == panel[t]  v == visit[t]
  <1>1. /\ PanelSound(b, v, request) /\ request \in [Keys -> Receipts] /\ request' = request
        /\ DOMAIN panel = PanelTabs /\ DOMAIN visit = PanelTabs /\ b \in PanelRecords /\ v \in VisitRecords
        /\ ShouldWatch(b.receipt) /\ b.receipt # None /\ ~b.loop.stopped /\ b.loop.call = NoCall /\ b.loop.wait = 0
        /\ b.loop \in Loops /\ b.loop.checks \in 0..MaxChecks
    BY AtTab, PanelFields DEF Refresh, LoopAlive, Stays, ShouldWatch
  <1>2. b.op = NoCall /\ ~CanPay(b.receipt) /\ b.loop.call.kind = "idle"
    BY <1>1, AtTab, PanelFields, PanelApart
       DEF Refresh, Busy, PanelSound, Leading, Refreshing, ShouldWatch, CanPay
  <1>3. ASSUME NEW l \in Loops, NEW d \in PanelRecords, NEW e \in VisitRecords,
               d.op = b.op, d.link = b.link, d.key = b.key, d.receipt = b.receipt,
               d.needsRecovery = b.needsRecovery, d.missingLink = b.missingLink, d.url = b.url,
               d.continue = b.continue, d.attempted = b.attempted, d.loop = l,
               l.call.answer = None, e.started = v.started, e.asked = v.asked,
               \/ /\ l.call = NoCall /\ l.stopped /\ l.state # "watching"
                  /\ d.since = b.since /\ e.gap = v.gap
               \/ l.call.kind = "prepare" /\ ~l.stopped /\ Direct(b.receipt) /\ d.since = 0 /\ e.gap = 0
               \/ l.call.kind = "read" /\ ~l.stopped /\ ~Direct(b.receipt) /\ d.since = b.since /\ e.gap = v.gap
        PROVE  GoesOn(b, v, d, e, request)
    <2>1. Told(d, request)
      BY <1>1, <1>3 DEF PanelSound, Told, Past
    <2>2. Refreshing(d)
      BY <1>1, <1>2, <1>3, PanelApart DEF PanelSound, Refreshing
    <2>3. Pacing(d, e) /\ Asked(d, e)
      BY <1>1, <1>2, <1>3, PanelApart DEF PanelSound, Pacing, Asked
    <2>4. Leading(d)
      BY <1>1, <1>2, <1>3, PanelApart DEF PanelSound, Leading
    <2>5. Spaced(b, v, d)
      <3>1. v.gap \in 0..Interval /\ Interval \in Nat
        BY <1>1, PanelApart DEF VisitRecords
      <3> QED BY <1>1, <1>2, <1>3, <3>1, PanelApart DEF PanelSound, Pacing, Spaced
    <2>6. Forward(b, d)
      BY <1>1, <1>3, StaysSound DEF GoesOn, Forward
    <2> QED BY <1>3, <2>1, <2>2, <2>3, <2>4, <2>5, <2>6 DEF GoesOn, PanelSound
  <1>4. CASE b.loop.checks >= MaxChecks
    <2> DEFINE l == [[b.loop EXCEPT !.stopped = TRUE] EXCEPT !.state = "paused"]
               d == [b EXCEPT !.loop = l]
    <2>1. l \in Loops /\ l.call = NoCall /\ l.stopped /\ l.state # "watching" /\ l.call.answer = None
      BY <1>1, PanelApart DEF Loops
    <2> HIDE DEF l
    <2>2. /\ d \in PanelRecords /\ d.loop = l /\ d.op = b.op /\ d.link = b.link /\ d.key = b.key
          /\ d.receipt = b.receipt /\ d.needsRecovery = b.needsRecovery /\ d.missingLink = b.missingLink
          /\ d.url = b.url /\ d.continue = b.continue /\ d.attempted = b.attempted /\ d.since = b.since
      BY <1>1, <2>1 DEF PanelRecords
    <2>3. panel' = [panel EXCEPT ![t].loop.stopped = TRUE, ![t].loop.state = "paused"] /\ UNCHANGED visit
      BY <1>4 DEF Refresh
    <2>4. panel' = [panel EXCEPT ![t] = d]
      BY <1>1, <2>3 DEF l, PanelRecords
    <2> HIDE DEF d
    <2>5. GoesOn(b, v, d, v, request)
      BY <1>1, <1>3, <2>1, <2>2
    <2> QED BY <1>1, <2>3, <2>4, <2>5, TabStep
  <1>5. CASE ~(b.loop.checks >= MaxChecks) /\ Direct(b.receipt)
    <2> DEFINE m == [b.loop EXCEPT !.checks = @ + 1]
               l == [m EXCEPT !.call = Call("prepare")]
               d == [[b EXCEPT !.loop = l] EXCEPT !.since = 0]
               e == [v EXCEPT !.gap = 0]
    <2>1. Call("prepare") \in LoopCalls /\ Call("prepare").kind = "prepare" /\ Call("prepare").answer = None
      BY DEF Call, LoopCalls, Known
    <2>2. l \in Loops /\ l.call = Call("prepare") /\ ~l.stopped
      <3>1. b.loop.checks + 1 \in 0..MaxChecks
        BY <1>1, <1>5, PanelApart
      <3>2. m \in Loops /\ ~m.stopped
        BY <1>1, <3>1 DEF Loops
      <3> HIDE DEF m
      <3> QED BY <2>1, <3>2 DEF Loops
    <2>3. panel' = [panel EXCEPT ![t] = [[b EXCEPT !.loop.checks = @ + 1] EXCEPT !.loop.call = Call("prepare"), !.since = 0]]
          /\ visit' = [visit EXCEPT ![t].gap = 0]
      BY <1>5 DEF Refresh
    <2>4. panel' = [panel EXCEPT ![t] = d] /\ visit' = [visit EXCEPT ![t] = e]
      BY <1>1, <2>3 DEF PanelRecords, Loops
    <2> HIDE DEF l, m
    <2>5. /\ d \in PanelRecords /\ d.loop = l /\ d.op = b.op /\ d.link = b.link /\ d.key = b.key
          /\ d.receipt = b.receipt /\ d.needsRecovery = b.needsRecovery /\ d.missingLink = b.missingLink
          /\ d.url = b.url /\ d.continue = b.continue /\ d.attempted = b.attempted /\ d.since = 0
      <3>1. 0 \in 0..Interval \cup {None}
        BY PanelApart
      <3> QED BY <1>1, <2>2, <3>1 DEF PanelRecords
    <2>6. e \in VisitRecords /\ e.gap = 0 /\ e.started = v.started /\ e.asked = v.asked
      BY <1>1, PanelApart DEF VisitRecords
    <2> HIDE DEF d, e
    <2>7. GoesOn(b, v, d, e, request)
      BY <1>3, <1>5, <2>1, <2>2, <2>5, <2>6
    <2> QED BY <1>1, <2>4, <2>7 DEF TabGoesOn
  <1>6. CASE ~(b.loop.checks >= MaxChecks) /\ ~Direct(b.receipt)
    <2> DEFINE m == [b.loop EXCEPT !.checks = @ + 1]
               l == [m EXCEPT !.call = Call("read")]
               d == [b EXCEPT !.loop = l]
    <2>1. Call("read") \in LoopCalls /\ Call("read").kind = "read" /\ Call("read").answer = None
      BY DEF Call, LoopCalls, Known
    <2>2. l \in Loops /\ l.call = Call("read") /\ ~l.stopped
      <3>1. b.loop.checks + 1 \in 0..MaxChecks
        BY <1>1, <1>6, PanelApart
      <3>2. m \in Loops /\ ~m.stopped
        BY <1>1, <3>1 DEF Loops
      <3> HIDE DEF m
      <3> QED BY <2>1, <3>2 DEF Loops
    <2>3. panel' = [panel EXCEPT ![t] = [[b EXCEPT !.loop.checks = @ + 1] EXCEPT !.loop.call = Call("read")]]
          /\ UNCHANGED visit
      BY <1>6 DEF Refresh
    <2>4. panel' = [panel EXCEPT ![t] = d]
      BY <1>1, <2>3 DEF PanelRecords, Loops
    <2> HIDE DEF l, m
    <2>5. /\ d \in PanelRecords /\ d.loop = l /\ d.op = b.op /\ d.link = b.link /\ d.key = b.key
          /\ d.receipt = b.receipt /\ d.needsRecovery = b.needsRecovery /\ d.missingLink = b.missingLink
          /\ d.url = b.url /\ d.continue = b.continue /\ d.attempted = b.attempted /\ d.since = b.since
      BY <1>1, <2>2 DEF PanelRecords
    <2> HIDE DEF d
    <2>6. GoesOn(b, v, d, v, request)
      BY <1>1, <1>3, <1>6, <2>1, <2>2, <2>5
    <2> QED BY <1>1, <2>3, <2>4, <2>6, TabStep
  <1> QED BY <1>4, <1>5, <1>6

\* The refresh has its answer, or an error.
LEMMA RefreshedGoesOn ==
  ASSUME PanelInv, NEW t \in PanelTabs, Refreshed(t)
  PROVE  TabGoesOn(t)
  <1> DEFINE b == panel[t]  v == visit[t]  c == Paced(b)  r == b.loop.call.answer
             w == IF Direct(b.receipt) THEN Interval - b.since ELSE 0
             l == [[b.loop EXCEPT !.call = NoCall] EXCEPT !.wait = w]
  <1>1. /\ PanelSound(b, v, request) /\ request \in [Keys -> Receipts] /\ request' = request /\ UNCHANGED visit
        /\ b \in PanelRecords /\ b.loop.call.kind \in {"prepare", "read"} /\ r # None
        /\ panel' = [panel EXCEPT ![t] = Shown(c, r)] /\ b.loop \in Loops
        /\ b.since \in 0..Interval \cup {None} /\ r \in Receipts
    BY AtTab, PanelFields, Versions DEF Refreshed, Stays
  <1>2. Direct(b.receipt) => b.since # None
    BY <1>1 DEF PanelSound, Refreshing
  <1>3. w \in 0..Interval
    BY <1>1, <1>2, PanelApart
  <1> HIDE DEF w
  <1>4. l \in Loops /\ l.call = NoCall /\ l.wait = w /\ l.stopped = b.loop.stopped /\ l.state = b.loop.state
    BY <1>1, <1>3, PanelApart DEF Loops
  <1>5. c = [b EXCEPT !.loop = l]
    BY <1>1 DEF Paced, PanelRecords, Loops, w
  <1> HIDE DEF l, c
  <1>6. /\ c \in PanelRecords /\ c.loop = l /\ c.op = b.op /\ c.link = b.link /\ c.key = b.key
        /\ c.receipt = b.receipt /\ c.needsRecovery = b.needsRecovery /\ c.missingLink = b.missingLink
        /\ c.url = b.url /\ c.continue = b.continue /\ c.attempted = b.attempted /\ c.since = b.since
    BY <1>1, <1>4, <1>5 DEF PanelRecords
  <1>7. c.loop.stopped => c.loop.state # "watching"
    BY <1>1, <1>4, <1>6 DEF PanelSound, Refreshing
  <1>8. /\ PanelSound(c, v, request) /\ c.op = NoCall /\ c.attempted = {} /\ ~c.url /\ c.needsRecovery /\ c.key # None
        /\ \A d : GoesOn(c, v, d, v, request) => GoesOn(b, v, d, v, request)
    BY <1>1, <1>2, <1>4, <1>6, <1>7, RestSound DEF w
  <1>9. r.version <= request[c.key].version /\ (c.receipt # None => c.receipt.version <= r.version)
    BY <1>1, <1>6 DEF PanelSound, Told, Past
  <1>10. GoesOn(c, v, Shown(c, r), v, request)
    BY <1>1, <1>4, <1>6, <1>8, <1>9, ShownSound
  <1> QED BY <1>1, <1>8, <1>10, TabStep

\* A panel whose refresh an error stopped.
Ended(b, state, error) ==
  LET l == [[[b.loop EXCEPT !.call = NoCall] EXCEPT !.stopped = TRUE] EXCEPT !.state = state]
  IN [[b EXCEPT !.loop = l] EXCEPT !.error = error]

LEMMA StoppedFields ==
  ASSUME NEW b \in PanelRecords, NEW state \in {"paused", "error"}, NEW error \in BOOLEAN
  PROVE  LET c == Ended(b, state, error) IN
         /\ c \in PanelRecords /\ c.op = b.op /\ c.link = b.link /\ c.key = b.key
         /\ c.receipt = b.receipt /\ c.needsRecovery = b.needsRecovery /\ c.missingLink = b.missingLink
         /\ c.url = b.url /\ c.continue = b.continue /\ c.attempted = b.attempted /\ c.since = b.since
         /\ c.loop.call = NoCall /\ c.loop.stopped /\ c.loop.state = state
  <1> DEFINE l == [[[b.loop EXCEPT !.call = NoCall] EXCEPT !.stopped = TRUE] EXCEPT !.state = state]
  <1>1. b.loop \in Loops
    BY PanelFields
  <1>2. l \in Loops /\ l.call = NoCall /\ l.stopped /\ l.state = state
    BY <1>1, PanelApart DEF Loops
  <1>3. Ended(b, state, error) = [[b EXCEPT !.loop = l] EXCEPT !.error = error]
    BY DEF Ended
  <1> HIDE DEF l
  <1> QED BY <1>2, <1>3 DEF PanelRecords

LEMMA RefreshFailsGoesOn ==
  ASSUME PanelInv, NEW t \in PanelTabs, RefreshFails(t)
  PROVE  TabGoesOn(t)
  <1> DEFINE b == panel[t]  v == visit[t]
  <1>1. /\ PanelSound(b, v, request) /\ request \in [Keys -> Receipts] /\ request' = request /\ UNCHANGED visit
        /\ b \in PanelRecords /\ v \in VisitRecords /\ b.loop.call.kind # "idle" /\ b.loop \in Loops
        /\ b.loop.call # NoCall
    BY AtTab, PanelFields, PanelApart DEF RefreshFails, Stays
  <1>2. CASE b.loop.call.kind = "prepare"
    <2> DEFINE l == [b.loop EXCEPT !.call = Call("after")]
               d == [b EXCEPT !.loop = l]
    <2>1. Call("after") \in LoopCalls /\ Call("after").kind = "after" /\ Call("after").answer = None
      BY DEF Call, LoopCalls, Known
    <2>2. l \in Loops /\ l.call = Call("after") /\ l.stopped = b.loop.stopped /\ l.state = b.loop.state
      BY <1>1, <2>1 DEF Loops
    <2>3. panel' = [panel EXCEPT ![t] = d]
      BY <1>1, <1>2 DEF RefreshFails, PanelRecords
    <2> HIDE DEF l
    <2>4. /\ d \in PanelRecords /\ d.loop = l /\ d.op = b.op /\ d.link = b.link /\ d.key = b.key
          /\ d.receipt = b.receipt /\ d.needsRecovery = b.needsRecovery /\ d.missingLink = b.missingLink
          /\ d.url = b.url /\ d.continue = b.continue /\ d.attempted = b.attempted /\ d.since = b.since
          /\ d.error = b.error
      BY <1>1, <2>2 DEF PanelRecords
    <2> HIDE DEF d
    <2>5. Told(d, request)
      BY <1>1, <2>1, <2>2, <2>4 DEF PanelSound, Told, Past
    <2>6. Refreshing(d) /\ Pacing(d, v) /\ Asked(d, v) /\ Leading(d)
      BY <1>1, <1>2, <2>1, <2>2, <2>4 DEF PanelSound, Refreshing, Pacing, Asked, Leading
    <2>7. Forward(b, d) /\ Spaced(b, v, d)
      BY <1>1, <2>4, StaysSound DEF GoesOn, Forward, Spaced
    <2>8. GoesOn(b, v, d, v, request)
      BY <1>1, <2>4, <2>5, <2>6, <2>7 DEF GoesOn, PanelSound
    <2> QED BY <1>1, <2>3, <2>8, TabStep
  <1>3. CASE b.loop.call.kind # "prepare"
    <2> DEFINE c == Ended(b, "error", TRUE)
    <2>1. Stopped(b) = c
      BY <1>1 DEF Stopped, Ended, PanelRecords, Loops
    <2>2. /\ c \in PanelRecords /\ c.op = b.op /\ c.link = b.link /\ c.key = b.key
          /\ c.receipt = b.receipt /\ c.needsRecovery = b.needsRecovery /\ c.missingLink = b.missingLink
          /\ c.url = b.url /\ c.continue = b.continue /\ c.attempted = b.attempted /\ c.since = b.since
          /\ c.loop.call = NoCall /\ c.loop.stopped /\ c.loop.state = "error"
      BY <1>1, StoppedFields
    <2> HIDE DEF c
    <2>3. PanelSound(c, v, request) /\ \A d : GoesOn(c, v, d, v, request) => GoesOn(b, v, d, v, request)
      BY <1>1, <2>2, RestSound
    <2>4. GoesOn(b, v, c, v, request)
      BY <2>3, StaysSound
    <2>5. panel' = [panel EXCEPT ![t] = c]
      BY <1>3, <2>1 DEF RefreshFails
    <2> QED BY <1>1, <2>4, <2>5, TabStep
  <1> QED BY <1>2, <1>3

LEMMA ReadAfterGoesOn ==
  ASSUME PanelInv, NEW t \in PanelTabs, ReadAfter(t)
  PROVE  TabGoesOn(t)
  <1> DEFINE b == panel[t]  v == visit[t]  r == b.loop.call.answer
             inReview == r.status = "review"
             state == IF inReview THEN "paused" ELSE "error"
             error == ~inReview
             c == Ended(b, state, error)
             s == [Stopped(b) EXCEPT !.loop.state = IF inReview THEN "paused" ELSE @, !.error = ~inReview]
  <1>1. /\ PanelSound(b, v, request) /\ request \in [Keys -> Receipts] /\ request' = request /\ UNCHANGED visit
        /\ b \in PanelRecords /\ b.loop.call.kind = "after" /\ r # None /\ r \in Receipts /\ b.loop \in Loops
        /\ panel' = [panel EXCEPT ![t] = Shown(s, r)]
    BY AtTab, PanelFields, Versions DEF ReadAfter, Stays
  <1>2. state \in {"paused", "error"} /\ error \in BOOLEAN
    OBVIOUS
  <1>3. s = c
    <2>1. Stopped(b) = Ended(b, "error", TRUE)
      BY <1>1 DEF Stopped, Ended, PanelRecords, Loops
    <2> QED BY <1>1, <2>1 DEF Ended, PanelRecords, Loops
  <1> HIDE DEF state, error, s
  <1>4. /\ c \in PanelRecords /\ c.op = b.op /\ c.link = b.link /\ c.key = b.key
        /\ c.receipt = b.receipt /\ c.needsRecovery = b.needsRecovery /\ c.missingLink = b.missingLink
        /\ c.url = b.url /\ c.continue = b.continue /\ c.attempted = b.attempted /\ c.since = b.since
        /\ c.loop.call = NoCall /\ c.loop.stopped /\ c.loop.state = state
    BY <1>1, <1>2, StoppedFields
  <1> HIDE DEF c
  <1>5. /\ PanelSound(c, v, request) /\ c.op = NoCall /\ c.attempted = {} /\ ~c.url /\ c.needsRecovery /\ c.key # None
        /\ \A d : GoesOn(c, v, d, v, request) => GoesOn(b, v, d, v, request)
    BY <1>1, <1>2, <1>4, RestSound
  <1>6. r.version <= request[c.key].version /\ (c.receipt # None => c.receipt.version <= r.version)
    BY <1>1, <1>4 DEF PanelSound, Told, Past
  <1>7. GoesOn(c, v, Shown(c, r), v, request)
    BY <1>1, <1>4, <1>5, <1>6, ShownSound
  <1> QED BY <1>1, <1>3, <1>5, <1>7, TabStep

-----------------------------------------------------------------------------
(* The panel: the clock, the server and what the steps establish together *)

LEMMA TickSound ==
  ASSUME NEW b, NEW v, NEW q, PanelSound(b, v, q)
  PROVE  GoesOn(b, v, [b EXCEPT !.since = IF @ = None \/ @ = Interval THEN @ ELSE @ + 1,
                                !.loop.wait = IF @ = 0 THEN 0 ELSE @ - 1],
                [v EXCEPT !.gap = IF @ = Interval THEN @ ELSE @ + 1], q)
  <1> DEFINE s == IF b.since = None \/ b.since = Interval THEN b.since ELSE b.since + 1
             w == IF b.loop.wait = 0 THEN 0 ELSE b.loop.wait - 1
             g == IF v.gap = Interval THEN v.gap ELSE v.gap + 1
             l == [b.loop EXCEPT !.wait = w]
             d == [b EXCEPT !.since = IF @ = None \/ @ = Interval THEN @ ELSE @ + 1,
                            !.loop.wait = IF @ = 0 THEN 0 ELSE @ - 1]
             e == [v EXCEPT !.gap = IF @ = Interval THEN @ ELSE @ + 1]
  <1>1. /\ b \in PanelRecords /\ v \in VisitRecords /\ b.loop \in Loops /\ b.since \in 0..Interval \cup {None}
        /\ b.loop.wait \in 0..Interval /\ v.gap \in 0..Interval /\ Interval \in Nat
    BY PanelFields, PanelApart DEF PanelSound, VisitRecords
  <1>2. s \in 0..Interval \cup {None} /\ w \in 0..Interval /\ g \in 0..Interval
    BY <1>1, PanelApart
  <1>3. b.since # None /\ v.gap = b.since => s = g
    OBVIOUS
  <1>4. v.gap + b.loop.wait >= Interval => g + w >= Interval
    BY <1>1
  <1>5. s # None <=> b.since # None
    BY <1>1, PanelApart
  <1>6. d = [[b EXCEPT !.since = s] EXCEPT !.loop = l] /\ e = [v EXCEPT !.gap = g]
    BY <1>1 DEF PanelRecords, Loops
  <1> HIDE DEF s, w, g
  <1>7. /\ l \in Loops /\ l.call = b.loop.call /\ l.stopped = b.loop.stopped /\ l.state = b.loop.state /\ l.wait = w
    BY <1>1, <1>2 DEF Loops
  <1> HIDE DEF l, d, e
  <1>8. /\ d \in PanelRecords /\ d.loop = l /\ d.op = b.op /\ d.link = b.link /\ d.key = b.key
        /\ d.receipt = b.receipt /\ d.needsRecovery = b.needsRecovery /\ d.missingLink = b.missingLink
        /\ d.url = b.url /\ d.continue = b.continue /\ d.attempted = b.attempted /\ d.since = s
        /\ d.error = b.error
    BY <1>1, <1>2, <1>6, <1>7 DEF PanelRecords
  <1>9. e \in VisitRecords /\ e.gap = g /\ e.started = v.started /\ e.asked = v.asked
    BY <1>1, <1>2, <1>6 DEF VisitRecords
  <1>10. Told(d, q)
    BY <1>7, <1>8 DEF PanelSound, Told, Past
  <1>11. Refreshing(d) /\ Asked(d, e) /\ Leading(d)
    BY <1>5, <1>7, <1>8, <1>9 DEF PanelSound, Refreshing, Asked, Leading
  <1>12. Pacing(d, e)
    BY <1>3, <1>4, <1>5, <1>7, <1>8, <1>9 DEF PanelSound, Pacing
  <1>13. Forward(b, d) /\ Spaced(b, v, d)
    BY <1>7, <1>8, StaysSound, PanelApart DEF GoesOn, Forward, Spaced
  <1> QED BY <1>8, <1>9, <1>10, <1>11, <1>12, <1>13 DEF GoesOn, PanelSound, d, e

\* The requests only go on: their versions grow, and closed ones stay closed.
Advance(q, r) ==
  \A k \in Keys : q[k].version <= r[k].version /\ (q[k].status = "closed" => r[k].status = "closed")

LEMMA AdvancedSound ==
  ASSUME NEW b, NEW v, NEW q \in [Keys -> Receipts], NEW r \in [Keys -> Receipts], Advance(q, r), PanelSound(b, v, q)
  PROVE  GoesOn(b, v, b, v, r)
  <1>1. /\ b \in PanelRecords /\ b.key \in Keys \cup {None} /\ b.receipt \in Known
        /\ b.op.answer \in Known /\ b.loop.call.answer \in Known
    BY PanelFields DEF PanelSound
  <1>2. /\ \A k \in Keys : q[k].version \in Nat /\ r[k].version \in Nat
        /\ \A a \in Known : a # None => a.version \in Nat
    BY Versions DEF Receipts
  <1>3. b.key # None => /\ q[b.key].version <= r[b.key].version
                        /\ q[b.key].status = "closed" => r[b.key].status = "closed"
                        /\ q[b.key].version \in Nat /\ r[b.key].version \in Nat
    BY <1>1, <1>2 DEF Advance
  <1>4. Told(b, r)
    BY <1>1, <1>2, <1>3 DEF PanelSound, Told, Past
  <1> QED BY <1>4, StaysSound DEF GoesOn, PanelSound

LEMMA ServerAdvances ==
  ASSUME PanelInv, NEW k \in Keys, ServerCreates(k) \/ ServerMoves(k)
  PROVE  Advance(request, request') /\ Identities'
  <1>1. /\ request \in [Keys -> Receipts] /\ UNCHANGED <<active, keysDrawn, created>>
        /\ MaxVersion \in Nat /\ MaxVersion # 0 /\ Identities /\ request[k] \in Receipts
        /\ request[k].version \in Nat
    BY PanelApart, PanelAssumption DEF PanelAssumption, PanelInv, Identities, ServerCreates, ServerMoves, Receipts
  <1>2. PICK r \in Receipts :
          /\ request' = [request EXCEPT ![k] = r] /\ request[k].version <= r.version
          /\ request[k].status # "closed" /\ k \in created
    <2>1. CASE ServerCreates(k)
      <3>1. PICK status \in {"preparing", "waiting"} :
              request' = [request EXCEPT ![k] = [status |-> status, version |-> 1]]
        BY <2>1 DEF ServerCreates
      <3> DEFINE r == [status |-> status, version |-> 1]
      <3>2. r \in Receipts /\ r.version = 1
        BY <1>1 DEF Receipts, Statuses
      <3>3. request[k] = Absent /\ k \in created
        BY <2>1 DEF ServerCreates
      <3>4. request[k].version <= r.version /\ request[k].status # "closed"
        BY <3>2, <3>3, PanelApart
      <3> HIDE DEF r
      <3>5. request' = [request EXCEPT ![k] = r]
        BY <3>1 DEF r
      <3> QED BY <3>2, <3>3, <3>4, <3>5
    <2>2. CASE ServerMoves(k)
      <3>1. PICK status \in Moves(request[k].status) :
              request' = [request EXCEPT ![k] = [status |-> status, version |-> @.version + 1]]
        BY <2>2 DEF ServerMoves
      <3>2. request[k].status # "closed" /\ status \in Statuses
        BY DEF Moves, Statuses
      <3>3. request[k].version \in 1..(MaxVersion - 1) /\ request[k] # Absent
        BY <2>2, PanelApart DEF ServerMoves
      <3> DEFINE r == [status |-> status, version |-> request[k].version + 1]
      <3>4. r \in Receipts /\ request[k].version <= r.version
        BY <1>1, <3>2, <3>3 DEF Receipts
      <3>5. request' = [request EXCEPT ![k] = r]
        BY <1>1, <3>1
      <3>6. k \in created
        BY <1>1, <3>3 DEF Identities
      <3> HIDE DEF r
      <3> QED BY <3>2, <3>4, <3>5, <3>6
    <2> QED BY <2>1, <2>2
  <1>3. \A j \in Keys : request'[j] = IF j = k THEN r ELSE request[j]
    BY <1>1, <1>2
  <1>4. Advance(request, request')
    <2>1. \A j \in Keys : request[j].version \in Nat
      BY <1>1, PanelApart DEF Receipts
    <2> QED BY <1>2, <1>3, <2>1 DEF Advance
  <1>5. k = active
    BY <1>1, <1>2 DEF Identities
  <1>6. request' \in [Keys -> Receipts]
    BY <1>1, <1>2
  <1> QED BY <1>1, <1>2, <1>3, <1>4, <1>5, <1>6 DEF Identities

\* The steps of the tabs.
LEMMA TabsGoOn ==
  ASSUME PanelInv, NEW t \in PanelTabs,
         \/ Serve(t) \/ Mount(t) \/ Mounted(t) \/ Unmount(t)
         \/ Create(t) \/ CreateUnstored(t) \/ Recover(t) \/ Operated(t) \/ Another(t) \/ Renewed(t)
         \/ Pay(t) \/ PayAutomatically(t) \/ CheckoutAnswers(t)
         \/ Refresh(t) \/ Refreshed(t) \/ RefreshFails(t) \/ ReadAfter(t)
  PROVE  TabGoesOn(t) /\ surprised' = FALSE /\ Identities'
  <1>1. /\ surprised = FALSE /\ Identities /\ PanelSound(panel[t], visit[t], request)
        /\ active \in Keys \cup {None} /\ keysDrawn \in 0..MaxKeys /\ created \subseteq Keys
    BY AtTab DEF PanelInv
  <1>2. UNCHANGED <<active, keysDrawn, created, request>> => Identities'
    BY <1>1 DEF Identities
  <1>3. CASE \/ Serve(t) \/ Mount(t) \/ Mounted(t) \/ Unmount(t) \/ CreateUnstored(t) \/ Recover(t) \/ Operated(t)
             \/ Another(t) \/ CheckoutAnswers(t) \/ Refresh(t) \/ Refreshed(t) \/ RefreshFails(t) \/ ReadAfter(t)
    <2>1. UNCHANGED <<active, keysDrawn, created, request, surprised>>
      BY <1>3 DEF Serve, Mount, Mounted, Unmount, CreateUnstored, Recover, Operated, Another, CheckoutAnswers,
                  Refresh, Refreshed, RefreshFails, ReadAfter, Stays
    <2>2. TabGoesOn(t)
      BY <1>3, ServeGoesOn, MountGoesOn, OperatedGoesOn, OperatingGoesOn, CheckoutGoesOn, RefreshGoesOn,
         RefreshedGoesOn, RefreshFailsGoesOn, ReadAfterGoesOn
    <2> QED BY <1>1, <1>2, <2>1, <2>2
  <1>4. CASE Create(t)
    <2>1. /\ request' = request /\ surprised' = surprised /\ created' = created \cup {active'}
          /\ \/ active = None /\ keysDrawn < MaxKeys /\ keysDrawn' = keysDrawn + 1 /\ active' = keysDrawn'
             \/ active # None /\ UNCHANGED <<active, keysDrawn>>
      BY <1>4 DEF Create
    <2>2. active' \in Keys /\ keysDrawn' \in 0..MaxKeys
      BY <1>1, <2>1, PanelApart DEF Keys
    <2>3. \A k \in created' : k = active' \/ request'[k].status = "closed"
      BY <1>1, <2>1, PanelApart DEF Identities
    <2>4. Identities'
      BY <1>1, <2>1, <2>2, <2>3 DEF Identities
    <2> QED BY <1>1, <1>4, <2>1, <2>4, CreateGoesOn
  <1>5. CASE Renewed(t)
    <2> DEFINE b == panel[t]
    <2>1. /\ UNCHANGED <<keysDrawn, created, request, surprised>>
          /\ \/ CanPrepareAnother(b.op.answer) /\ Finish(b.key)
             \/ active' = active
      BY <1>5 DEF Renewed
    <2>2. CanPrepareAnother(b.op.answer) => b.key \in Keys /\ request[b.key].status = "closed"
      BY <1>1, PanelFields DEF CanPrepareAnother, PanelSound, Told, Past
    <2>3. Identities'
      BY <1>1, <2>1, <2>2 DEF Identities, Finish
    <2> QED BY <1>1, <1>5, <2>1, <2>3, RenewedGoesOn
  <1>6. CASE Pay(t) \/ PayAutomatically(t)
    <2>1. PICK automatic \in BOOLEAN :
            Starts(t, automatic) /\ MayOperate(panel[t]) /\ CanPay(panel[t].receipt)
            /\ (automatic => Continue(panel[t]))
      BY <1>6 DEF Pay, PayAutomatically, ShowPay, Continue
    <2>2. UNCHANGED <<active, keysDrawn, created, request>>
      BY <2>1 DEF Starts
    <2> QED BY <1>2, <2>1, <2>2, StartsGoesOn
  <1> QED BY <1>3, <1>4, <1>5, <1>6

\* What every step does to every tab.
LEMMA PanelStep ==
  ASSUME PanelInv, [PanelNext]_panelVars
  PROVE  /\ Identities' /\ surprised' = FALSE
         /\ DOMAIN panel' = PanelTabs /\ DOMAIN visit' = PanelTabs
         /\ \A t \in PanelTabs : GoesOn(panel[t], visit[t], panel'[t], visit'[t], request')
  <1>1. /\ DOMAIN panel = PanelTabs /\ DOMAIN visit = PanelTabs /\ request \in [Keys -> Receipts]
        /\ surprised = FALSE /\ Identities
        /\ \A t \in PanelTabs : PanelSound(panel[t], visit[t], request)
    BY DEF PanelInv, Identities
  <1>2. ASSUME NEW k \in Keys, ServerCreates(k) \/ ServerMoves(k)
        PROVE  /\ Identities' /\ surprised' = FALSE
               /\ DOMAIN panel' = PanelTabs /\ DOMAIN visit' = PanelTabs
               /\ \A t \in PanelTabs : GoesOn(panel[t], visit[t], panel'[t], visit'[t], request')
    <2>1. Advance(request, request') /\ Identities'
      BY <1>2, ServerAdvances
    <2>2. UNCHANGED <<panel, visit, surprised>>
      BY <1>2 DEF ServerCreates, ServerMoves
    <2>3. request' \in [Keys -> Receipts]
      BY <2>1 DEF Identities
    <2>4. \A t \in PanelTabs : GoesOn(panel[t], visit[t], panel[t], visit[t], request')
      BY <1>1, <2>1, <2>3, AdvancedSound
    <2> QED BY <1>1, <2>1, <2>2, <2>4
  <1>3. CASE Tick
    <2>1. /\ UNCHANGED <<active, keysDrawn, created, request, surprised>>
          /\ panel' = [t \in PanelTabs |->
               [panel[t] EXCEPT !.since = IF @ = None \/ @ = Interval THEN @ ELSE @ + 1,
                                !.loop.wait = IF @ = 0 THEN 0 ELSE @ - 1]]
          /\ visit' = [t \in PanelTabs |-> [visit[t] EXCEPT !.gap = IF @ = Interval THEN @ ELSE @ + 1]]
      BY <1>3 DEF Tick
    <2>2. Identities'
      BY <1>1, <2>1 DEF Identities
    <2>3. \A t \in PanelTabs :
            GoesOn(panel[t], visit[t],
                   [panel[t] EXCEPT !.since = IF @ = None \/ @ = Interval THEN @ ELSE @ + 1,
                                    !.loop.wait = IF @ = 0 THEN 0 ELSE @ - 1],
                   [visit[t] EXCEPT !.gap = IF @ = Interval THEN @ ELSE @ + 1], request)
      BY <1>1, TickSound
    <2>4. \A t \in PanelTabs : GoesOn(panel[t], visit[t], panel'[t], visit'[t], request)
      BY <2>1, <2>3
    <2> QED BY <1>1, <2>1, <2>2, <2>4
  <1>4. ASSUME NEW t \in PanelTabs,
               \/ Serve(t) \/ Mount(t) \/ Mounted(t) \/ Unmount(t)
               \/ Create(t) \/ CreateUnstored(t) \/ Recover(t) \/ Operated(t) \/ Another(t) \/ Renewed(t)
               \/ Pay(t) \/ PayAutomatically(t) \/ CheckoutAnswers(t)
               \/ Refresh(t) \/ Refreshed(t) \/ RefreshFails(t) \/ ReadAfter(t)
        PROVE  /\ Identities' /\ surprised' = FALSE
               /\ DOMAIN panel' = PanelTabs /\ DOMAIN visit' = PanelTabs
               /\ \A u \in PanelTabs : GoesOn(panel[u], visit[u], panel'[u], visit'[u], request')
    <2>1. TabGoesOn(t) /\ surprised' = FALSE /\ Identities'
      BY <1>4, TabsGoOn
    <2>2. \A u \in PanelTabs : GoesOn(panel[u], visit[u], panel[u], visit[u], request)
      BY <1>1, StaysSound
    <2> QED BY <2>1, <2>2 DEF TabGoesOn
  <1>5. CASE UNCHANGED panelVars
    <2>1. \A u \in PanelTabs : GoesOn(panel[u], visit[u], panel[u], visit[u], request)
      BY <1>1, StaysSound
    <2> QED BY <1>1, <1>5, <2>1 DEF panelVars, Identities
  <1> QED BY <1>2, <1>3, <1>4, <1>5 DEF PanelNext

LEMMA PanelInitInv == PanelInit => PanelInv
  <1> SUFFICES ASSUME PanelInit PROVE PanelInv
    OBVIOUS
  <1>1. /\ active = None /\ keysDrawn = 0 /\ created = {} /\ request = [k \in Keys |-> Absent]
        /\ panel = [t \in PanelTabs |-> Unmounted] /\ visit = [t \in PanelTabs |-> NoVisit] /\ surprised = FALSE
    BY DEF PanelInit
  <1>2. Identities
    BY <1>1, PanelApart DEF Identities
  <1>3. PanelSound(Unmounted, NoVisit, request)
    <2>1. /\ Unmounted.receipt = None /\ Unmounted.op = NoCall /\ Unmounted.loop = NoLoop /\ Unmounted.since = None
          /\ ~Unmounted.continue /\ Unmounted.attempted = {} /\ ~Unmounted.url /\ ~Unmounted.link
          /\ NoCall # Call("mount")
      BY DEF Unmounted, NoCall, Call
    <2> QED BY <2>1, Unopened, FreshSound DEF GoesOn
  <1> QED BY <1>1, <1>2, <1>3 DEF PanelInv

LEMMA PanelStepInv ==
  ASSUME PanelInv, [PanelNext]_panelVars
  PROVE  PanelInv'
  BY PanelStep DEF PanelInv, GoesOn

\* The invariant of the purchase panels holds in every state.
THEOREM PanelInvariance == PanelSpec => []PanelInv
  BY PanelInitInv, PanelStepInv, PTL DEF PanelSpec

LEMMA PanelInvLeads == PanelInv => PurchaseIsLed
  <1> SUFFICES ASSUME PanelInv PROVE PurchaseIsLed
    OBVIOUS
  <1>1. Identities /\ surprised = FALSE /\ \A t \in PanelTabs : PanelSound(panel[t], visit[t], request)
    BY DEF PanelInv
  <1>2. PanelTypeOK
    <2>1. ASSUME NEW t \in PanelTabs
          PROVE  /\ panel[t].receipt \in Receipts \cup {None} /\ panel[t].receipt # None => panel[t].key \in Keys
                 /\ panel[t].loop.checks \in 0..MaxChecks /\ panel[t].loop.wait \in 0..Interval
                 /\ panel[t].since \in 0..Interval \cup {None}
                 /\ panel[t].attempted \subseteq Keys
      BY <1>1, PanelFields DEF PanelSound, Told, Known
    <2> QED BY <1>1, <2>1 DEF PanelTypeOK, Identities
  <1>3. OneLiveRequest
    <2> DEFINE live == {k \in Keys : request[k].status \notin {"absent", "closed"}}
    <2>1. \A k \in live : k = active
      BY <1>1, PanelApart DEF Identities
    <2>2. live = {} \/ live = {active}
      BY <2>1
    <2>3. Cardinality({}) = 0 /\ Cardinality({active}) = 1
      BY FS_EmptySet, FS_Singleton
    <2>4. Cardinality(live) <= 1
      <3> HIDE DEF live
      <3> QED BY <2>2, <2>3
    <2> QED BY <2>4 DEF OneLiveRequest
  <1>4. NeverSurprised
    BY <1>1 DEF NeverSurprised
  <1>5. SomethingToDo
    <2> SUFFICES ASSUME NEW t \in PanelTabs, panel[t].mounted
                 PROVE  LET b == panel[t] IN
                        IF SimpleProgress(b) THEN Busy(b) \/ LoopAlive(b) \/ b.url \/ Continue(b)
                        ELSE \/ Busy(b) \/ Recovering(b) \/ b.url \/ b.missingLink
                             \/ ShowCreate(b) \/ ShowRecovery(b) \/ ShowPay(b) \/ CanStartAnother(b)
      BY DEF SomethingToDo
    <2> DEFINE b == panel[t]
    <2>1. PanelSound(b, visit[t], request)
      BY <1>1
    <2> HIDE DEF b
    <2>2. ASSUME SimpleProgress(b) PROVE Busy(b) \/ LoopAlive(b) \/ b.url \/ Continue(b)
      <3>1. CASE Direct(b.receipt) /\ b.loop.state = "watching" /\ ~b.error
        BY <2>1, <3>1 DEF PanelSound, Refreshing, LoopAlive, Direct, ShouldWatch
      <3>2. CASE Busy(b)
        BY <3>2
      <3>3. CASE AutomaticCheckout(b)
        BY <2>1, <3>3 DEF PanelSound, Leading, AutomaticCheckout, Continue, Busy
      <3> QED BY <2>2, <3>1, <3>2, <3>3 DEF SimpleProgress, Preparing
    <2>3. ASSUME ~SimpleProgress(b)
          PROVE  \/ Busy(b) \/ Recovering(b) \/ b.url \/ b.missingLink
                 \/ ShowCreate(b) \/ ShowRecovery(b) \/ ShowPay(b) \/ CanStartAnother(b)
      BY <2>1, <2>3 DEF PanelSound, Leading, ShowCreate, ShowRecovery, ShowPay
    <2> QED BY <2>2, <2>3 DEF b
  <1> QED BY <1>2, <1>3, <1>4, <1>5 DEF PurchaseIsLed

\* Whatever tabs are open, whatever answers are lost or late and however the
\* buyer retries (WebOrderRequestSection, web-request-session): one request of
\* this browser at most is under way, Mercado Pago opens by itself only once and
\* only for a purchase asked for in this visit, and no panel is a dead end.
THEOREM PurchaseIsAlwaysLed == PanelSpec => []PurchaseIsLed
  BY PanelInvariance, PanelInvLeads, PTL

LEMMA PanelStepForward ==
  ASSUME PanelInv, [PanelNext]_panelVars
  PROVE  /\ \A t \in PanelTabs : LET b == panel[t] c == panel'[t] IN
              b.receipt # None /\ c.receipt # None /\ b.key = c.key => c.receipt.version >= b.receipt.version
         /\ \A t \in PanelTabs : panel'[t].loop.call.kind = "prepare" /\ panel[t].loop.call = NoCall =>
              visit[t].gap = Interval
  BY PanelStep DEF GoesOn, Forward, Spaced

\* No answer that was asked for before the one on the screen replaces it, and a
\* visit never makes the server advance a preparation before the interval has
\* passed since the last time, whatever restarts the refresh.
THEOREM PanelAlwaysGoesForward == PanelSpec => PanelGoesForward
  <1>1. PanelInv /\ [PanelNext]_panelVars =>
          [\A t \in PanelTabs : LET b == panel[t] c == panel'[t] IN
             b.receipt # None /\ c.receipt # None /\ b.key = c.key => c.receipt.version >= b.receipt.version]_panelVars
    BY PanelStepForward
  <1>2. PanelInv /\ [PanelNext]_panelVars =>
          [\A t \in PanelTabs : panel'[t].loop.call.kind = "prepare" /\ panel[t].loop.call = NoCall =>
             visit[t].gap = Interval]_panelVars
    BY PanelStepForward
  <1>3. PanelSpec => ShownForward
    BY <1>1, PanelInvariance, PTL DEF PanelSpec, ShownForward
  <1>4. PanelSpec => PreparesSpaced
    BY <1>2, PanelInvariance, PTL DEF PanelSpec, PreparesSpaced
  <1> QED BY <1>3, <1>4 DEF PanelGoesForward
=============================================================================
