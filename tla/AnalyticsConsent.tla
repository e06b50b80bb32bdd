-------------------------- MODULE AnalyticsConsent --------------------------
(***************************************************************************)
(* The optional measurement of visits: the choice every tab of a browser   *)
(* shares and the session each tab keeps for itself (analytics/client.ts,  *)
(* AnalyticsConsent.tsx, AnalyticsPrivacyControls.tsx), the events and     *)
(* deletions on their way, what the server keeps of them                   *)
(* (server/analytics.ts) and the monthly purge that rides on the requests  *)
(* (server/analytics-retention.ts).                                        *)
(*                                                                         *)
(* A batch of D1 statements is one step.  An event is reduced to the       *)
(* session it belongs to and the day it is stored; its id, name, path,     *)
(* source and device are left out.  A browser that refuses to store is     *)
(* left out: there nothing is ever accepted.  A request that is lost is    *)
(* one that never arrives.                                                 *)
(***************************************************************************)
EXTENDS Naturals, FiniteSets

CONSTANTS
  Tabs,
  Retention,    \* ANALYTICS_RETENTION_DAYS
  MonthDays,    \* days of a month
  MaxSessions,  \* bound: session ids ever drawn
  MaxEvents,    \* bound: events ever sent
  MaxDay,       \* bound: days that pass
  MaxPurges     \* bound: purges ever claimed

ASSUME ConsentAssumption ==
  /\ Retention \in Nat \ {0} /\ MonthDays \in Nat \ {0}
  /\ MaxSessions \in Nat /\ MaxEvents \in Nat /\ MaxDay \in Nat \ {0} /\ MaxPurges \in Nat

VARIABLES
  consent,   \* localStorage[CONSENT_KEY]
  tab,       \* each tab: its session (0: none) and the withdrawal it waits for
  events,    \* requests on their way: how many events of each session
  deletions, \* requests on their way: deletions, and their answers
  kept,      \* the tables: events, sessions, revocations
  day,
  claim,     \* analytics_maintenance.last_run_at, as [day, purge]
  purges,    \* the purges claimed and not finished
  drawn, sent, claimed,
  told,      \* history: sessions a tab was told are deleted, with the day
  finished   \* history: the days on which a purge was carried out

clientVars == <<consent, tab, drawn, sent>>
serverVars == <<kept, claim, purges, claimed, finished>>
vars == <<consent, tab, events, deletions, kept, day, claim, purges, drawn, sent, claimed, told, finished>>

Sessions == 1..MaxSessions
Month(d) == (d - 1) \div MonthDays
Never    == [day |-> 0, purge |-> 0]

-----------------------------------------------------------------------------
(* The browser *)

\* trackAnalyticsEvent in tab t, with the session getOrCreateSessionId finds
\* or draws.  Nothing is awaited between the question and the request.
Track(t) ==
  /\ consent = "accepted" /\ sent < MaxEvents
  /\ \/ tab[t].session # 0 /\ UNCHANGED <<tab, drawn>>
     \/ /\ tab[t].session = 0 /\ drawn < MaxSessions
        /\ drawn' = drawn + 1
        /\ tab' = [tab EXCEPT ![t].session = drawn + 1]
  /\ sent' = sent + 1
  /\ events' = [events EXCEPT ![tab'[t].session] = @ + 1]
  /\ UNCHANGED <<consent, deletions, day, serverVars, told>>

\* grantAnalyticsConsent, from the notice (only while the choice is open) or
\* from the privacy page: the choice, then the consent_granted event.
Grant(t) ==
  /\ tab[t].waits = 0 /\ consent # "accepted"
  /\ consent' = "accepted" /\ sent < MaxEvents
  /\ \/ tab[t].session # 0 /\ UNCHANGED <<tab, drawn>>
     \/ /\ tab[t].session = 0 /\ drawn < MaxSessions
        /\ drawn' = drawn + 1
        /\ tab' = [tab EXCEPT ![t].session = drawn + 1]
  /\ sent' = sent + 1
  /\ events' = [events EXCEPT ![tab'[t].session] = @ + 1]
  /\ UNCHANGED <<deletions, day, serverVars, told>>

\* rejectAnalyticsConsent, offered while the choice was not "accepted".
Reject(t) ==
  /\ tab[t].waits = 0 /\ consent # "accepted"
  /\ consent' = "rejected"
  /\ tab' = [tab EXCEPT ![t].session = 0]
  /\ UNCHANGED <<events, deletions, day, serverVars, drawn, sent, told>>

\* withdrawAnalyticsConsent: the choice and the session of this tab go at
\* once, then the server is asked to delete what that session left.
Withdraw(t) ==
  /\ tab[t].waits = 0
  /\ consent' = "rejected"
  /\ tab' = [tab EXCEPT ![t] = [session |-> 0, waits |-> @.session]]
  /\ deletions' = IF tab[t].session = 0 THEN deletions
                  ELSE deletions \cup {[session |-> tab[t].session, tab |-> t, done |-> 0]}
  /\ UNCHANGED <<events, day, serverVars, drawn, sent, told>>

\* The answer to a deletion: "remote-deleted".
Confirmed(t) ==
  \E d \in deletions :
    /\ d.tab = t /\ d.done # 0 /\ tab[t].waits = d.session
    /\ deletions' = deletions \ {d}
    /\ tab' = [tab EXCEPT ![t].waits = 0]
    /\ told' = told \cup {[session |-> d.session, day |-> d.done]}
    /\ UNCHANGED <<consent, events, day, serverVars, drawn, sent>>

\* No answer, or an error: "local-only".  The request may still arrive.
Unconfirmed(t) ==
  /\ tab[t].waits # 0
  /\ tab' = [tab EXCEPT ![t].waits = 0]
  /\ deletions' = {d \in deletions : d.tab # t \/ d.done = 0}
  /\ UNCHANGED <<consent, events, day, serverVars, drawn, sent, told>>

\* The person duplicates a tab: the browser copies its session storage.
Duplicate(t, other) ==
  /\ t # other /\ tab[t].session # 0
  /\ tab[other] = [session |-> 0, waits |-> 0]
  /\ tab' = [tab EXCEPT ![other].session = tab[t].session]
  /\ UNCHANGED <<consent, events, deletions, day, serverVars, drawn, sent, told>>

-----------------------------------------------------------------------------
(* The server *)

Revoked(s) == kept.revoked[s] # 0

\* Mutant: the event is inserted whatever was revoked.
StoredBlindly(s) ==
  [kept EXCEPT !.sessions[s] = day, !.events = @ \cup {[session |-> s, at |-> day]}]

\* storeAnalyticsEvent: both statements ask whether the session was revoked.
Stored(s) ==
  IF Revoked(s) THEN kept
  ELSE [kept EXCEPT !.sessions[s] = day, !.events = @ \cup {[session |-> s, at |-> day]}]

\* deleteAnalyticsSession; the events go with their session (ON DELETE CASCADE).
Deleted(s) ==
  [kept EXCEPT !.revoked[s] = day, !.sessions[s] = 0, !.events = {e \in @ : e.session # s}]

\* The claim of purgeAnalyticsIfDue, which every stored or refused event makes
\* afterwards; a request that dies before it claims nothing.
Claim ==
  \/ /\ Month(claim.day) < Month(day) \/ claim = Never
     /\ claimed < MaxPurges
     /\ claimed' = claimed + 1
     /\ claim' = [day |-> day, purge |-> claimed + 1]
     /\ purges' = purges \cup {claim'}
  \/ UNCHANGED <<claim, purges, claimed>>

\* POST /api/analytics/events.
ReceiveEvent ==
  \E s \in Sessions :
    /\ events[s] > 0 /\ events' = [events EXCEPT ![s] = @ - 1]
    /\ kept' = Stored(s)
    /\ Claim
    /\ UNCHANGED <<clientVars, deletions, day, told, finished>>

\* POST /api/privacy/delete-session.
ReceiveDeletion ==
  \E d \in deletions :
    /\ d.done = 0
    /\ deletions' = (deletions \ {d}) \cup (IF tab[d.tab].waits = d.session THEN {[d EXCEPT !.done = day]} ELSE {})
    /\ kept' = Deleted(d.session)
    /\ UNCHANGED <<clientVars, events, day, claim, purges, claimed, told, finished>>

\* The three deletions of a purge, with its own cutoff: older events, older
\* sessions left without events, older revocations.
Purged(cutoff) ==
  LET young == {e \in kept.events : e.at >= cutoff} IN
  [events   |-> young,
   sessions |-> [s \in Sessions |-> IF kept.sessions[s] < cutoff /\ (\A e \in young : e.session # s)
                                    THEN 0 ELSE kept.sessions[s]],
   revoked  |-> [s \in Sessions |-> IF kept.revoked[s] < cutoff THEN 0 ELSE kept.revoked[s]]]

Cutoff(d) == IF d > Retention THEN d - Retention ELSE 0

Purge ==
  \E p \in purges :
    /\ purges' = purges \ {p}
    /\ kept' = Purged(Cutoff(p.day))
    /\ finished' = finished \cup {p}
    /\ UNCHANGED <<clientVars, events, deletions, day, claim, claimed, told>>

\* A purge that failed gives its own claim back, not a later one.
GivenBack(p) == IF claim = p THEN Never ELSE claim

PurgeFails ==
  \E p \in purges :
    /\ purges' = purges \ {p}
    /\ claim' = GivenBack(p)
    /\ UNCHANGED <<clientVars, events, deletions, day, kept, claimed, told, finished>>

\* The request that claimed the purge dies.
PurgeDies ==
  \E p \in purges :
    /\ purges' = purges \ {p}
    /\ UNCHANGED <<clientVars, events, deletions, day, kept, claim, claimed, told, finished>>

DayPasses ==
  /\ day < MaxDay /\ day' = day + 1
  /\ UNCHANGED <<clientVars, events, deletions, serverVars, told>>

-----------------------------------------------------------------------------
Init ==
  /\ consent = "undecided"
  /\ tab = [t \in Tabs |-> [session |-> 0, waits |-> 0]]
  /\ events = [s \in Sessions |-> 0] /\ deletions = {}
  /\ kept = [events |-> {}, sessions |-> [s \in Sessions |-> 0], revoked |-> [s \in Sessions |-> 0]]
  /\ day = 1 /\ claim = Never /\ purges = {}
  /\ drawn = 0 /\ sent = 0 /\ claimed = 0
  /\ told = {} /\ finished = {}

Next ==
  \/ \E t \in Tabs : Track(t) \/ Grant(t) \/ Reject(t) \/ Withdraw(t) \/ Confirmed(t) \/ Unconfirmed(t)
  \/ \E t, other \in Tabs : Duplicate(t, other)
  \/ ReceiveEvent \/ ReceiveDeletion
  \/ Purge \/ PurgeFails \/ PurgeDies \/ DayPasses

Spec == Init /\ [][Next]_vars

-----------------------------------------------------------------------------
TypeOK ==
  /\ consent \in {"undecided", "accepted", "rejected"}
  /\ tab \in [Tabs -> [session : 0..MaxSessions, waits : 0..MaxSessions]]
  /\ events \in [Sessions -> 0..MaxEvents]
  /\ deletions \subseteq [session : Sessions, tab : Tabs, done : 0..MaxDay]
  /\ kept.events \subseteq [session : Sessions, at : 1..MaxDay]
  /\ kept.sessions \in [Sessions -> 0..MaxDay] /\ kept.revoked \in [Sessions -> 0..MaxDay]
  /\ \A e \in kept.events : kept.sessions[e.session] # 0

\* What a person was told was deleted is not stored again, by an event that
\* was on its way or by a copy of the tab, for as long as a revocation is
\* kept (withdrawalMessage, AnalyticsPrivacyControls.tsx:111; the revocations
\* of server/analytics.ts).
WithdrawnIsForgotten ==
  \A w \in told : day <= w.day + Retention => \A e \in kept.events : e.session # w.session

\* One purge a month is carried out, however many requests ask for it and
\* whatever becomes of the ones that failed; meanwhile the month stays
\* claimed ("el reclamo mensual evita
\* ejecutar el borrado en cada solicitud", docs/FULFILLMENT_AND_RETENTION.md:43).
PurgedOnceAMonth ==
  /\ \A p, q \in finished : p # q => Month(p.day) # Month(q.day)
  /\ \A p \in purges \cup finished : Month(p.day) = Month(day) => claim # Never /\ Month(claim.day) = Month(day)

\* Both promises of the shop about what it keeps of a visit.
ConsentIsKept == WithdrawnIsForgotten /\ PurgedOnceAMonth
=============================================================================
