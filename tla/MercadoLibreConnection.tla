------------------------ MODULE MercadoLibreConnection ------------------------
(***************************************************************************)
(* The shop's connection with Mercado Libre (src/server/mercado-libre.ts): *)
(* one row with a pair of tokens, an access token that ends and a refresh  *)
(* token that buys the next pair once.  An administrator connects the shop *)
(* through the provider's page; afterwards whichever reading of the        *)
(* editorial import finds the access token about to end renews the pair,   *)
(* under a lock of thirty seconds in the row.  A pair is its number, in    *)
(* the order the provider issued them.                                     *)
(***************************************************************************)
EXTENDS Naturals, FiniteSets

CONSTANTS
  Readers,    \* requests that read from Mercado Libre
  Callbacks,  \* requests the provider's page sends the administrator back with
  OauthStates,  \* values of `state`, each made for one visit to that page
  Polls,      \* times a request looks whether another's renewal has ended
  MaxPairs,   \* bound on the pairs the provider issues
  Nobody, Dead

VARIABLES
  conn,    \* the row: the pair stored, who renews it, whether for over 30 s
  issued,  \* pairs the provider issued
  good,    \* pairs whose refresh token the provider accepts
  ending,  \* pairs whose access token ends in five minutes or has ended
  oauth,   \* mercadolibre_oauth_states
  visit,   \* where each request is
  found,   \* the pair a request read, or the value of `state` it came with
  got,     \* the pair it was issued, or handed
  polls,   \* times it looked
  slips    \* what went wrong so far, by kind

connVars == <<conn, issued, good, ending, oauth, visit, found, got, polls, slips>>

Requesters == Readers \cup Callbacks

ConnectionAssumption ==
  /\ Readers \cap Callbacks = {} /\ {Nobody, Dead} \cap Requesters = {} /\ Nobody # Dead
  /\ Polls \in Nat \ {0} /\ MaxPairs \in Nat
ASSUME ConnectionAssumption

Slips == {"unanswered", "unverified", "died", "late", "overtaken", "released"}
Visits == {"idle", "exchange", "claim", "wait", "renew", "verify", "store", "release"}

NoConnection == [pair |-> 0, owner |-> Nobody, long |-> FALSE]

ConnInit ==
  /\ conn = NoConnection /\ issued = 0 /\ good = {}
  /\ ending = {}
  /\ oauth = [s \in OauthStates |-> "unmade"]
  /\ visit = [x \in Requesters |-> "idle"]
  /\ found = [x \in Requesters |-> 0] /\ got = [x \in Requesters |-> 0]
  /\ polls = [x \in Requesters |-> 0]
  /\ slips = {}

\* A request moves on, or is over and forgotten.
Move(x, place) == visit' = [visit EXCEPT ![x] = place]
Quit(x) ==
  /\ Move(x, "idle")
  /\ found' = [found EXCEPT ![x] = 0] /\ got' = [got EXCEPT ![x] = 0]
  /\ polls' = [polls EXCEPT ![x] = 0]

Slip(kind) == slips' = slips \cup {kind}
-----------------------------------------------------------------------------
(* The provider *)

\* A new pair: its access token may be about to end already, and its refresh
\* token is accepted once.
Issue(accepted) ==
  /\ issued < MaxPairs
  /\ issued' = issued + 1
  /\ good' = accepted \cup {issued + 1}
  /\ ending' \in {ending, ending \cup {issued + 1}}

\* The answer with it comes, or the request hears of nothing.
Receive(x) == got' = [got EXCEPT ![x] = issued + 1] /\ Move(x, "verify")

\* Time wears the access tokens, the lock and the visits to the page.
Wear ==
  /\ \/ /\ \E p \in (1..issued) \ ending : ending' = ending \cup {p}
        /\ UNCHANGED <<conn, oauth>>
     \/ /\ conn.owner # Nobody /\ conn' = [conn EXCEPT !.long = TRUE]
        /\ UNCHANGED <<ending, oauth>>
     \/ /\ \E s \in OauthStates : oauth[s] = "open" /\ oauth' = [oauth EXCEPT ![s] = "over"]
        /\ UNCHANGED <<conn, ending>>
  /\ UNCHANGED <<issued, good, visit, found, got, polls, slips>>
-----------------------------------------------------------------------------
(* The administrator connects the shop *)

\* The administrator is sent to the provider's page.
Authorize(s) ==
  /\ oauth[s] = "unmade" /\ oauth' = [oauth EXCEPT ![s] = "open"]
  /\ UNCHANGED <<conn, issued, good, ending, visit, found, got, polls, slips>>

\* The page sends the administrator back, perhaps twice: the first one consumes
\* the `state`.
Return(b, s) ==
  /\ visit[b] = "idle" /\ oauth[s] = "open"
  /\ oauth' = [oauth EXCEPT ![s] = "spent"]
  /\ Move(b, "exchange")
  /\ UNCHANGED <<conn, issued, good, ending, found, got, polls, slips>>

\* The code buys a pair; the tokens of earlier ones may stay good or not.
Exchange(b) ==
  /\ visit[b] = "exchange"
  /\ \/ /\ \E accepted \in {good, {}} : Issue(accepted)
        /\ Receive(b) /\ UNCHANGED <<found, polls, slips>>
     \/ /\ \E accepted \in {good, {}} : Issue(accepted)
        /\ Quit(b) /\ Slip("unanswered")
     \/ Quit(b) /\ UNCHANGED <<issued, good, ending, slips>>
  /\ UNCHANGED <<conn, oauth>>

\* The new connection replaces what there was, and whoever renews it loses the
\* lock.
Connect(b) ==
  /\ visit[b] = "store" /\ b \in Callbacks
  /\ conn' = [pair |-> got[b], owner |-> Nobody, long |-> FALSE]
  /\ IF got[b] < conn.pair THEN Slip("overtaken") ELSE UNCHANGED slips
  /\ Quit(b)
  /\ UNCHANGED <<issued, good, ending, oauth>>
-----------------------------------------------------------------------------
(* A reading needs the access token *)

\* It takes the token stored when over five minutes of it remain, and goes on to
\* renew it otherwise.
Look(c) ==
  /\ visit[c] = "idle" /\ conn.pair # 0
  /\ IF conn.pair \notin ending
     THEN Quit(c)
     ELSE /\ found' = [found EXCEPT ![c] = conn.pair]
          /\ got' = [got EXCEPT ![c] = 0] /\ polls' = [polls EXCEPT ![c] = 0]
          /\ Move(c, "claim")
  /\ UNCHANGED <<conn, issued, good, ending, oauth, slips>>

\* A lock that may be taken: none, or one thirty seconds old.
LockFree == conn.owner = Nobody \/ conn.long

\* It takes the lock, over a renewal that is late as well, or waits.
TakeLock(c) ==
  /\ visit[c] = "claim"
  /\ IF LockFree
     THEN /\ conn' = [conn EXCEPT !.owner = c, !.long = FALSE] /\ Move(c, "renew")
          /\ IF conn.owner \in Readers THEN Slip("late") ELSE UNCHANGED slips
     ELSE Move(c, "wait") /\ UNCHANGED <<conn, slips>>
  /\ UNCHANGED <<issued, good, ending, oauth, found, got, polls>>

\* It looks whether the other's renewal has ended, and takes what is stored
\* then, or gives up in the end.
Await(c) ==
  /\ visit[c] = "wait"
  /\ \/ /\ conn.owner = Nobody
        /\ Move(c, "idle") /\ got' = [got EXCEPT ![c] = conn.pair]
        /\ polls' = [polls EXCEPT ![c] = @ + 1] /\ UNCHANGED found
     \/ /\ conn.owner # Nobody /\ polls[c] + 1 < Polls
        /\ polls' = [polls EXCEPT ![c] = @ + 1] /\ UNCHANGED <<visit, found, got>>
     \/ /\ conn.owner # Nobody /\ polls[c] + 1 = Polls
        /\ Quit(c)
  /\ UNCHANGED <<conn, issued, good, ending, oauth, slips>>

\* It presents the refresh token it read before it took the lock.
Renew(c) ==
  /\ visit[c] = "renew"
  /\ \/ /\ found[c] \in good /\ Issue(good \ {found[c]})
        /\ Receive(c) /\ UNCHANGED slips
     \/ /\ found[c] \in good /\ Issue(good \ {found[c]})
        /\ Move(c, "release") /\ Slip("unanswered") /\ UNCHANGED got
     \/ Move(c, "release") /\ UNCHANGED <<issued, good, ending, got, slips>>
  /\ UNCHANGED <<conn, oauth, found, polls>>

\* The account is read with the new token, up to three times, and must be the
\* expected seller's; else an authorization is over and a renewal gives up.
Verify(x) ==
  /\ visit[x] = "verify"
  /\ \/ Move(x, "store") /\ UNCHANGED <<found, got, polls, slips>>
     \/ x \in Readers /\ Move(x, "release") /\ Slip("unverified") /\ UNCHANGED <<found, got, polls>>
     \/ x \in Callbacks /\ Quit(x) /\ Slip("unverified")
  /\ UNCHANGED <<conn, issued, good, ending, oauth>>

\* Mutant: a renewal is stored whoever holds the lock.
MayStoreAnyway(c) == conn.pair # 0

\* Whose renewal is stored: the one that still holds the lock.
MayStore(c) == conn.owner = c

Store(c) ==
  /\ visit[c] = "store" /\ c \in Readers
  /\ IF MayStore(c)
     THEN conn' = [pair |-> got[c], owner |-> Nobody, long |-> FALSE] /\ Quit(c)
     ELSE Move(c, "release") /\ UNCHANGED <<conn, found, got, polls>>
  /\ UNCHANGED <<issued, good, ending, oauth, slips>>

\* A renewal that failed gives up the lock, when it is still its own.
Release(c) ==
  /\ visit[c] = "release"
  /\ conn' = IF conn.owner = c THEN [conn EXCEPT !.owner = Nobody, !.long = FALSE] ELSE conn
  /\ Slip("released") /\ Quit(c)
  /\ UNCHANGED <<issued, good, ending, oauth>>

\* A request dies where it is; its lock stays.
Die(x) ==
  /\ visit[x] # "idle" /\ Quit(x)
  /\ conn' = IF conn.owner = x THEN [conn EXCEPT !.owner = Dead] ELSE conn
  /\ Slip("died")
  /\ UNCHANGED <<issued, good, ending, oauth>>
-----------------------------------------------------------------------------
ConnNext ==
  \/ Wear
  \/ \E s \in OauthStates : Authorize(s) \/ \E b \in Callbacks : Return(b, s)
  \/ \E b \in Callbacks : Exchange(b) \/ Connect(b)
  \/ \E c \in Readers : Look(c) \/ TakeLock(c) \/ Await(c) \/ Renew(c) \/ Store(c) \/ Release(c)
  \/ \E x \in Requesters : Verify(x) \/ Die(x)

ConnSpec == ConnInit /\ [][ConnNext]_connVars
-----------------------------------------------------------------------------
(* Properties *)

\* Types of the row and of the requests.
ConnTypeOK ==
  /\ conn \in [pair : 0..issued, owner : Readers \cup {Nobody, Dead}, long : BOOLEAN]
  /\ issued \in 0..MaxPairs /\ good \subseteq 1..issued /\ ending \subseteq 1..issued
  /\ oauth \in [OauthStates -> {"unmade", "open", "spent", "over"}]
  /\ visit \in [Requesters -> Visits]
  /\ found \in [Requesters -> 0..issued] /\ got \in [Requesters -> 0..issued]
  /\ polls \in [Requesters -> 0..Polls]
  /\ slips \subseteq Slips

\* The lock is held by the renewal that took it until it ends, unless it died.
LockIsHeld ==
  /\ conn.owner \in Readers => visit[conn.owner] \in {"renew", "verify", "store", "release"}
  /\ conn.owner = Dead => "died" \in slips

\* A refresh token buys once: the shop keeps one the provider accepts, or a
\* request is about to store it, while every answer of the provider came and was
\* stored, by its renewal in time and by its authorization before a later one.
ConnectionIsKept ==
  slips \subseteq {"released"} /\ conn.pair # 0 =>
    \/ conn.pair \in good
    \/ \E x \in Requesters : visit[x] \in {"verify", "store"} /\ got[x] \in good

\* Whoever waits for a renewal is handed its token, and the one that was about
\* to end only when a renewal failed or died.
WaitersAreServed ==
  \A c \in Readers :
    visit[c] = "idle" /\ polls[c] > 0 /\ got[c] # 0 /\ got[c] = found[c] => slips # {}

\* The shop stays connected however many readings renew at once and whatever an
\* administrator connects meanwhile.
ConnectionHolds == LockIsHeld /\ ConnectionIsKept /\ WaitersAreServed
=============================================================================
