---------------------------- MODULE AdminConsole ----------------------------
(***************************************************************************)
(* The administrator's console in one browser tab: which section is shown, *)
(* what is unsaved, which operations are in flight, and the guards that    *)
(* should keep the person from leaving in the middle of either.            *)
(*                                                                         *)
(* Code: src/src/admin/AdminBackoffice.tsx and AdminShell.tsx (session,    *)
(* sections, logout, the interaction state), src/src/App.tsx (the          *)
(* navigation guard), src/src/routing/useBrowserRoute.ts (history), and    *)
(* what the panels report: ProductManager.tsx, MarketingPanel.tsx,         *)
(* DuxPanel.tsx, DuxCatalogControls.tsx, WebOrderRequestsPanel.tsx and     *)
(* AdminPage.tsx.  MercadoLibreEditorialPanel.tsx, which DuxPanel mounts,  *)
(* reports nothing: its imports and its decisions run with the console     *)
(* not busy, and no guard holds for them.  The panel of the earlier        *)
(* editorial review is mounted disabled and operates nothing.              *)
(*                                                                         *)
(* An operation is one request of a panel to the server.  The server       *)
(* answers it while the session it was sent under lasts, and refuses it    *)
(* with 401 afterwards; the answer reaches the tab later, in any order,    *)
(* even after its panel was unmounted.  Rendering and effects follow the   *)
(* event that causes them at once, as React flushes them before the next   *)
(* click.  What the panels do with an answer is left to their own modules. *)
(***************************************************************************)
EXTENDS Integers, Sequences, FiniteSets

CONSTANTS
  MaxEntries,     \* entries of the tab's history
  MaxTraversals,  \* history traversals asked for and not made yet
  MaxRequests,    \* operations in flight
  MaxLogins       \* sessions

BoundsAreNaturals ==
  /\ {MaxEntries, MaxTraversals, MaxRequests, MaxLogins} \subseteq Nat \ {0}

(* The panels that operate, and the section each one is shown in.          *)
Editors == {"product", "marketing"}
Panels  == Editors \cup {"sync", "controls", "editorial", "request", "order"}
Home(p) == CASE p = "product"   -> "products"
             [] p = "marketing" -> "marketing"
             [] p \in {"sync", "controls", "editorial"} -> "inventory"
             [] OTHER -> "orders"
Sections == {"summary", "orders", "products", "marketing", "inventory"}

(* The panel that is given no callback to report with.                     *)
Silent == {"editorial"}

(* The panels that report through handleOrderInteractionChange: one cell   *)
(* of state, orderInteraction, for all of them.                            *)
Shared == Panels \ (Editors \cup Silent)

VARIABLES
  entries,     \* the tab's history: the page of each entry, "admin" or "shop"
  at,          \* the entry the browser is at
  traversals,  \* traversals asked of the browser and not made yet
  page,        \* useBrowserRoute: the page shown
  known,       \* currentHistoryIndex
  restoring,   \* restoringHistory
  session,     \* viewState.status
  section,     \* the section shown
  drafts,      \* the editors with unsaved changes
  requests,    \* operations in flight, and the logout
  orderBusy,   \* orderInteraction.busy
  login,       \* how many sessions there have been
  ended,       \* how the last one ended at the server, if it did
  given,       \* history: the unsaved changes the person agreed to lose
  crossed      \* history: an operation's end hid another one still running

history == <<entries, at, traversals, page, known, restoring>>
console == <<session, section, drafts, requests, orderBusy, crossed>>
vars == <<entries, at, traversals, page, known, restoring, session, section,
          drafts, requests, orderBusy, login, ended, given, crossed>>

Request == [panel : Panels \cup {"logout"}, login : 0..MaxLogins,
            mounted : BOOLEAN, answer : {"none", "ok", "failed", "denied"}]

TypeOK ==
  /\ entries \in Seq({"shop", "admin"}) /\ Len(entries) \in 1..MaxEntries
  /\ at \in 1..Len(entries) /\ known \in 1..Len(entries)
  /\ page \in {"shop", "admin"} /\ restoring \in BOOLEAN
  /\ session \in {"checking", "anonymous", "authenticated"}
  /\ section \in Sections /\ drafts \subseteq Editors /\ given \subseteq Editors
  /\ requests \subseteq Request /\ {orderBusy, crossed} \subseteq BOOLEAN
  /\ login \in 1..MaxLogins /\ ended \in {"no", "expired", "closed"}

-----------------------------------------------------------------------------
(*                      What the console shows                             *)

Open       == page = "admin" /\ session = "authenticated"
Running    == {r \in requests : r.mounted /\ r.panel # "logout"}
Announced  == {r \in Running : r.panel \notin Silent}
Working(p) == \E r \in Running : r.panel = p

(* activeInteraction: each editor reports its own state, the other panels  *)
(* that report share orderInteraction.                                     *)
Busy == orderBusy \/ \E p \in Editors : Working(p)

(* The panels of ps unmount: what they sent is still answered.             *)
Unmounted(rs, ps) == {[r EXCEPT !.mounted = @ /\ r.panel \notin ps] : r \in rs}

(* The page goes away: nothing that is still to arrive finds a console.    *)
PageGone ==
  /\ session' = "checking" /\ section' = "summary" /\ drafts' = {}
  /\ requests' = {} /\ orderBusy' = FALSE /\ crossed' = FALSE

(* The login screen replaces the panels: as they unmount they report       *)
(* "false", and DuxPanel abandons its synchronisation.                     *)
BackToLogin(rs) ==
  /\ session' = "anonymous" /\ drafts' = {}
  /\ requests' = Unmounted({r \in rs : ~(r.panel = "sync" /\ r.mounted)}, Panels)
  /\ orderBusy' = FALSE /\ crossed' = FALSE

-----------------------------------------------------------------------------
(*                          Leaving and coming back                        *)

(* App.shouldNavigate: "no" while something is busy, a question while      *)
(* something is unsaved.                                                   *)
ShouldNavigate ==
  IF Open /\ Busy THEN {FALSE} ELSE IF Open /\ drafts # {} THEN BOOLEAN ELSE {TRUE}

(* What the person gave up after saying yes to that question.              *)
Confirmed == IF Open THEN given \cup drafts ELSE given

Show(p) ==
  /\ page' = p
  /\ IF page = "admin" /\ p # "admin" THEN PageGone ELSE UNCHANGED console

(* navigate: the links, of the console and of the shop, lead to the shop.  *)
(* The browser may drop the traversals under way.                          *)
Navigate ==
  /\ at < MaxEntries
  /\ TRUE \in ShouldNavigate /\ given' = Confirmed
  /\ known' = at + 1 /\ at' = at + 1
  /\ entries' = Append(SubSeq(entries, 1, at), "shop")
  /\ traversals' \in {traversals, <<>>}
  /\ Show("shop")
  /\ UNCHANGED <<restoring, login, ended>>

(* The person asks the browser to go back or forward.                      *)
AskTraversal(step) ==
  /\ Len(traversals) < MaxTraversals
  /\ traversals' = Append(traversals, [by |-> "person", step |-> step])
  /\ UNCHANGED <<entries, at, page, known, restoring, login, ended, given>>
  /\ UNCHANGED console

(* The browser makes the next traversal and handlePopState runs.  While a  *)
(* restoration is expected, whatever traversal comes is taken for it.      *)
Target == at + Head(traversals).step

Traverse ==
  /\ traversals # <<>> /\ Target \in 1..Len(entries)
  /\ at' = Target
  /\ \E yes \in IF restoring THEN {TRUE} ELSE ShouldNavigate :
       IF yes
       THEN /\ known' = Target /\ restoring' = FALSE
            /\ traversals' = Tail(traversals) /\ Show(entries[Target])
            /\ given' = IF restoring THEN given ELSE Confirmed
       ELSE /\ restoring' = TRUE
            /\ traversals' = Append(Tail(traversals),
                                    [by |-> "guard", step |-> known - Target])
            /\ UNCHANGED <<known, page, given>> /\ UNCHANGED console
  /\ UNCHANGED <<entries, login, ended>>

(* There is no entry of this document there: no popstate.                  *)
TraverseNowhere ==
  /\ traversals # <<>> /\ Target \notin 1..Len(entries)
  /\ traversals' = Tail(traversals)
  /\ UNCHANGED <<entries, at, page, known, restoring, login, ended, given>>
  /\ UNCHANGED console

(* The tab is reloaded: beforeunload asks while something is busy or       *)
(* unsaved.  The index is read back from history.state.                    *)
Reload ==
  /\ given' = Confirmed
  /\ page' = entries[at] /\ known' = at /\ restoring' = FALSE /\ traversals' = <<>>
  /\ PageGone
  /\ UNCHANGED <<entries, at, login, ended>>

-----------------------------------------------------------------------------
(*                               The session                               *)

(* The first request of a console: is there a session?  Its panels report  *)
(* "false" when they appear.                                               *)
CheckSession ==
  /\ page = "admin" /\ session = "checking"
  /\ session' \in {"anonymous"} \cup (IF ended = "no" THEN {"authenticated"} ELSE {})
  /\ orderBusy' = FALSE
  /\ UNCHANGED <<history, section, drafts, requests, login, ended, given, crossed>>

Login ==
  /\ page = "admin" /\ session = "anonymous" /\ login < MaxLogins
  /\ session' = "authenticated" /\ section' = "summary"
  /\ login' = login + 1 /\ ended' = "no" /\ orderBusy' = FALSE
  /\ UNCHANGED <<history, drafts, requests, given, crossed>>

(* The session ends at the server on its own.                              *)
SessionEnds ==
  /\ ended = "no" /\ ended' = "expired"
  /\ UNCHANGED <<history, login, given>> /\ UNCHANGED console

-----------------------------------------------------------------------------
(*                       Editing and operating                             *)

(* The sections are locked while busy, but for the summary's own link to   *)
(* the orders.  Leaving the orders unmounts the panel of web requests; the *)
(* other panels stay mounted, hidden.                                      *)
SelectSection(s) ==
  /\ Open /\ s # section
  /\ ~Busy \/ (section = "summary" /\ s = "orders")
  /\ section' = s
  /\ requests' = IF section = "orders" THEN Unmounted(requests, {"request"})
                 ELSE requests
  /\ UNCHANGED <<history, session, drafts, orderBusy, login, ended, given, crossed>>

(* A change in a form; its fields are disabled while the panel saves.      *)
Edit(p) ==
  /\ Open /\ section = Home(p) /\ ~Working(p) /\ p \notin drafts
  /\ drafts' = drafts \cup {p} /\ given' = given \ {p}
  /\ UNCHANGED <<history, session, section, requests, orderBusy, login, ended, crossed>>

(* The form's own "discard the changes".                                   *)
Discard(p) ==
  /\ Open /\ section = Home(p) /\ p \in drafts /\ ~Working(p)
  /\ drafts' = drafts \ {p} /\ given' = given \cup {p}
  /\ UNCHANGED <<history, session, section, requests, orderBusy, login, ended, crossed>>

(* Each panel refuses a second operation of its own; the two of DuxPanel   *)
(* look at each other.                                                     *)
MayStart(p) ==
  /\ Open /\ section = Home(p) /\ ~Working(p)
  /\ p \in {"sync", "controls"} => ~(Working("sync") \/ Working("controls"))

Send(p) ==
  /\ Cardinality(requests) < MaxRequests
  /\ LET r == [panel |-> p, login |-> login, mounted |-> TRUE, answer |-> "none"]
     IN r \notin requests /\ requests' = requests \cup {r}

Start(p) ==
  /\ MayStart(p) /\ Send(p)
  /\ orderBusy' = (orderBusy \/ p \in Shared)
  /\ UNCHANGED <<history, session, section, drafts, login, ended, given, crossed>>

(* logout: refused while busy, asked for while something is unsaved.       *)
StartLogout ==
  /\ Open /\ ~Busy /\ ~\E r \in requests : r.panel = "logout"
  /\ Send("logout")
  /\ given' = given \cup drafts
  /\ UNCHANGED <<history, session, section, drafts, orderBusy, login, ended, crossed>>

(* The server answers: 401 to what was sent under a session that ended.    *)
Lasting(r) == ended = "no" /\ r.login = login

Answer(r) ==
  /\ r \in requests /\ r.answer = "none"
  /\ \E a \in IF Lasting(r) THEN {"ok", "failed"} ELSE {"failed", "denied"} :
       /\ requests' = (requests \ {r}) \cup {[r EXCEPT !.answer = a]}
       /\ ended' = IF r.panel = "logout" /\ a = "ok" THEN "closed" ELSE ended
  /\ UNCHANGED <<history, session, section, drafts, orderBusy, login, given, crossed>>

(* Its answer, or the network's failure, reaches the tab.  A 401 closes    *)
(* the console, as a logout does.  The others report their end: from an    *)
(* effect while they are mounted, and the panel of web requests always.    *)
Closes(r)  == session = "authenticated" /\ r.answer \in
                IF r.panel = "logout" THEN {"ok", "denied"} ELSE {"denied"}

Reports(r) == r.panel \in Shared /\ (r.mounted \/ r.panel = "request")

Arrive(r) ==
  /\ r \in requests /\ r.answer # "none"
  /\ IF Closes(r)
     THEN /\ BackToLogin(requests \ {r})
          /\ section' = IF r.panel = "logout" THEN "summary" ELSE section
          /\ UNCHANGED given
     ELSE /\ requests' = requests \ {r}
          /\ orderBusy' = (orderBusy /\ ~Reports(r))
          /\ drafts' = IF r.panel \in Editors /\ r.mounted /\ r.answer = "ok"
                       THEN drafts \ {r.panel} ELSE drafts
          /\ crossed' = /\ \E q \in Running \ {r} : q.panel \in Shared
                        /\ crossed \/ Reports(r)
          /\ given' = IF r.panel = "logout" THEN {} ELSE given
          /\ UNCHANGED <<session, section>>
  /\ UNCHANGED <<history, login, ended>>

-----------------------------------------------------------------------------
Init ==
  /\ entries = <<"admin">> /\ at = 1 /\ known = 1 /\ traversals = <<>>
  /\ page = "admin" /\ restoring = FALSE
  /\ session = "checking" /\ section = "summary"
  /\ drafts = {} /\ requests = {} /\ orderBusy = FALSE
  /\ login = 1 /\ ended = "no" /\ given = {} /\ crossed = FALSE

Next ==
  \/ Navigate
  \/ \E step \in {-1, 1} : AskTraversal(step)
  \/ Traverse
  \/ TraverseNowhere
  \/ Reload
  \/ CheckSession
  \/ Login
  \/ SessionEnds
  \/ \E s \in Sections : SelectSection(s)
  \/ \E p \in Editors : Edit(p)
  \/ \E p \in Editors : Discard(p)
  \/ \E p \in Panels : Start(p)
  \/ StartLogout
  \/ \E r \in requests : Answer(r)
  \/ \E r \in requests : Arrive(r)

Spec == Init /\ [][Next]_vars

-----------------------------------------------------------------------------
(*                              Properties                                 *)

(* The races the guards do not see: a traversal of the person that         *)
(* overtakes the one that restores the page, an answer to what was sent    *)
(* under an earlier session, and what is done while a logout is in flight. *)
Overtaken  == restoring /\ traversals # <<>> /\ Head(traversals).by = "person"
LateAnswer == \E r \in requests : r.login < login
LoggingOut == \E r \in requests : r.panel = "logout"

Saved(p) == \E r \in requests : r.panel = p /\ r.mounted /\ r.answer = "ok"

(* What was typed in a form is not lost: it is saved, or the person agreed *)
(* to lose it, or the session expired, but for the three races.            *)
EditsAreKept ==
  [][\A p \in drafts \ drafts' :
       p \in given' \/ Saved(p) \/ ended = "expired"
         \/ Overtaken \/ LateAnswer \/ LoggingOut]_vars

(* The console is never left through the site's links or the browser's     *)
(* history while a panel that reports waits for the server, but when a     *)
(* traversal overtakes the restoration or one operation's end hid another; *)
(* a reload asks the person first.                                         *)
WaitsForOperations ==
  [][Announced # {} /\ page = "admin" /\ page' = "shop"
       => Overtaken \/ crossed \/ Reload]_vars

(* docs/ACCESSIBILITY.md: the person is kept from leaving, through the     *)
(* site or the history, while any remote operation is active.  The import  *)
(* and the decisions of Mercado Libre's panel are operations too.          *)
OperationsAreGuarded ==
  [][Running # {} /\ page = "admin" /\ page' = "shop"
       => Overtaken \/ crossed \/ Reload]_vars

(* While a panel that reports waits for the server the console knows it,   *)
(* and it never stays locked for an operation that ended, but when one     *)
(* operation's end hid another.                                            *)
AnnouncedWhileRunning ==
  Open => /\ Announced # {} => Busy \/ crossed
          /\ Busy => Announced # {}

(* docs/CONTINUATION.md: unsaved changes are protected from navigation and *)
(* from closing the session.  They are not from a logout that was asked    *)
(* for before they were typed.                                             *)
LogoutAsksFirst ==
  [][\A p \in drafts \ drafts' :
       p \in given' \/ Saved(p) \/ ended = "expired" \/ Overtaken \/ LateAnswer]_vars

=============================================================================
