---------------------------- MODULE ConsoleProofs ----------------------------
(***************************************************************************)
(* Theorems about the pages of the administrator's console (MCConsole): for*)
(* any campaigns, orders, requests, products, words, terms, periods and    *)
(* updates, and any bound, what a page shows is what it asked for last     *)
(* (ShownIsCurrent), what is under way on it goes on until it ends, once   *)
(* (WorkIsKept), and nothing is done there that was not meant (DoneAsMeant)*)
(*                                                                         *)
(* Each page has an inductive invariant of its own, which says how its     *)
(* requests on their way agree with what it waits for, and with the server *)
(* they will be answered from.  They are conjoined at the end: a step is   *)
(* one of one page, and leaves the variables of the others alone.          *)
(***************************************************************************)
EXTENDS MCConsole, FiniteSetTheorems, SequenceTheorems, TLAPS

\* A page's module counts its sets as this one does.
LEMMA SameSizes ==
  /\ \A S : Campaigns!IsFiniteSet(S) = IsFiniteSet(S)
  /\ \A S : Campaigns!Cardinality(S) = Cardinality(S)
  /\ \A S : Dux!Cardinality(S) = Cardinality(S)
<1>1. \A S : Campaigns!IsFiniteSet(S) = IsFiniteSet(S)
  BY DEF Campaigns!IsFiniteSet, IsFiniteSet
<1>2. \A S : Campaigns!Cardinality(S) = Cardinality(S)
  BY DEF Campaigns!Cardinality, Cardinality, Campaigns!IsFiniteSet, IsFiniteSet
<1>3. \A S : Dux!Cardinality(S) = Cardinality(S)
  BY DEF Dux!Cardinality, Cardinality, Dux!IsFiniteSet, IsFiniteSet
<1> QED
  BY <1>1, <1>2, <1>3

-----------------------------------------------------------------------------
(* The frame of the console: one page of the tab, its session and what its panels do *)

FrameTraversal == [by : {"person", "guard"}, step : {-1, 1}]

FrameTyped ==
  /\ entries \in Seq({"shop", "admin"}) /\ Len(entries) \in 1..MaxEntries
  /\ at \in 1..Len(entries) /\ known \in 1..Len(entries)
  /\ traversals \in Seq(FrameTraversal)
  /\ restoring \in BOOLEAN
  /\ session \in {"checking", "anonymous", "authenticated"}
  /\ section \in Frame!Sections /\ drafts \subseteq Frame!Editors /\ given \subseteq Frame!Editors
  /\ requests \subseteq Frame!Request /\ orderBusy \in BOOLEAN /\ crossed \in BOOLEAN
  /\ login \in 1..MaxLogins /\ ended \in {"no", "expired", "closed"}

\* The console is the tab's first page and the guard only ever takes the person back to it.
FramePlaceAgrees ==
  /\ \A i \in 1..Len(entries) : entries[i] = IF i = 1 THEN "admin" ELSE "shop"
  /\ page = entries[known]
  /\ ~restoring => at = known
  /\ restoring /\ page = "admin" => at = 2
  /\ \A i \in 1..Len(traversals) : traversals[i].by = "guard" => traversals[i].step = -1

\* Only an open console holds a session, drafts or operations.
FrameConsoleAgrees ==
  /\ page = "admin" \/ session = "checking"
  /\ session # "authenticated" => Frame!Running = {} /\ drafts = {}

\* The shared cell of the panels says what they do, but when an end hid another operation.
FrameBusyAgrees ==
  LET sharing == \E r \in Frame!Running : r.panel \in Frame!Shared
  IN (session = "authenticated" /\ orderBusy => sharing) /\ (sharing => orderBusy \/ crossed)

\* A session is denied only once it has ended, and a closed one has its logout on the way.
FrameSessionAgrees ==
  /\ \A r \in requests : r.login <= login
  /\ \A r \in requests : r.answer = "denied" /\ r.login = login => ended # "no"
  /\ session = "authenticated" /\ ended = "closed" => \E r \in requests : r.panel = "logout" /\ r.answer = "ok"

FrameInv == FrameTyped /\ FramePlaceAgrees /\ FrameConsoleAgrees /\ FrameBusyAgrees /\ FrameSessionAgrees

\* What the frame uses of its bounds.
LEMMA FrameConstants ==
  Frame!BoundsAreNaturals
  BY ConsoleAssumption DEF Frame!BoundsAreNaturals

LEMMA FrameBounds == MaxEntries \in Nat /\ MaxEntries >= 1 /\ MaxLogins \in Nat /\ MaxLogins >= 1
  BY FrameConstants DEF Frame!BoundsAreNaturals

LEMMA FrameFacts ==
  ASSUME FrameInv
  PROVE  /\ Len(entries) \in Nat /\ at \in Nat /\ known \in Nat /\ at >= 1 /\ at <= Len(entries) /\ known >= 1
         /\ known <= Len(entries)
         /\ Len(entries) <= MaxEntries /\ entries \in Seq({"shop", "admin"})
         /\ traversals \in Seq(FrameTraversal)
         /\ page \in {"shop", "admin"} /\ (page = "admin" <=> known = 1)
         /\ login \in Nat /\ requests \subseteq Frame!Request
         /\ restoring \in BOOLEAN /\ orderBusy \in BOOLEAN /\ crossed \in BOOLEAN
         /\ drafts \subseteq Frame!Editors
<1>1. Len(entries) \in Nat /\ Len(entries) >= 1 /\ Len(entries) <= MaxEntries
  BY FrameBounds DEF FrameInv, FrameTyped
<1>2. at \in 1..Len(entries) /\ known \in 1..Len(entries)
  BY DEF FrameInv, FrameTyped
<1>3. page = IF known = 1 THEN "admin" ELSE "shop"
  BY <1>2 DEF FrameInv, FramePlaceAgrees
<1>4. login \in Nat
  BY FrameBounds DEF FrameInv, FrameTyped
<1> QED
  BY <1>1, <1>2, <1>3, <1>4 DEF FrameInv, FrameTyped

\* The place the tab is at: what the next traversal leads to.
LEMMA FrameHeadStep ==
  ASSUME FrameInv, traversals # <<>>
  PROVE  /\ Head(traversals).step \in {-1, 1} /\ Head(traversals).by \in {"person", "guard"}
         /\ (Head(traversals).by = "guard" => Head(traversals).step = -1)
         /\ Tail(traversals) \in Seq(FrameTraversal)
         /\ \A i \in 1..Len(Tail(traversals)) : Tail(traversals)[i].by = "guard" => Tail(traversals)[i].step = -1
         /\ Frame!Target \in Int
<1>1. traversals \in Seq(FrameTraversal) /\ at \in Nat
  BY FrameFacts
<1>2. /\ Len(traversals) \in Nat /\ Len(traversals) >= 1 /\ Head(traversals) = traversals[1]
      /\ traversals[1] \in FrameTraversal
  BY <1>1
<1>3. /\ Tail(traversals) \in Seq(FrameTraversal) /\ Len(Tail(traversals)) = Len(traversals) - 1
      /\ \A i \in 1..Len(Tail(traversals)) : Tail(traversals)[i] = traversals[i + 1]
  BY <1>1, HeadTailProperties
<1>4. \A i \in 1..Len(traversals) : traversals[i].by = "guard" => traversals[i].step = -1
  BY DEF FrameInv, FramePlaceAgrees
<1>5. \A i \in 1..Len(Tail(traversals)) : i + 1 \in 1..Len(traversals)
  BY <1>2, <1>3
<1>6. \A i \in 1..Len(Tail(traversals)) : Tail(traversals)[i].by = "guard" => Tail(traversals)[i].step = -1
  BY <1>3, <1>4, <1>5
<1>7. Head(traversals).by = "guard" => Head(traversals).step = -1
  BY <1>2, <1>4
<1>8. traversals[1].step \in {-1, 1} /\ traversals[1].by \in {"person", "guard"}
  BY <1>2 DEF FrameTraversal
<1> QED
  BY <1>1, <1>2, <1>3, <1>6, <1>7, <1>8 DEF Frame!Target

\* One more traversal at the end of the queue.
LEMMA FrameOneMore ==
  ASSUME NEW q \in Seq(FrameTraversal), NEW t \in FrameTraversal, t.by = "guard" => t.step = -1,
         \A i \in 1..Len(q) : q[i].by = "guard" => q[i].step = -1
  PROVE  /\ Append(q, t) \in Seq(FrameTraversal)
         /\ \A i \in 1..Len(Append(q, t)) : Append(q, t)[i].by = "guard" => Append(q, t)[i].step = -1
<1>1. /\ Append(q, t) \in Seq(FrameTraversal) /\ Len(Append(q, t)) = Len(q) + 1
      /\ \A i \in 1..Len(q) : Append(q, t)[i] = q[i]
      /\ Append(q, t)[Len(q) + 1] = t
  BY AppendProperties
<1>2. Len(q) \in Nat
  OBVIOUS
<1>3. \A i \in 1..Len(Append(q, t)) : i \in 1..Len(q) \/ i = Len(q) + 1
  BY <1>1, <1>2
<1> QED
  BY <1>1, <1>3

\* The console is as it was, or its page is gone: its own part of the invariant.
FrameApart == FrameTyped /\ FrameConsoleAgrees /\ FrameBusyAgrees /\ FrameSessionAgrees

\* No request of a panel that unmounted is running, and each is otherwise what it was.
LEMMA FrameUnmounting ==
  ASSUME NEW rs \in SUBSET Frame!Request, NEW ps \in SUBSET Frame!Panels
  PROVE  /\ Frame!Unmounted(rs, ps) \subseteq Frame!Request
         /\ \A q \in Frame!Unmounted(rs, ps) : \E r \in rs :
              /\ q.panel = r.panel /\ q.login = r.login /\ q.answer = r.answer
              /\ (q.mounted <=> r.mounted /\ r.panel \notin ps)
         /\ \A r \in rs : \E q \in Frame!Unmounted(rs, ps) :
              /\ q.panel = r.panel /\ q.login = r.login /\ q.answer = r.answer
              /\ (q.mounted <=> r.mounted /\ r.panel \notin ps)
<1> DEFINE F(r) == [r EXCEPT !.mounted = r.mounted /\ r.panel \notin ps]
<1>1. \A r \in rs : F(r) \in Frame!Request /\ F(r).panel = r.panel /\ F(r).login = r.login /\ F(r).answer = r.answer
                    /\ (F(r).mounted <=> r.mounted /\ r.panel \notin ps)
  BY DEF Frame!Request
<1>2. Frame!Unmounted(rs, ps) = {F(r) : r \in rs}
  <2>1. \A r \in rs : [r EXCEPT !.mounted = @ /\ r.panel \notin ps] = [r EXCEPT !.mounted = r.mounted /\ r.panel \notin ps]
    BY DEF Frame!Request
  <2> QED
    BY <2>1 DEF Frame!Unmounted
<1> HIDE DEF F
<1> QED
  BY <1>1, <1>2

\* The page goes away.
LEMMA FrameGoes ==
  ASSUME Frame!PageGone
  PROVE  /\ session' = "checking" /\ section' \in Frame!Sections /\ drafts' = {} /\ requests' = {}
         /\ ~orderBusy' /\ orderBusy' \in BOOLEAN
         /\ ~crossed' /\ crossed' \in BOOLEAN /\ requests' \subseteq Frame!Request
         /\ drafts' \subseteq Frame!Editors
         /\ FrameConsoleAgrees' /\ FrameBusyAgrees' /\ FrameSessionAgrees'
<1>1. /\ session' = "checking" /\ section' = "summary" /\ drafts' = {} /\ requests' = {} /\ orderBusy' = FALSE
      /\ crossed' = FALSE
  BY DEF Frame!PageGone
<1>2. Frame!Running' = {}
  BY <1>1 DEF Frame!Running
<1>3. ~orderBusy' /\ orderBusy' \in BOOLEAN /\ ~crossed' /\ crossed' \in BOOLEAN
  BY <1>1
<1> QED
  BY <1>1, <1>2, <1>3 DEF FrameConsoleAgrees, FrameBusyAgrees, FrameSessionAgrees, Frame!Sections

\* The console is as it was, and so is the session.
LEMMA FrameConsoleStays ==
  ASSUME FrameInv, UNCHANGED Frame!console, UNCHANGED <<login, ended>>, page' = page \/ page # "admin"
  PROVE  /\ FrameConsoleAgrees' /\ FrameBusyAgrees' /\ FrameSessionAgrees'
         /\ UNCHANGED <<session, section, drafts, requests, orderBusy, crossed>>
<1>1. UNCHANGED <<session, section, drafts, requests, orderBusy, crossed>>
  BY DEF Frame!console
<1>2. Frame!Running' = Frame!Running
  BY <1>1 DEF Frame!Running
<1>3. page = "admin" \/ session = "checking"
  BY DEF FrameInv, FrameConsoleAgrees
<1> QED
  BY <1>1, <1>2, <1>3 DEF FrameInv, FrameConsoleAgrees, FrameBusyAgrees, FrameSessionAgrees

\* A page is shown: the console is as it was, or gone.
LEMMA FrameShown ==
  ASSUME FrameInv, NEW p, Frame!Show(p), UNCHANGED <<login, ended>>
  PROVE  /\ page' = p /\ FrameConsoleAgrees' /\ FrameBusyAgrees' /\ FrameSessionAgrees'
         /\ session' \in {"checking", "anonymous", "authenticated"} /\ section' \in Frame!Sections
         /\ drafts' \subseteq Frame!Editors
         /\ requests' \subseteq Frame!Request /\ orderBusy' \in BOOLEAN /\ crossed' \in BOOLEAN
<1>1. page' = p /\ IF page = "admin" /\ p # "admin" THEN Frame!PageGone ELSE UNCHANGED Frame!console
  BY DEF Frame!Show
<1>2. CASE page = "admin" /\ p # "admin" /\ Frame!PageGone
  BY <1>1, <1>2, FrameGoes
<1>3. CASE ~(page = "admin" /\ p # "admin") /\ UNCHANGED Frame!console
  <2>1. page' = page \/ page # "admin"
    BY <1>1, <1>3
  <2> QED
    BY <1>1, <1>3, <2>1, FrameConsoleStays DEF FrameInv, FrameTyped
<1> QED
  BY <1>1, <1>2, <1>3

LEMMA FrameNoTraversals == <<>> \in Seq(FrameTraversal) /\ \A i \in 1..Len(<<>>) : FALSE
  OBVIOUS

LEMMA FrameNavigateKeeps == ASSUME FrameInv, Frame!Navigate PROVE FrameInv'
<1>1. /\ at < MaxEntries /\ given' = Frame!Confirmed /\ known' = at + 1 /\ at' = at + 1
      /\ entries' = Append(SubSeq(entries, 1, at), "shop") /\ traversals' \in {traversals, <<>>}
      /\ Frame!Show("shop")
      /\ UNCHANGED <<restoring, login, ended>>
  BY DEF Frame!Navigate
<1>2. /\ page' = "shop" /\ FrameConsoleAgrees' /\ FrameBusyAgrees' /\ FrameSessionAgrees'
      /\ session' \in {"checking", "anonymous", "authenticated"} /\ section' \in Frame!Sections
      /\ drafts' \subseteq Frame!Editors
      /\ requests' \subseteq Frame!Request /\ orderBusy' \in BOOLEAN /\ crossed' \in BOOLEAN
  BY <1>1, FrameShown
<1> DEFINE s == SubSeq(entries, 1, at)
<1>3. s \in Seq({"shop", "admin"}) /\ Len(s) = at /\ \A i \in 1..at : s[i] = entries[i]
  <2>1. /\ entries \in Seq({"shop", "admin"}) /\ at \in Nat /\ at <= Len(entries) /\ at >= 1
        /\ Len(entries) \in Nat
    BY FrameFacts
  <2> QED
    BY <2>1, SubSeqProperties
<1> HIDE DEF s
<1>4. /\ entries' \in Seq({"shop", "admin"}) /\ Len(entries') = at + 1 /\ entries'[at + 1] = "shop"
      /\ \A i \in 1..at : entries'[i] = entries[i]
  <2>1. entries' = Append(s, "shop")
    BY <1>1 DEF s
  <2> QED
    BY <1>3, <2>1, AppendProperties
<1>5. at \in Nat /\ at >= 1 /\ at <= Len(entries) /\ Len(entries) \in Nat
  BY FrameFacts
<1>6. \A i \in 1..Len(entries') : entries'[i] = IF i = 1 THEN "admin" ELSE "shop"
  <2>1. \A i \in 1..at : entries[i] = IF i = 1 THEN "admin" ELSE "shop"
    BY <1>5 DEF FrameInv, FramePlaceAgrees
  <2>2. \A i \in 1..(at + 1) : i \in 1..at \/ i = at + 1
    BY <1>5
  <2> QED
    BY <1>4, <1>5, <2>1, <2>2
<1>7. /\ traversals' \in Seq(FrameTraversal)
      /\ \A i \in 1..Len(traversals') : traversals'[i].by = "guard" => traversals'[i].step = -1
  BY <1>1, FrameNoTraversals DEF FrameInv, FrameTyped, FramePlaceAgrees
<1>8. FramePlaceAgrees'
  BY <1>1, <1>2, <1>4, <1>6, <1>7 DEF FramePlaceAgrees
<1>9. given' \subseteq Frame!Editors
  BY <1>1 DEF Frame!Confirmed, FrameInv, FrameTyped
<1>10. at + 1 \in 1..MaxEntries /\ at + 1 \in 1..Len(entries') /\ Len(entries') \in 1..MaxEntries
  BY <1>1, <1>4, <1>5, FrameBounds
<1>11. FrameTyped'
  BY <1>1, <1>2, <1>4, <1>7, <1>9, <1>10 DEF FrameInv, FrameTyped
<1> QED
  BY <1>2, <1>8, <1>11 DEF FrameInv

LEMMA FrameAskTraversalKeeps ==
  ASSUME FrameInv, NEW step \in {-1, 1}, Frame!AskTraversal(step)
  PROVE  FrameInv'
<1>1. /\ traversals' = Append(traversals, [by |-> "person", step |-> step])
      /\ UNCHANGED <<entries, at, page, known, restoring, login, ended, given>> /\ UNCHANGED Frame!console
  BY DEF Frame!AskTraversal
<1>2. /\ FrameConsoleAgrees' /\ FrameBusyAgrees' /\ FrameSessionAgrees'
      /\ UNCHANGED <<session, section, drafts, requests, orderBusy, crossed>>
  BY <1>1, FrameConsoleStays
<1> DEFINE t == [by |-> "person", step |-> step]
<1>3. t \in FrameTraversal /\ t.by # "guard"
  BY DEF FrameTraversal
<1>4. /\ traversals' \in Seq(FrameTraversal)
      /\ \A i \in 1..Len(traversals') : traversals'[i].by = "guard" => traversals'[i].step = -1
  <2> HIDE DEF t
  <2>1. traversals' = Append(traversals, t)
    BY <1>1 DEF t
  <2> QED
    BY <1>3, <2>1, FrameOneMore DEF FrameInv, FrameTyped, FramePlaceAgrees
<1>5. FramePlaceAgrees'
  BY <1>1, <1>4 DEF FrameInv, FramePlaceAgrees
<1>6. FrameTyped'
  BY <1>1, <1>2, <1>4 DEF FrameInv, FrameTyped
<1> QED
  BY <1>2, <1>5, <1>6 DEF FrameInv

LEMMA FrameTraverseKeeps == ASSUME FrameInv, Frame!Traverse PROVE FrameInv'
<1>1. /\ traversals # <<>> /\ Frame!Target \in 1..Len(entries) /\ at' = Frame!Target
      /\ UNCHANGED <<entries, login, ended>>
      /\ \E yes \in IF restoring THEN {TRUE} ELSE Frame!ShouldNavigate :
           IF yes
           THEN /\ known' = Frame!Target /\ restoring' = FALSE
                /\ traversals' = Tail(traversals) /\ Frame!Show(entries[Frame!Target])
                /\ given' = IF restoring THEN given ELSE Frame!Confirmed
           ELSE /\ restoring' = TRUE
                /\ traversals' = Append(Tail(traversals), [by |-> "guard", step |-> known - Frame!Target])
                /\ UNCHANGED <<known, page, given>> /\ UNCHANGED Frame!console
  BY DEF Frame!Traverse
<1>2. /\ Head(traversals).step \in {-1, 1} /\ (Head(traversals).by = "guard" => Head(traversals).step = -1)
      /\ Tail(traversals) \in Seq(FrameTraversal)
      /\ \A i \in 1..Len(Tail(traversals)) : Tail(traversals)[i].by = "guard" => Tail(traversals)[i].step = -1
  BY <1>1, FrameHeadStep
<1>3. CASE /\ known' = Frame!Target /\ restoring' = FALSE
           /\ traversals' = Tail(traversals) /\ Frame!Show(entries[Frame!Target])
           /\ given' = IF restoring THEN given ELSE Frame!Confirmed
  <2>1. /\ page' = entries[Frame!Target] /\ FrameConsoleAgrees' /\ FrameBusyAgrees' /\ FrameSessionAgrees'
        /\ session' \in {"checking", "anonymous", "authenticated"} /\ section' \in Frame!Sections
        /\ drafts' \subseteq Frame!Editors
        /\ requests' \subseteq Frame!Request /\ orderBusy' \in BOOLEAN /\ crossed' \in BOOLEAN
    BY <1>1, <1>3, FrameShown
  <2>2. given' \subseteq Frame!Editors /\ ~restoring' /\ restoring' \in BOOLEAN
    BY <1>3 DEF Frame!Confirmed, FrameInv, FrameTyped
  <2>3. FramePlaceAgrees'
    BY <1>1, <1>2, <1>3, <2>1, <2>2 DEF FrameInv, FramePlaceAgrees
  <2>4. FrameTyped'
    BY <1>1, <1>2, <1>3, <2>1, <2>2 DEF FrameInv, FrameTyped
  <2> QED
    BY <2>1, <2>3, <2>4 DEF FrameInv
<1>4. CASE /\ ~restoring /\ FALSE \in Frame!ShouldNavigate /\ restoring' = TRUE
           /\ traversals' = Append(Tail(traversals), [by |-> "guard", step |-> known - Frame!Target])
           /\ UNCHANGED <<known, page, given>> /\ UNCHANGED Frame!console
  <2>1. /\ FrameConsoleAgrees' /\ FrameBusyAgrees' /\ FrameSessionAgrees'
        /\ UNCHANGED <<session, section, drafts, requests, orderBusy, crossed>>
    BY <1>1, <1>4, FrameConsoleStays
  <2>2. page = "admin"
    BY <1>4 DEF Frame!ShouldNavigate, Frame!Open
  <2>3. known = 1 /\ at = 1
    BY <1>4, <2>2, FrameFacts DEF FrameInv, FramePlaceAgrees
  <2>4. Frame!Target = 2
    BY <1>1, <1>2, <2>3 DEF Frame!Target
  <2> DEFINE t == [by |-> "guard", step |-> known - Frame!Target]
  <2>5. t \in FrameTraversal /\ t.step = -1
    BY <2>3, <2>4 DEF FrameTraversal
  <2>6. /\ traversals' \in Seq(FrameTraversal)
        /\ \A i \in 1..Len(traversals') : traversals'[i].by = "guard" => traversals'[i].step = -1
    <3> HIDE DEF t
    <3>1. traversals' = Append(Tail(traversals), t)
      BY <1>4 DEF t
    <3>2. PICK q \in Seq(FrameTraversal) : q = Tail(traversals)
      BY <1>2
    <3> QED
      BY <1>2, <2>5, <3>1, <3>2, FrameOneMore
  <2>7. restoring' /\ restoring' \in BOOLEAN
    BY <1>4
  <2>8. FramePlaceAgrees'
    BY <1>1, <1>4, <2>4, <2>6, <2>7 DEF FrameInv, FramePlaceAgrees
  <2>9. FrameTyped'
    BY <1>1, <1>4, <2>1, <2>6, <2>7 DEF FrameInv, FrameTyped
  <2> QED
    BY <2>1, <2>8, <2>9 DEF FrameInv
<1> QED
  BY <1>1, <1>3, <1>4 DEF Frame!ShouldNavigate

LEMMA FrameTraverseNowhereKeeps == ASSUME FrameInv, Frame!TraverseNowhere PROVE FrameInv'
<1>1. /\ traversals # <<>> /\ traversals' = Tail(traversals)
      /\ UNCHANGED <<entries, at, page, known, restoring, login, ended, given>> /\ UNCHANGED Frame!console
  BY DEF Frame!TraverseNowhere
<1>2. /\ FrameConsoleAgrees' /\ FrameBusyAgrees' /\ FrameSessionAgrees'
      /\ UNCHANGED <<session, section, drafts, requests, orderBusy, crossed>>
  BY <1>1, FrameConsoleStays
<1>3. /\ traversals' \in Seq(FrameTraversal)
      /\ \A i \in 1..Len(traversals') : traversals'[i].by = "guard" => traversals'[i].step = -1
  BY <1>1, FrameHeadStep
<1>4. FramePlaceAgrees'
  BY <1>1, <1>3 DEF FrameInv, FramePlaceAgrees
<1>5. FrameTyped'
  BY <1>1, <1>2, <1>3 DEF FrameInv, FrameTyped
<1> QED
  BY <1>2, <1>4, <1>5 DEF FrameInv

LEMMA FrameReloadKeeps == ASSUME FrameInv, Frame!Reload PROVE FrameInv'
<1>1. /\ given' = Frame!Confirmed /\ page' = entries[at] /\ known' = at /\ restoring' = FALSE
      /\ traversals' = <<>>
      /\ Frame!PageGone /\ UNCHANGED <<entries, at, login, ended>>
  BY DEF Frame!Reload
<1>2. /\ session' = "checking" /\ section' \in Frame!Sections /\ drafts' \subseteq Frame!Editors
      /\ requests' \subseteq Frame!Request /\ orderBusy' \in BOOLEAN /\ crossed' \in BOOLEAN
      /\ FrameConsoleAgrees' /\ FrameBusyAgrees' /\ FrameSessionAgrees'
  BY <1>1, FrameGoes
<1>3. traversals' \in Seq(FrameTraversal) /\ (\A i \in 1..Len(traversals') : traversals'[i].by = "guard" => traversals'[i].step = -1)
      /\ ~restoring' /\ restoring' \in BOOLEAN /\ given' \subseteq Frame!Editors
  BY <1>1, FrameNoTraversals DEF Frame!Confirmed, FrameInv, FrameTyped
<1>4. FramePlaceAgrees'
  BY <1>1, <1>3 DEF FrameInv, FramePlaceAgrees
<1>5. FrameTyped'
  BY <1>1, <1>2, <1>3 DEF FrameInv, FrameTyped
<1> QED
  BY <1>2, <1>4, <1>5 DEF FrameInv

\* The tab's history stays.
LEMMA FramePlaceStays ==
  ASSUME FrameInv, UNCHANGED Frame!history
  PROVE  FramePlaceAgrees' /\ UNCHANGED <<entries, at, traversals, page, known, restoring>>
  BY DEF FrameInv, FramePlaceAgrees, Frame!history

LEMMA FrameCheckSessionKeeps == ASSUME FrameInv, Frame!CheckSession PROVE FrameInv'
<1>1. /\ page = "admin" /\ session = "checking"
      /\ session' \in {"anonymous"} \cup (IF ended = "no" THEN {"authenticated"} ELSE {})
      /\ orderBusy' = FALSE /\ UNCHANGED Frame!history
      /\ UNCHANGED <<section, drafts, requests, login, ended, given, crossed>>
  BY DEF Frame!CheckSession
<1>2. FramePlaceAgrees' /\ UNCHANGED <<entries, at, traversals, page, known, restoring>>
  BY <1>1, FramePlaceStays
<1>3. Frame!Running = {} /\ drafts = {}
  BY <1>1 DEF FrameInv, FrameConsoleAgrees
<1>4. Frame!Running' = {}
  BY <1>1, <1>3 DEF Frame!Running
<1>5. session' \in {"anonymous", "authenticated"} /\ (session' = "authenticated" => ended = "no")
  BY <1>1
<1>6. ~orderBusy' /\ orderBusy' \in BOOLEAN
  BY <1>1
<1>7. FrameTyped'
  BY <1>1, <1>2, <1>5, <1>6 DEF FrameInv, FrameTyped
<1>8. FrameConsoleAgrees' /\ FrameBusyAgrees'
  BY <1>1, <1>2, <1>3, <1>4, <1>6 DEF FrameConsoleAgrees, FrameBusyAgrees
<1>9. FrameSessionAgrees'
  BY <1>1, <1>5 DEF FrameInv, FrameSessionAgrees
<1> QED
  BY <1>2, <1>7, <1>8, <1>9 DEF FrameInv

LEMMA FrameLoginKeeps == ASSUME FrameInv, Frame!Login PROVE FrameInv'
<1>1. /\ page = "admin" /\ session = "anonymous" /\ login < MaxLogins
      /\ session' = "authenticated" /\ section' = "summary" /\ login' = login + 1 /\ ended' = "no"
      /\ orderBusy' = FALSE
      /\ UNCHANGED Frame!history /\ UNCHANGED <<drafts, requests, given, crossed>>
  BY DEF Frame!Login
<1>2. FramePlaceAgrees' /\ UNCHANGED <<entries, at, traversals, page, known, restoring>>
  BY <1>1, FramePlaceStays
<1>3. Frame!Running = {}
  BY <1>1 DEF FrameInv, FrameConsoleAgrees
<1>4. Frame!Running' = {}
  BY <1>1, <1>3 DEF Frame!Running
<1>5. ~orderBusy' /\ orderBusy' \in BOOLEAN /\ section' \in Frame!Sections
  BY <1>1 DEF Frame!Sections
<1>6. login + 1 \in 1..MaxLogins
  BY <1>1, FrameFacts, FrameBounds
<1>7. FrameTyped'
  BY <1>1, <1>2, <1>5, <1>6 DEF FrameInv, FrameTyped
<1>8. FrameConsoleAgrees' /\ FrameBusyAgrees'
  BY <1>1, <1>2, <1>4, <1>5 DEF FrameConsoleAgrees, FrameBusyAgrees
<1>9. \A r \in requests : r.login \in Nat /\ r.login <= login
  BY FrameFacts, FrameBounds DEF FrameInv, FrameSessionAgrees, Frame!Request
<1>10. \A r \in requests : r.login <= login + 1 /\ r.login # login + 1
  BY <1>9, FrameFacts
<1>11. FrameSessionAgrees'
  BY <1>1, <1>10 DEF FrameSessionAgrees
<1> QED
  BY <1>2, <1>7, <1>8, <1>11 DEF FrameInv

LEMMA FrameSessionEndsKeeps == ASSUME FrameInv, Frame!SessionEnds PROVE FrameInv'
<1>1. /\ ended' = "expired" /\ UNCHANGED Frame!history /\ UNCHANGED <<login, given>>
      /\ UNCHANGED <<session, section, drafts, requests, orderBusy, crossed>>
  BY DEF Frame!SessionEnds, Frame!console
<1>2. FramePlaceAgrees' /\ UNCHANGED <<entries, at, traversals, page, known, restoring>>
  BY <1>1, FramePlaceStays
<1>3. Frame!Running' = Frame!Running
  BY <1>1 DEF Frame!Running
<1>4. FrameTyped'
  BY <1>1, <1>2 DEF FrameInv, FrameTyped
<1>5. FrameConsoleAgrees' /\ FrameBusyAgrees' /\ FrameSessionAgrees'
  BY <1>1, <1>2, <1>3 DEF FrameInv, FrameConsoleAgrees, FrameBusyAgrees, FrameSessionAgrees
<1> QED
  BY <1>2, <1>4, <1>5 DEF FrameInv

LEMMA FrameSelectSectionKeeps ==
  ASSUME FrameInv, NEW s \in Frame!Sections, Frame!SelectSection(s)
  PROVE  FrameInv'
<1>1. /\ Frame!Open
      /\ ~Frame!Busy \/ (section = "summary" /\ s = "orders")
      /\ section' = s
      /\ requests' = IF section = "orders" THEN Frame!Unmounted(requests, {"request"}) ELSE requests
      /\ UNCHANGED Frame!history /\ UNCHANGED <<session, drafts, orderBusy, login, ended, given, crossed>>
  BY DEF Frame!SelectSection
<1>2. FramePlaceAgrees' /\ UNCHANGED <<entries, at, traversals, page, known, restoring>>
  BY <1>1, FramePlaceStays
<1>3. CASE section = "orders"
  <2>1. ~orderBusy /\ requests' = Frame!Unmounted(requests, {"request"}) /\ session = "authenticated"
    BY <1>1, <1>3 DEF Frame!Busy, Frame!Open
  <2>2. /\ requests' \subseteq Frame!Request
        /\ \A q \in requests' : \E r \in requests :
             /\ q.panel = r.panel /\ q.login = r.login /\ q.answer = r.answer
             /\ (q.mounted <=> r.mounted /\ r.panel \notin {"request"})
        /\ \A r \in requests : \E q \in requests' :
             /\ q.panel = r.panel /\ q.login = r.login /\ q.answer = r.answer
             /\ (q.mounted <=> r.mounted /\ r.panel \notin {"request"})
    <3>1. {"request"} \in SUBSET Frame!Panels
      BY DEF Frame!Panels
    <3>2. requests \in SUBSET Frame!Request
      BY FrameFacts
    <3> QED
      BY <2>1, <3>1, <3>2, FrameUnmounting
  <2>3. \A q \in Frame!Running' : \E r \in Frame!Running : q.panel = r.panel
    BY <2>2 DEF Frame!Running
  <2>4. FrameBusyAgrees'
    BY <1>1, <2>1, <2>3 DEF FrameInv, FrameBusyAgrees
  <2>5. FrameConsoleAgrees'
    BY <1>1, <1>2, <2>1 DEF FrameInv, FrameConsoleAgrees
  <2>6. FrameSessionAgrees'
    BY <1>1, <2>2 DEF FrameInv, FrameSessionAgrees
  <2>7. FrameTyped'
    BY <1>1, <1>2, <2>2 DEF FrameInv, FrameTyped
  <2> QED
    BY <1>2, <2>4, <2>5, <2>6, <2>7 DEF FrameInv
<1>4. CASE section # "orders"
  <2>1. requests' = requests
    BY <1>1, <1>4
  <2>2. Frame!Running' = Frame!Running
    BY <2>1 DEF Frame!Running
  <2>3. FrameTyped'
    BY <1>1, <1>2, <2>1 DEF FrameInv, FrameTyped
  <2>4. FrameConsoleAgrees' /\ FrameBusyAgrees' /\ FrameSessionAgrees'
    BY <1>1, <1>2, <2>1, <2>2 DEF FrameInv, FrameConsoleAgrees, FrameBusyAgrees, FrameSessionAgrees
  <2> QED
    BY <1>2, <2>3, <2>4 DEF FrameInv
<1> QED
  BY <1>3, <1>4

\* Only the drafts change, in an open console.
LEMMA FrameDraftsChange ==
  ASSUME FrameInv, Frame!Open,
         UNCHANGED <<Frame!history, session, section, requests, orderBusy, login, ended, crossed>>,
         drafts' \subseteq Frame!Editors, given' \subseteq Frame!Editors
  PROVE  FrameInv'
<1>1. FramePlaceAgrees' /\ UNCHANGED <<entries, at, traversals, page, known, restoring>>
  BY FramePlaceStays
<1>2. Frame!Running' = Frame!Running
  BY DEF Frame!Running
<1>3. FrameTyped'
  BY <1>1 DEF FrameInv, FrameTyped
<1>4. FrameConsoleAgrees' /\ FrameBusyAgrees' /\ FrameSessionAgrees'
  BY <1>1, <1>2 DEF FrameInv, FrameConsoleAgrees, FrameBusyAgrees, FrameSessionAgrees, Frame!Open
<1> QED
  BY <1>1, <1>3, <1>4 DEF FrameInv

LEMMA FrameEditKeeps == ASSUME FrameInv, NEW p \in Frame!Editors, Frame!Edit(p) PROVE FrameInv'
  BY FrameDraftsChange DEF Frame!Edit, FrameInv, FrameTyped

LEMMA FrameDiscardKeeps == ASSUME FrameInv, NEW p \in Frame!Editors, Frame!Discard(p) PROVE FrameInv'
  BY FrameDraftsChange DEF Frame!Discard, FrameInv, FrameTyped

\* A request is sent: what was in flight still is.
LEMMA FrameSends ==
  ASSUME FrameInv, NEW p \in Frame!Panels \cup {"logout"}, Frame!Send(p), UNCHANGED <<login, ended>>
  PROVE  LET r == [panel |-> p, login |-> login, mounted |-> TRUE, answer |-> "none"] IN
         /\ requests' = requests \cup {r} /\ requests' \subseteq Frame!Request /\ r.panel = p /\ r.mounted
         /\ Frame!Running' = Frame!Running \cup (IF p = "logout" THEN {} ELSE {r})
         /\ (session' = session => FrameSessionAgrees')
<1> DEFINE r == [panel |-> p, login |-> login, mounted |-> TRUE, answer |-> "none"]
<1>1. requests' = requests \cup {r} /\ r.panel = p /\ r.login = login /\ r.mounted /\ r.answer = "none"
  BY DEF Frame!Send
<1>2. login \in 0..MaxLogins
  BY FrameBounds DEF FrameInv, FrameTyped
<1>3. r \in Frame!Request
  BY <1>2 DEF Frame!Request
<1> HIDE DEF r
<1>4. requests' \subseteq Frame!Request
  BY <1>1, <1>3, FrameFacts
<1>5. Frame!Running' = Frame!Running \cup (IF p = "logout" THEN {} ELSE {r})
  BY <1>1 DEF Frame!Running
<1>6. session' = session => FrameSessionAgrees'
  BY <1>1, FrameFacts DEF FrameInv, FrameSessionAgrees
<1> QED
  BY <1>1, <1>4, <1>5, <1>6 DEF r

LEMMA FrameStartKeeps == ASSUME FrameInv, NEW p \in Frame!Panels, Frame!Start(p) PROVE FrameInv'
<1>1. /\ Frame!Open /\ Frame!Send(p) /\ orderBusy' = (orderBusy \/ p \in Frame!Shared)
      /\ UNCHANGED Frame!history /\ UNCHANGED <<session, section, drafts, login, ended, given, crossed>>
  BY DEF Frame!Start, Frame!MayStart
<1>2. FramePlaceAgrees' /\ UNCHANGED <<entries, at, traversals, page, known, restoring>>
  BY <1>1, FramePlaceStays
<1>3. p # "logout"
  BY DEF Frame!Panels, Frame!Editors
<1>4. PICK r : /\ requests' \subseteq Frame!Request /\ r.panel = p /\ Frame!Running' = Frame!Running \cup {r}
               /\ FrameSessionAgrees'
  BY <1>1, <1>3, FrameSends
<1>5. orderBusy' \in BOOLEAN /\ (orderBusy' <=> orderBusy \/ p \in Frame!Shared)
  BY <1>1, FrameFacts
<1>6. FrameBusyAgrees'
  BY <1>1, <1>4, <1>5 DEF FrameInv, FrameBusyAgrees
<1>7. FrameConsoleAgrees'
  BY <1>1, <1>2 DEF FrameInv, FrameConsoleAgrees, Frame!Open
<1>8. FrameTyped'
  BY <1>1, <1>2, <1>4, <1>5 DEF FrameInv, FrameTyped
<1> QED
  BY <1>2, <1>4, <1>6, <1>7, <1>8 DEF FrameInv

LEMMA FrameStartLogoutKeeps == ASSUME FrameInv, Frame!StartLogout PROVE FrameInv'
<1>1. /\ Frame!Open /\ Frame!Send("logout") /\ given' = given \cup drafts
      /\ UNCHANGED Frame!history /\ UNCHANGED <<session, section, drafts, orderBusy, login, ended, crossed>>
  BY DEF Frame!StartLogout
<1>2. FramePlaceAgrees' /\ UNCHANGED <<entries, at, traversals, page, known, restoring>>
  BY <1>1, FramePlaceStays
<1>3. requests' \subseteq Frame!Request /\ Frame!Running' = Frame!Running /\ FrameSessionAgrees'
  BY <1>1, FrameSends
<1>4. FrameBusyAgrees' /\ FrameConsoleAgrees'
  BY <1>1, <1>2, <1>3 DEF FrameInv, FrameBusyAgrees, FrameConsoleAgrees
<1>5. given' \subseteq Frame!Editors
  BY <1>1 DEF FrameInv, FrameTyped
<1>6. FrameTyped'
  BY <1>1, <1>2, <1>3, <1>5 DEF FrameInv, FrameTyped
<1> QED
  BY <1>2, <1>3, <1>4, <1>6 DEF FrameInv

LEMMA FrameAnswerKeeps == ASSUME FrameInv, NEW r \in requests, Frame!Answer(r) PROVE FrameInv'
<1>1. PICK a \in {"ok", "failed", "denied"} :
      /\ a \in IF Frame!Lasting(r) THEN {"ok", "failed"} ELSE {"failed", "denied"}
      /\ r.answer = "none" /\ requests' = (requests \ {r}) \cup {[r EXCEPT !.answer = a]}
      /\ ended' = IF r.panel = "logout" /\ a = "ok" THEN "closed" ELSE ended
      /\ UNCHANGED Frame!history /\ UNCHANGED <<session, section, drafts, orderBusy, login, given, crossed>>
  BY DEF Frame!Answer
<1>2. FramePlaceAgrees' /\ UNCHANGED <<entries, at, traversals, page, known, restoring>>
  BY <1>1, FramePlaceStays
<1> DEFINE q == [r EXCEPT !.answer = a]
<1>3. /\ q \in Frame!Request /\ q.panel = r.panel /\ q.login = r.login /\ (q.mounted <=> r.mounted)
      /\ q.answer = a
  BY FrameFacts DEF Frame!Request
<1> HIDE DEF q
<1>4. requests' = (requests \ {r}) \cup {q}
  BY <1>1 DEF q
<1>5. requests' \subseteq Frame!Request
  BY <1>3, <1>4, FrameFacts
<1>6. /\ \A x \in Frame!Running' : \E y \in Frame!Running : x.panel = y.panel
      /\ \A x \in Frame!Running : \E y \in Frame!Running' : x.panel = y.panel
  BY <1>3, <1>4 DEF Frame!Running
<1>7. FrameConsoleAgrees'
  BY <1>1, <1>2, <1>6 DEF FrameInv, FrameConsoleAgrees
<1>8. FrameBusyAgrees'
  BY <1>1, <1>6 DEF FrameInv, FrameBusyAgrees
<1>9. ended' \in {"no", "expired", "closed"} /\ (ended # "no" => ended' # "no")
  BY <1>1 DEF FrameInv, FrameTyped
<1>10. FrameTyped'
  BY <1>1, <1>2, <1>5, <1>9 DEF FrameInv, FrameTyped
<1>11. FrameSessionAgrees'
  <2>1. \A x \in requests' : x.login <= login'
    BY <1>1, <1>3, <1>4 DEF FrameInv, FrameSessionAgrees
  <2>2. a = "denied" /\ r.login = login => ended # "no"
    BY <1>1 DEF Frame!Lasting
  <2>3. \A x \in requests' : x.answer = "denied" /\ x.login = login' => ended' # "no"
    BY <1>1, <1>3, <1>4, <1>9, <2>2 DEF FrameInv, FrameSessionAgrees
  <2>4. session' = "authenticated" /\ ended' = "closed" => \E x \in requests' : x.panel = "logout" /\ x.answer = "ok"
    <3>1. CASE r.panel = "logout" /\ a = "ok"
      BY <1>3, <1>4, <3>1
    <3>2. CASE ~(r.panel = "logout" /\ a = "ok")
      BY <1>1, <1>4, <3>2 DEF FrameInv, FrameSessionAgrees
    <3> QED
      BY <3>1, <3>2
  <2> QED
    BY <2>1, <2>3, <2>4 DEF FrameSessionAgrees
<1> QED
  BY <1>2, <1>7, <1>8, <1>10, <1>11 DEF FrameInv

LEMMA FrameArriveKeeps == ASSUME FrameInv, NEW r \in requests, Frame!Arrive(r) PROVE FrameInv'
<1>1. UNCHANGED Frame!history /\ UNCHANGED <<login, ended>>
  BY DEF Frame!Arrive
<1>2. FramePlaceAgrees' /\ UNCHANGED <<entries, at, traversals, page, known, restoring>>
  BY <1>1, FramePlaceStays
<1>3. CASE Frame!Closes(r)
  <2>1. /\ Frame!BackToLogin(requests \ {r}) /\ section' = IF r.panel = "logout" THEN "summary" ELSE section
        /\ given' = given /\ session = "authenticated"
    BY <1>3 DEF Frame!Arrive, Frame!Closes
  <2> DEFINE rs == {x \in requests \ {r} : ~(x.panel = "sync" /\ x.mounted)}
  <2>2. /\ session' = "anonymous" /\ drafts' = {} /\ requests' = Frame!Unmounted(rs, Frame!Panels)
        /\ orderBusy' = FALSE /\ crossed' = FALSE
    BY <2>1 DEF Frame!BackToLogin
  <2>3. rs \in SUBSET Frame!Request /\ rs \subseteq requests
    BY FrameFacts
  <2> HIDE DEF rs
  <2>4. /\ requests' \subseteq Frame!Request
        /\ \A q \in requests' : \E x \in requests :
             /\ q.panel = x.panel /\ q.login = x.login /\ q.answer = x.answer
             /\ (q.mounted <=> x.mounted /\ x.panel \notin Frame!Panels)
    BY <2>2, <2>3, FrameUnmounting
  <2>5. \A x \in requests : x.panel \in Frame!Panels \cup {"logout"}
    BY FrameFacts DEF Frame!Request
  <2>6. Frame!Running' = {}
    BY <2>4, <2>5 DEF Frame!Running
  <2>7. ~orderBusy' /\ orderBusy' \in BOOLEAN /\ crossed' \in BOOLEAN /\ section' \in Frame!Sections
    BY <2>1, <2>2 DEF FrameInv, FrameTyped, Frame!Sections
  <2>8. page = "admin"
    BY <2>1 DEF FrameInv, FrameConsoleAgrees
  <2>9. FrameConsoleAgrees' /\ FrameBusyAgrees'
    BY <1>2, <2>2, <2>6, <2>7, <2>8 DEF FrameConsoleAgrees, FrameBusyAgrees
  <2>10. FrameSessionAgrees'
    BY <1>1, <2>2, <2>4 DEF FrameInv, FrameSessionAgrees
  <2>11. FrameTyped'
    BY <1>1, <1>2, <2>1, <2>2, <2>4, <2>7 DEF FrameInv, FrameTyped
  <2> QED
    BY <1>2, <2>9, <2>10, <2>11 DEF FrameInv
<1>4. CASE ~Frame!Closes(r)
  <2>1. /\ requests' = requests \ {r}
        /\ orderBusy' = (orderBusy /\ ~Frame!Reports(r))
        /\ drafts' = IF r.panel \in Frame!Editors /\ r.mounted /\ r.answer = "ok" THEN drafts \ {r.panel} ELSE drafts
        /\ crossed' = /\ \E q \in Frame!Running \ {r} : q.panel \in Frame!Shared
                      /\ crossed \/ Frame!Reports(r)
        /\ given' = IF r.panel = "logout" THEN {} ELSE given
        /\ UNCHANGED <<session, section>>
    BY <1>4 DEF Frame!Arrive
  <2>2. Frame!Running' = Frame!Running \ {r}
    BY <2>1 DEF Frame!Running
  <2>3. /\ orderBusy' \in BOOLEAN /\ (orderBusy' <=> orderBusy /\ ~Frame!Reports(r))
        /\ crossed' \in BOOLEAN
        /\ (crossed' <=> (\E q \in Frame!Running \ {r} : q.panel \in Frame!Shared) /\ (crossed \/ Frame!Reports(r)))
    BY <2>1, FrameFacts
  <2>4. r \in Frame!Running /\ r.panel \in Frame!Shared => Frame!Reports(r)
    BY DEF Frame!Running, Frame!Reports
  <2>5. FrameBusyAgrees'
    BY <2>1, <2>2, <2>3, <2>4 DEF FrameInv, FrameBusyAgrees
  <2>6. FrameConsoleAgrees'
    BY <1>2, <2>1, <2>2 DEF FrameInv, FrameConsoleAgrees
  <2>7. FrameSessionAgrees'
    BY <1>1, <1>4, <2>1 DEF FrameInv, FrameSessionAgrees, Frame!Closes
  <2>8. FrameTyped'
    BY <1>1, <1>2, <2>1, <2>3 DEF FrameInv, FrameTyped
  <2> QED
    BY <1>2, <2>5, <2>6, <2>7, <2>8 DEF FrameInv
<1> QED
  BY <1>3, <1>4

\* The console is opened on its own page, with no session looked at yet.
LEMMA FrameInitKeeps == ASSUME Frame!Init PROVE FrameInv
<1>1. /\ entries = <<"admin">> /\ at = 1 /\ known = 1 /\ traversals = <<>>
      /\ page = "admin" /\ restoring = FALSE /\ session = "checking" /\ section = "summary"
      /\ drafts = {} /\ requests = {} /\ orderBusy = FALSE /\ login = 1 /\ ended = "no" /\ given = {}
      /\ crossed = FALSE
  BY DEF Frame!Init
<1>2. entries \in Seq({"shop", "admin"}) /\ Len(entries) = 1 /\ entries[1] = "admin"
  BY <1>1
<1>3. /\ ~restoring /\ restoring \in BOOLEAN /\ ~orderBusy /\ orderBusy \in BOOLEAN /\ crossed \in BOOLEAN
      /\ section \in Frame!Sections
  BY <1>1 DEF Frame!Sections
<1>4. Frame!Running = {}
  BY <1>1 DEF Frame!Running
<1>5. 1 \in 1..MaxEntries /\ 1 \in 1..MaxLogins /\ 1 \in 1..Len(entries) /\ Len(entries) \in 1..MaxEntries
  BY <1>2, FrameBounds
<1>6. FrameTyped
  BY <1>1, <1>2, <1>3, <1>5, FrameNoTraversals DEF FrameTyped
<1>7. FramePlaceAgrees
  BY <1>1, <1>2, <1>3, FrameNoTraversals DEF FramePlaceAgrees
<1>8. FrameConsoleAgrees /\ FrameBusyAgrees /\ FrameSessionAgrees
  BY <1>1, <1>3, <1>4 DEF FrameConsoleAgrees, FrameBusyAgrees, FrameSessionAgrees
<1> QED
  BY <1>6, <1>7, <1>8 DEF FrameInv

\* Every step of the frame keeps what it relies on.
LEMMA FrameNextKeeps == ASSUME FrameInv, Frame!Next PROVE FrameInv'
  BY FrameNavigateKeeps, FrameAskTraversalKeeps, FrameTraverseKeeps, FrameTraverseNowhereKeeps,
     FrameReloadKeeps, FrameCheckSessionKeeps, FrameLoginKeeps, FrameSessionEndsKeeps,
     FrameSelectSectionKeeps, FrameEditKeeps, FrameDiscardKeeps, FrameStartKeeps, FrameStartLogoutKeeps,
     FrameAnswerKeeps, FrameArriveKeeps DEF Frame!Next

\* The console knows of the operations its panels report, and is never locked for one that ended.
LEMMA FrameShows == ASSUME FrameInv PROVE Frame!TypeOK /\ Frame!AnnouncedWhileRunning
<1>1. Frame!TypeOK
  BY FrameFacts DEF FrameInv, FrameTyped, Frame!TypeOK
<1>2. \A r \in Frame!Running : r.panel \in Frame!Panels
  BY FrameFacts DEF Frame!Running, Frame!Request
<1>3. Frame!Announced # {} => Frame!Busy \/ crossed
  BY <1>2 DEF FrameInv, FrameBusyAgrees, Frame!Busy, Frame!Working, Frame!Shared, Frame!Announced
<1>4. Frame!Open /\ Frame!Busy => Frame!Announced # {}
  BY DEF FrameInv, FrameBusyAgrees, Frame!Busy, Frame!Working, Frame!Open, Frame!Announced,
     Frame!Shared, Frame!Silent, Frame!Editors
<1> QED
  BY <1>1, <1>3, <1>4 DEF Frame!AnnouncedWhileRunning

LEMMA FrameRestored ==
  ASSUME FrameInv, traversals # <<>>, restoring, page = "admin", ~Frame!Overtaken
  PROVE  Frame!Target = 1
<1>1. at = 2
  BY DEF FrameInv, FramePlaceAgrees
<1>2. Head(traversals).step = -1
  BY FrameHeadStep DEF Frame!Overtaken
<1> QED
  BY <1>1, <1>2 DEF Frame!Target

\* The guard holds the page while an operation that is reported runs, but for the ways the code
\* leaves open.
LEMMA FrameLeavesOnly ==
  ASSUME FrameInv, Frame!Next, Frame!Announced # {}, page = "admin", page' = "shop"
  PROVE  Frame!Overtaken \/ crossed \/ Frame!Reload
<1>1. session = "authenticated" /\ Frame!Open
  BY DEF FrameInv, FrameConsoleAgrees, Frame!Open, Frame!Announced
<1>2. SUFFICES ASSUME ~Frame!Overtaken, ~crossed, ~Frame!Reload PROVE FALSE
  OBVIOUS
<1>3. Frame!Busy
  BY <1>1, <1>2, FrameShows DEF Frame!AnnouncedWhileRunning
<1>4. Frame!ShouldNavigate = {FALSE}
  BY <1>1, <1>3 DEF Frame!ShouldNavigate
<1>5. ~Frame!Navigate
  BY <1>4 DEF Frame!Navigate
<1>6. ~Frame!Traverse
  <2>1. SUFFICES ASSUME Frame!Traverse PROVE FALSE
    OBVIOUS
  <2>2. restoring /\ traversals # <<>> /\ page' = entries[Frame!Target]
    BY <1>4, <2>1 DEF Frame!Traverse, Frame!Show
  <2>3. Frame!Target = 1
    BY <1>2, <2>2, FrameRestored
  <2>4. entries[1] = "admin"
    BY FrameFacts DEF FrameInv, FramePlaceAgrees
  <2> QED
    BY <2>2, <2>3, <2>4
<1>7. page' # page
  OBVIOUS
<1>8. /\ ~Frame!CheckSession /\ ~Frame!Login /\ ~Frame!SessionEnds /\ ~Frame!StartLogout
      /\ ~Frame!TraverseNowhere /\ \A step \in {-1, 1} : ~Frame!AskTraversal(step)
  BY <1>7 DEF Frame!CheckSession, Frame!Login, Frame!SessionEnds, Frame!StartLogout, Frame!TraverseNowhere,
     Frame!AskTraversal, Frame!history
<1>9. \A p : ~Frame!Edit(p) /\ ~Frame!Discard(p) /\ ~Frame!Start(p) /\ ~Frame!SelectSection(p) /\ ~Frame!Answer(p) /\ ~Frame!Arrive(p)
  BY <1>7 DEF Frame!Edit, Frame!Discard, Frame!Start, Frame!SelectSection, Frame!Answer, Frame!Arrive,
     Frame!history
<1> QED
  BY <1>2, <1>5, <1>6, <1>8, <1>9 DEF Frame!Next

\* A form is closed only by its save, by the person, or with the session.
LEMMA FrameLosesOnly ==
  ASSUME FrameInv, Frame!Next, NEW p \in drafts \ drafts'
  PROVE  p \in given' \/ Frame!Saved(p) \/ ended = "expired" \/ Frame!Overtaken \/ Frame!LateAnswer \/ Frame!LoggingOut
<1>1. p \in drafts /\ p \notin drafts' /\ drafts' # drafts
  OBVIOUS
<1>2. session = "authenticated" /\ page = "admin" /\ Frame!Open
  BY <1>1 DEF FrameInv, FrameConsoleAgrees, Frame!Open
<1>3. p \in Frame!Confirmed
  BY <1>1, <1>2 DEF Frame!Confirmed
<1>4. CASE Frame!Navigate
  BY <1>3, <1>4 DEF Frame!Navigate
<1>5. CASE Frame!Reload
  BY <1>3, <1>5 DEF Frame!Reload
<1>6. CASE Frame!Traverse
  <2>1. SUFFICES ASSUME ~Frame!Overtaken, restoring PROVE FALSE
    BY <1>1, <1>3, <1>6 DEF Frame!Traverse, Frame!console
  <2>2. traversals # <<>> /\ Frame!Show(entries[Frame!Target])
    BY <1>6, <2>1 DEF Frame!Traverse
  <2>3. Frame!Target = 1 /\ entries[1] = "admin"
    BY <1>2, <2>1, <2>2, FrameRestored, FrameFacts DEF FrameInv, FramePlaceAgrees
  <2> QED
    BY <1>1, <2>2, <2>3 DEF Frame!Show, Frame!console
<1>7. ASSUME NEW e \in Frame!Editors, Frame!Discard(e) PROVE p \in given'
  BY <1>1, <1>7 DEF Frame!Discard
<1>8. ASSUME NEW r \in requests, Frame!Arrive(r)
      PROVE  Frame!Saved(p) \/ ended = "expired" \/ Frame!LateAnswer \/ Frame!LoggingOut
  <2>1. CASE Frame!Closes(r)
    <3>1. SUFFICES ASSUME ~Frame!LoggingOut, ~Frame!LateAnswer PROVE ended = "expired"
      OBVIOUS
    <3>2. r.panel # "logout" /\ r.answer = "denied"
      BY <2>1, <3>1 DEF Frame!LoggingOut, Frame!Closes
    <3>3. r.login = login
      <4>1. r.login \in Nat /\ r.login <= login /\ login \in Nat /\ ~(r.login < login)
        BY <1>8, <3>1, FrameFacts, FrameBounds DEF Frame!LateAnswer, FrameInv, FrameSessionAgrees,
           Frame!Request
      <4> QED
        BY <4>1
    <3>4. ended # "no"
      BY <1>8, <3>2, <3>3 DEF FrameInv, FrameSessionAgrees
    <3>5. ended # "closed"
      BY <1>2, <3>1 DEF FrameInv, FrameSessionAgrees, Frame!LoggingOut
    <3> QED
      BY <3>4, <3>5 DEF FrameInv, FrameTyped
  <2>2. CASE ~Frame!Closes(r)
    BY <1>1, <1>8, <2>2 DEF Frame!Arrive, Frame!Saved
  <2> QED
    BY <2>1, <2>2
<1>9. /\ ~Frame!CheckSession /\ ~Frame!Login /\ ~Frame!SessionEnds /\ ~Frame!StartLogout
      /\ ~Frame!TraverseNowhere /\ \A step \in {-1, 1} : ~Frame!AskTraversal(step)
  BY <1>1 DEF Frame!CheckSession, Frame!Login, Frame!SessionEnds, Frame!StartLogout, Frame!TraverseNowhere,
     Frame!AskTraversal, Frame!console
<1>10. \A e : ~Frame!Edit(e) /\ ~Frame!Start(e) /\ ~Frame!SelectSection(e) /\ ~Frame!Answer(e)
  BY <1>1 DEF Frame!Edit, Frame!Start, Frame!SelectSection, Frame!Answer
<1> QED
  BY <1>4, <1>5, <1>6, <1>7, <1>8, <1>9, <1>10 DEF Frame!Next

-----------------------------------------------------------------------------
(* The orders: the list, the detail and the decisions on one *)

OrderSections == {"orders", "summary", "other"}
OrderReadRecord ==
  [kind : {"report", "detail"}, what : {"orders", "summary"} \cup Orders!Orders, of : Y \cup {None}, n : Nat,
   live : BOOLEAN, got : Nat \cup {None}, pending : BOOLEAN]
OrderDeskRecord ==
  [selected : Orders!Orders \cup {None}, detail : [id : Orders!Orders \cup {None}, at : Nat,
                                                   pending : BOOLEAN],
   error : BOOLEAN, loading : BOOLEAN, confirming : BOOLEAN]
OrderActionRecord ==
  [kind : {None, "approve", "reject", "reconcile"}, id : Orders!Orders \cup {None},
   state : {None, "sent", "done", "refused"}, at : Nat, pending : BOOLEAN]
OrderReportRecord ==
  [shown : [section : {None, "orders", "summary"}, filter : Y \cup {None}, at : Nat], loading : BOOLEAN]

OrderTyped ==
  /\ pending \subseteq X /\ world \in 0..OrderChanges
  /\ oSection \in OrderSections /\ filter \in Y
  /\ report \in OrderReportRecord /\ desk \in OrderDeskRecord /\ action \in OrderActionRecord
  /\ oReads \subseteq OrderReadRecord /\ oCount \in [reads : Nat, actions : Nat]
  /\ oEnded \in 0..world /\ listed \in 0..world /\ action.at <= world

OrderLiveDetails == {r \in oReads : r.kind = "detail" /\ r.live}
OrderLiveReports == {r \in oReads : r.kind = "report" /\ r.live}

\* A detail that is waited for is of the open order, alone, with nothing shown yet and no decision under way.
OrderDetailsAgree ==
  /\ desk.selected # None => oSection = "orders"
  /\ \A r \in OrderLiveDetails :
       /\ r.what = desk.selected /\ r.what \in Orders!Orders /\ desk.detail.id = None /\ action.kind = None
       /\ r.got # None => r.got >= oEnded
       /\ \A q \in OrderLiveDetails : q = r
\* A report that is waited for is the one of the section and the period.
OrderReportsAgree ==
  \A r \in OrderLiveReports :
    /\ r.what = oSection /\ r.of = filter /\ Orders!HasReport(oSection)
    /\ r.got # None => r.got >= listed
\* A decision is about the open order, unless its section was left; the dialog is of the open order.
OrderDecisionsAgree ==
  /\ action.state # None => action.kind # None
  /\ action.kind # None => action.id \in Orders!Orders /\ desk.selected \in {None, action.id}
  /\ action.kind = "reconcile" => action.id \in Z
  /\ desk.confirming /\ desk.selected # None => desk.selected \in X /\ asked = desk.selected

OrderInv ==
  /\ OrderTyped /\ OrderDetailsAgree /\ OrderReportsAgree /\ OrderDecisionsAgree
  /\ Orders!DetailIsCurrent /\ Orders!ReportIsCurrent /\ Orders!OpenOrderShowsSomething

\* What the orders use of the constants.
LEMMA OrderConstants ==
  /\ None \notin X \cup Z \cup Nat
  /\ None \notin {"orders", "summary", "other", "approve", "reject", "reconcile", "sent", "done", "refused"}
  /\ X \cap Z = {} /\ OrderChanges \in Nat
  BY ConsoleAssumption DEF Orders!DeskAssumption

LEMMA OrderAbortedReads ==
  ASSUME OrderTyped, NEW kinds
  PROVE  /\ Orders!Aborted(kinds) \subseteq OrderReadRecord
         /\ \A r \in Orders!Aborted(kinds) : r.live => r \in oReads /\ r.kind \notin kinds
         /\ \A r \in oReads : r.kind \notin kinds => r \in Orders!Aborted(kinds)
<1> DEFINE off(r) == IF r.kind \in kinds THEN [r EXCEPT !.live = FALSE] ELSE r
<1>1. oReads \subseteq OrderReadRecord
  BY DEF OrderTyped
<1>2. \A r \in oReads : off(r) \in OrderReadRecord /\ (off(r).live => off(r) = r /\ r.kind \notin kinds)
  BY <1>1 DEF OrderReadRecord
<1> QED
  BY <1>2 DEF Orders!Aborted

LEMMA OrderNewRead ==
  ASSUME OrderTyped
  PROVE  /\ \A k \in {"report", "detail"}, w \in {"orders", "summary"} \cup Orders!Orders, f \in Y \cup {None} :
              /\ Orders!Read(k, w, f) \in OrderReadRecord
              /\ Orders!Read(k, w, f).kind = k /\ Orders!Read(k, w, f).what = w /\ Orders!Read(k, w, f).of = f
              /\ Orders!Read(k, w, f).live /\ Orders!Read(k, w, f).got = None
         /\ [oCount EXCEPT !.reads = @ + 1] \in [reads : Nat, actions : Nat]
BY DEF OrderTyped, Orders!Read, OrderReadRecord

LEMMA OrderReportAsked ==
  ASSUME OrderTyped, NEW s \in OrderSections, NEW f \in Y, NEW kinds, "report" \in kinds,
         Orders!LoadReport(s, f, Orders!Aborted(kinds))
  PROVE  /\ oReads' \subseteq OrderReadRecord /\ report' \in OrderReportRecord
         /\ oCount' \in [reads : Nat, actions : Nat]
         /\ \A r \in OrderLiveReports' : Orders!HasReport(s) /\ r.what = s /\ r.of = f /\ r.got = None
         /\ OrderLiveDetails' \subseteq OrderLiveDetails /\ ("detail" \in kinds => OrderLiveDetails' = {})
         /\ "detail" \notin kinds => OrderLiveDetails' = OrderLiveDetails
         /\ Orders!HasReport(s) => /\ report'.loading /\ report'.shown.section = None
                                   /\ \E r \in oReads' : r.kind = "report" /\ r.live /\ r.what = s
         /\ ~Orders!HasReport(s) => report' = report
<1>1. CASE Orders!HasReport(s)
  <2>1. s \in {"orders", "summary"} \cup Orders!Orders
    BY <1>1 DEF Orders!HasReport, OrderSections
  <2> DEFINE q == Orders!Read("report", s, f)
  <2>2. /\ q \in OrderReadRecord /\ q.kind = "report" /\ q.what = s /\ q.of = f /\ q.live /\ q.got = None
        /\ [oCount EXCEPT !.reads = @ + 1] \in [reads : Nat, actions : Nat]
    BY <2>1, OrderNewRead
  <2>3. /\ report' = [shown |-> Orders!NoReport, loading |-> TRUE]
        /\ oReads' = Orders!Aborted(kinds) \cup {q} /\ oCount' = [oCount EXCEPT !.reads = @ + 1]
    BY <1>1 DEF Orders!LoadReport
  <2> HIDE DEF q
  <2>4. report' \in OrderReportRecord /\ report'.loading /\ report'.shown.section = None
    BY <2>3 DEF OrderReportRecord, Orders!NoReport
  <2> QED
    BY <1>1, <2>2, <2>3, <2>4, OrderAbortedReads DEF OrderLiveReports, OrderLiveDetails
<1>2. CASE ~Orders!HasReport(s)
  BY <1>2, OrderAbortedReads DEF Orders!LoadReport, OrderLiveReports, OrderLiveDetails, OrderTyped
<1> QED
  BY <1>1, <1>2

LEMMA OrderDetailAsked ==
  ASSUME OrderTyped, NEW o \in Orders!Orders, NEW d \in OrderDeskRecord, Orders!LoadDetail(o, d)
  PROVE  /\ oReads' \subseteq OrderReadRecord /\ desk' \in OrderDeskRecord
         /\ oCount' \in [reads : Nat, actions : Nat]
         /\ \E q : /\ OrderLiveDetails' = {q} /\ q \in oReads'
                   /\ q.kind = "detail" /\ q.live /\ q.what = o /\ q.got = None
         /\ OrderLiveReports' = OrderLiveReports
         /\ desk'.selected = o /\ desk'.detail.id = None /\ desk'.loading /\ desk'.confirming = d.confirming
<1> DEFINE q == Orders!Read("detail", o, None)
<1>1. /\ q \in OrderReadRecord /\ q.kind = "detail" /\ q.what = o /\ q.live /\ q.got = None
      /\ [oCount EXCEPT !.reads = @ + 1] \in [reads : Nat, actions : Nat]
  BY OrderNewRead
<1>2. /\ oReads' = Orders!Aborted({"detail"}) \cup {q} /\ oCount' = [oCount EXCEPT !.reads = @ + 1]
      /\ desk' = [d EXCEPT !.selected = o, !.detail = Orders!NoDetail, !.error = FALSE, !.loading = TRUE]
  BY DEF Orders!LoadDetail
<1> HIDE DEF q
<1>3. OrderLiveDetails' = {q} /\ q \in oReads'
  BY <1>1, <1>2, OrderAbortedReads DEF OrderLiveDetails
<1>4. OrderLiveReports' = OrderLiveReports
  BY <1>1, <1>2, OrderAbortedReads DEF OrderLiveReports
<1>5. /\ desk' \in OrderDeskRecord
      /\ desk'.selected = o /\ desk'.detail.id = None /\ desk'.loading /\ desk'.confirming = d.confirming
  BY <1>2 DEF OrderDeskRecord, Orders!NoDetail
<1> QED
  BY <1>1, <1>2, <1>3, <1>4, <1>5, OrderAbortedReads

LEMMA OrderServeKeeps == ASSUME OrderInv, Orders!Serve PROVE OrderInv'
<1>1. PICK r \in oReads : /\ r.got = None
                          /\ oReads' = (oReads \ {r}) \cup {[r EXCEPT !.got = world,
                                                             !.pending = r.what \in pending]}
                          /\ UNCHANGED <<Orders!serverVars, oSection, filter, report, desk, action, oCount,
                                         Orders!history>>
  BY DEF Orders!Serve
<1> DEFINE q == [r EXCEPT !.got = world, !.pending = r.what \in pending]
<1>2. r \in OrderReadRecord /\ world \in Nat /\ (r.what \in pending) \in BOOLEAN
  BY DEF OrderInv, OrderTyped
<1>3. /\ q \in OrderReadRecord /\ q.kind = r.kind /\ q.what = r.what /\ q.of = r.of /\ q.live = r.live
      /\ q.got = world
  <2>1. \A v \in BOOLEAN : LET p == [r EXCEPT !.got = world, !.pending = v] IN
          /\ p \in OrderReadRecord /\ p.kind = r.kind /\ p.what = r.what /\ p.of = r.of /\ p.live = r.live
          /\ p.got = world
    BY <1>2 DEF OrderReadRecord
  <2> QED
    BY <1>2, <2>1
<1>4. /\ oReads' = (oReads \ {r}) \cup {q}
      /\ UNCHANGED <<pending, world, oSection, filter, report, desk, action, oCount, oEnded, listed, asked>>
  BY <1>1 DEF Orders!serverVars, Orders!history
<1> HIDE DEF q
<1>5. \A p \in oReads' : p \in oReads \/ p = q
  BY <1>4
<1>6. OrderTyped'
  BY <1>3, <1>4 DEF OrderInv, OrderTyped
<1>7. OrderDetailsAgree'
  BY <1>2, <1>3, <1>4 DEF OrderInv, OrderTyped, OrderDetailsAgree, OrderLiveDetails
<1>8. OrderReportsAgree'
  BY <1>2, <1>3, <1>4 DEF OrderInv, OrderTyped, OrderReportsAgree, OrderLiveReports
<1>9. Orders!OpenOrderShowsSomething'
  BY <1>1, <1>3, <1>4 DEF OrderInv, Orders!OpenOrderShowsSomething, Orders!HasReport
<1> QED
  BY <1>4, <1>6, <1>7, <1>8, <1>9 DEF OrderInv, OrderDecisionsAgree, Orders!DetailIsCurrent,
     Orders!ReportIsCurrent

LEMMA OrderReportAnswerKeeps == ASSUME OrderInv, Orders!ReportAnswer PROVE OrderInv'
<1>1. PICK r \in oReads : /\ r.kind = "report" /\ r.got # None /\ oReads' = oReads \ {r}
                          /\ report' = IF r.live THEN [shown |-> [section |-> r.what, filter |-> r.of,
                                                                  at |-> r.got],
                                                       loading |-> FALSE]
                                       ELSE report
                          /\ UNCHANGED <<pending, world, oSection, filter, desk, action, oCount, oEnded,
                                         listed, asked>>
  BY DEF Orders!ReportAnswer, Orders!Counts, Orders!serverVars, Orders!history
<1>2. /\ OrderLiveDetails' = OrderLiveDetails /\ OrderLiveReports' = OrderLiveReports \ {r}
      /\ r \in OrderReadRecord
  BY <1>1 DEF OrderLiveDetails, OrderLiveReports, OrderInv, OrderTyped
<1>3. CASE r.live
  <2>1. /\ r \in OrderLiveReports /\ r.what = oSection /\ r.of = filter /\ r.got \in Nat /\ r.got >= listed
    BY <1>1, <1>2, <1>3 DEF OrderInv, OrderReportsAgree, OrderLiveReports, OrderReadRecord
  <2>2. /\ report' \in [shown : [section : {oSection}, filter : {filter}, at : Nat], loading : {FALSE}]
        /\ report'.shown.section = oSection /\ report'.shown.filter = filter /\ report'.shown.at >= listed
        /\ report'.loading = FALSE
    BY <1>1, <1>3, <2>1
  <2>3. OrderTyped'
    <3>1. oSection \in {"orders", "summary"}
      BY <2>1 DEF OrderInv, OrderReportsAgree, Orders!HasReport, OrderTyped, OrderSections
    <3>2. report' \in OrderReportRecord
      BY <2>2, <3>1 DEF OrderInv, OrderTyped, OrderReportRecord
    <3> QED
      BY <1>1, <3>2 DEF OrderInv, OrderTyped
  <2>4. Orders!ReportIsCurrent' /\ OrderReportsAgree'
    BY <1>1, <1>2, <2>2 DEF OrderInv, Orders!ReportIsCurrent, OrderReportsAgree
  <2>5. Orders!OpenOrderShowsSomething'
    BY <1>1, <2>2 DEF OrderInv, Orders!OpenOrderShowsSomething, Orders!HasReport
  <2> QED
    BY <1>1, <1>2, <2>3, <2>4, <2>5 DEF OrderInv, OrderDetailsAgree, OrderDecisionsAgree,
       Orders!DetailIsCurrent
<1>4. CASE ~r.live
  <2>1. report' = report /\ OrderLiveReports' = OrderLiveReports
    BY <1>1, <1>2, <1>4 DEF OrderLiveReports
  <2>2. OrderTyped'
    BY <1>1, <2>1 DEF OrderInv, OrderTyped
  <2>3. Orders!OpenOrderShowsSomething'
    BY <1>1, <1>4, <2>1 DEF OrderInv, Orders!OpenOrderShowsSomething, Orders!HasReport
  <2> QED
    BY <1>1, <1>2, <2>1, <2>2, <2>3 DEF OrderInv, OrderDetailsAgree, OrderReportsAgree,
       OrderDecisionsAgree, Orders!DetailIsCurrent, Orders!ReportIsCurrent
<1> QED
  BY <1>3, <1>4

LEMMA OrderDetailAnswerKeeps == ASSUME OrderInv, Orders!DetailAnswer PROVE OrderInv'
<1>1. PICK r \in oReads :
        /\ r.kind = "detail" /\ oReads' = oReads \ {r}
        /\ \/ /\ r.got # None
              /\ desk' = IF r.live
                         THEN [desk EXCEPT !.detail = [id |-> r.what, at |-> r.got, pending |-> r.pending], !.loading = FALSE]
                         ELSE desk
           \/ desk' = IF r.live THEN [desk EXCEPT !.error = TRUE, !.loading = FALSE] ELSE desk
        /\ UNCHANGED <<pending, world, oSection, filter, report, action, oCount, oEnded, listed, asked>>
  BY DEF Orders!DetailAnswer, Orders!Counts, Orders!serverVars, Orders!history
<1>2. /\ OrderLiveReports' = OrderLiveReports /\ OrderLiveDetails' = OrderLiveDetails \ {r}
      /\ r \in OrderReadRecord /\ desk \in OrderDeskRecord
  BY <1>1 DEF OrderLiveDetails, OrderLiveReports, OrderInv, OrderTyped
<1>3. CASE ~r.live
  <2>1. desk' = desk /\ OrderLiveDetails' = OrderLiveDetails
    BY <1>1, <1>2, <1>3 DEF OrderLiveDetails
  <2>2. OrderTyped'
    BY <1>1, <2>1 DEF OrderInv, OrderTyped
  <2>3. Orders!OpenOrderShowsSomething'
    BY <1>1, <1>3, <2>1 DEF OrderInv, Orders!OpenOrderShowsSomething, Orders!HasReport
  <2> QED
    BY <1>1, <1>2, <2>1, <2>2, <2>3 DEF OrderInv, OrderDetailsAgree, OrderReportsAgree,
       OrderDecisionsAgree, Orders!DetailIsCurrent, Orders!ReportIsCurrent
<1>4. CASE r.live
  <2>1. /\ r.what = desk.selected /\ r.what \in Orders!Orders /\ action.kind = None
        /\ (r.got # None => r.got >= oEnded) /\ OrderLiveDetails = {r}
    BY <1>1, <1>4 DEF OrderInv, OrderDetailsAgree, OrderLiveDetails
  <2>2. /\ desk' \in OrderDeskRecord
        /\ desk'.selected = desk.selected /\ desk'.confirming = desk.confirming
        /\ \/ desk'.detail.id = desk.selected /\ desk'.detail.at >= oEnded
           \/ desk'.detail = desk.detail /\ desk'.error
    <3>1. CASE /\ r.got # None
               /\ desk' = [desk EXCEPT !.detail = [id |-> r.what, at |-> r.got, pending |-> r.pending],
                           !.loading = FALSE]
      BY <1>2, <2>1, <3>1 DEF OrderDeskRecord, OrderReadRecord
    <3>2. CASE desk' = [desk EXCEPT !.error = TRUE, !.loading = FALSE]
      BY <1>2, <3>2 DEF OrderDeskRecord
    <3> QED
      BY <1>1, <1>4, <3>1, <3>2
  <2>3. OrderLiveDetails' = {}
    BY <1>2, <2>1
  <2>4. OrderTyped'
    BY <1>1, <2>2 DEF OrderInv, OrderTyped
  <2>5. Orders!OpenOrderShowsSomething'
    <3>1. desk'.selected # None => desk'.detail.id # None \/ desk'.error
      BY <2>1, <2>2, OrderConstants DEF Orders!Orders
    <3>2. \A q \in oReads : q.kind = "report" => q \in oReads'
      BY <1>1
    <3> QED
      BY <1>1, <3>1, <3>2 DEF OrderInv, Orders!OpenOrderShowsSomething, Orders!HasReport
  <2>6. Orders!DetailIsCurrent'
    BY <1>1, <2>1, <2>2 DEF OrderInv, Orders!DetailIsCurrent
  <2>7. OrderDetailsAgree'
    BY <1>1, <2>2, <2>3 DEF OrderInv, OrderDetailsAgree
  <2> QED
    BY <1>1, <1>2, <2>2, <2>4, <2>5, <2>6, <2>7 DEF OrderInv, OrderReportsAgree, OrderDecisionsAgree,
       Orders!ReportIsCurrent
<1> QED
  BY <1>3, <1>4

\* What is asked of a report leaves the open order as it was.
LEMMA OrderOtherReportKeeps ==
  ASSUME OrderInv, UNCHANGED <<pending, world, oSection, desk, action, oEnded, listed, asked>>,
         filter' \in Y, Orders!LoadReport(oSection, filter', Orders!Aborted({"report"})), Orders!HasReport(oSection)
  PROVE  OrderInv'
<1>1. /\ OrderTyped /\ oSection \in OrderSections /\ filter' \in Y /\ "report" \in {"report"}
      /\ "detail" \notin {"report"}
  BY DEF OrderInv, OrderTyped
<1>2. /\ oReads' \subseteq OrderReadRecord /\ report' \in OrderReportRecord
      /\ oCount' \in [reads : Nat, actions : Nat]
      /\ \A r \in OrderLiveReports' : r.what = oSection /\ r.of = filter' /\ r.got = None /\ Orders!HasReport(oSection)
      /\ OrderLiveDetails' = OrderLiveDetails
      /\ report'.loading /\ report'.shown.section = None
      /\ \E r \in oReads' : r.kind = "report" /\ r.live /\ r.what = oSection
  BY <1>1, OrderReportAsked
<1>3. OrderTyped'
  BY <1>2 DEF OrderInv, OrderTyped
<1>4. OrderReportsAgree' /\ Orders!ReportIsCurrent'
  BY <1>2 DEF OrderReportsAgree, Orders!ReportIsCurrent
<1>5. Orders!OpenOrderShowsSomething'
  <2>1. \A r \in oReads : r.kind = "detail" /\ r.live => r \in oReads'
    BY <1>2 DEF OrderLiveDetails
  <2> QED
    BY <1>2, <2>1 DEF OrderInv, Orders!OpenOrderShowsSomething
<1> QED
  BY <1>2, <1>3, <1>4, <1>5 DEF OrderInv, OrderDetailsAgree, OrderDecisionsAgree, Orders!DetailIsCurrent

LEMMA OrderPeriodKeeps ==
  ASSUME OrderInv, Orders!RetryReport \/ \E f \in Y : Orders!SubmitPeriod(f)
  PROVE  OrderInv'
<1>1. CASE Orders!RetryReport
  <2>1. filter \in Y
    BY DEF OrderInv, OrderTyped
  <2> QED
    BY <1>1, <2>1, OrderOtherReportKeeps DEF Orders!RetryReport, Orders!serverVars, Orders!history
<1>2. ASSUME NEW f \in Y, Orders!SubmitPeriod(f) PROVE OrderInv'
  BY <1>2, OrderOtherReportKeeps DEF Orders!SubmitPeriod, Orders!serverVars, Orders!history
<1> QED
  BY <1>1, <1>2

LEMMA OrderGoToKeeps == ASSUME OrderInv, NEW s \in OrderSections, Orders!GoTo(s) PROVE OrderInv'
<1>1. OrderTyped /\ filter \in Y /\ "report" \in {"report", "detail"} /\ "detail" \in {"report", "detail"}
  BY DEF OrderInv, OrderTyped
<1>2. /\ s # oSection /\ oSection' = s
      /\ desk' = (IF s = "orders" THEN desk ELSE Orders!Fresh)
      /\ Orders!LoadReport(s, filter, Orders!Aborted({"report", "detail"}))
      /\ UNCHANGED <<pending, world, filter, action, oEnded, listed>>
      /\ asked' = IF s = "orders" THEN asked ELSE None
  BY DEF Orders!GoTo, Orders!serverVars
<1>3. /\ oReads' \subseteq OrderReadRecord /\ report' \in OrderReportRecord
      /\ oCount' \in [reads : Nat, actions : Nat]
      /\ \A r \in OrderLiveReports' : Orders!HasReport(s) /\ r.what = s /\ r.of = filter /\ r.got = None
      /\ OrderLiveDetails' = {}
      /\ Orders!HasReport(s) => /\ report'.loading /\ report'.shown.section = None
                                /\ \E r \in oReads' : r.kind = "report" /\ r.live /\ r.what = s
      /\ ~Orders!HasReport(s) => report' = report
  BY <1>1, <1>2, OrderReportAsked
<1>4. desk' \in OrderDeskRecord /\ desk'.selected = None
  <2>1. CASE s = "orders"
    BY <1>2, <2>1 DEF OrderInv, OrderTyped, OrderDetailsAgree
  <2>2. CASE s # "orders"
    BY <1>2, <2>2 DEF Orders!Fresh, Orders!NoDetail, OrderDeskRecord
  <2> QED
    BY <2>1, <2>2
<1>5. OrderTyped'
  BY <1>2, <1>3, <1>4 DEF OrderInv, OrderTyped
<1>6. OrderReportsAgree' /\ Orders!ReportIsCurrent'
  <2>1. CASE Orders!HasReport(s)
    BY <1>2, <1>3, <2>1, OrderConstants DEF OrderReportsAgree, Orders!ReportIsCurrent, OrderSections
  <2>2. CASE ~Orders!HasReport(s)
    <3>1. s = "other" /\ report'.shown.section # "other"
      BY <1>3, <2>2, OrderConstants DEF Orders!HasReport, OrderReportRecord
    <3> QED
      BY <1>2, <1>3, <3>1 DEF OrderReportsAgree, Orders!ReportIsCurrent
  <2> QED
    BY <2>1, <2>2
<1>7. Orders!OpenOrderShowsSomething'
  BY <1>2, <1>3, <1>4 DEF Orders!OpenOrderShowsSomething, Orders!HasReport
<1>8. OrderDetailsAgree' /\ Orders!DetailIsCurrent'
  BY <1>3, <1>4 DEF OrderDetailsAgree, Orders!DetailIsCurrent
<1>9. OrderDecisionsAgree'
  BY <1>2, <1>4 DEF OrderInv, OrderDecisionsAgree
<1> QED
  BY <1>5, <1>6, <1>7, <1>8, <1>9 DEF OrderInv

\* The detail of an order is asked for; the decision is over and nothing else changes.
LEMMA OrderOtherDetailKeeps ==
  ASSUME OrderInv, NEW o \in Orders!Orders, NEW d \in OrderDeskRecord, Orders!LoadDetail(o, d),
         oSection = "orders",
         UNCHANGED <<pending, world, oSection, filter, report, listed>>,
         oEnded' \in 0..world, action' \in OrderActionRecord, action'.kind = None, action'.state = None, action'.at <= world,
         d.confirming => o \in X /\ asked' = o
  PROVE  OrderInv'
<1>1. PICK q : /\ oReads' \subseteq OrderReadRecord /\ desk' \in OrderDeskRecord /\ oCount' \in [reads : Nat, actions : Nat]
               /\ OrderLiveDetails' = {q} /\ q \in oReads' /\ q.kind = "detail" /\ q.live /\ q.what = o
               /\ q.got = None
               /\ OrderLiveReports' = OrderLiveReports
               /\ desk'.selected = o /\ desk'.detail.id = None /\ desk'.loading
               /\ desk'.confirming = d.confirming
  BY OrderDetailAsked DEF OrderInv
<1>2. OrderTyped'
  BY <1>1 DEF OrderInv, OrderTyped
<1>3. OrderDetailsAgree'
  BY <1>1 DEF OrderDetailsAgree
<1>4. OrderReportsAgree' /\ Orders!ReportIsCurrent'
  BY <1>1 DEF OrderInv, OrderReportsAgree, Orders!ReportIsCurrent
<1>5. OrderDecisionsAgree'
  BY <1>1, OrderConstants DEF OrderDecisionsAgree
<1>6. Orders!DetailIsCurrent'
  BY <1>1 DEF Orders!DetailIsCurrent
<1>7. Orders!OpenOrderShowsSomething'
  <2>1. \A r \in oReads : r.kind = "report" /\ r.live => r \in oReads'
    BY <1>1 DEF OrderLiveReports
  <2> QED
    BY <1>1, <2>1 DEF OrderInv, Orders!OpenOrderShowsSomething, Orders!HasReport
<1> QED
  BY <1>2, <1>3, <1>4, <1>5, <1>6, <1>7 DEF OrderInv

LEMMA OrderOpenKeeps == ASSUME OrderInv, NEW o \in Orders!Orders, Orders!Open(o) PROVE OrderInv'
<1>1. /\ Orders!LoadDetail(o, Orders!Fresh) /\ oSection = "orders" /\ action.kind = None
      /\ UNCHANGED <<pending, world, oSection, filter, report, action, oEnded, listed>>
  BY DEF Orders!Open, Orders!Opened, Orders!serverVars
<1>2. Orders!Fresh \in OrderDeskRecord /\ Orders!Fresh.confirming = FALSE
  BY DEF Orders!Fresh, Orders!NoDetail, OrderDeskRecord
<1>3. /\ oEnded' \in 0..world /\ action' \in OrderActionRecord /\ action'.kind = None /\ action'.state = None
      /\ action'.at <= world
  BY <1>1 DEF OrderInv, OrderTyped, OrderDecisionsAgree
<1> QED
  BY <1>1, <1>2, <1>3, OrderOtherDetailKeeps

LEMMA OrderRetryDetailKeeps == ASSUME OrderInv, Orders!RetryDetail PROVE OrderInv'
<1>1. /\ Orders!LoadDetail(desk.selected, desk) /\ desk.selected # None /\ action.kind = None
      /\ UNCHANGED <<pending, world, oSection, filter, report, action, oEnded, listed, asked>>
  BY DEF Orders!RetryDetail, Orders!serverVars, Orders!history
<1>2. /\ desk.selected \in Orders!Orders /\ desk \in OrderDeskRecord /\ oSection = "orders"
      /\ (desk.confirming => desk.selected \in X /\ asked' = desk.selected)
      /\ oEnded' \in 0..world /\ action' \in OrderActionRecord /\ action'.kind = None /\ action'.state = None
      /\ action'.at <= world
  BY <1>1 DEF OrderInv, OrderTyped, OrderDeskRecord, OrderDetailsAgree, OrderDecisionsAgree
<1> QED
  BY <1>1, <1>2, OrderOtherDetailKeeps

LEMMA OrderCloseKeeps == ASSUME OrderInv, Orders!Close PROVE OrderInv'
<1>1. /\ desk' = [desk EXCEPT !.selected = None] /\ oReads' = Orders!Aborted({"detail"}) /\ action.kind = None
      /\ UNCHANGED <<pending, world, oSection, filter, report, action, oCount, oEnded, listed>>
  BY DEF Orders!Close, Orders!serverVars
<1>2. desk' \in OrderDeskRecord /\ desk'.selected = None
  BY <1>1 DEF OrderInv, OrderTyped, OrderDeskRecord
<1>3. oReads' \subseteq OrderReadRecord /\ OrderLiveDetails' = {} /\ OrderLiveReports' = OrderLiveReports
  BY <1>1, OrderAbortedReads DEF OrderInv, OrderLiveDetails, OrderLiveReports
<1>4. OrderTyped'
  BY <1>1, <1>2, <1>3 DEF OrderInv, OrderTyped
<1>5. Orders!OpenOrderShowsSomething'
  <2>1. \A r \in oReads : r.kind = "report" /\ r.live => r \in oReads'
    BY <1>3 DEF OrderLiveReports
  <2> QED
    BY <1>1, <1>2, <2>1 DEF OrderInv, Orders!OpenOrderShowsSomething, Orders!HasReport
<1> QED
  BY <1>1, <1>2, <1>3, <1>4, <1>5 DEF OrderInv, OrderDetailsAgree, OrderReportsAgree, OrderDecisionsAgree,
     Orders!DetailIsCurrent, Orders!ReportIsCurrent

LEMMA OrderAskRejectKeeps == ASSUME OrderInv, Orders!AskReject PROVE OrderInv'
<1>1. /\ desk' = [desk EXCEPT !.confirming = ~@] /\ asked' = IF desk.confirming THEN None ELSE desk.selected
      /\ desk.selected # None /\ desk.detail.id \in X
      /\ UNCHANGED <<pending, world, oSection, filter, report, action, oReads, oCount, oEnded, listed>>
  BY DEF Orders!AskReject, Orders!MayResolve, Orders!serverVars
<1>2. /\ desk' \in OrderDeskRecord /\ desk'.selected = desk.selected /\ desk'.detail = desk.detail
      /\ desk'.error = desk.error /\ desk'.loading = desk.loading /\ desk'.confirming = ~desk.confirming
  BY <1>1 DEF OrderInv, OrderTyped, OrderDeskRecord
<1>3. OrderTyped'
  BY <1>1, <1>2 DEF OrderInv, OrderTyped
<1>4. OrderDecisionsAgree'
  <2>1. desk.selected \in X
    BY <1>1, OrderConstants DEF OrderInv, Orders!DetailIsCurrent
  <2> QED
    BY <1>1, <1>2, <2>1 DEF OrderInv, OrderDecisionsAgree
<1>5. /\ Orders!OpenOrderShowsSomething' /\ Orders!DetailIsCurrent' /\ OrderDetailsAgree'
      /\ Orders!ReportIsCurrent' /\ OrderReportsAgree'
  BY <1>1, <1>2 DEF OrderInv, Orders!OpenOrderShowsSomething, Orders!HasReport, Orders!DetailIsCurrent,
     OrderDetailsAgree, OrderLiveDetails, Orders!ReportIsCurrent, OrderReportsAgree, OrderLiveReports
<1> QED
  BY <1>3, <1>4, <1>5 DEF OrderInv

LEMMA OrderSendKeeps == ASSUME OrderInv, Orders!Approve \/ Orders!Reject \/ Orders!Reconcile PROVE OrderInv'
<1>1. PICK k \in {"approve", "reject", "reconcile"} :
        /\ Orders!Send(k) /\ desk.selected # None /\ action.kind = None /\ desk.detail.id \in Orders!Orders
        /\ (k = "reconcile" => desk.detail.id \in Z)
  BY DEF Orders!Approve, Orders!Reject, Orders!Reconcile, Orders!MayResolve, Orders!Orders
<1>2. /\ action' = [kind |-> k, id |-> desk.selected, state |-> "sent", at |-> 0, pending |-> FALSE]
      /\ oCount' = [oCount EXCEPT !.actions = @ + 1]
      /\ UNCHANGED <<pending, world, oSection, filter, report, desk, oReads, oEnded, listed, asked>>
  BY <1>1 DEF Orders!Send, Orders!serverVars, Orders!history
<1>3. desk.selected = desk.detail.id
  BY <1>1, OrderConstants DEF OrderInv, Orders!DetailIsCurrent, Orders!Orders
<1>4. /\ action' \in OrderActionRecord /\ action'.kind = k /\ action'.id = desk.selected /\ action'.at = 0
      /\ k # None
  BY <1>1, <1>2, <1>3, OrderConstants DEF OrderActionRecord
<1>5. oCount' \in [reads : Nat, actions : Nat]
  BY <1>2 DEF OrderInv, OrderTyped
<1>6. OrderTyped'
  BY <1>2, <1>4, <1>5 DEF OrderInv, OrderTyped
<1>7. OrderDetailsAgree'
  <2>1. OrderLiveDetails = {}
    BY <1>1, OrderConstants DEF OrderInv, OrderDetailsAgree, Orders!Orders
  <2> QED
    BY <1>2, <2>1 DEF OrderInv, OrderDetailsAgree, OrderLiveDetails
<1>8. OrderDecisionsAgree'
  BY <1>1, <1>2, <1>3, <1>4 DEF OrderInv, OrderDecisionsAgree
<1> QED
  BY <1>2, <1>3, <1>4, <1>6, <1>7, <1>8 DEF OrderInv, OrderReportsAgree, OrderLiveReports,
     Orders!DetailIsCurrent, Orders!ReportIsCurrent, Orders!OpenOrderShowsSomething, Orders!HasReport

LEMMA OrderPerformKeeps == ASSUME OrderInv, Orders!Perform PROVE OrderInv'
<1>1. /\ action.state = "sent"
      /\ UNCHANGED <<oSection, filter, report, desk, oReads, oCount, oEnded, listed, asked>>
      /\ world \in 0..OrderChanges /\ action \in OrderActionRecord /\ pending \subseteq X
  BY DEF Orders!Perform, Orders!history, OrderInv, OrderTyped
<1>2. /\ pending' \subseteq pending /\ world' \in world..OrderChanges
      /\ \/ action' = [action EXCEPT !.state = "done", !.at = world', !.pending = FALSE]
         \/ action' = [action EXCEPT !.state = "done", !.at = world']
         \/ action' = [action EXCEPT !.state = "refused", !.at = world']
  <2>1. CASE /\ world < OrderChanges /\ world' = world + 1 /\ pending' = pending \ {action.id}
             /\ action' = [action EXCEPT !.state = "done", !.at = world + 1, !.pending = FALSE]
    BY <1>1, <2>1, OrderConstants
  <2>2. CASE action' = [action EXCEPT !.state = "done", !.at = world] /\ UNCHANGED Orders!serverVars
    BY <1>1, <2>2, OrderConstants DEF Orders!serverVars
  <2>3. CASE action' = [action EXCEPT !.state = "refused", !.at = world] /\ UNCHANGED Orders!serverVars
    BY <1>1, <2>3, OrderConstants DEF Orders!serverVars
  <2> QED
    BY <2>1, <2>2, <2>3 DEF Orders!Perform
<1>3. world' \in Nat
  BY <1>1, <1>2, OrderConstants
<1>4. /\ action' \in OrderActionRecord /\ action'.kind = action.kind /\ action'.id = action.id
      /\ action'.at = world' /\ action'.state # None
  BY <1>1, <1>2, <1>3, OrderConstants DEF OrderActionRecord
<1>5. OrderTyped'
  BY <1>1, <1>2, <1>4, OrderConstants DEF OrderInv, OrderTyped
<1>6. action.kind # None
  BY <1>1, OrderConstants DEF OrderInv, OrderDecisionsAgree
<1> QED
  BY <1>1, <1>4, <1>5, <1>6 DEF OrderInv, OrderDetailsAgree, OrderLiveDetails, OrderReportsAgree,
     OrderLiveReports, OrderDecisionsAgree, Orders!DetailIsCurrent, Orders!ReportIsCurrent,
     Orders!OpenOrderShowsSomething, Orders!HasReport

LEMMA OrderRested ==
  Orders!NoAction \in OrderActionRecord /\ Orders!NoAction.kind = None /\ Orders!NoAction.state = None /\ Orders!NoAction.at = 0 /\ Orders!NoAction.id = None
  BY DEF Orders!NoAction, OrderActionRecord

LEMMA OrderSucceedKeeps == ASSUME OrderInv, Orders!Succeed PROVE OrderInv'
<1>1. /\ action.state = "done" /\ action' = Orders!NoAction
      /\ desk' = [desk EXCEPT !.detail = [id |-> action.id, at |-> action.at, pending |-> action.pending],
                              !.confirming = IF action.kind = "reconcile" THEN @ ELSE FALSE]
      /\ Orders!LoadReport(oSection, filter, Orders!Aborted({"report"}))
      /\ oEnded' = action.at /\ listed' = action.at
      /\ UNCHANGED <<pending, world, oSection, filter>>
  BY DEF Orders!Succeed, Orders!ListAgain, Orders!serverVars
<1>2. /\ OrderTyped /\ oSection \in OrderSections /\ filter \in Y /\ "report" \in {"report"}
      /\ "detail" \notin {"report"}
      /\ desk \in OrderDeskRecord /\ action \in OrderActionRecord /\ action.at <= world /\ action.at \in Nat
      /\ world \in Nat
  BY OrderConstants DEF OrderInv, OrderTyped, OrderActionRecord
<1>3. /\ oReads' \subseteq OrderReadRecord /\ report' \in OrderReportRecord
      /\ oCount' \in [reads : Nat, actions : Nat]
      /\ \A r \in OrderLiveReports' : Orders!HasReport(oSection) /\ r.what = oSection /\ r.of = filter /\ r.got = None
      /\ OrderLiveDetails' = OrderLiveDetails
      /\ Orders!HasReport(oSection) => /\ report'.loading /\ report'.shown.section = None
                                       /\ \E r \in oReads' : r.kind = "report" /\ r.live /\ r.what = oSection
      /\ ~Orders!HasReport(oSection) => report' = report
  BY <1>1, <1>2, OrderReportAsked
<1>4. /\ action.kind # None /\ action.id \in Orders!Orders /\ desk.selected \in {None, action.id}
      /\ OrderLiveDetails = {}
  BY <1>1, OrderConstants DEF OrderInv, OrderDecisionsAgree, OrderDetailsAgree
<1>5. /\ desk' \in OrderDeskRecord /\ desk'.selected = desk.selected
      /\ desk'.detail.id = action.id /\ desk'.detail.at = action.at
      /\ desk'.confirming => action.kind = "reconcile" /\ desk.confirming
  <2>1. CASE action.kind = "reconcile"
    BY <1>1, <1>2, <2>1 DEF OrderDeskRecord, OrderActionRecord
  <2>2. CASE action.kind # "reconcile"
    BY <1>1, <1>2, <2>2 DEF OrderDeskRecord, OrderActionRecord
  <2> QED
    BY <2>1, <2>2
<1>6. desk'.confirming => desk'.selected = None
  BY <1>2, <1>4, <1>5, OrderConstants DEF OrderInv, OrderDecisionsAgree
<1>7. OrderTyped'
  BY <1>1, <1>2, <1>3, <1>5, OrderRested DEF OrderTyped
<1>8. OrderDetailsAgree' /\ OrderDecisionsAgree' /\ Orders!DetailIsCurrent'
  BY <1>1, <1>2, <1>3, <1>4, <1>5, <1>6, OrderRested, OrderConstants DEF OrderInv, OrderDetailsAgree,
     OrderDecisionsAgree, Orders!DetailIsCurrent
<1>9. OrderReportsAgree' /\ Orders!ReportIsCurrent'
  <2>1. CASE Orders!HasReport(oSection)
    BY <1>1, <1>3, <2>1 DEF OrderReportsAgree, Orders!ReportIsCurrent
  <2>2. CASE ~Orders!HasReport(oSection)
    <3>1. report.shown.section # oSection
      BY <1>2, <2>2, OrderConstants DEF Orders!HasReport, OrderTyped, OrderReportRecord
    <3> QED
      BY <1>1, <1>3, <2>2, <3>1 DEF OrderReportsAgree, Orders!ReportIsCurrent
  <2> QED
    BY <2>1, <2>2
<1>10. Orders!OpenOrderShowsSomething'
  BY <1>1, <1>3, <1>4, <1>5, OrderConstants DEF Orders!OpenOrderShowsSomething, Orders!HasReport,
     Orders!Orders
<1> QED
  BY <1>7, <1>8, <1>9, <1>10 DEF OrderInv

LEMMA OrderFailKeeps == ASSUME OrderInv, Orders!Fail PROVE OrderInv'
<1>1. /\ action.kind # None /\ Orders!DetailAgain /\ action' = Orders!NoAction
      /\ oEnded' = (IF action.state = "sent" THEN oEnded ELSE action.at)
      /\ UNCHANGED <<pending, world, oSection, filter, report, listed, asked>>
  BY DEF Orders!Fail, Orders!serverVars
<1>2. /\ oEnded' \in 0..world /\ action' \in OrderActionRecord /\ action'.kind = None /\ action'.state = None
      /\ action'.at <= world
  BY <1>1, OrderRested DEF OrderInv, OrderTyped, OrderActionRecord
<1>3. CASE desk.selected # None /\ oSection = "orders"
  <2>1. Orders!LoadDetail(desk.selected, desk)
    BY <1>1, <1>3 DEF Orders!DetailAgain
  <2>2. /\ desk.selected \in Orders!Orders /\ desk \in OrderDeskRecord
        /\ (desk.confirming => desk.selected \in X /\ asked' = desk.selected)
    BY <1>1, <1>3 DEF OrderInv, OrderTyped, OrderDeskRecord, OrderDecisionsAgree
  <2> QED
    BY <1>1, <1>2, <1>3, <2>1, <2>2, OrderOtherDetailKeeps
<1>4. CASE ~(desk.selected # None /\ oSection = "orders")
  <2>1. desk.selected = None /\ OrderLiveDetails = {}
    BY <1>1, <1>4 DEF OrderInv, OrderDetailsAgree
  <2>2. UNCHANGED <<desk, oReads, oCount>>
    BY <1>1, <1>4 DEF Orders!DetailAgain
  <2>3. OrderTyped'
    BY <1>1, <1>2, <2>2 DEF OrderInv, OrderTyped
  <2>4. OrderDetailsAgree' /\ OrderDecisionsAgree' /\ Orders!DetailIsCurrent'
    BY <1>1, <1>2, <2>1, <2>2, OrderConstants DEF OrderInv, OrderDetailsAgree, OrderLiveDetails,
       OrderDecisionsAgree, Orders!DetailIsCurrent
  <2> QED
    BY <1>1, <2>1, <2>2, <2>3, <2>4 DEF OrderInv, OrderReportsAgree, OrderLiveReports,
       Orders!ReportIsCurrent, Orders!OpenOrderShowsSomething, Orders!HasReport
<1> QED
  BY <1>3, <1>4

LEMMA OrderOthersChangeKeeps == ASSUME OrderInv, Orders!OthersChange PROVE OrderInv'
<1>1. /\ world < OrderChanges /\ world' = world + 1 /\ pending' \subseteq pending
      /\ UNCHANGED <<oSection, filter, report, desk, action, oReads, oCount, oEnded, listed, asked>>
  BY DEF Orders!OthersChange, Orders!history
<1>2. OrderTyped'
  BY <1>1, OrderConstants DEF OrderInv, OrderTyped, OrderActionRecord
<1> QED
  BY <1>1, <1>2 DEF OrderInv, OrderDetailsAgree, OrderLiveDetails, OrderReportsAgree, OrderLiveReports,
     OrderDecisionsAgree, Orders!DetailIsCurrent, Orders!ReportIsCurrent, Orders!OpenOrderShowsSomething,
     Orders!HasReport

\* The section of orders opens with its report on its way.
LEMMA OrderInitKeeps == ASSUME Orders!Init PROVE OrderInv
<1>1. /\ pending = X /\ world = 0 /\ oSection = "orders" /\ filter \in Y
      /\ report = [shown |-> Orders!NoReport, loading |-> TRUE] /\ desk = Orders!Fresh
      /\ action = Orders!NoAction
      /\ oCount = [reads |-> 1, actions |-> 0] /\ oEnded = 0 /\ listed = 0
  BY DEF Orders!Init
<1> DEFINE q == [kind |-> "report", what |-> "orders", of |-> filter, n |-> 1, live |-> TRUE, got |-> None,
                 pending |-> FALSE]
<1>2. /\ oReads = {q} /\ q \in OrderReadRecord /\ q.kind = "report" /\ q.what = "orders" /\ q.of = filter
      /\ q.live /\ q.got = None
  BY <1>1 DEF Orders!Init, OrderReadRecord
<1> HIDE DEF q
<1>3. /\ report \in OrderReportRecord /\ report.loading /\ report.shown.section = None
      /\ desk \in OrderDeskRecord /\ desk.selected = None
  BY <1>1 DEF OrderReportRecord, Orders!NoReport, Orders!Fresh, Orders!NoDetail, OrderDeskRecord
<1>4. OrderTyped
  BY <1>1, <1>2, <1>3, OrderRested, OrderConstants DEF OrderTyped, OrderSections
<1>5. OrderLiveDetails = {} /\ OrderLiveReports = {q}
  BY <1>2 DEF OrderLiveDetails, OrderLiveReports
<1> QED
  BY <1>1, <1>2, <1>3, <1>4, <1>5, OrderRested, OrderConstants DEF OrderInv, OrderDetailsAgree,
     OrderReportsAgree, OrderDecisionsAgree, Orders!DetailIsCurrent, Orders!ReportIsCurrent,
     Orders!OpenOrderShowsSomething, Orders!HasReport

\* Every step of the orders keeps what they rely on.
LEMMA OrderNextKeeps == ASSUME OrderInv, Orders!Next PROVE OrderInv'
  BY OrderServeKeeps, OrderReportAnswerKeeps, OrderDetailAnswerKeeps, OrderGoToKeeps, OrderPeriodKeeps,
     OrderOpenKeeps, OrderCloseKeeps, OrderRetryDetailKeeps, OrderAskRejectKeeps, OrderSendKeeps,
     OrderPerformKeeps, OrderSucceedKeeps, OrderFailKeeps, OrderOthersChangeKeeps DEF Orders!Next,
     OrderSections

\* What is shown of the orders follows from the invariant.
LEMMA OrderShows ==
  ASSUME OrderInv
  PROVE  Orders!TypeOK /\ Orders!DetailIsCurrent /\ Orders!ReportIsCurrent /\ Orders!OpenOrderShowsSomething
<1>1. Orders!TypeOK
  BY OrderConstants DEF OrderInv, OrderTyped, Orders!TypeOK, OrderSections, OrderDeskRecord, OrderActionRecord,
     OrderDecisionsAgree
<1> QED
  BY <1>1 DEF OrderInv

\* A rejection starts from the dialog of the order that is open.
LEMMA OrderRejecting ==
  ASSUME OrderInv, Orders!Next, action'.kind = "reject", action.kind = None PROVE asked = desk.selected
<1>1. action' # action /\ action' # Orders!NoAction
  BY OrderRested, OrderConstants
<1>2. ~Orders!Perform
  BY OrderConstants DEF Orders!Perform, OrderInv, OrderDecisionsAgree
<1>3. Orders!Approve \/ Orders!Reject \/ Orders!Reconcile
  BY <1>1, <1>2 DEF Orders!Next, Orders!Serve, Orders!ReportAnswer, Orders!DetailAnswer, Orders!GoTo,
     Orders!SubmitPeriod, Orders!RetryReport, Orders!Open, Orders!Close, Orders!RetryDetail,
     Orders!AskReject, Orders!Succeed, Orders!Fail, Orders!OthersChange
<1>4. ASSUME NEW k, Orders!Send(k) PROVE k = "reject"
  BY <1>4 DEF Orders!Send
<1>5. Orders!Reject
  BY <1>3, <1>4 DEF Orders!Approve, Orders!Reconcile
<1> QED
  BY <1>5 DEF Orders!Reject, Orders!MayResolve, OrderInv, OrderDecisionsAgree

-----------------------------------------------------------------------------
(* The web requests and their assisted checkout *)

RequestKnown == X \cup {None}
RequestStatuses == {"submitted", "accepted", "rejected"}
RequestRecord == [status : RequestStatuses, now : Assisted!Stages]
RequestDetailRecord == [id : RequestKnown, status : RequestStatuses \cup {None}]
RequestListRecord ==
  [open : BOOLEAN, selected : RequestKnown, rows : BOOLEAN, error : BOOLEAN, detail : RequestDetailRecord,
   confirmation : {None, "accepted", "rejected"}]
RequestViewRecord == [of : RequestKnown, n : Nat, at : Nat, view : Assisted!Stages]
RequestPaneRecord ==
  [shown : RequestViewRecord, confirmed : BOOLEAN, confirming : BOOLEAN,
   lifecycle : {None, "release", "finalize"},
   error : BOOLEAN]
RequestOpRecord ==
  [kind : {None, "load", "resolve", "prepare", "resume", "release", "finalize"}, of : RequestKnown,
   arg : {None, "accepted", "rejected"}, state : {None, "sent", "done", "refused"}, at : Nat]
RequestReadRecord == [of : RequestKnown, n : Nat, live : BOOLEAN, got : RequestDetailRecord]
RequestMeantRecord == [kind : {None, "resolve", "prepare", "release", "finalize"}, of : RequestKnown, n : Nat]

RequestTyped ==
  /\ request \in [X -> RequestRecord] /\ aWorld \in 0..RequestChanges
  /\ aList \in RequestListRecord /\ pane \in RequestPaneRecord /\ op \in RequestOpRecord
  /\ aReads \subseteq RequestReadRecord
  /\ aCount \in [reads : Nat, actions : Nat] /\ effect \in [X -> 0..aWorld] /\ meant \in RequestMeantRecord
  /\ pane.shown.at <= aWorld /\ op.at <= aWorld

\* A reading that counts is alone, is of what is selected, and nothing is shown or done while it is waited for.
RequestReadsAgree ==
  /\ \A r \in aReads : r.got # Assisted!NoDetail => r.got.id = r.of /\ r.of \in X /\ r.got.status \in RequestStatuses
  /\ \A r \in aReads : r.live =>
       /\ aList.open /\ r.of = aList.selected /\ aList.detail = Assisted!NoDetail /\ op.kind = None
       /\ \A q \in aReads : q.live => q = r
\* What is shown is what is selected, and the question that is open is about it.
RequestListAgrees ==
  /\ aList.detail # Assisted!NoDetail =>
       aList.detail.id = aList.selected /\ aList.detail.id \in X /\ aList.detail.status \in RequestStatuses
  /\ aList.open /\ aList.confirmation # None =>
       aList.detail.status = "submitted" /\ meant = [kind |-> "resolve", of |-> aList.detail.id, n |-> 0]
\* An operation is of the request that is shown, and what it began from is still there.
RequestOpAgrees ==
  /\ op.kind = None => op = Assisted!NoOp
  /\ op.kind # None => aList.open /\ op.of \in X /\ op.of = aList.detail.id
  /\ op.kind = "resolve" => op.arg # None /\ aList.detail.status = "submitted"
  /\ op.kind \notin {None, "resolve"} => aList.detail.status = "accepted"
  /\ op.state # None => op.kind \notin {None, "load"}
  /\ op.kind = "resume" => pane.shown.of # None /\ pane.shown.view.stage \in Assisted!Resumable
  /\ op.kind \in {"release", "finalize"} => pane.shown.of # None /\ pane.shown.view.stage = "prepared"
  /\ op.kind = "prepare" /\ op.state = "done" => request[op.of].now.stage # "preview"
\* The panel is of the request that is shown; the tick, and the question it asks, are of what it shows;
\* a preparation that was begun never becomes a preview again.
RequestPaneAgrees ==
  /\ ~Assisted!Mounted => pane = Assisted!NewPane
  /\ pane.shown.of # None =>
       /\ pane.shown.of = aList.detail.id /\ pane.shown.at >= effect[pane.shown.of]
       /\ pane.shown.view.stage # "preview" => request[pane.shown.of].now.stage # "preview"
  /\ pane.confirmed /\ pane.shown.view.stage = "preview" =>
       meant = [kind |-> "prepare", of |-> aList.detail.id, n |-> pane.shown.n]
  /\ pane.lifecycle # None =>
       /\ pane.shown.of # None /\ pane.shown.view.stage = "prepared"
       /\ meant = [kind |-> pane.lifecycle, of |-> aList.detail.id, n |-> pane.shown.n]

RequestInv == RequestTyped /\ RequestReadsAgree /\ RequestListAgrees /\ RequestOpAgrees /\ RequestPaneAgrees

\* What the web requests use of the constants.
LEMMA RequestConstants ==
  /\ None \notin X /\ RequestChanges \in Nat
  /\ None \notin {"submitted", "accepted", "rejected", "load", "resolve", "prepare", "resume", "release", "finalize",
                  "sent", "done", "refused"}
  BY ConsoleAssumption DEF Assisted!AssistedDeskAssumption

LEMMA RequestAtRest ==
  /\ Assisted!NoDetail \in RequestDetailRecord /\ Assisted!NoView \in RequestViewRecord
  /\ Assisted!NoOp \in RequestOpRecord /\ Assisted!NotMeant \in RequestMeantRecord
  /\ Assisted!NewPane \in RequestPaneRecord /\ Assisted!NewPane.shown = Assisted!NoView
  /\ ~Assisted!NewPane.confirmed /\ Assisted!NewPane.lifecycle = None
  /\ Assisted!NoView.of = None /\ Assisted!NoView.at = 0 /\ Assisted!NoDetail.id = None
  /\ Assisted!NoDetail.status = None
  /\ Assisted!NoOp.kind = None /\ Assisted!NoOp.state = None /\ Assisted!NoOp.at = 0
  /\ Assisted!NoOp.of = None
  /\ Assisted!Previewed \in Assisted!Stages /\ Assisted!Prepared \in Assisted!Stages
  /\ Assisted!Prepared.stage = "prepared" /\ Assisted!Previewed.stage = "preview"
<1>1. /\ Assisted!Previewed \in Assisted!Stages /\ Assisted!Prepared \in Assisted!Stages
      /\ Assisted!Prepared.stage = "prepared" /\ Assisted!Previewed.stage = "preview"
  BY DEF Assisted!Previewed, Assisted!Prepared, Assisted!Stages
<1>2. /\ Assisted!NoDetail \in RequestDetailRecord /\ Assisted!NoOp \in RequestOpRecord
      /\ Assisted!NotMeant \in RequestMeantRecord
  BY DEF Assisted!NoDetail, RequestDetailRecord, RequestKnown, Assisted!NoOp, RequestOpRecord,
     Assisted!NotMeant, RequestMeantRecord
<1>3. Assisted!NoView \in RequestViewRecord
  BY <1>1 DEF Assisted!NoView, RequestViewRecord, RequestKnown
<1>4. Assisted!NewPane \in RequestPaneRecord
  BY <1>3 DEF Assisted!NewPane, RequestPaneRecord
<1> QED
  BY <1>1, <1>2, <1>3, <1>4 DEF Assisted!NewPane, Assisted!NoView, Assisted!NoDetail, Assisted!NoOp

LEMMA RequestViews ==
  ASSUME NEW s \in Assisted!Stages
  PROVE  Assisted!View(s) \in Assisted!Stages /\ Assisted!View(s).stage = s.stage
<1>1. \A b \in BOOLEAN : [s EXCEPT !.review = b] \in Assisted!Stages /\ [s EXCEPT !.review = b].stage = s.stage
  BY DEF Assisted!Stages
<1> QED
  BY <1>1 DEF Assisted!View, Assisted!Stages

LEMMA RequestReadsNow ==
  ASSUME RequestInv, NEW k \in X
  PROVE  /\ Assisted!Reading(k) \in RequestViewRecord /\ Assisted!Reading(k).of = k
         /\ Assisted!Reading(k).at = aWorld
         /\ Assisted!Reading(k).view.stage = request[k].now.stage
<1>1. request[k].now \in Assisted!Stages
  BY DEF RequestInv, RequestTyped, RequestRecord
<1> QED
  BY <1>1, RequestViews DEF RequestInv, RequestTyped, Assisted!Reading, RequestViewRecord,
     RequestKnown

\* A change at the server, whoever makes it.
LEMMA RequestServerChanges ==
  ASSUME RequestInv, NEW k \in X, NEW r \in RequestRecord, Assisted!Becomes(k, r),
         r # request[k] => aWorld < RequestChanges,
         request[k].now.stage # "preview" => r.now.stage # "preview"
  PROVE  /\ request' \in [X -> RequestRecord] /\ aWorld' \in 0..RequestChanges /\ aWorld' >= aWorld
         /\ request'[k] = r
         /\ \A j \in X : request[j].now.stage # "preview" => request'[j].now.stage # "preview"
         /\ effect \in [X -> 0..aWorld']
<1>1. request' \in [X -> RequestRecord] /\ request'[k] = r /\ \A j \in X \ {k} : request'[j] = request[j]
  BY DEF Assisted!Becomes, RequestInv, RequestTyped
<1>2. aWorld' \in 0..RequestChanges /\ aWorld' >= aWorld
  BY RequestConstants DEF Assisted!Becomes, RequestInv, RequestTyped
<1>3. 0..aWorld \subseteq 0..aWorld'
  BY <1>2, RequestConstants DEF RequestInv, RequestTyped
<1>4. effect \in [X -> 0..aWorld']
  BY <1>3 DEF RequestInv, RequestTyped
<1> QED
  BY <1>1, <1>2, <1>4

LEMMA RequestOthersChangeKeeps == ASSUME RequestInv, Assisted!OthersChange PROVE RequestInv'
<1>1. PICK k \in X : \E r \in Assisted!Elsewhere(request[k]) :
        r # request[k] /\ aWorld < RequestChanges /\ Assisted!Becomes(k, r) /\ UNCHANGED <<aList, pane, op, aReads, aCount, effect, meant>>
  BY DEF Assisted!OthersChange
<1>2. PICK r \in Assisted!Elsewhere(request[k]) :
        r # request[k] /\ aWorld < RequestChanges /\ Assisted!Becomes(k, r) /\ UNCHANGED <<aList, pane, op, aReads, aCount, effect, meant>>
  BY <1>1
<1> DEFINE q == request[k]
<1>3. q \in RequestRecord /\ q.now \in Assisted!Stages
  BY DEF RequestInv, RequestTyped, RequestRecord
<1>4. r \in RequestRecord /\ (q.now.stage # "preview" => r.now.stage # "preview")
  <2> HIDE DEF q
  <2>1. \A t \in {"accepted", "rejected"} : [q EXCEPT !.status = t] \in RequestRecord /\ [q EXCEPT !.status = t].now = q.now
    BY <1>3 DEF RequestRecord, RequestStatuses
  <2>2. \A s \in Assisted!Stages : [q EXCEPT !.now = s] \in RequestRecord /\ [q EXCEPT !.now = s].now = s
    BY <1>3 DEF RequestRecord
  <2>3. \A s \in Assisted!Stages : /\ [q EXCEPT !.status = "accepted", !.now = s] \in RequestRecord
                                   /\ [q EXCEPT !.status = "accepted", !.now = s].now = s
    BY <1>3 DEF RequestRecord, RequestStatuses
  <2>4. \A t \in {"preparing", "review", "failed", "prepared"} :
          [q.now EXCEPT !.stage = t] \in Assisted!Stages /\ [q.now EXCEPT !.stage = t].stage = t
    BY <1>3 DEF Assisted!Stages
  <2>5. \A x \in Assisted!Payments : LET s == [q.now EXCEPT !.payment = x.payment, !.review = x.review]
                            IN  s \in Assisted!Stages /\ s.stage = q.now.stage
    BY <1>3 DEF Assisted!Stages, Assisted!Payments
  <2>6. r \in Assisted!Elsewhere(q)
    BY <1>2 DEF q
  <2>7. CASE r \in Assisted!Decided(q)
    <3>1. (\E t \in {"accepted", "rejected"} : r = [q EXCEPT !.status = t])
          \/ r = [q EXCEPT !.now = [q.now EXCEPT !.stage = "preparing"]]
      BY <2>7 DEF Assisted!Decided
    <3> QED
      BY <2>1, <2>2, <2>4, <3>1
  <2>8. CASE r \in Assisted!Continued(q)
    <3>1. PICK s \in Assisted!Advanced(q.now) : r = [q EXCEPT !.status = "accepted", !.now = s]
      BY <2>8 DEF Assisted!Continued
    <3>2. s \in Assisted!Stages /\ s.stage # "preview"
      BY <2>4, <3>1 DEF Assisted!Advanced
    <3> QED
      BY <2>3, <3>1, <3>2
  <2>9. CASE r \in Assisted!Charged(q)
    BY <2>2, <2>9, RequestAtRest DEF Assisted!Charged
  <2>10. CASE r \in Assisted!Paid(q)
    <3>1. PICK x \in Assisted!Payments : r = [q EXCEPT !.now = [q.now EXCEPT !.payment = x.payment,
                                                                !.review = x.review]]
      BY <2>10 DEF Assisted!Paid
    <3> QED
      BY <2>2, <2>5, <3>1
  <2> QED
    BY <2>6, <2>7, <2>8, <2>9, <2>10 DEF Assisted!Elsewhere
<1>5. /\ request' \in [X -> RequestRecord] /\ aWorld' \in 0..RequestChanges /\ aWorld' >= aWorld
      /\ \A j \in X : request[j].now.stage # "preview" => request'[j].now.stage # "preview"
      /\ effect \in [X -> 0..aWorld']
  BY <1>2, <1>4, RequestServerChanges
<1>6. RequestTyped'
  BY <1>2, <1>5, RequestConstants DEF RequestInv, RequestTyped, RequestPaneRecord,
     RequestViewRecord, RequestOpRecord
<1>7. pane.shown.of # None => pane.shown.of \in X
  BY DEF RequestInv, RequestTyped, RequestPaneRecord, RequestViewRecord, RequestKnown
<1> QED
  BY <1>2, <1>5, <1>6, <1>7 DEF RequestInv, RequestReadsAgree, RequestListAgrees, RequestOpAgrees,
     RequestPaneAgrees, Assisted!Mounted

\* The effect that reads the list again unmounts the panel and ends every reading before.
LEMMA RequestReloadKeeps ==
  ASSUME RequestInv, NEW open \in BOOLEAN, NEW sel \in RequestKnown, Assisted!Reload(open, sel),
         UNCHANGED Assisted!serverVars,
         op' = Assisted!NoOp, effect' \in [X -> 0..aWorld]
  PROVE  RequestInv'
<1> DEFINE new == [of |-> sel, n |-> aCount.reads + 1, live |-> TRUE, got |-> Assisted!NoDetail]
<1>1. /\ \A r \in Assisted!Abort(aReads) : r \in RequestReadRecord /\ ~r.live
      /\ \A r \in Assisted!Abort(aReads) : r.got # Assisted!NoDetail => r.got.id = r.of /\ r.of \in X /\ r.got.status \in RequestStatuses
  <2>1. \A r \in RequestReadRecord : LET s == [r EXCEPT !.live = FALSE] IN s \in RequestReadRecord /\ ~s.live /\ s.of = r.of /\ s.got = r.got
    BY DEF RequestReadRecord
  <2>2. ASSUME NEW r \in Assisted!Abort(aReads) PROVE \E x \in aReads : x \in RequestReadRecord /\ r \in RequestReadRecord /\ ~r.live /\ r.of = x.of /\ r.got = x.got
    BY <2>1 DEF Assisted!Abort, RequestInv, RequestTyped
  <2> QED
    BY <2>2 DEF RequestInv, RequestReadsAgree
<1>2. new \in RequestReadRecord /\ new.of = sel /\ new.live /\ new.got = Assisted!NoDetail
      /\ [aCount EXCEPT !.reads = @ + 1] \in [reads : Nat, actions : Nat]
  BY RequestAtRest DEF RequestInv, RequestTyped, RequestReadRecord
<1>3. /\ aList' \in RequestListRecord /\ aList'.open = open
      /\ (open => aList'.detail = Assisted!NoDetail /\ aList'.confirmation = None /\ aList'.selected = sel)
      /\ (~open => aList'.detail = aList.detail /\ aList'.selected = aList.selected)
  <2>1. aList \in RequestListRecord /\ [aList EXCEPT !.open = FALSE] \in RequestListRecord
        /\ LET l == [aList EXCEPT !.open = FALSE] IN ~l.open /\ l.detail = aList.detail /\ l.selected = aList.selected
    BY DEF RequestInv, RequestTyped, RequestListRecord
  <2>2. /\ Assisted!Cleared(sel) \in RequestListRecord /\ Assisted!Cleared(sel).open
        /\ Assisted!Cleared(sel).detail = Assisted!NoDetail
        /\ Assisted!Cleared(sel).confirmation = None /\ Assisted!Cleared(sel).selected = sel
    BY RequestAtRest DEF Assisted!Cleared, RequestListRecord
  <2>3. aList' = IF open THEN Assisted!Cleared(sel) ELSE [aList EXCEPT !.open = FALSE]
    BY DEF Assisted!Reload
  <2>4. CASE open
    BY <2>2, <2>3, <2>4
  <2>5. CASE ~open
    <3>1. aList' = [aList EXCEPT !.open = FALSE]
      BY <2>3, <2>5
    <3>2. ~aList'.open /\ aList' \in RequestListRecord
      BY <2>1, <3>1
    <3>3. aList'.open = open
      BY <2>5, <3>2 DEF RequestListRecord
    <3> QED
      BY ONLY <2>1, <2>5, <3>1, <3>2, <3>3
  <2> QED
    BY <2>4, <2>5
<1>4. /\ ~open \/ aList'.detail.status # "accepted"
      /\ pane' = Assisted!NewPane /\ meant' = Assisted!NotMeant
  BY <1>3, RequestAtRest, RequestConstants DEF Assisted!Reload
<1>5. /\ aReads' = Assisted!Abort(aReads) \cup (IF open THEN {new} ELSE {})
      /\ aCount' \in [reads : Nat, actions : Nat]
  BY <1>2 DEF Assisted!Reload, RequestInv, RequestTyped
<1> HIDE DEF new
<1>6. RequestTyped'
  BY <1>1, <1>2, <1>3, <1>4, <1>5, RequestAtRest, RequestConstants DEF RequestInv, RequestTyped,
     Assisted!serverVars
<1>7. RequestReadsAgree'
  BY <1>1, <1>2, <1>3, <1>5, RequestAtRest DEF RequestReadsAgree
<1>8. RequestListAgrees'
  BY <1>3 DEF RequestInv, RequestListAgrees
<1>9. RequestOpAgrees'
  BY RequestAtRest, RequestConstants DEF RequestOpAgrees
<1>10. RequestPaneAgrees'
  BY <1>4, RequestAtRest DEF RequestPaneAgrees
<1> QED
  BY <1>6, <1>7, <1>8, <1>9, <1>10 DEF RequestInv

LEMMA RequestListReadAgain ==
  ASSUME RequestInv,
         Assisted!Toggle \/ (\E k \in X : Assisted!Select(k)) \/ Assisted!Refresh \/ Assisted!Resolved
  PROVE  RequestInv'
<1>1. /\ aList.open \in BOOLEAN /\ aList.selected \in RequestKnown /\ X \subseteq RequestKnown
      /\ effect \in [X -> 0..aWorld]
  BY DEF RequestInv, RequestTyped, RequestListRecord, RequestKnown
<1>2. CASE Assisted!Resolved
  <2>1. op.kind # None /\ Assisted!Reload(TRUE,
                                          aList.selected) /\ op' = Assisted!NoOp /\ UNCHANGED Assisted!serverVars
        /\ effect' = [effect EXCEPT ![op.of] = op.at]
    BY <1>2, RequestConstants DEF Assisted!Resolved
  <2>2. op.of \in X /\ op.at \in 0..aWorld
    BY <2>1, RequestConstants DEF RequestInv, RequestOpAgrees, RequestTyped, RequestOpRecord
  <2>3. effect' \in [X -> 0..aWorld]
    BY <1>1, <2>1, <2>2
  <2> QED
    BY <1>1, <2>1, <2>3, RequestReloadKeeps
<1>3. CASE Assisted!Toggle
  BY <1>1, <1>3, RequestReloadKeeps DEF Assisted!Toggle, Assisted!Idle, RequestInv, RequestOpAgrees
<1>4. CASE \E k \in X : Assisted!Select(k)
  BY <1>1, <1>4, RequestReloadKeeps DEF Assisted!Select, Assisted!Idle, RequestInv, RequestOpAgrees
<1>5. CASE Assisted!Refresh
  BY <1>1, <1>5, RequestReloadKeeps DEF Assisted!Refresh, Assisted!Idle, RequestInv, RequestOpAgrees
<1> QED
  BY <1>2, <1>3, <1>4, <1>5

LEMMA RequestServeKeeps == ASSUME RequestInv, Assisted!Serve PROVE RequestInv'
<1>1. PICK r \in aReads :
        /\ r.of # None /\ r.got = Assisted!NoDetail
        /\ aReads' = (aReads \ {r}) \cup {[r EXCEPT !.got = [id |-> r.of, status |-> request[r.of].status]]}
        /\ UNCHANGED <<Assisted!serverVars, aList, pane, op, aCount, effect, meant>>
  BY DEF Assisted!Serve
<1> DEFINE d == [id |-> r.of, status |-> request[r.of].status]
           q == [r EXCEPT !.got = d]
<1>2. r \in RequestReadRecord /\ r.of \in X
  BY <1>1 DEF RequestInv, RequestTyped, RequestReadRecord, RequestKnown
<1>3. d \in RequestDetailRecord /\ d.id = r.of /\ d.status \in RequestStatuses
  BY <1>2 DEF RequestDetailRecord, RequestKnown, RequestInv, RequestTyped, RequestRecord
<1>4. q \in RequestReadRecord /\ q.of = r.of /\ q.live = r.live /\ q.got = d
  BY <1>2, <1>3 DEF RequestReadRecord
<1>5. aReads' = (aReads \ {r}) \cup {q}
  BY <1>1
<1> HIDE DEF d, q
<1>6. RequestTyped'
  BY <1>1, <1>4, <1>5 DEF RequestInv, RequestTyped, Assisted!serverVars
<1>7. RequestReadsAgree'
  BY <1>1, <1>2, <1>3, <1>4, <1>5 DEF RequestInv, RequestReadsAgree
<1> QED
  BY <1>1, <1>6, <1>7 DEF RequestInv, RequestListAgrees, RequestOpAgrees, RequestPaneAgrees,
     Assisted!Mounted, Assisted!serverVars

LEMMA RequestAnswerKeeps == ASSUME RequestInv, Assisted!Answer PROVE RequestInv'
<1>1. PICK r \in aReads :
        /\ aReads' = aReads \ {r}
        /\ \/ /\ r.of # None => r.got # Assisted!NoDetail
              /\ aList' = IF Assisted!Counts(r) THEN [aList EXCEPT !.rows = TRUE, !.detail = r.got] ELSE aList
           \/ aList' = IF Assisted!Counts(r) THEN [aList EXCEPT !.error = TRUE] ELSE aList
        /\ UNCHANGED <<Assisted!serverVars, pane, op, aCount, effect, meant>>
  BY DEF Assisted!Answer
<1>2. r \in RequestReadRecord /\ aList \in RequestListRecord
  BY DEF RequestInv, RequestTyped
<1>3. RequestReadsAgree' /\ RequestTyped'
  <2>1. /\ aList' \in RequestListRecord /\ aList'.open = aList.open /\ aList'.selected = aList.selected
        /\ (~r.live => aList' = aList)
    BY <1>1, <1>2 DEF Assisted!Counts, RequestListRecord, RequestReadRecord
  <2>2. RequestTyped'
    BY <1>1, <2>1 DEF RequestInv, RequestTyped, Assisted!serverVars
  <2>3. RequestReadsAgree'
    BY <1>1, <2>1 DEF RequestInv, RequestReadsAgree
  <2> QED
    BY <2>2, <2>3
<1>4. CASE aList' = aList
  BY <1>1, <1>3, <1>4 DEF RequestInv, RequestListAgrees, RequestOpAgrees, RequestPaneAgrees,
     Assisted!Mounted, Assisted!serverVars
<1>5. CASE r.live /\ aList' = [aList EXCEPT !.error = TRUE]
  <2>1. aList'.detail = aList.detail /\ aList'.open = aList.open /\ aList'.selected = aList.selected
        /\ aList'.confirmation = aList.confirmation
    BY <1>2, <1>5 DEF RequestListRecord
  <2> QED
    BY <1>1, <1>3, <2>1 DEF RequestInv, RequestListAgrees, RequestOpAgrees, RequestPaneAgrees,
       Assisted!Mounted, Assisted!serverVars
<1>6. CASE r.live /\ aList' = [aList EXCEPT !.rows = TRUE, !.detail = r.got]
  <2>1. /\ aList'.detail = r.got /\ aList'.open = aList.open /\ aList'.selected = aList.selected
        /\ aList'.confirmation = aList.confirmation
    BY <1>2, <1>6 DEF RequestListRecord
  <2>2. aList.open /\ r.of = aList.selected /\ aList.detail = Assisted!NoDetail /\ op.kind = None
    BY <1>6 DEF RequestInv, RequestReadsAgree
  <2>3. aList.confirmation = None /\ ~Assisted!Mounted
    BY <2>2, RequestAtRest, RequestConstants DEF RequestInv, RequestListAgrees, Assisted!Mounted
  <2>4. pane = Assisted!NewPane /\ op = Assisted!NoOp
    BY <2>2, <2>3 DEF RequestInv, RequestPaneAgrees, RequestOpAgrees
  <2>5. RequestListAgrees'
    BY <1>1, <2>1, <2>2, <2>3 DEF RequestInv, RequestListAgrees, RequestReadsAgree
  <2>6. RequestOpAgrees' /\ RequestPaneAgrees'
    BY <1>1, <2>4, RequestAtRest, RequestConstants DEF RequestOpAgrees, RequestPaneAgrees
  <2> QED
    BY <1>3, <2>5, <2>6 DEF RequestInv
<1> QED
  BY <1>1, <1>4, <1>5, <1>6 DEF Assisted!Counts

LEMMA RequestRecords ==
  ASSUME RequestInv
  PROVE  /\ aList \in RequestListRecord /\ pane \in RequestPaneRecord /\ op \in RequestOpRecord
         /\ meant \in RequestMeantRecord
         /\ aList.detail.id \in RequestKnown /\ pane.shown \in RequestViewRecord
         /\ pane.shown.of \in RequestKnown /\ pane.shown.n \in Nat
         /\ aList.detail.status # None => aList.detail # Assisted!NoDetail /\ aList.detail.id \in X /\ aList.detail.id # None
         /\ Assisted!Mounted => aList.open /\ aList.confirmation = None /\ aList.detail.id \in X
         /\ ~Assisted!Mounted => pane.shown.of = None /\ ~pane.confirmed /\ pane.lifecycle = None
         /\ aList.open /\ aList.confirmation # None => ~Assisted!Mounted
         /\ Assisted!Idle => op = Assisted!NoOp
  BY RequestAtRest, RequestConstants DEF RequestInv, RequestTyped, RequestListRecord,
     RequestDetailRecord, RequestPaneRecord, RequestViewRecord, RequestListAgrees, RequestPaneAgrees,
     RequestOpAgrees, Assisted!Mounted, Assisted!Idle

LEMMA RequestBegins ==
  ASSUME RequestInv, NEW kind \in {"resolve", "prepare", "resume", "release", "finalize"},
         NEW arg \in {None, "accepted", "rejected"}, aList.detail.id \in X, Assisted!Begin(kind, arg)
  PROVE  /\ op' \in RequestOpRecord /\ op'.kind = kind /\ op'.of = aList.detail.id /\ op'.arg = arg
         /\ op'.state = "sent"
         /\ op'.at = 0 /\ aCount' \in [reads : Nat, actions : Nat]
  BY DEF Assisted!Begin, RequestInv, RequestTyped, RequestOpRecord, RequestKnown

LEMMA RequestAskResolutionKeeps ==
  ASSUME RequestInv, NEW s \in {"accepted", "rejected"}, Assisted!AskResolution(s)
  PROVE  RequestInv'
<1>1. /\ Assisted!Idle /\ aList.open /\ aList.detail.status = "submitted"
      /\ aList' = [aList EXCEPT !.confirmation = s]
      /\ meant' = [kind |-> "resolve", of |-> aList.detail.id, n |-> 0]
      /\ UNCHANGED <<request, aWorld, pane, op, aReads, aCount, effect>>
  BY DEF Assisted!AskResolution, Assisted!serverVars
<1>2. /\ aList' \in RequestListRecord /\ aList'.open = aList.open /\ aList'.selected = aList.selected
      /\ aList'.detail = aList.detail
  BY <1>1, RequestRecords DEF RequestListRecord
<1>3. meant' \in RequestMeantRecord
  BY <1>1, RequestRecords DEF RequestMeantRecord
<1>4. RequestTyped'
  BY <1>1, <1>2, <1>3 DEF RequestInv, RequestTyped
<1>5. ~Assisted!Mounted /\ ~Assisted!Mounted' /\ op = Assisted!NoOp
  BY <1>1, <1>2, RequestRecords DEF Assisted!Mounted
<1>6. RequestPaneAgrees' /\ RequestOpAgrees'
  BY <1>1, <1>2, <1>5, RequestAtRest, RequestConstants DEF RequestInv, RequestPaneAgrees,
     RequestOpAgrees
<1> QED
  BY <1>1, <1>2, <1>4, <1>6 DEF RequestInv, RequestReadsAgree, RequestListAgrees

\* "Volver sin cambiar", and a decision that failed.
LEMMA RequestQuestionCloses ==
  ASSUME RequestInv, aList.confirmation # None \/ op.kind = "resolve", op' = Assisted!NoOp,
         meant' = Assisted!NotMeant,
         NEW e \in BOOLEAN, aList' = [aList EXCEPT !.confirmation = None, !.error = e],
         UNCHANGED <<request, aWorld, pane, aReads, aCount, effect>>
  PROVE  RequestInv'
<1>1. /\ aList' \in RequestListRecord /\ aList'.open = aList.open /\ aList'.selected = aList.selected
      /\ aList'.detail = aList.detail
      /\ aList'.confirmation = None
  BY RequestRecords DEF RequestListRecord
<1>2. RequestTyped'
  BY <1>1, RequestAtRest DEF RequestInv, RequestTyped
<1>3. ~Assisted!Mounted /\ ~Assisted!Mounted'
  BY <1>1, RequestRecords, RequestConstants DEF RequestInv, RequestOpAgrees, Assisted!Mounted
<1>4. RequestPaneAgrees' /\ RequestOpAgrees'
  BY <1>1, <1>3, RequestAtRest, RequestConstants DEF RequestInv, RequestPaneAgrees, RequestOpAgrees
<1> QED
  BY <1>1, <1>2, <1>4, RequestAtRest DEF RequestInv, RequestReadsAgree, RequestListAgrees

LEMMA RequestTakeBackKeeps ==
  ASSUME RequestInv, Assisted!TakeBack \/ Assisted!Unresolved
  PROVE  RequestInv'
<1>1. CASE Assisted!TakeBack
  <2>1. aList' = [aList EXCEPT !.confirmation = None, !.error = aList.error] /\ aList.error \in BOOLEAN
    BY <1>1, RequestRecords DEF Assisted!TakeBack, RequestListRecord
  <2> QED
    BY <1>1, <2>1, RequestRecords, RequestQuestionCloses DEF Assisted!TakeBack, Assisted!serverVars
<1>2. CASE Assisted!Unresolved
  BY <1>2, RequestQuestionCloses DEF Assisted!Unresolved, Assisted!serverVars
<1> QED
  BY <1>1, <1>2

LEMMA RequestResolveRequestKeeps ==
  ASSUME RequestInv, Assisted!ResolveRequest
  PROVE  RequestInv'
<1>1. /\ Assisted!Idle /\ aList.open /\ aList.confirmation # None /\ aList.detail.status = "submitted"
      /\ Assisted!Begin("resolve", aList.confirmation) /\ aList' = [aList EXCEPT !.error = FALSE]
      /\ UNCHANGED <<request, aWorld, pane, aReads, effect, meant>>
  BY DEF Assisted!ResolveRequest, Assisted!serverVars
<1>2. /\ aList' \in RequestListRecord /\ aList'.open = aList.open /\ aList'.selected = aList.selected
      /\ aList'.detail = aList.detail
      /\ aList'.confirmation = aList.confirmation /\ aList.confirmation \in {None, "accepted", "rejected"}
  BY <1>1, RequestRecords DEF RequestListRecord
<1>3. aList.detail.id \in X /\ aList.detail # Assisted!NoDetail
  BY <1>1, RequestRecords, RequestConstants
<1>4. /\ op' \in RequestOpRecord /\ op'.kind = "resolve" /\ op'.of = aList.detail.id
      /\ op'.arg = aList.confirmation /\ op'.state = "sent"
      /\ op'.at = 0 /\ aCount' \in [reads : Nat, actions : Nat]
  BY <1>1, <1>2, <1>3, RequestBegins
<1>5. RequestTyped'
  BY <1>1, <1>2, <1>4, RequestConstants DEF RequestInv, RequestTyped
<1>6. RequestReadsAgree' /\ RequestListAgrees'
  BY <1>1, <1>2, <1>3 DEF RequestInv, RequestReadsAgree, RequestListAgrees
<1>7. RequestOpAgrees' /\ RequestPaneAgrees'
  BY <1>1, <1>2, <1>3, <1>4, RequestConstants DEF RequestInv, RequestOpAgrees, RequestPaneAgrees,
     Assisted!Mounted
<1> QED
  BY <1>5, <1>6, <1>7 DEF RequestInv

LEMMA RequestLoadKeeps == ASSUME RequestInv, Assisted!Load PROVE RequestInv'
<1>1. /\ Assisted!Idle /\ Assisted!Mounted
      /\ op' = [Assisted!NoOp EXCEPT !.kind = "load", !.of = aList.detail.id]
      /\ pane' = [pane EXCEPT !.error = FALSE]
      /\ UNCHANGED <<request, aWorld, aList, aReads, aCount, effect, meant>>
  BY DEF Assisted!Load, Assisted!serverVars
<1>2. /\ op' \in RequestOpRecord /\ op'.kind = "load" /\ op'.of = aList.detail.id /\ op'.state = None
      /\ op'.at = 0
  BY <1>1, RequestRecords DEF RequestOpRecord, Assisted!NoOp, RequestKnown
<1>3. /\ pane' \in RequestPaneRecord /\ pane'.shown = pane.shown /\ pane'.confirmed = pane.confirmed
      /\ pane'.lifecycle = pane.lifecycle
  BY <1>1, RequestRecords DEF RequestPaneRecord
<1>4. RequestTyped'
  BY <1>1, <1>2, <1>3, RequestConstants DEF RequestInv, RequestTyped
<1>5. RequestReadsAgree'
  BY <1>1, RequestRecords, RequestAtRest, RequestConstants DEF RequestInv, RequestReadsAgree,
     Assisted!Mounted
<1> QED
  BY <1>1, <1>2, <1>3, <1>4, <1>5, RequestRecords, RequestConstants DEF RequestInv,
     RequestListAgrees, RequestOpAgrees, RequestPaneAgrees, Assisted!Mounted

LEMMA RequestLoadedKeeps == ASSUME RequestInv, Assisted!Loaded PROVE RequestInv'
<1> DEFINE v == Assisted!Reading(op.of)
<1>1. /\ op.kind = "load" /\ op' = Assisted!NoOp /\ UNCHANGED <<request, aWorld, aList, aReads, effect>>
      /\ aCount' = [aCount EXCEPT !.reads = @ + 1]
      /\ \/ /\ pane' = [shown |-> v, confirmed |-> Assisted!Ticked(v), confirming |-> FALSE,
                        lifecycle |-> None, error |-> FALSE]
            /\ meant' = IF Assisted!Ticked(v) THEN meant ELSE Assisted!NotMeant
         \/ pane' = [pane EXCEPT !.error = TRUE] /\ UNCHANGED meant
  BY DEF Assisted!Loaded, Assisted!serverVars
<1>2. op.of \in X /\ op.of = aList.detail.id /\ aList.open /\ Assisted!Mounted
  BY <1>1, RequestConstants DEF RequestInv, RequestOpAgrees, Assisted!Mounted
<1>3. v \in RequestViewRecord /\ v.of = op.of /\ v.at = aWorld /\ v.view.stage = request[op.of].now.stage
  BY <1>2, RequestReadsNow
<1>4. aCount' \in [reads : Nat, actions : Nat]
  BY <1>1 DEF RequestInv, RequestTyped
<1>5. RequestReadsAgree'
  BY <1>1, RequestAtRest DEF RequestInv, RequestReadsAgree
<1>6. RequestListAgrees' /\ RequestOpAgrees'
  BY <1>1, <1>2, RequestRecords, RequestAtRest, RequestConstants DEF RequestInv, RequestListAgrees,
     RequestOpAgrees
<1> HIDE DEF v
<1>7. CASE /\ pane' = [shown |-> v, confirmed |-> Assisted!Ticked(v), confirming |-> FALSE,
                       lifecycle |-> None, error |-> FALSE]
           /\ meant' = IF Assisted!Ticked(v) THEN meant ELSE Assisted!NotMeant
  <2>1. /\ pane' \in RequestPaneRecord /\ pane'.shown = v /\ pane'.confirmed = Assisted!Ticked(v)
        /\ pane'.lifecycle = None
    BY <1>3, <1>7, RequestRecords DEF RequestPaneRecord, Assisted!Ticked
  <2>2. RequestTyped'
    BY <1>1, <1>3, <1>4, <1>7, <2>1, RequestAtRest, RequestConstants DEF RequestInv, RequestTyped
  <2>3. effect[op.of] <= aWorld
    BY <1>2 DEF RequestInv, RequestTyped
  <2>4. RequestPaneAgrees'
    BY <1>1, <1>2, <1>3, <2>1, <2>3, RequestConstants DEF RequestPaneAgrees, Assisted!Mounted,
       Assisted!Ticked
  <2> QED
    BY <1>5, <1>6, <2>2, <2>4 DEF RequestInv
<1>8. CASE pane' = [pane EXCEPT !.error = TRUE] /\ UNCHANGED meant
  <2>1. /\ pane' \in RequestPaneRecord /\ pane'.shown = pane.shown /\ pane'.confirmed = pane.confirmed
        /\ pane'.lifecycle = pane.lifecycle
    BY <1>8, RequestRecords DEF RequestPaneRecord
  <2>2. RequestTyped'
    BY <1>1, <1>4, <1>8, <2>1, RequestAtRest, RequestConstants DEF RequestInv, RequestTyped
  <2>3. RequestPaneAgrees'
    BY <1>1, <1>2, <1>8, <2>1 DEF RequestInv, RequestPaneAgrees, Assisted!Mounted
  <2> QED
    BY <1>5, <1>6, <2>2, <2>3 DEF RequestInv
<1> QED
  BY <1>1, <1>7, <1>8

\* What the administrator does in the panel that sends nothing.
LEMMA RequestPaneChanges ==
  ASSUME RequestInv, Assisted!Idle, Assisted!Mounted,
         UNCHANGED <<request, aWorld, aList, op, aReads, aCount, effect>>,
         pane' \in RequestPaneRecord, pane'.shown = pane.shown, meant' \in RequestMeantRecord,
         pane'.confirmed /\ pane.shown.view.stage = "preview" =>
           meant' = [kind |-> "prepare", of |-> aList.detail.id, n |-> pane.shown.n],
         pane'.lifecycle # None =>
           /\ pane.shown.of # None /\ pane.shown.view.stage = "prepared"
           /\ meant' = [kind |-> pane'.lifecycle, of |-> aList.detail.id, n |-> pane.shown.n]
  PROVE  RequestInv'
<1>1. RequestTyped'
  BY DEF RequestInv, RequestTyped
<1>2. aList.confirmation = None /\ op = Assisted!NoOp /\ Assisted!Mounted'
  BY RequestRecords DEF Assisted!Mounted
<1>3. RequestReadsAgree' /\ RequestListAgrees'
  BY <1>2 DEF RequestInv, RequestReadsAgree, RequestListAgrees
<1>4. RequestOpAgrees'
  BY <1>2, RequestAtRest, RequestConstants DEF RequestOpAgrees
<1>5. RequestPaneAgrees'
  BY <1>2 DEF RequestInv, RequestPaneAgrees
<1> QED
  BY <1>1, <1>3, <1>4, <1>5 DEF RequestInv

LEMMA RequestTickKeeps == ASSUME RequestInv, Assisted!Tick PROVE RequestInv'
<1>1. /\ Assisted!Idle /\ Assisted!Mounted /\ pane.shown.of # None /\ pane.shown.view.stage = "preview"
      /\ pane' = [pane EXCEPT !.confirmed = ~pane.confirmed]
      /\ meant' = IF pane.confirmed THEN Assisted!NotMeant ELSE [kind |-> "prepare", of |-> aList.detail.id,
                                                                 n |-> pane.shown.n]
      /\ UNCHANGED <<request, aWorld, aList, op, aReads, aCount, effect>>
  BY RequestRecords DEF Assisted!Tick, Assisted!serverVars, RequestPaneRecord
<1>2. /\ pane' \in RequestPaneRecord /\ pane'.shown = pane.shown /\ pane'.lifecycle = pane.lifecycle
      /\ (pane'.confirmed => ~pane.confirmed)
  BY <1>1, RequestRecords DEF RequestPaneRecord
<1>3. pane.lifecycle = None
  BY <1>1 DEF RequestInv, RequestPaneAgrees
<1>4. meant' \in RequestMeantRecord
  BY <1>1, RequestRecords, RequestAtRest DEF RequestMeantRecord
<1> QED
  BY <1>1, <1>2, <1>3, <1>4, RequestPaneChanges

LEMMA RequestAskPreparationKeeps ==
  ASSUME RequestInv, Assisted!AskPreparation
  PROVE  RequestInv'
<1>1. /\ Assisted!Idle /\ Assisted!Mounted /\ pane' = [pane EXCEPT !.error = FALSE, !.confirming = TRUE]
      /\ UNCHANGED <<request, aWorld, aList, op, aReads, aCount, effect, meant>>
  BY DEF Assisted!AskPreparation, Assisted!serverVars
<1>2. /\ pane' \in RequestPaneRecord /\ pane'.shown = pane.shown /\ pane'.lifecycle = pane.lifecycle
      /\ pane'.confirmed = pane.confirmed
  BY <1>1, RequestRecords DEF RequestPaneRecord
<1> QED
  BY <1>1, <1>2, RequestRecords, RequestPaneChanges DEF RequestInv, RequestPaneAgrees

LEMMA RequestLifecycleIs ==
  ASSUME NEW v,
         Assisted!LifecycleFor(v) # None PROVE Assisted!LifecycleFor(v) \in {"release", "finalize"} /\ v.stage = "prepared"
  BY DEF Assisted!LifecycleFor

LEMMA RequestAskLifecycleKeeps == ASSUME RequestInv, Assisted!AskLifecycle PROVE RequestInv'
<1> DEFINE l == Assisted!LifecycleFor(pane.shown.view)
<1>1. /\ Assisted!Idle /\ Assisted!Mounted /\ pane.shown.of # None /\ l # None
      /\ pane' = [pane EXCEPT !.error = FALSE, !.lifecycle = l]
      /\ meant' = [kind |-> l, of |-> aList.detail.id, n |-> pane.shown.n]
      /\ UNCHANGED <<request, aWorld, aList, op, aReads, aCount, effect>>
  BY DEF Assisted!AskLifecycle, Assisted!serverVars
<1>2. l \in {"release", "finalize"} /\ pane.shown.view.stage = "prepared"
  BY <1>1, RequestLifecycleIs
<1> HIDE DEF l
<1>3. /\ pane' \in RequestPaneRecord /\ pane'.shown = pane.shown /\ pane'.lifecycle = l
  BY <1>1, <1>2, RequestRecords DEF RequestPaneRecord
<1>4. meant' \in RequestMeantRecord
  BY <1>1, <1>2, RequestRecords DEF RequestMeantRecord
<1> QED
  BY <1>1, <1>2, <1>3, <1>4, RequestPaneChanges

LEMMA RequestCancelConfirmationKeeps ==
  ASSUME RequestInv, Assisted!CancelConfirmation
  PROVE  RequestInv'
<1>1. /\ Assisted!Idle /\ Assisted!Mounted /\ pane' = [pane EXCEPT !.confirming = FALSE, !.lifecycle = None]
      /\ meant' = IF pane.lifecycle # None THEN Assisted!NotMeant ELSE meant
      /\ UNCHANGED <<request, aWorld, aList, op, aReads, aCount, effect>>
  BY DEF Assisted!CancelConfirmation, Assisted!serverVars
<1>2. /\ pane' \in RequestPaneRecord /\ pane'.shown = pane.shown /\ pane'.lifecycle = None
      /\ pane'.confirmed = pane.confirmed
  BY <1>1, RequestRecords DEF RequestPaneRecord
<1>3. meant' \in RequestMeantRecord
  BY <1>1, RequestRecords, RequestAtRest
<1>4. pane.lifecycle # None => pane.shown.view.stage # "preview"
  BY DEF RequestInv, RequestPaneAgrees
<1>5. pane.confirmed /\ pane.shown.view.stage = "preview" =>
        meant = [kind |-> "prepare", of |-> aList.detail.id, n |-> pane.shown.n]
  BY DEF RequestInv, RequestPaneAgrees
<1> QED
  BY <1>1, <1>2, <1>3, <1>4, <1>5, RequestPaneChanges

\* An operation of the panel is sent.
LEMMA RequestPanelSends ==
  ASSUME RequestInv, Assisted!Idle, Assisted!Mounted,
         NEW kind \in {"prepare", "resume", "release", "finalize"}, Assisted!Begin(kind, None),
         pane' = [pane EXCEPT !.error = FALSE], UNCHANGED <<request, aWorld, aList, aReads, effect, meant>>,
         kind = "resume" => pane.shown.of # None /\ pane.shown.view.stage \in Assisted!Resumable,
         kind \in {"release", "finalize"} => pane.shown.of # None /\ pane.shown.view.stage = "prepared"
  PROVE  RequestInv'
<1>1. aList.detail.id \in X /\ aList.open /\ aList.confirmation = None /\ aList.detail.status = "accepted"
      /\ aList.detail # Assisted!NoDetail
  BY RequestRecords, RequestConstants DEF Assisted!Mounted
<1>2. /\ op' \in RequestOpRecord /\ op'.kind = kind /\ op'.of = aList.detail.id /\ op'.state = "sent"
      /\ op'.at = 0 /\ aCount' \in [reads : Nat, actions : Nat]
  BY <1>1, RequestBegins
<1>3. /\ pane' \in RequestPaneRecord /\ pane'.shown = pane.shown /\ pane'.lifecycle = pane.lifecycle
      /\ pane'.confirmed = pane.confirmed
  BY RequestRecords DEF RequestPaneRecord
<1>4. RequestTyped'
  BY <1>2, <1>3, RequestConstants DEF RequestInv, RequestTyped
<1>5. RequestReadsAgree' /\ RequestListAgrees'
  BY <1>1 DEF RequestInv, RequestReadsAgree, RequestListAgrees
<1>6. RequestOpAgrees'
  BY <1>1, <1>2, <1>3, RequestConstants DEF RequestOpAgrees
<1>7. RequestPaneAgrees'
  BY <1>1, <1>3 DEF RequestInv, RequestPaneAgrees, Assisted!Mounted
<1> QED
  BY <1>4, <1>5, <1>6, <1>7 DEF RequestInv

LEMMA RequestPrepareKeeps == ASSUME RequestInv, Assisted!Prepare PROVE RequestInv'
<1>1. CASE /\ pane.confirmed /\ Assisted!Begin("prepare", None) /\ pane' = [pane EXCEPT !.error = FALSE]
  BY <1>1, RequestPanelSends DEF Assisted!Prepare, Assisted!serverVars
<1>2. CASE pane' = [pane EXCEPT !.confirming = FALSE, !.error = TRUE] /\ UNCHANGED <<op, aCount>>
  <2>1. /\ pane' \in RequestPaneRecord /\ pane'.shown = pane.shown /\ pane'.lifecycle = pane.lifecycle
        /\ pane'.confirmed = pane.confirmed
    BY <1>2, RequestRecords DEF RequestPaneRecord
  <2> QED
    BY <1>2, <2>1, RequestRecords, RequestPaneChanges DEF Assisted!Prepare, Assisted!serverVars,
       RequestInv, RequestPaneAgrees
<1> QED
  BY <1>1, <1>2 DEF Assisted!Prepare

LEMMA RequestResumeDirectKeeps == ASSUME RequestInv, Assisted!ResumeDirect PROVE RequestInv'
  BY RequestPanelSends DEF Assisted!ResumeDirect, Assisted!serverVars

LEMMA RequestConfirmLifecycleKeeps ==
  ASSUME RequestInv, Assisted!ConfirmLifecycle
  PROVE  RequestInv'
<1>1. pane.lifecycle \in {"release", "finalize"} /\ pane.shown.of # None /\ pane.shown.view.stage = "prepared"
  BY RequestRecords DEF Assisted!ConfirmLifecycle, RequestPaneRecord, RequestInv, RequestPaneAgrees
<1> QED
  BY <1>1, RequestPanelSends DEF Assisted!ConfirmLifecycle, Assisted!serverVars

LEMMA RequestPerformKeeps == ASSUME RequestInv, Assisted!Perform PROVE RequestInv'
<1>1. op.state = "sent" /\ UNCHANGED <<aList, pane, aReads, aCount, effect, meant>>
  BY DEF Assisted!Perform
<1>2. /\ op.of \in X /\ op.kind \notin {None, "load"}
      /\ op.kind \in {"resolve", "prepare", "resume", "release", "finalize"}
  BY <1>1, RequestRecords, RequestConstants DEF RequestInv, RequestOpAgrees, RequestOpRecord
<1>3. ASSUME NEW r \in Assisted!Performed(op), r # request[op.of] => aWorld < RequestChanges,
             Assisted!Becomes(op.of, r),
             op' = [op EXCEPT !.state = "done", !.at = aWorld']
      PROVE  RequestInv'
  <2> DEFINE q == request[op.of]
  <2>1. q \in RequestRecord /\ q.now \in Assisted!Stages
    BY <1>2 DEF RequestInv, RequestTyped, RequestRecord
  <2>2. /\ r \in RequestRecord /\ (q.now.stage # "preview" => r.now.stage # "preview")
        /\ (op.kind = "prepare" => r.now.stage # "preview")
    <3>1. \A s \in Assisted!Stages : [q EXCEPT !.now = s] \in RequestRecord /\ [q EXCEPT !.now = s].now = s
      BY <2>1 DEF RequestRecord
    <3>2. CASE op.kind = "resolve"
      <4>1. r = [q EXCEPT !.status = op.arg] /\ op.arg \in {"accepted", "rejected"}
        BY <3>2, RequestRecords DEF Assisted!Performed, RequestInv, RequestOpAgrees, RequestOpRecord
      <4>2. \A t \in {"accepted", "rejected"} : [q EXCEPT !.status = t] \in RequestRecord /\ [q EXCEPT !.status = t].now = q.now
        BY <2>1 DEF RequestRecord, RequestStatuses
      <4> QED
        BY <3>2, <4>1, <4>2
    <3>3. CASE op.kind = "prepare"
      <4>1. r = [q EXCEPT !.now = Assisted!Prepared]
        BY <3>3 DEF Assisted!Performed
      <4> QED
        BY <3>1, <4>1, RequestAtRest
    <3>4. CASE op.kind = "resume"
      <4>1. \E s \in Assisted!Advanced(q.now) : r = [q EXCEPT !.now = s]
        BY <3>4 DEF Assisted!Performed
      <4>2. \A t \in {"preparing", "review", "failed", "prepared"} :
              [q.now EXCEPT !.stage = t] \in Assisted!Stages /\ [q.now EXCEPT !.stage = t].stage = t
        BY <2>1 DEF Assisted!Stages
      <4>3. \A s \in Assisted!Advanced(q.now) : s \in Assisted!Stages /\ s.stage # "preview"
        BY <4>2 DEF Assisted!Advanced
      <4> QED
        BY <3>1, <3>4, <4>1, <4>3
    <3>5. CASE op.kind \in {"release", "finalize"}
      <4>1. \E t \in {"released", "finalized"} : r = [q EXCEPT !.now = [q.now EXCEPT !.reservation = t]]
        BY <3>5 DEF Assisted!Performed
      <4>2. \A t \in {"released", "finalized"} :
              [q.now EXCEPT !.reservation = t] \in Assisted!Stages /\ [q.now EXCEPT !.reservation = t].stage = q.now.stage
        BY <2>1 DEF Assisted!Stages
      <4> QED
        BY <3>1, <3>5, <4>1, <4>2
    <3> QED
      BY <1>2, <3>2, <3>3, <3>4, <3>5
  <2>3. /\ request' \in [X -> RequestRecord] /\ aWorld' \in 0..RequestChanges /\ aWorld' >= aWorld
        /\ request'[op.of] = r
        /\ \A j \in X : request[j].now.stage # "preview" => request'[j].now.stage # "preview"
        /\ effect \in [X -> 0..aWorld']
    BY <1>2, <1>3, <2>2, RequestServerChanges
  <2>4. /\ op' \in RequestOpRecord /\ op'.kind = op.kind /\ op'.of = op.of /\ op'.arg = op.arg
        /\ op'.state = "done" /\ op'.at = aWorld'
    <3>1. \A w \in Nat : LET o == [op EXCEPT !.state = "done", !.at = w] IN
            o \in RequestOpRecord /\ o.kind = op.kind /\ o.of = op.of /\ o.arg = op.arg /\ o.state = "done" /\ o.at = w
      BY RequestRecords DEF RequestOpRecord
    <3>2. aWorld' \in Nat
      BY <2>3, RequestConstants
    <3> QED
      BY <1>3, <3>1, <3>2
  <2>5. RequestTyped'
    BY <1>1, <2>3, <2>4, RequestConstants DEF RequestInv, RequestTyped, RequestPaneRecord,
       RequestViewRecord
  <2>6. pane.shown.of # None => pane.shown.of \in X
    BY RequestRecords DEF RequestKnown
  <2>7. RequestOpAgrees'
    BY <1>1, <1>2, <2>2, <2>3, <2>4, RequestConstants DEF RequestInv, RequestOpAgrees
  <2> QED
    BY <1>1, <2>3, <2>4, <2>5, <2>6, <2>7 DEF RequestInv, RequestReadsAgree, RequestListAgrees,
       RequestPaneAgrees, Assisted!Mounted
<1>4. CASE op' = [op EXCEPT !.state = "refused"] /\ UNCHANGED Assisted!serverVars
  <2>1. /\ op' \in RequestOpRecord /\ op'.kind = op.kind /\ op'.of = op.of /\ op'.arg = op.arg
        /\ op'.state = "refused" /\ op'.at = op.at
    BY <1>4, RequestRecords DEF RequestOpRecord
  <2>2. RequestTyped'
    BY <1>1, <1>4, <2>1 DEF RequestInv, RequestTyped, Assisted!serverVars
  <2>3. RequestOpAgrees'
    BY <1>1, <1>2, <1>4, <2>1, RequestConstants DEF RequestInv, RequestOpAgrees, Assisted!serverVars
  <2> QED
    BY <1>1, <1>4, <2>1, <2>2, <2>3 DEF RequestInv, RequestReadsAgree, RequestListAgrees,
       RequestPaneAgrees, Assisted!Mounted, Assisted!serverVars
<1> QED
  BY <1>3, <1>4 DEF Assisted!Perform

\* An operation of the panel ends: it shows what it showed, or what the request is now.
LEMMA RequestPanelEnds ==
  ASSUME RequestInv, Assisted!InPanel, op' = Assisted!NoOp,
         UNCHANGED <<request, aWorld, aList, aReads>>, aCount' \in [reads : Nat, actions : Nat],
         meant' = (IF op.kind = "prepare" THEN meant ELSE Assisted!NotMeant),
         pane' \in RequestPaneRecord, pane'.confirmed = pane.confirmed, pane'.lifecycle \in {None, pane.lifecycle},
         pane'.lifecycle # None => op.kind = "resume",
         \/ pane'.shown = pane.shown /\ effect' = effect
         \/ /\ pane'.shown = Assisted!Reading(op.of) /\ request[op.of].now.stage # "preview"
            /\ effect' = effect \/ effect' = [effect EXCEPT ![op.of] = op.at]
  PROVE  RequestInv'
<1>1. op.kind \in {"prepare", "resume", "release", "finalize"} /\ op.of \in X /\ op.of = aList.detail.id
      /\ aList.open /\ aList.detail.status = "accepted" /\ Assisted!Mounted /\ aList.confirmation = None
  BY RequestRecords, RequestConstants DEF RequestInv, RequestOpAgrees, Assisted!InPanel,
     Assisted!Mounted
<1>2. meant' \in RequestMeantRecord /\ aWorld \in Nat
  BY RequestRecords, RequestAtRest, RequestConstants DEF RequestInv, RequestTyped
<1>3. Assisted!Reading(op.of) \in RequestViewRecord /\ Assisted!Reading(op.of).of = op.of /\ Assisted!Reading(op.of).at = aWorld
      /\ Assisted!Reading(op.of).view.stage = request[op.of].now.stage
  BY <1>1, RequestReadsNow
<1>4. effect' \in [X -> 0..aWorld]
  BY <1>1 DEF RequestInv, RequestTyped, RequestOpRecord
<1>5. RequestTyped'
  BY <1>2, <1>3, <1>4, RequestAtRest DEF RequestInv, RequestTyped
<1>6. RequestReadsAgree' /\ RequestListAgrees' /\ RequestOpAgrees'
  BY <1>1, RequestAtRest, RequestConstants DEF RequestInv, RequestReadsAgree, RequestListAgrees,
     RequestOpAgrees
<1>7. op.kind = "resume" => pane.lifecycle = None /\ pane.shown.view.stage # "preview"
  BY DEF RequestInv, RequestOpAgrees, RequestPaneAgrees, Assisted!Resumable
<1>8. pane'.lifecycle = None
  BY <1>7
<1>9. op.kind \in {"release", "finalize"} => pane.shown.view.stage # "preview"
  BY DEF RequestInv, RequestOpAgrees
<1>10. effect'[op.of] <= aWorld
  BY <1>1, <1>4
<1>11. RequestPaneAgrees'
  <2>1. CASE pane'.shown = pane.shown /\ effect' = effect
    BY <1>1, <1>7, <1>8, <1>9, <2>1 DEF RequestInv, RequestPaneAgrees, Assisted!Mounted
  <2>2. CASE pane'.shown = Assisted!Reading(op.of) /\ request[op.of].now.stage # "preview"
    BY <1>1, <1>3, <1>8, <1>10, <2>2 DEF RequestPaneAgrees, Assisted!Mounted
  <2> QED
    BY <2>1, <2>2
<1> QED
  BY <1>5, <1>6, <1>11 DEF RequestInv

\* Whatever an operation of the panel was sent for, its request is past the preview once it succeeded.
LEMMA RequestPastPreview ==
  ASSUME RequestInv, Assisted!InPanel,
         op.state = "done" \/ op.kind = "resume" PROVE request[op.of].now.stage # "preview"
<1>1. op.kind # None /\ op.of = aList.detail.id /\ aList.detail.id \in X
  BY RequestConstants DEF RequestInv, RequestOpAgrees, Assisted!InPanel
<1> QED
  BY <1>1 DEF RequestInv, RequestOpAgrees, RequestPaneAgrees, Assisted!InPanel, Assisted!Resumable

LEMMA RequestSucceedKeeps == ASSUME RequestInv, Assisted!Succeed PROVE RequestInv'
<1>1. /\ Assisted!InPanel /\ op.state = "done" /\ op' = Assisted!NoOp
      /\ UNCHANGED <<request, aWorld, aList, aReads>>
      /\ pane' = [pane EXCEPT !.shown = Assisted!Reading(op.of), !.confirming = FALSE, !.lifecycle = None]
      /\ aCount' = [aCount EXCEPT !.reads = @ + 1] /\ effect' = [effect EXCEPT ![op.of] = op.at]
      /\ meant' = IF op.kind = "prepare" THEN meant ELSE Assisted!NotMeant
  BY DEF Assisted!Succeed, Assisted!Reloaded, Assisted!serverVars
<1>2. op.of \in X
  BY <1>1, RequestConstants DEF RequestInv, RequestOpAgrees, Assisted!InPanel
<1>3. \A v \in RequestViewRecord : LET p == [pane EXCEPT !.shown = v, !.confirming = FALSE,
                                             !.lifecycle = None] IN
        p \in RequestPaneRecord /\ p.shown = v /\ p.confirmed = pane.confirmed /\ p.lifecycle = None
  BY RequestRecords DEF RequestPaneRecord
<1>4. /\ pane' \in RequestPaneRecord /\ pane'.shown = Assisted!Reading(op.of)
      /\ pane'.confirmed = pane.confirmed /\ pane'.lifecycle = None
  BY <1>1, <1>2, <1>3, RequestReadsNow
<1>5. aCount' \in [reads : Nat, actions : Nat]
  BY <1>1 DEF RequestInv, RequestTyped
<1> QED
  BY <1>1, <1>4, <1>5, RequestPastPreview, RequestPanelEnds

LEMMA RequestFailKeeps == ASSUME RequestInv, Assisted!Fail PROVE RequestInv'
<1>1. /\ Assisted!InPanel /\ op' = Assisted!NoOp /\ UNCHANGED <<request, aWorld, aList, aReads, effect>>
      /\ meant' = IF op.kind = "prepare" THEN meant ELSE Assisted!NotMeant
  BY DEF Assisted!Fail, Assisted!serverVars
<1>2. CASE pane' = [pane EXCEPT !.confirming = FALSE, !.lifecycle = None, !.error = TRUE] /\ UNCHANGED aCount
  <2>1. /\ pane' \in RequestPaneRecord /\ pane'.shown = pane.shown /\ pane'.confirmed = pane.confirmed
        /\ pane'.lifecycle = None
    BY <1>2, RequestRecords DEF RequestPaneRecord
  <2>2. aCount' \in [reads : Nat, actions : Nat]
    BY <1>2 DEF RequestInv, RequestTyped
  <2> QED
    BY <1>1, <2>1, <2>2, RequestPanelEnds
<1>3. CASE /\ op.kind = "resume" /\ pane' = [pane EXCEPT !.shown = Assisted!Reading(op.of), !.error = TRUE]
           /\ aCount' = [aCount EXCEPT !.reads = @ + 1]
  <2>1. op.of \in X
    BY <1>1, RequestConstants DEF RequestInv, RequestOpAgrees, Assisted!InPanel
  <2>2. \A v \in RequestViewRecord : LET p == [pane EXCEPT !.shown = v, !.error = TRUE] IN
          p \in RequestPaneRecord /\ p.shown = v /\ p.confirmed = pane.confirmed /\ p.lifecycle = pane.lifecycle
    BY RequestRecords DEF RequestPaneRecord
  <2>3. /\ pane' \in RequestPaneRecord /\ pane'.shown = Assisted!Reading(op.of)
        /\ pane'.confirmed = pane.confirmed /\ pane'.lifecycle = pane.lifecycle
    BY <1>3, <2>1, <2>2, RequestReadsNow
  <2>4. aCount' \in [reads : Nat, actions : Nat]
    BY <1>3 DEF RequestInv, RequestTyped
  <2> QED
    BY <1>1, <1>3, <2>3, <2>4, RequestPastPreview, RequestPanelEnds
<1> QED
  BY <1>2, <1>3 DEF Assisted!Fail

\* The list of web requests begins closed, its requests submitted or accepted.
LEMMA RequestInitKeeps == ASSUME Assisted!Init PROVE RequestInv
<1>1. request \in [X -> RequestRecord] /\ effect \in [X -> 0..0] /\ aWorld = 0
  <2>1. {[status |-> s, now |-> Assisted!Previewed] : s \in {"submitted", "accepted"}} \subseteq RequestRecord
    BY RequestAtRest DEF RequestRecord, RequestStatuses
  <2> QED
    BY <2>1 DEF Assisted!Init
<1>2. aList \in RequestListRecord /\ ~aList.open /\ aList.detail = Assisted!NoDetail
  BY RequestAtRest DEF Assisted!Init, RequestListRecord, RequestKnown
<1>3. RequestTyped
  BY <1>1, <1>2, RequestAtRest, RequestConstants DEF Assisted!Init, RequestTyped
<1>4. ~Assisted!Mounted /\ pane = Assisted!NewPane /\ op = Assisted!NoOp /\ aReads = {}
  BY <1>2 DEF Assisted!Mounted, Assisted!Init
<1> QED
  BY <1>2, <1>3, <1>4, RequestAtRest, RequestConstants DEF RequestInv, RequestReadsAgree,
     RequestListAgrees, RequestOpAgrees, RequestPaneAgrees

\* Every step of the web requests keeps what they rely on.
LEMMA RequestNextKeeps == ASSUME RequestInv, Assisted!Next PROVE RequestInv'
  BY RequestOthersChangeKeeps, RequestListReadAgain, RequestServeKeeps, RequestAnswerKeeps,
     RequestAskResolutionKeeps, RequestTakeBackKeeps, RequestResolveRequestKeeps, RequestLoadKeeps,
     RequestLoadedKeeps, RequestTickKeeps, RequestAskPreparationKeeps, RequestAskLifecycleKeeps,
     RequestCancelConfirmationKeeps, RequestPrepareKeeps, RequestResumeDirectKeeps,
     RequestConfirmLifecycleKeeps, RequestPerformKeeps, RequestSucceedKeeps, RequestFailKeeps
     DEF Assisted!Next

\* What is on screen is of the selected request, and of how the server has left it.
LEMMA RequestShows ==
  ASSUME RequestInv
  PROVE  Assisted!TypeOK /\ Assisted!OneRequestOnScreen /\ Assisted!ShownIsPersisted
<1>1. Assisted!TypeOK
  BY RequestRecords DEF RequestInv, RequestTyped, Assisted!TypeOK, RequestRecord, RequestListRecord,
     RequestPaneRecord, RequestOpRecord, RequestKnown
<1>2. Assisted!OneRequestOnScreen
  BY RequestRecords, RequestAtRest, RequestConstants DEF RequestInv, Assisted!OneRequestOnScreen,
     RequestListAgrees, RequestPaneAgrees, RequestOpAgrees
<1>3. Assisted!ShownIsPersisted
  BY DEF RequestInv, Assisted!ShownIsPersisted, RequestPaneAgrees
<1> QED
  BY <1>1, <1>2, <1>3

\* A decision starts only from its own confirmation, of what is shown.
LEMMA RequestConfirmed ==
  ASSUME RequestInv, Assisted!Next, op.kind = None,
         op'.kind \in {"resolve", "prepare", "release", "finalize"}
  PROVE  /\ meant.kind = op'.kind /\ meant.of = op'.of
         /\ op'.kind # "resolve" => meant.n = pane.shown.n
<1>1. op = Assisted!NoOp /\ op' # op /\ op' # Assisted!NoOp
  BY RequestAtRest, RequestConstants DEF RequestInv, RequestOpAgrees
<1>2. CASE Assisted!ResolveRequest
  <2>1. op'.kind = "resolve" /\ op'.of = aList.detail.id
    BY <1>2 DEF Assisted!ResolveRequest, Assisted!Begin
  <2> QED
    BY <1>2, <2>1 DEF Assisted!ResolveRequest, RequestInv, RequestListAgrees
<1>3. CASE Assisted!Prepare
  <2>1. /\ op'.kind = "prepare" /\ op'.of = aList.detail.id /\ pane.confirmed
        /\ pane.shown.view.stage = "preview"
    BY <1>1, <1>3 DEF Assisted!Prepare, Assisted!Begin
  <2> QED
    BY <2>1 DEF RequestInv, RequestPaneAgrees
<1>4. CASE Assisted!ConfirmLifecycle
  <2>1. op'.kind = pane.lifecycle /\ op'.of = aList.detail.id /\ pane.lifecycle # None
    BY <1>4 DEF Assisted!ConfirmLifecycle, Assisted!Begin
  <2> QED
    BY <2>1 DEF RequestInv, RequestPaneAgrees
<1>5. CASE Assisted!ResumeDirect
  <2>1. op'.kind = "resume"
    BY <1>5 DEF Assisted!ResumeDirect, Assisted!Begin
  <2> QED
    BY <2>1
<1>6. CASE Assisted!Load
  <2>1. op'.kind = "load"
    BY <1>6 DEF Assisted!Load, Assisted!NoOp
  <2> QED
    BY <2>1
<1>7. CASE Assisted!Perform
  BY <1>1, <1>7, RequestAtRest, RequestConstants DEF Assisted!Perform
<1>8. Assisted!Resolved \/ Assisted!Unresolved \/ Assisted!Loaded \/ Assisted!Succeed \/ Assisted!Fail => FALSE
  BY <1>1 DEF Assisted!Resolved, Assisted!Unresolved, Assisted!Loaded, Assisted!Succeed, Assisted!Fail
<1>9. Assisted!OthersChange \/ Assisted!Toggle \/ (\E k \in X : Assisted!Select(k)) \/ Assisted!Refresh \/ Assisted!Serve \/ Assisted!Answer
      \/ (\E s \in {"accepted", "rejected"} : Assisted!AskResolution(s)) \/ Assisted!TakeBack \/ Assisted!Tick \/ Assisted!AskPreparation \/ Assisted!AskLifecycle
      \/ Assisted!CancelConfirmation => FALSE
  BY <1>1 DEF Assisted!OthersChange, Assisted!Toggle, Assisted!Select, Assisted!Refresh, Assisted!Serve,
     Assisted!Answer, Assisted!AskResolution, Assisted!TakeBack, Assisted!Tick, Assisted!AskPreparation,
     Assisted!AskLifecycle, Assisted!CancelConfirmation
<1> QED
  BY <1>2, <1>3, <1>4, <1>5, <1>6, <1>7, <1>8, <1>9 DEF Assisted!Next

-----------------------------------------------------------------------------
(* The products: the list, the editor and what it sends *)

ProductText    == Z \cup {None}
ProductChanged == {None} \cup [is : ProductText]
ProductPicture == {None} \cup [is : {"new", "none"}]
ProductFields  == [name : ProductChanged, text : ProductChanged, image : ProductPicture]
ProductContent == [name : ProductChanged, text : ProductChanged]
ProductEditorRecord ==
  [id : X, row : Catalogue!Row, name : ProductText, reset : BOOLEAN, text : ProductText, put : BOOLEAN,
   remove : BOOLEAN]
ProductOpRecord ==
  [kind : {"idle", "saving", "quick", "deleting"}, stage : {None, "product", "image", "publication"},
   id : X \cup {None}, body : {None} \cup ProductContent \cup [image : {"new", "none"}] \cup [shown : BOOLEAN],
   saved : BOOLEAN, state : {None, "sent", "done", "shop"}, got : Catalogue!Row \cup {None}, fresh : BOOLEAN]
ProductReadRecord == [n : Nat, got : [X -> Catalogue!Row] \cup {None}, fresh : BOOLEAN]
ProductLoadRecord == [seq : 1..ProductLoads, loading : BOOLEAN, error : BOOLEAN, sent : SUBSET ProductReadRecord]
ProductAsked == [edit : {None}] \cup [edit : X, row : Catalogue!Row]

ProductTyped ==
  /\ pRows \in [X -> Catalogue!Row] /\ pList \in [X -> [row : Catalogue!Row, fresh : BOOLEAN]]
  /\ load \in ProductLoadRecord /\ deferred \in BOOLEAN
  /\ editor # Catalogue!Closed => editor \in ProductEditorRecord
  /\ asking # None => asking \in ProductAsked
  /\ candidate \in X \cup {None} /\ pOp \in ProductOpRecord
  /\ typed \in ProductFields /\ written \in ProductFields /\ pCrossed \in BOOLEAN

\* An operation is of a product, and of what its stage sends; a save is of the product that is in the editor.
ProductOpAgrees ==
  /\ pOp.kind = "idle" => pOp.state = None /\ pOp.stage = None
  /\ pOp.kind # "idle" => pOp.id \in X /\ pOp.stage # None /\ pOp.state # None
  /\ pOp.stage = "product" => pOp.body \in ProductContent
  /\ pOp.stage = "image" => pOp.body \in [image : {"new", "none"}]
  /\ pOp.stage = "publication" => pOp.body \in [shown : BOOLEAN]
  /\ pOp.stage \in {"product", "image"} => editor # Catalogue!Closed /\ editor.id = pOp.id
  /\ pOp.state = "done" => pOp.got \in Catalogue!Row

\* A refresh that was put off has something to wait for, and what is not put off was read afterwards, or will be.
ProductListAgrees ==
  /\ \A r \in load.sent : r.n <= load.seq
  /\ deferred => Catalogue!IsDirty(editor) \/ Catalogue!Busy \/ candidate # None
  /\ ~deferred =>
       /\ pOp.state = "done" => pOp.fresh
       /\ \A r \in load.sent : r.n = load.seq => r.fresh
       /\ Catalogue!Listed => \A p \in X : pList[p].fresh

\* What was put in the editor and is not written is there as a change, and a change is what was put there.
ProductNameKept == typed.name # None /\ written.name # typed.name => editor.name = typed.name.is /\ Catalogue!NameChanged(editor)
ProductTextKept == typed.text # None /\ written.text # typed.text => editor.text = typed.text.is /\ Catalogue!TextChanged(editor)
ProductPictureKept ==
  typed.image # None /\ written.image # typed.image =>
    IF typed.image.is = "new" THEN editor.put ELSE editor.remove
ProductChangesAreTyped ==
  /\ Catalogue!NameChanged(editor) => typed.name = [is |-> IF editor.reset THEN None ELSE editor.name]
  /\ Catalogue!TextChanged(editor) => typed.text = [is |-> editor.text] \/ pCrossed
  /\ editor.reset => editor.name = None
ProductEditorAgrees == editor # Catalogue!Closed => ProductNameKept /\ ProductTextKept /\ ProductPictureKept /\ ProductChangesAreTyped

\* What a request sends, and what was written once it is done.
ProductWritten(field) == typed[field] # None => written[field] = typed[field]
ProductSentAgrees ==
  /\ pOp.stage = "product" /\ pOp.state = "sent" =>
       (pOp.body.name # None \/ ProductWritten("name")) /\ (pOp.body.text # None \/ ProductWritten("text"))
  /\ pOp.stage = "product" /\ pOp.state = "done" => ProductWritten("name") /\ ProductWritten("text")
  /\ pOp.stage = "image" => ProductWritten("name") /\ ProductWritten("text")
  /\ pOp.stage = "publication" /\ editor # Catalogue!Closed => ProductWritten("name") /\ ProductWritten("text")
  /\ pOp.stage = "image" /\ pOp.state = "done" => ProductWritten("image")

ProductInv == ProductTyped /\ ProductOpAgrees /\ ProductListAgrees /\ ProductEditorAgrees /\ ProductSentAgrees

\* What the products use of the constants.
LEMMA ProductConstants ==
  /\ None \notin X /\ None \notin Z /\ ProductLoads \in Nat \ {0}
  /\ None \notin {"idle", "saving", "quick", "deleting", "product", "image", "publication", "sent", "done", "shop", "new", "none"}
  /\ None \notin [is : Z \cup {None}]
  BY ConsoleAssumption DEF Catalogue!ProductDeskAssumption

LEMMA ProductRecords ==
  ASSUME ProductInv
  PROVE  /\ load \in ProductLoadRecord /\ load.sent \subseteq ProductReadRecord
         /\ load.seq \in 1..ProductLoads /\ load.loading \in BOOLEAN
         /\ load.error \in BOOLEAN /\ pOp \in ProductOpRecord /\ typed \in ProductFields
         /\ written \in ProductFields
         /\ Catalogue!Closed.id = None /\ (editor.id # None => editor # Catalogue!Closed)
         /\ (editor # Catalogue!Closed => editor \in ProductEditorRecord /\ editor.id \in X /\ editor.id # None /\ editor.row \in Catalogue!Row)
         /\ (Catalogue!Busy => pOp.id \in X /\ pOp.stage \in {"product", "image", "publication"} /\ pOp.state \in {"sent", "done", "shop"})
         /\ (~Catalogue!Busy => pOp.state = None /\ pOp.stage = None)
         /\ (Catalogue!IsDirty(editor) => editor # Catalogue!Closed)
  BY ProductConstants DEF ProductInv, ProductTyped, ProductOpAgrees, ProductLoadRecord, Catalogue!Closed,
     ProductEditorRecord, ProductOpRecord, Catalogue!Busy, Catalogue!IsDirty

LEMMA ProductLoadsAgain ==
  ASSUME ProductInv, NEW readings \in SUBSET ProductReadRecord, Catalogue!LoadAgain(readings)
  PROVE  /\ load' \in ProductLoadRecord /\ load'.seq = load.seq + 1 /\ load'.loading /\ ~load'.error
         /\ \A r \in load'.sent : r \in readings \/ r.fresh
         /\ \A r \in load'.sent : r \in readings \/ r.n = load.seq + 1
<1> DEFINE new == [n |-> load.seq + 1, got |-> None, fresh |-> TRUE]
           more == readings \cup {new}
<1>1. /\ load.seq \in 1..ProductLoads /\ load.seq < ProductLoads /\ load.seq + 1 \in 1..ProductLoads
      /\ load \in ProductLoadRecord
  BY ProductRecords, ProductConstants DEF Catalogue!LoadAgain
<1>2. new \in ProductReadRecord /\ new.fresh /\ new.n = load.seq + 1
  BY <1>1, ProductConstants DEF ProductReadRecord
<1>3. load' = [load EXCEPT !.seq = load.seq + 1, !.loading = TRUE, !.error = FALSE, !.sent = more]
  BY <1>1 DEF Catalogue!LoadAgain, ProductLoadRecord
<1>4. more \in SUBSET ProductReadRecord
  BY <1>2
<1>5. \A m \in SUBSET ProductReadRecord, k \in 1..ProductLoads :
        LET l == [load EXCEPT !.seq = k, !.loading = TRUE, !.error = FALSE, !.sent = m] IN
        l \in ProductLoadRecord /\ l.seq = k /\ l.loading /\ ~l.error /\ l.sent = m
  BY <1>1 DEF ProductLoadRecord
<1> HIDE DEF more
<1>6. /\ load' \in ProductLoadRecord /\ load'.seq = load.seq + 1 /\ load'.loading /\ ~load'.error
      /\ load'.sent = more
  BY <1>1, <1>3, <1>4, <1>5
<1> QED
  BY <1>2, <1>6 DEF more

\* After a render the list agrees again.
LEMMA ProductRendered ==
  ASSUME ProductInv, Catalogue!AfterRender, pOp'.state # "done"
  PROVE  ProductListAgrees' /\ load' \in ProductLoadRecord /\ pList' = pList /\ deferred' \in BOOLEAN
<1> DEFINE quiet == ~Catalogue!IsDirty(editor') /\ pOp'.kind = "idle" /\ candidate' = None
<1>1. \/ quiet /\ deferred /\ deferred' = FALSE /\ Catalogue!StartLoad /\ pList' = pList
      \/ quiet /\ deferred' = FALSE /\ pList' = pList /\ load' = load /\ ~deferred
      \/ ~quiet /\ UNCHANGED <<pList, load, deferred>>
  BY DEF Catalogue!AfterRender, Catalogue!RunsDeferred, Catalogue!page
<1>2. CASE quiet /\ deferred /\ deferred' = FALSE /\ Catalogue!StartLoad /\ pList' = pList
  <2>1. /\ load' \in ProductLoadRecord /\ load'.seq = load.seq + 1 /\ load'.loading
        /\ \A r \in load'.sent : r \in load.sent \/ r.fresh
        /\ \A r \in load'.sent : r \in load.sent \/ r.n = load.seq + 1
    BY <1>2, ProductRecords, ProductLoadsAgain DEF Catalogue!StartLoad
  <2>2. \A r \in load.sent : r.n \in Nat /\ r.n <= load.seq
    BY ProductRecords DEF ProductInv, ProductListAgrees, ProductReadRecord
  <2>3. ~deferred' /\ deferred' \in BOOLEAN
    BY <1>2
  <2>4. load.seq \in Nat
    BY ProductRecords, ProductConstants
  <2>5. \A r \in load'.sent : r.n <= load'.seq /\ (r.n = load'.seq => r.fresh)
    BY <2>1, <2>2, <2>4
  <2>6. ~Catalogue!Listed'
    BY <2>1 DEF Catalogue!Listed
  <2> QED
    BY <1>2, <2>1, <2>3, <2>5, <2>6 DEF ProductListAgrees
<1>3. CASE quiet /\ deferred' = FALSE /\ pList' = pList /\ load' = load /\ ~deferred
  <2>1. ~deferred' /\ deferred' \in BOOLEAN
    BY <1>3
  <2> QED
    BY <1>3, <2>1 DEF ProductInv, ProductTyped, ProductListAgrees, Catalogue!Listed
<1>4. CASE ~quiet /\ UNCHANGED <<pList, load, deferred>>
  BY <1>4 DEF ProductInv, ProductTyped, ProductListAgrees, Catalogue!Listed, Catalogue!Busy
<1> QED
  BY <1>1, <1>2, <1>3, <1>4

LEMMA ProductRefreshKeeps == ASSUME ProductInv, Catalogue!Refresh PROVE ProductInv'
<1> DEFINE readings == {[r EXCEPT !.fresh = r.got = None] : r \in load.sent}
<1>1. /\ pList' = [p \in X |-> [pList[p] EXCEPT !.fresh = FALSE]] /\ pOp' = [pOp EXCEPT !.fresh = FALSE]
      /\ IF Catalogue!IsDirty(editor) \/ Catalogue!Busy \/ candidate # None
         THEN deferred' = TRUE /\ load' = [load EXCEPT !.sent = readings]
         ELSE deferred' = deferred /\ Catalogue!LoadAgain(readings)
      /\ UNCHANGED <<pRows, pOthers, editor, asking, candidate, pCalls, edits, typed, written, pCrossed>>
  BY DEF Catalogue!Refresh, Catalogue!server, Catalogue!history
<1>2. /\ pOp' \in ProductOpRecord /\ pOp'.kind = pOp.kind /\ pOp'.stage = pOp.stage /\ pOp'.id = pOp.id
      /\ pOp'.body = pOp.body
      /\ pOp'.state = pOp.state /\ pOp'.got = pOp.got
  BY <1>1, ProductRecords DEF ProductOpRecord
<1>3. readings \in SUBSET ProductReadRecord /\ \A r \in readings : \E x \in load.sent : r.n = x.n
  <2>1. \A r \in ProductReadRecord, b \in BOOLEAN : [r EXCEPT !.fresh = b] \in ProductReadRecord /\ [r EXCEPT !.fresh = b].n = r.n
    BY DEF ProductReadRecord
  <2>2. \A r \in load.sent : [r EXCEPT !.fresh = r.got = None] \in ProductReadRecord /\ [r EXCEPT !.fresh = r.got = None].n = r.n
    BY <2>1, ProductRecords
  <2> QED
    BY <2>2
<1>4. pList' \in [X -> [row : Catalogue!Row, fresh : BOOLEAN]]
  <2>1. \A x \in [row : Catalogue!Row,
                  fresh : BOOLEAN] : [x EXCEPT !.fresh = FALSE] \in [row : Catalogue!Row, fresh : BOOLEAN]
    OBVIOUS
  <2> QED
    BY <1>1, <2>1 DEF ProductInv, ProductTyped
<1> HIDE DEF readings
<1>5. load.seq \in Nat /\ \A r \in readings : r.n \in Nat /\ r.n <= load.seq
  BY <1>3, ProductRecords, ProductConstants DEF ProductInv, ProductListAgrees, ProductReadRecord
<1>6. CASE /\ deferred' = TRUE /\ load' = [load EXCEPT !.sent = readings]
           /\ (Catalogue!IsDirty(editor) \/ Catalogue!Busy \/ candidate # None)
  <2>1. load' \in ProductLoadRecord /\ load'.seq = load.seq /\ load'.sent = readings
    BY <1>3, <1>6, ProductRecords DEF ProductLoadRecord
  <2>2. deferred' /\ deferred' \in BOOLEAN
    BY <1>6
  <2>3. ProductListAgrees'
    BY <1>1, <1>2, <1>5, <1>6, <2>1, <2>2 DEF ProductListAgrees, Catalogue!Busy
  <2>4. ProductTyped'
    BY <1>1, <1>2, <1>4, <2>1, <2>2 DEF ProductInv, ProductTyped
  <2> QED
    BY <1>1, <1>2, <2>3, <2>4 DEF ProductInv, ProductOpAgrees, ProductEditorAgrees, ProductSentAgrees,
       ProductNameKept, ProductTextKept, ProductPictureKept, ProductChangesAreTyped, ProductWritten
<1>7. CASE /\ deferred' = deferred /\ Catalogue!LoadAgain(readings) /\ ~Catalogue!IsDirty(editor)
           /\ ~Catalogue!Busy /\ candidate = None
  <2>1. /\ load' \in ProductLoadRecord /\ load'.seq = load.seq + 1 /\ load'.loading
        /\ \A r \in load'.sent : r \in readings \/ r.fresh
        /\ \A r \in load'.sent : r \in readings \/ r.n = load.seq + 1
    BY <1>3, <1>7, ProductLoadsAgain
  <2>2. \A r \in load'.sent : r.n <= load'.seq /\ (r.n = load'.seq => r.fresh)
    BY <1>5, <2>1
  <2>3. ~Catalogue!Listed' /\ pOp'.state # "done"
    BY <1>2, <1>7, <2>1, ProductRecords, ProductConstants DEF Catalogue!Listed
  <2>4. ProductListAgrees'
    BY <1>1, <1>2, <1>7, <2>2, <2>3 DEF ProductInv, ProductListAgrees, Catalogue!Busy
  <2>5. ProductTyped'
    BY <1>1, <1>2, <1>4, <1>7, <2>1 DEF ProductInv, ProductTyped
  <2> QED
    BY <1>1, <1>2, <2>4, <2>5 DEF ProductInv, ProductOpAgrees, ProductEditorAgrees, ProductSentAgrees,
       ProductNameKept, ProductTextKept, ProductPictureKept, ProductChangesAreTyped, ProductWritten
<1> QED
  BY <1>1, <1>6, <1>7

\* The editor and the operation stay: what was put, and what is sent, agree as before.
LEMMA ProductEditorStays ==
  ASSUME ProductInv, UNCHANGED <<editor, pOp, typed, written, pCrossed>>
  PROVE  ProductOpAgrees' /\ ProductEditorAgrees' /\ ProductSentAgrees'
  BY DEF ProductInv, ProductOpAgrees, ProductEditorAgrees, ProductSentAgrees, ProductNameKept,
     ProductTextKept, ProductPictureKept, ProductChangesAreTyped, ProductWritten

LEMMA ProductRetryLoadKeeps == ASSUME ProductInv, Catalogue!RetryLoad PROVE ProductInv'
<1>1. /\ Catalogue!LoadAgain(load.sent)
      /\ UNCHANGED <<pRows, pOthers, pList, deferred, editor, asking, candidate, pOp, pCalls, edits, typed,
                     written, pCrossed>>
  BY DEF Catalogue!RetryLoad, Catalogue!StartLoad, Catalogue!server, Catalogue!history
<1>2. /\ load' \in ProductLoadRecord /\ load'.seq = load.seq + 1 /\ load'.loading
      /\ \A r \in load'.sent : r \in load.sent \/ r.fresh
      /\ \A r \in load'.sent : r \in load.sent \/ r.n = load.seq + 1
  BY <1>1, ProductRecords, ProductLoadsAgain
<1>3. load.seq \in Nat /\ \A r \in load.sent : r.n \in Nat /\ r.n <= load.seq
  BY ProductRecords, ProductConstants DEF ProductInv, ProductListAgrees, ProductReadRecord
<1>4. \A r \in load'.sent : r.n <= load'.seq /\ (r.n = load'.seq => r.fresh)
  BY <1>2, <1>3
<1>5. ~Catalogue!Listed'
  BY <1>2 DEF Catalogue!Listed
<1>6. ProductListAgrees'
  BY <1>1, <1>4, <1>5 DEF ProductInv, ProductListAgrees, Catalogue!Busy
<1>7. ProductTyped'
  BY <1>1, <1>2 DEF ProductInv, ProductTyped
<1> QED
  BY <1>1, <1>6, <1>7, ProductEditorStays DEF ProductInv

LEMMA ProductServeKeeps == ASSUME ProductInv, Catalogue!Serve PROVE ProductInv'
<1>1. PICK r \in load.sent :
        /\ r.got = None /\ load' = [load EXCEPT !.sent = (load.sent \ {r}) \cup {[r EXCEPT !.got = pRows]}]
        /\ UNCHANGED <<pRows, pOthers, pList, deferred, editor, asking, candidate, pOp, pCalls, edits, typed,
                       written, pCrossed>>
  BY ProductRecords DEF Catalogue!Serve, Catalogue!server, Catalogue!history, ProductLoadRecord
<1> DEFINE q == [r EXCEPT !.got = pRows]
           readings == (load.sent \ {r}) \cup {q}
<1>2. r \in ProductReadRecord /\ pRows \in [X -> Catalogue!Row]
  BY <1>1, ProductRecords DEF ProductInv, ProductTyped
<1>3. q \in ProductReadRecord /\ q.n = r.n /\ q.fresh = r.fresh
  BY <1>2 DEF ProductReadRecord
<1> HIDE DEF q
<1>4. readings \in SUBSET ProductReadRecord
  BY <1>3, ProductRecords
<1>5. \A m \in SUBSET ProductReadRecord : LET l == [load EXCEPT !.sent = m] IN
        l \in ProductLoadRecord /\ l.seq = load.seq /\ l.loading = load.loading /\ l.error = load.error /\ l.sent = m
  BY ProductRecords DEF ProductLoadRecord
<1>6. /\ load' \in ProductLoadRecord /\ load'.seq = load.seq /\ load'.loading = load.loading
      /\ load'.error = load.error /\ load'.sent = readings
  BY <1>1, <1>4, <1>5 DEF q
<1>7. ProductListAgrees'
  BY <1>1, <1>3, <1>6 DEF ProductInv, ProductListAgrees, Catalogue!Busy, Catalogue!Listed
<1>8. ProductTyped'
  BY <1>1, <1>6 DEF ProductInv, ProductTyped
<1> QED
  BY <1>1, <1>7, <1>8, ProductEditorStays DEF ProductInv

LEMMA ProductLoadAnswerKeeps == ASSUME ProductInv, Catalogue!LoadAnswer PROVE ProductInv'
<1>1. PICK r \in load.sent :
    /\ \/ /\ r.got # None
          /\ pList' = IF Catalogue!IsLast(r) THEN [p \in X |-> [row |-> r.got[p],
                                                                fresh |-> r.fresh]] ELSE pList
          /\ load' = [load EXCEPT !.sent = @ \ {r}, !.loading = IF Catalogue!IsLast(r) THEN FALSE ELSE @]
       \/ /\ pList' = pList
          /\ load' = [load EXCEPT !.sent = @ \ {r}, !.loading = IF Catalogue!IsLast(r) THEN FALSE ELSE @,
                                  !.error = @ \/ Catalogue!IsLast(r)]
    /\ UNCHANGED <<pRows, pOthers, deferred, editor, asking, candidate, pOp, pCalls, edits, typed, written,
                   pCrossed>>
  BY DEF Catalogue!LoadAnswer, Catalogue!server, Catalogue!history
<1>2. r \in ProductReadRecord /\ load.sent \ {r} \in SUBSET ProductReadRecord
  BY <1>1, ProductRecords
<1> DEFINE m == load.sent \ {r}
           b == IF Catalogue!IsLast(r) THEN FALSE ELSE load.loading
           e == load.error \/ Catalogue!IsLast(r)
<1>3. m \in SUBSET ProductReadRecord /\ m \subseteq load.sent
  BY <1>2
<1>4. /\ b \in BOOLEAN /\ e \in BOOLEAN /\ (~b => Catalogue!IsLast(r) \/ ~load.loading)
      /\ (~e => ~load.error /\ ~Catalogue!IsLast(r))
  BY ProductRecords
<1>7. LET l == [load EXCEPT !.sent = m, !.loading = b] IN
      ((b \in BOOLEAN /\ m \in SUBSET ProductReadRecord) => l \in ProductLoadRecord) /\ l.seq = load.seq /\ l.loading = b /\ l.error = load.error /\ l.sent = m
  <2> HIDE DEF m, b, e
  <2> QED
    BY ProductRecords DEF ProductLoadRecord
<1>8. LET l == [load EXCEPT !.sent = m, !.loading = b, !.error = e] IN
      ((b \in BOOLEAN /\ e \in BOOLEAN /\ m \in SUBSET ProductReadRecord) => l \in ProductLoadRecord) /\ l.seq = load.seq /\ l.loading = b /\ l.error = e /\ l.sent = m
  <2> HIDE DEF m, b, e
  <2> QED
    BY ProductRecords DEF ProductLoadRecord
<1> HIDE DEF b, e, m
<1>5. CASE /\ r.got # None
           /\ pList' = IF Catalogue!IsLast(r) THEN [p \in X |-> [row |-> r.got[p],
                                                                 fresh |-> r.fresh]] ELSE pList
           /\ load' = [load EXCEPT !.sent = @ \ {r}, !.loading = IF Catalogue!IsLast(r) THEN FALSE ELSE @]
  <2>1. load' = [load EXCEPT !.sent = m, !.loading = b]
    BY <1>5, ProductRecords DEF b, m, ProductLoadRecord
  <2>2. /\ load' \in ProductLoadRecord /\ load'.seq = load.seq /\ load'.loading = b
        /\ load'.error = load.error /\ load'.sent = m
    BY <1>3, <1>4, <1>7, <1>8, <2>1
  <2>3. pList' \in [X -> [row : Catalogue!Row, fresh : BOOLEAN]]
    BY <1>2, <1>5 DEF ProductReadRecord, ProductInv, ProductTyped
  <2>4. ProductTyped'
    BY <1>1, <2>2, <2>3 DEF ProductInv, ProductTyped
  <2>5. ~deferred /\ Catalogue!Listed' => \A p \in X : pList'[p].fresh
    BY <1>1, <1>4, <1>5, <2>2 DEF ProductInv, ProductListAgrees, Catalogue!Listed, Catalogue!IsLast
  <2>6. ProductListAgrees'
    BY <1>1, <1>3, <2>2, <2>5 DEF ProductInv, ProductListAgrees, Catalogue!Busy
  <2> QED
    BY <1>1, <2>4, <2>6, ProductEditorStays DEF ProductInv
<1>6. CASE /\ pList' = pList
           /\ load' = [load EXCEPT !.sent = @ \ {r}, !.loading = IF Catalogue!IsLast(r) THEN FALSE ELSE @,
                                   !.error = @ \/ Catalogue!IsLast(r)]
  <2>1. load' = [load EXCEPT !.sent = m, !.loading = b, !.error = e]
    BY <1>6, ProductRecords DEF b, e, m, ProductLoadRecord
  <2>2. /\ load' \in ProductLoadRecord /\ load'.seq = load.seq /\ load'.loading = b /\ load'.error = e
        /\ load'.sent = m
    BY <1>3, <1>4, <1>7, <1>8, <2>1
  <2>3. ProductTyped'
    BY <1>1, <1>6, <2>2 DEF ProductInv, ProductTyped
  <2>4. ~deferred /\ Catalogue!Listed' => \A p \in X : pList'[p].fresh
    BY <1>1, <1>4, <1>6, <2>2 DEF ProductInv, ProductListAgrees, Catalogue!Listed, Catalogue!IsLast
  <2>5. ProductListAgrees'
    BY <1>1, <1>3, <2>2, <2>4 DEF ProductInv, ProductListAgrees, Catalogue!Busy
  <2> QED
    BY <1>1, <2>3, <2>5, ProductEditorStays DEF ProductInv
<1> QED
  BY <1>1, <1>5, <1>6

\* The editor of another product, or none: what was put in the one before was discarded.
LEMMA ProductOpens ==
  ASSUME ProductInv, NEW p \in X, NEW row \in Catalogue!Row, Catalogue!OpenEdit(p, row), pOp' = pOp,
         ~Catalogue!Busy
  PROVE  /\ ProductOpAgrees' /\ ProductEditorAgrees' /\ ProductSentAgrees' /\ editor' \in ProductEditorRecord
         /\ ~Catalogue!IsDirty(editor')
         /\ asking' = None /\ candidate' = None /\ typed' \in ProductFields /\ written' \in ProductFields
         /\ pCrossed' \in BOOLEAN
<1>1. /\ editor' = Catalogue!Opened(p, row) /\ asking' = None /\ candidate' = None
      /\ typed' = Catalogue!Nothing /\ written' = Catalogue!Nothing /\ pCrossed' = FALSE
  BY DEF Catalogue!OpenEdit
<1>2. /\ editor' \in ProductEditorRecord /\ editor'.id = p /\ editor'.row = row /\ editor'.name = row.name
      /\ ~editor'.reset
      /\ editor'.text = row.text /\ ~editor'.put /\ ~editor'.remove
  BY <1>1 DEF Catalogue!Opened, ProductEditorRecord, Catalogue!Row, ProductText
<1>3. /\ typed' \in ProductFields /\ typed'.name = None /\ typed'.text = None /\ typed'.image = None
      /\ written' \in ProductFields
  BY <1>1 DEF Catalogue!Nothing, ProductFields, ProductChanged, ProductPicture
<1>4. ProductEditorAgrees' /\ ~Catalogue!IsDirty(editor')
  BY <1>2, <1>3 DEF ProductEditorAgrees, ProductNameKept, ProductTextKept, ProductPictureKept,
     ProductChangesAreTyped, Catalogue!NameChanged, Catalogue!TextChanged, Catalogue!IsDirty
<1>5. pOp.state = None /\ pOp.stage = None /\ pCrossed' \in BOOLEAN
  BY <1>1, ProductRecords
<1>6. ProductOpAgrees' /\ ProductSentAgrees'
  BY <1>5, ProductConstants DEF ProductInv, ProductOpAgrees, ProductSentAgrees, Catalogue!Busy
<1> QED
  BY <1>1, <1>2, <1>3, <1>4, <1>5, <1>6

LEMMA ProductCloses ==
  ASSUME ProductInv, Catalogue!CloseEditor, pOp' = pOp, ~Catalogue!Busy
  PROVE  /\ ProductOpAgrees' /\ ProductEditorAgrees' /\ ProductSentAgrees' /\ editor' = Catalogue!Closed
         /\ ~Catalogue!IsDirty(editor')
         /\ asking' = None /\ typed' \in ProductFields /\ written' \in ProductFields /\ pCrossed' \in BOOLEAN
<1>1. /\ editor' = Catalogue!Closed /\ asking' = None /\ typed' = Catalogue!Nothing
      /\ written' = Catalogue!Nothing /\ pCrossed' = FALSE
  BY DEF Catalogue!CloseEditor
<1>2. typed' \in ProductFields /\ written' \in ProductFields
  BY <1>1 DEF Catalogue!Nothing, ProductFields, ProductChanged, ProductPicture
<1>3. ProductEditorAgrees' /\ ~Catalogue!IsDirty(editor')
  BY <1>1 DEF ProductEditorAgrees, Catalogue!IsDirty, Catalogue!Closed
<1>4. pOp.state = None /\ pOp.stage = None /\ pCrossed' \in BOOLEAN
  BY <1>1, ProductRecords
<1>5. ProductOpAgrees' /\ ProductSentAgrees'
  BY <1>4, ProductConstants DEF ProductInv, ProductOpAgrees, ProductSentAgrees, Catalogue!Busy
<1> QED
  BY <1>1, <1>2, <1>3, <1>4, <1>5

LEMMA ProductRequestEditKeeps == ASSUME ProductInv, NEW p \in X, Catalogue!RequestEdit(p) PROVE ProductInv'
<1>1. /\ ~Catalogue!Busy /\ candidate = None /\ pOp' = pOp
      /\ UNCHANGED <<pRows, pOthers, pList, load, deferred, pCalls, edits>>
  BY DEF Catalogue!RequestEdit, Catalogue!server, Catalogue!page
<1>2. pList[p].row \in Catalogue!Row
  BY DEF ProductInv, ProductTyped
<1>3. CASE /\ Catalogue!IsDirty(editor) /\ asking' = [edit |-> p, row |-> pList[p].row]
           /\ UNCHANGED <<editor, candidate, typed, written, pCrossed>>
  <2>1. asking' \in ProductAsked
    BY <1>2, <1>3 DEF ProductAsked
  <2>2. ProductTyped'
    BY <1>1, <1>3, <2>1 DEF ProductInv, ProductTyped
  <2>3. ProductListAgrees'
    BY <1>1, <1>3 DEF ProductInv, ProductListAgrees, Catalogue!Listed, Catalogue!Busy
  <2> QED
    BY <1>1, <1>3, <2>2, <2>3, ProductEditorStays DEF ProductInv
<1>4. CASE ~Catalogue!IsDirty(editor) /\ Catalogue!OpenEdit(p, pList[p].row)
  <2>1. /\ ProductOpAgrees' /\ ProductEditorAgrees' /\ ProductSentAgrees' /\ editor' \in ProductEditorRecord
        /\ ~Catalogue!IsDirty(editor')
        /\ asking' = None /\ candidate' = None /\ typed' \in ProductFields /\ written' \in ProductFields
        /\ pCrossed' \in BOOLEAN
    BY <1>1, <1>2, <1>4, ProductOpens
  <2>2. ProductTyped'
    BY <1>1, <2>1 DEF ProductInv, ProductTyped
  <2>3. ProductListAgrees'
    BY <1>1, <1>4 DEF ProductInv, ProductListAgrees, Catalogue!Listed, Catalogue!Busy
  <2> QED
    BY <2>1, <2>2, <2>3 DEF ProductInv
<1> QED
  BY <1>3, <1>4 DEF Catalogue!RequestEdit

LEMMA ProductRequestCloseKeeps == ASSUME ProductInv, Catalogue!RequestClose PROVE ProductInv'
<1>1. /\ ~Catalogue!Busy /\ pOp' = pOp /\ candidate' = candidate
      /\ UNCHANGED <<pRows, pOthers, pList, load, deferred, pCalls, edits>>
  BY DEF Catalogue!RequestClose, Catalogue!server, Catalogue!page
<1>2. CASE /\ Catalogue!IsDirty(editor) /\ asking' = [edit |-> None]
           /\ UNCHANGED <<editor, typed, written, pCrossed>>
  <2>1. asking' \in ProductAsked
    BY <1>2 DEF ProductAsked
  <2>2. ProductTyped'
    BY <1>1, <1>2, <2>1 DEF ProductInv, ProductTyped
  <2>3. ProductListAgrees'
    BY <1>1, <1>2 DEF ProductInv, ProductListAgrees, Catalogue!Listed, Catalogue!Busy
  <2> QED
    BY <1>1, <1>2, <2>2, <2>3, ProductEditorStays DEF ProductInv
<1>3. CASE ~Catalogue!IsDirty(editor) /\ Catalogue!CloseEditor
  <2>1. /\ ProductOpAgrees' /\ ProductEditorAgrees' /\ ProductSentAgrees' /\ editor' = Catalogue!Closed
        /\ ~Catalogue!IsDirty(editor')
        /\ asking' = None /\ typed' \in ProductFields /\ written' \in ProductFields /\ pCrossed' \in BOOLEAN
    BY <1>1, <1>3, ProductCloses
  <2>2. ProductTyped'
    BY <1>1, <2>1 DEF ProductInv, ProductTyped
  <2>3. ProductListAgrees'
    BY <1>1, <1>3 DEF ProductInv, ProductListAgrees, Catalogue!Listed, Catalogue!Busy
  <2> QED
    BY <2>1, <2>2, <2>3 DEF ProductInv
<1> QED
  BY <1>2, <1>3 DEF Catalogue!RequestClose

LEMMA ProductDiscardKeeps == ASSUME ProductInv, Catalogue!Discard PROVE ProductInv'
<1>1. /\ asking # None /\ ~Catalogue!Busy /\ pOp' = pOp /\ Catalogue!AfterRender
      /\ UNCHANGED <<pRows, pOthers, pCalls, edits>>
  BY DEF Catalogue!Discard, Catalogue!server
<1>2. pOp'.state # "done" /\ asking \in ProductAsked
  BY <1>1, ProductRecords, ProductConstants DEF ProductInv, ProductTyped
<1>3. ProductListAgrees' /\ load' \in ProductLoadRecord /\ pList' = pList /\ deferred' \in BOOLEAN
  BY <1>1, <1>2, ProductRendered
<1>4. CASE asking.edit # None /\ Catalogue!OpenEdit(asking.edit, asking.row)
  <2>1. PICK p \in X : asking.edit = p
    BY <1>2, <1>4 DEF ProductAsked
  <2>2. asking.row \in Catalogue!Row
    BY <1>2, <1>4 DEF ProductAsked
  <2>3. PICK row \in Catalogue!Row : asking.row = row
    BY <2>2
  <2>4. /\ ProductOpAgrees' /\ ProductEditorAgrees' /\ ProductSentAgrees' /\ editor' \in ProductEditorRecord
        /\ ~Catalogue!IsDirty(editor')
        /\ asking' = None /\ candidate' = None /\ typed' \in ProductFields /\ written' \in ProductFields
        /\ pCrossed' \in BOOLEAN
    BY <1>1, <1>4, <2>1, <2>3, ProductOpens
  <2>5. ProductTyped'
    BY <1>1, <1>3, <2>4 DEF ProductInv, ProductTyped
  <2> QED
    BY <1>3, <2>4, <2>5 DEF ProductInv
<1>5. CASE Catalogue!CloseEditor /\ UNCHANGED candidate
  <2>1. /\ ProductOpAgrees' /\ ProductEditorAgrees' /\ ProductSentAgrees' /\ editor' = Catalogue!Closed
        /\ ~Catalogue!IsDirty(editor')
        /\ asking' = None /\ typed' \in ProductFields /\ written' \in ProductFields /\ pCrossed' \in BOOLEAN
    BY <1>1, <1>5, ProductCloses
  <2>2. ProductTyped'
    BY <1>1, <1>3, <1>5, <2>1 DEF ProductInv, ProductTyped
  <2> QED
    BY <1>3, <2>1, <2>2 DEF ProductInv
<1> QED
  BY <1>4, <1>5 DEF Catalogue!Discard

LEMMA ProductKeepEditingKeeps == ASSUME ProductInv, Catalogue!KeepEditing PROVE ProductInv'
<1>1. /\ asking' = None
      /\ UNCHANGED <<pRows, pOthers, pList, load, deferred, editor, candidate, pOp, pCalls, edits, typed,
                     written, pCrossed>>
  BY DEF Catalogue!KeepEditing, Catalogue!server, Catalogue!page, Catalogue!history
<1>2. ProductTyped'
  BY <1>1 DEF ProductInv, ProductTyped
<1>3. ProductListAgrees'
  BY <1>1 DEF ProductInv, ProductListAgrees, Catalogue!Listed, Catalogue!Busy
<1> QED
  BY <1>1, <1>2, <1>3, ProductEditorStays DEF ProductInv

\* One field of the editor: the other two, and the operation, are as they were.
LEMMA ProductPuts ==
  ASSUME ProductInv, NEW e \in ProductEditorRecord, NEW field \in {"name", "text", "image"}, NEW value,
         Catalogue!Put(e, field, value),
         e.id = editor.id, typed' \in ProductFields, written' \in ProductFields, ProductEditorAgrees'
  PROVE  ProductInv'
<1>1. /\ editor # Catalogue!Closed /\ ~Catalogue!Busy /\ editor' = e /\ Catalogue!AfterRender
      /\ UNCHANGED <<pRows, pOthers, asking, candidate, pOp, pCrossed, pCalls>>
  BY ProductRecords DEF Catalogue!Put, Catalogue!server
<1>2. pOp'.state # "done" /\ pOp.stage = None /\ pOp.state = None
  BY <1>1, ProductRecords, ProductConstants
<1>3. ProductListAgrees' /\ load' \in ProductLoadRecord /\ pList' = pList /\ deferred' \in BOOLEAN
  BY <1>1, <1>2, ProductRendered
<1>4. ProductTyped'
  BY <1>1, <1>3 DEF ProductInv, ProductTyped
<1>5. ProductOpAgrees' /\ ProductSentAgrees'
  BY <1>1, <1>2, ProductConstants DEF ProductInv, ProductOpAgrees, ProductSentAgrees, Catalogue!Busy
<1> QED
  BY <1>3, <1>4, <1>5 DEF ProductInv

\* What is typed over a name, and what was typed in the other fields.
LEMMA ProductNamePut ==
  ASSUME ProductInv, NEW n \in ProductText, NEW r \in BOOLEAN, NEW v \in ProductChanged, r => n = None,
         Catalogue!Put([editor EXCEPT !.name = n, !.reset = r], "name", v),
         v = IF ~r /\ editor.row.name = n THEN None ELSE [is |-> n]
  PROVE  ProductInv'
<1> DEFINE e == [editor EXCEPT !.name = n, !.reset = r]
<1>1. /\ editor.id # None /\ editor' = e /\ typed' = [typed EXCEPT !["name"] = v]
      /\ written' = [written EXCEPT !["name"] = None] /\ pCrossed' = pCrossed
  BY DEF Catalogue!Put
<1>2. /\ editor # Catalogue!Closed /\ editor \in ProductEditorRecord /\ typed \in ProductFields
      /\ written \in ProductFields
  BY <1>1, ProductRecords
<1>3. /\ e \in ProductEditorRecord /\ e.id = editor.id /\ e.row = editor.row /\ e.name = n /\ e.reset = r
      /\ e.text = editor.text
      /\ e.put = editor.put /\ e.remove = editor.remove
  BY <1>2 DEF ProductEditorRecord
<1> HIDE DEF e
<1>4. /\ typed' \in ProductFields /\ typed'.name = v /\ typed'.text = typed.text /\ typed'.image = typed.image
      /\ written' \in ProductFields /\ written'.name = None /\ written'.text = written.text
      /\ written'.image = written.image
  BY <1>1, <1>2 DEF ProductFields, ProductChanged
<1>5. v # None => v = [is |-> n] /\ (r \/ editor.row.name # n)
  OBVIOUS
<1>6. ProductEditorAgrees'
  <2>1. ProductNameKept'
    BY <1>1, <1>3, <1>4, <1>5 DEF ProductNameKept, Catalogue!NameChanged
  <2>2. ProductTextKept' /\ ProductPictureKept'
    BY <1>1, <1>2, <1>3, <1>4 DEF ProductInv, ProductEditorAgrees, ProductTextKept, ProductPictureKept,
       Catalogue!TextChanged
  <2>3. ProductChangesAreTyped'
    BY <1>1, <1>2, <1>3, <1>4 DEF ProductInv, ProductEditorAgrees, ProductChangesAreTyped,
       Catalogue!NameChanged, Catalogue!TextChanged
  <2> QED
    BY <2>1, <2>2, <2>3 DEF ProductEditorAgrees
<1> QED
  BY <1>3, <1>4, <1>6, ProductPuts DEF e

LEMMA ProductTextPut ==
  ASSUME ProductInv, NEW t \in ProductText, NEW v \in ProductChanged,
         Catalogue!Put([editor EXCEPT !.text = t], "text", v),
         v = IF editor.row.text = t THEN None ELSE [is |-> t]
  PROVE  ProductInv'
<1> DEFINE e == [editor EXCEPT !.text = t]
<1>1. /\ editor.id # None /\ editor' = e /\ typed' = [typed EXCEPT !["text"] = v]
      /\ written' = [written EXCEPT !["text"] = None] /\ pCrossed' = pCrossed
  BY DEF Catalogue!Put
<1>2. /\ editor # Catalogue!Closed /\ editor \in ProductEditorRecord /\ typed \in ProductFields
      /\ written \in ProductFields
  BY <1>1, ProductRecords
<1>3. /\ e \in ProductEditorRecord /\ e.id = editor.id /\ e.row = editor.row /\ e.name = editor.name
      /\ e.reset = editor.reset
      /\ e.text = t /\ e.put = editor.put /\ e.remove = editor.remove
  BY <1>2 DEF ProductEditorRecord
<1> HIDE DEF e
<1>4. /\ typed' \in ProductFields /\ typed'.text = v /\ typed'.name = typed.name /\ typed'.image = typed.image
      /\ written' \in ProductFields /\ written'.text = None /\ written'.name = written.name
      /\ written'.image = written.image
  BY <1>1, <1>2 DEF ProductFields, ProductChanged
<1>5. v # None => v = [is |-> t] /\ editor.row.text # t
  OBVIOUS
<1>6. ProductEditorAgrees'
  <2>1. ProductTextKept'
    BY <1>1, <1>3, <1>4, <1>5 DEF ProductTextKept, Catalogue!TextChanged
  <2>2. ProductNameKept' /\ ProductPictureKept'
    BY <1>1, <1>2, <1>3, <1>4 DEF ProductInv, ProductEditorAgrees, ProductNameKept, ProductPictureKept,
       Catalogue!NameChanged
  <2>3. ProductChangesAreTyped'
    BY <1>1, <1>2, <1>3, <1>4 DEF ProductInv, ProductEditorAgrees, ProductChangesAreTyped,
       Catalogue!NameChanged, Catalogue!TextChanged
  <2> QED
    BY <2>1, <2>2, <2>3 DEF ProductEditorAgrees
<1> QED
  BY <1>3, <1>4, <1>6, ProductPuts DEF e

LEMMA ProductPicturePut ==
  ASSUME ProductInv, NEW p \in BOOLEAN, NEW d \in BOOLEAN, NEW v \in ProductPicture,
         Catalogue!Put([editor EXCEPT !.put = p, !.remove = d], "image", v),
         v # None => IF v.is = "new" THEN p ELSE d
  PROVE  ProductInv'
<1> DEFINE e == [editor EXCEPT !.put = p, !.remove = d]
<1>1. /\ editor.id # None /\ editor' = e /\ typed' = [typed EXCEPT !["image"] = v]
      /\ written' = [written EXCEPT !["image"] = None] /\ pCrossed' = pCrossed
  BY DEF Catalogue!Put
<1>2. /\ editor # Catalogue!Closed /\ editor \in ProductEditorRecord /\ typed \in ProductFields
      /\ written \in ProductFields
  BY <1>1, ProductRecords
<1>3. /\ e \in ProductEditorRecord /\ e.id = editor.id /\ e.row = editor.row /\ e.name = editor.name
      /\ e.reset = editor.reset
      /\ e.text = editor.text /\ e.put = p /\ e.remove = d
  BY <1>2 DEF ProductEditorRecord
<1> HIDE DEF e
<1>4. /\ typed' \in ProductFields /\ typed'.image = v /\ typed'.name = typed.name /\ typed'.text = typed.text
      /\ written' \in ProductFields /\ written'.image = None /\ written'.name = written.name
      /\ written'.text = written.text
  BY <1>1, <1>2 DEF ProductFields, ProductPicture
<1>6. ProductEditorAgrees'
  <2>1. ProductPictureKept'
    BY <1>1, <1>3, <1>4 DEF ProductPictureKept
  <2>2. ProductNameKept' /\ ProductTextKept'
    BY <1>1, <1>2, <1>3, <1>4 DEF ProductInv, ProductEditorAgrees, ProductNameKept, ProductTextKept,
       Catalogue!NameChanged, Catalogue!TextChanged
  <2>3. ProductChangesAreTyped'
    BY <1>1, <1>2, <1>3, <1>4 DEF ProductInv, ProductEditorAgrees, ProductChangesAreTyped,
       Catalogue!NameChanged, Catalogue!TextChanged
  <2> QED
    BY <2>1, <2>2, <2>3 DEF ProductEditorAgrees
<1> QED
  BY <1>3, <1>4, <1>6, ProductPuts DEF e

LEMMA ProductTypeNameKeeps == ASSUME ProductInv, NEW w \in Z, Catalogue!TypeName(w) PROVE ProductInv'
<1> DEFINE v == IF editor.row.name = w THEN None ELSE [is |-> w]
<1>1. Catalogue!Put([editor EXCEPT !.name = w, !.reset = FALSE], "name", v)
  BY DEF Catalogue!TypeName
<1>2. v \in ProductChanged /\ w \in ProductText
  BY DEF ProductChanged, ProductText
<1> QED
  BY <1>1, <1>2, ProductNamePut

LEMMA ProductTypeTextKeeps ==
  ASSUME ProductInv, NEW w \in ProductText, Catalogue!TypeText(w)
  PROVE  ProductInv'
<1> DEFINE v == IF editor.row.text = w THEN None ELSE [is |-> w]
<1>1. Catalogue!Put([editor EXCEPT !.text = w], "text", v)
  BY DEF Catalogue!TypeText
<1>2. v \in ProductChanged
  BY DEF ProductChanged
<1> QED
  BY <1>1, <1>2, ProductTextPut

LEMMA ProductResetNameKeeps == ASSUME ProductInv, Catalogue!ResetName PROVE ProductInv'
<1>1. Catalogue!Put([editor EXCEPT !.name = None, !.reset = TRUE], "name", [is |-> None])
  BY DEF Catalogue!ResetName
<1>2. [is |-> None] \in ProductChanged /\ None \in ProductText
  BY DEF ProductChanged, ProductText
<1> QED
  BY <1>1, <1>2, ProductNamePut

LEMMA ProductSelectImageKeeps == ASSUME ProductInv, Catalogue!SelectImage PROVE ProductInv'
<1>1. Catalogue!Put([editor EXCEPT !.put = TRUE, !.remove = FALSE], "image", [is |-> "new"])
  BY DEF Catalogue!SelectImage
<1>2. [is |-> "new"] \in ProductPicture
  BY DEF ProductPicture
<1> QED
  BY <1>1, <1>2, ProductPicturePut

LEMMA ProductDiscardImageKeeps == ASSUME ProductInv, Catalogue!DiscardImage PROVE ProductInv'
<1>1. Catalogue!Put([editor EXCEPT !.put = FALSE], "image", None) /\ editor # Catalogue!Closed
  BY ProductRecords DEF Catalogue!DiscardImage
<1>2. editor \in ProductEditorRecord /\ editor.remove \in BOOLEAN /\ None \in ProductPicture
  BY <1>1, ProductRecords DEF ProductEditorRecord, ProductPicture
<1>3. [editor EXCEPT !.put = FALSE] = [editor EXCEPT !.put = FALSE, !.remove = editor.remove]
  BY <1>2 DEF ProductEditorRecord
<1>4. Catalogue!Put([editor EXCEPT !.put = FALSE, !.remove = editor.remove], "image", None)
  BY <1>1, <1>3, Zenon
<1>5. PICK d \in BOOLEAN : editor.remove = d
  BY <1>2
<1> QED
  BY <1>2, <1>4, <1>5, ProductPicturePut

LEMMA ProductToggleRemoveKeeps == ASSUME ProductInv, Catalogue!ToggleRemove PROVE ProductInv'
<1> DEFINE v == IF editor.remove THEN None ELSE [is |-> "none"]
<1>1. Catalogue!Put([editor EXCEPT !.remove = ~@], "image", v) /\ editor # Catalogue!Closed /\ ~editor.put
  BY ProductRecords DEF Catalogue!ToggleRemove
<1>2. editor \in ProductEditorRecord /\ editor.remove \in BOOLEAN /\ v \in ProductPicture
  BY <1>1, ProductRecords DEF ProductEditorRecord, ProductPicture
<1>3. [editor EXCEPT !.remove = ~@] = [editor EXCEPT !.put = FALSE, !.remove = ~editor.remove]
  BY <1>1, <1>2 DEF ProductEditorRecord
<1>4. Catalogue!Put([editor EXCEPT !.put = FALSE, !.remove = ~editor.remove], "image", v)
  BY <1>1, <1>3, Zenon
<1>5. PICK d \in BOOLEAN : d = (~editor.remove)
  BY <1>2
<1> HIDE DEF v
<1>6. v # None => IF v.is = "new" THEN FALSE ELSE d
  BY <1>5 DEF v
<1> QED
  BY <1>2, <1>4, <1>5, <1>6, ProductPicturePut

LEMMA ProductBodies ==
  ASSUME ProductInv, editor # Catalogue!Closed
  PROVE  /\ Catalogue!ContentBody(editor) \in ProductContent
         /\ Catalogue!ImageBody(editor) \in [image : {"new", "none"}]
         /\ (Catalogue!ContentBody(editor).name # None \/ ~Catalogue!NameChanged(editor))
         /\ (Catalogue!ContentBody(editor).text # None \/ ~Catalogue!TextChanged(editor))
<1>1. editor \in ProductEditorRecord
  BY ProductRecords
<1>2. editor.name \in ProductText /\ editor.text \in ProductText
  BY <1>1 DEF ProductEditorRecord
<1> DEFINE n == IF editor.reset THEN None ELSE editor.name
<1>3. /\ n \in ProductText /\ [is |-> n] \in ProductChanged /\ [is |-> n] # None
      /\ [is |-> editor.text] \in ProductChanged /\ [is |-> editor.text] # None
  BY <1>2, ProductConstants DEF ProductText, ProductChanged
<1>4. Catalogue!ImageBody(editor) \in [image : {"new", "none"}]
  BY DEF Catalogue!ImageBody
<1> DEFINE c == [name |-> IF Catalogue!NameChanged(editor) THEN [is |-> n] ELSE None,
                 text |-> IF Catalogue!TextChanged(editor) THEN [is |-> editor.text] ELSE None]
<1>5. /\ c \in ProductContent /\ (c.name # None \/ ~Catalogue!NameChanged(editor))
      /\ (c.text # None \/ ~Catalogue!TextChanged(editor))
  <2> HIDE DEF n
  <2> QED
    BY <1>3 DEF ProductContent, ProductChanged
<1> QED
  BY <1>4, <1>5 DEF Catalogue!ContentBody

LEMMA ProductIsCalled ==
  ASSUME NEW kind \in {"saving", "quick", "deleting"}, NEW stage \in {"product", "image", "publication"},
         NEW p \in X,
         NEW body, stage = "product" => body \in ProductContent, stage = "image" => body \in [image : {"new", "none"}],
         stage = "publication" => body \in [shown : BOOLEAN]
  PROVE  LET c == Catalogue!Call(kind, stage, p, body) IN
         /\ c \in ProductOpRecord /\ c.kind = kind /\ c.stage = stage /\ c.id = p /\ c.body = body
         /\ c.state = "sent"
         /\ c.kind # "idle" /\ c.got = None
<1>1. body \in {None} \cup ProductContent \cup [image : {"new", "none"}] \cup [shown : BOOLEAN]
  OBVIOUS
<1> QED
  BY <1>1 DEF Catalogue!Call, ProductOpRecord

LEMMA ProductSubmitKeeps == ASSUME ProductInv, Catalogue!Submit PROVE ProductInv'
<1>1. /\ ~Catalogue!Busy /\ Catalogue!IsDirty(editor)
      /\ UNCHANGED <<pRows, pOthers, pList, load, deferred, editor, asking, candidate, typed, written,
                     pCrossed>>
      /\ pOp' = IF Catalogue!NameChanged(editor) \/ Catalogue!TextChanged(editor)
               THEN Catalogue!Call("saving", "product", editor.id, Catalogue!ContentBody(editor))
               ELSE Catalogue!Call("saving", "image", editor.id, Catalogue!ImageBody(editor))
  BY DEF Catalogue!Submit, Catalogue!server, Catalogue!page, Catalogue!history
<1>2. editor # Catalogue!Closed /\ editor.id \in X
  BY <1>1, ProductRecords
<1>3. /\ pOp' \in ProductOpRecord /\ pOp'.kind = "saving" /\ pOp'.id = editor.id /\ pOp'.state = "sent"
      /\ \/ /\ pOp'.stage = "product" /\ pOp'.body \in ProductContent
            /\ pOp'.body.name # None \/ ~Catalogue!NameChanged(editor)
            /\ pOp'.body.text # None \/ ~Catalogue!TextChanged(editor)
         \/ /\ pOp'.stage = "image" /\ pOp'.body \in [image : {"new", "none"}] /\ ~Catalogue!NameChanged(editor) /\ ~Catalogue!TextChanged(editor)
  <2>1. CASE Catalogue!NameChanged(editor) \/ Catalogue!TextChanged(editor)
    <3>1. pOp' = Catalogue!Call("saving", "product", editor.id, Catalogue!ContentBody(editor))
      BY <1>1, <2>1
    <3>2. LET c == Catalogue!Call("saving", "product", editor.id, Catalogue!ContentBody(editor)) IN
          c \in ProductOpRecord /\ c.kind = "saving" /\ c.stage = "product" /\ c.id = editor.id /\ c.body = Catalogue!ContentBody(editor) /\ c.state = "sent"
      BY <1>2, ProductBodies, ProductIsCalled
    <3> QED
      BY <1>2, <3>1, <3>2, ProductBodies
  <2>2. CASE ~(Catalogue!NameChanged(editor) \/ Catalogue!TextChanged(editor))
    <3>1. pOp' = Catalogue!Call("saving", "image", editor.id, Catalogue!ImageBody(editor))
      BY <1>1, <2>2
    <3>2. LET c == Catalogue!Call("saving", "image", editor.id, Catalogue!ImageBody(editor)) IN
          c \in ProductOpRecord /\ c.kind = "saving" /\ c.stage = "image" /\ c.id = editor.id /\ c.body = Catalogue!ImageBody(editor) /\ c.state = "sent"
      BY <1>2, ProductBodies, ProductIsCalled
    <3> QED
      BY <1>2, <2>2, <3>1, <3>2, ProductBodies
  <2> QED
    BY <2>1, <2>2
<1>4. /\ (Catalogue!NameChanged(editor) \/ ProductWritten("name"))
      /\ (Catalogue!TextChanged(editor) \/ ProductWritten("text"))
  BY <1>2 DEF ProductInv, ProductEditorAgrees, ProductNameKept, ProductTextKept, ProductWritten
<1>5. ProductSentAgrees'
  BY <1>1, <1>3, <1>4 DEF ProductSentAgrees, ProductWritten
<1>6. ProductOpAgrees'
  BY <1>1, <1>2, <1>3, ProductConstants DEF ProductOpAgrees
<1>7. ProductListAgrees'
  BY <1>1, <1>3 DEF ProductInv, ProductListAgrees, Catalogue!Listed, Catalogue!Busy
<1>8. ProductTyped'
  BY <1>1, <1>3 DEF ProductInv, ProductTyped
<1>9. ProductEditorAgrees'
  BY <1>1 DEF ProductInv, ProductEditorAgrees, ProductNameKept, ProductTextKept, ProductPictureKept,
     ProductChangesAreTyped
<1> QED
  BY <1>5, <1>6, <1>7, <1>8, <1>9 DEF ProductInv

\* Hiding or showing: the editor is clean, what was put in it is written.
LEMMA ProductPublishesKeeps ==
  ASSUME ProductInv, NEW kind \in {"quick", "deleting"}, NEW p \in X, NEW shown \in BOOLEAN,
         ~Catalogue!Busy, ~Catalogue!IsDirty(editor), pOp' = Catalogue!Call(kind, "publication", p, [shown |-> shown]),
         UNCHANGED <<pRows, pOthers, pList, load, deferred, editor, asking, candidate, typed, written, pCrossed>>
  PROVE  ProductInv'
<1>1. /\ pOp' \in ProductOpRecord /\ pOp'.kind = kind /\ pOp'.stage = "publication" /\ pOp'.id = p
      /\ pOp'.body \in [shown : BOOLEAN]
      /\ pOp'.state = "sent" /\ pOp'.kind # "idle"
  <2>1. [shown |-> shown] \in [shown : BOOLEAN]
    OBVIOUS
  <2> QED
    BY <2>1, ProductIsCalled
<1>2. editor # Catalogue!Closed => ~Catalogue!NameChanged(editor) /\ ~Catalogue!TextChanged(editor)
  BY ProductRecords DEF Catalogue!IsDirty
<1>3. editor # Catalogue!Closed => ProductWritten("name") /\ ProductWritten("text")
  BY <1>2 DEF ProductInv, ProductEditorAgrees, ProductNameKept, ProductTextKept, ProductWritten
<1>5. ProductSentAgrees'
  BY <1>1, <1>3 DEF ProductSentAgrees, ProductWritten
<1>6. ProductOpAgrees'
  BY <1>1, ProductConstants DEF ProductOpAgrees
<1>7. ProductListAgrees'
  BY <1>1 DEF ProductInv, ProductListAgrees, Catalogue!Listed, Catalogue!Busy
<1>8. ProductTyped'
  BY <1>1 DEF ProductInv, ProductTyped
<1>9. ProductEditorAgrees'
  BY DEF ProductInv, ProductEditorAgrees, ProductNameKept, ProductTextKept, ProductPictureKept,
     ProductChangesAreTyped
<1> QED
  BY <1>5, <1>6, <1>7, <1>8, <1>9 DEF ProductInv

LEMMA ProductPublishKeeps == ASSUME ProductInv, NEW p \in X, Catalogue!Publish(p) PROVE ProductInv'
  BY ProductPublishesKeeps DEF Catalogue!Publish, Catalogue!server, Catalogue!page, Catalogue!history

LEMMA ProductConfirmDeleteKeeps == ASSUME ProductInv, Catalogue!ConfirmDelete PROVE ProductInv'
<1>1. candidate \in X
  BY DEF Catalogue!ConfirmDelete, ProductInv, ProductTyped
<1>2. PICK p \in X : candidate = p
  BY <1>1
<1> QED
  BY <1>2, ProductPublishesKeeps DEF Catalogue!ConfirmDelete, Catalogue!server, Catalogue!page,
     Catalogue!history

LEMMA ProductOpenDeleteKeeps == ASSUME ProductInv, NEW p \in X, Catalogue!OpenDelete(p) PROVE ProductInv'
<1>1. /\ candidate = None /\ ~Catalogue!Busy /\ ~Catalogue!IsDirty(editor) /\ candidate' = p
      /\ UNCHANGED <<pRows, pOthers, pList, load, deferred, editor, asking, pOp, pCalls, edits, typed,
                     written, pCrossed>>
  BY DEF Catalogue!OpenDelete, Catalogue!server, Catalogue!page, Catalogue!history
<1>2. ProductTyped'
  BY <1>1 DEF ProductInv, ProductTyped
<1>3. ProductListAgrees'
  BY <1>1 DEF ProductInv, ProductListAgrees, Catalogue!Listed, Catalogue!Busy
<1> QED
  BY <1>1, <1>2, <1>3, ProductEditorStays DEF ProductInv

LEMMA ProductCancelDeleteKeeps == ASSUME ProductInv, Catalogue!CancelDelete PROVE ProductInv'
<1>1. /\ candidate' = None /\ ~Catalogue!Busy /\ Catalogue!AfterRender
      /\ UNCHANGED <<pRows, pOthers, editor, asking, pOp, pCalls, edits, typed, written, pCrossed>>
  BY DEF Catalogue!CancelDelete, Catalogue!server, Catalogue!history
<1>2. pOp'.state # "done"
  BY <1>1, ProductRecords, ProductConstants
<1>3. ProductListAgrees' /\ load' \in ProductLoadRecord /\ pList' = pList /\ deferred' \in BOOLEAN
  BY <1>1, <1>2, ProductRendered
<1>4. ProductTyped'
  BY <1>1, <1>3 DEF ProductInv, ProductTyped
<1> QED
  BY <1>1, <1>3, <1>4, ProductEditorStays DEF ProductInv

LEMMA ProductOthersChangeKeeps == ASSUME ProductInv, Catalogue!OthersChange PROVE ProductInv'
<1>1. UNCHANGED <<pList, load, deferred, editor, asking, candidate, pOp, pCalls, edits, typed, written,
                  pCrossed>>
  BY DEF Catalogue!OthersChange, Catalogue!page, Catalogue!history
<1>2. pRows' \in [X -> Catalogue!Row]
  <2>1. pRows \in [X -> Catalogue!Row]
    BY DEF ProductInv, ProductTyped
  <2>2. \A r \in Catalogue!Row : (\A w \in Z : [r EXCEPT !.text = w] \in Catalogue!Row) /\ [r EXCEPT !.shown = ~r.shown] \in Catalogue!Row
    BY DEF Catalogue!Row
  <2>3. PICK p \in X :
          \/ \E w \in Z : w # pRows[p].text /\ pRows' = [pRows EXCEPT ![p] = [pRows[p] EXCEPT !.text = w]]
          \/ pRows' = [pRows EXCEPT ![p] = [pRows[p] EXCEPT !.shown = ~pRows[p].shown]]
    BY <2>1 DEF Catalogue!OthersChange, Catalogue!Row
  <2>4. pRows[p] \in Catalogue!Row
    BY <2>1
  <2>5. /\ [pRows[p] EXCEPT !.shown = ~pRows[p].shown] \in Catalogue!Row
        /\ \A w \in Z : [pRows[p] EXCEPT !.text = w] \in Catalogue!Row
    BY <2>2, <2>4
  <2> QED
    BY <2>1, <2>3, <2>5
<1>3. ProductTyped'
  BY <1>1, <1>2 DEF ProductInv, ProductTyped
<1>4. ProductListAgrees'
  BY <1>1 DEF ProductInv, ProductListAgrees, Catalogue!Listed, Catalogue!Busy
<1> QED
  BY <1>1, <1>3, <1>4, ProductEditorStays DEF ProductInv

LEMMA ProductShopRefreshedKeeps == ASSUME ProductInv, Catalogue!ShopRefreshed PROVE ProductInv'
<1>1. /\ pOp' = Catalogue!Idle /\ Catalogue!AfterRender
      /\ UNCHANGED <<pRows, pOthers, editor, asking, candidate, pCalls, edits, typed, written, pCrossed>>
  BY DEF Catalogue!ShopRefreshed, Catalogue!server, Catalogue!history
<1>2. /\ pOp' \in ProductOpRecord /\ pOp'.kind = "idle" /\ pOp'.state = None /\ pOp'.stage = None
      /\ None # "done"
  BY <1>1, ProductConstants DEF Catalogue!Idle, ProductOpRecord
<1>3. ProductListAgrees' /\ load' \in ProductLoadRecord /\ pList' = pList /\ deferred' \in BOOLEAN
  BY <1>1, <1>2, ProductRendered
<1>4. ProductTyped'
  BY <1>1, <1>2, <1>3 DEF ProductInv, ProductTyped
<1>5. ProductOpAgrees' /\ ProductSentAgrees'
  BY <1>2, ProductConstants DEF ProductOpAgrees, ProductSentAgrees
<1>6. ProductEditorAgrees'
  BY <1>1 DEF ProductInv, ProductEditorAgrees, ProductNameKept, ProductTextKept, ProductPictureKept,
     ProductChangesAreTyped
<1> QED
  BY <1>3, <1>4, <1>5, <1>6 DEF ProductInv

\* A save of a picture failed after its content was saved: the operation goes on to the shop.
LEMMA ProductCallFailsKeeps == ASSUME ProductInv, Catalogue!CallFails PROVE ProductInv'
<1>1. /\ Catalogue!Busy /\ pOp' = IF pOp.saved THEN [pOp EXCEPT !.state = "shop"] ELSE Catalogue!Idle
      /\ Catalogue!AfterRender
      /\ UNCHANGED <<pRows, pOthers, editor, asking, candidate, pCalls, edits, typed, written, pCrossed>>
  BY DEF Catalogue!CallFails, Catalogue!AfterFailure, Catalogue!server, Catalogue!history
<1>2. \/ pOp' = Catalogue!Idle /\ pOp' \in ProductOpRecord /\ pOp'.kind = "idle" /\ pOp'.state = None /\ pOp'.stage = None
      \/ /\ pOp' \in ProductOpRecord /\ pOp'.kind = pOp.kind /\ pOp'.stage = pOp.stage /\ pOp'.id = pOp.id /\ pOp'.body = pOp.body
         /\ pOp'.state = "shop" /\ pOp'.got = pOp.got
  <2>1. /\ Catalogue!Idle \in ProductOpRecord /\ Catalogue!Idle.kind = "idle" /\ Catalogue!Idle.state = None
        /\ Catalogue!Idle.stage = None
    BY ProductConstants DEF Catalogue!Idle, ProductOpRecord
  <2>2. pOp \in ProductOpRecord
    BY ProductRecords
  <2>3. LET q == [pOp EXCEPT !.state = "shop"] IN
        q \in ProductOpRecord /\ q.kind = pOp.kind /\ q.stage = pOp.stage /\ q.id = pOp.id /\ q.body = pOp.body /\ q.state = "shop" /\ q.got = pOp.got
    BY <2>2 DEF ProductOpRecord
  <2> QED
    BY <1>1, <2>1, <2>3
<1>3. pOp'.state # "done"
  BY <1>2, ProductConstants
<1>4. ProductListAgrees' /\ load' \in ProductLoadRecord /\ pList' = pList /\ deferred' \in BOOLEAN
  BY <1>1, <1>3, ProductRendered
<1>5. ProductTyped'
  BY <1>1, <1>2, <1>4 DEF ProductInv, ProductTyped
<1>6. ProductOpAgrees'
  BY <1>1, <1>2, ProductConstants DEF ProductInv, ProductOpAgrees, Catalogue!Busy
<1>7. ProductSentAgrees'
  BY <1>1, <1>2, ProductConstants DEF ProductInv, ProductSentAgrees, ProductWritten, Catalogue!Busy
<1>8. ProductEditorAgrees'
  BY <1>1 DEF ProductInv, ProductEditorAgrees, ProductNameKept, ProductTextKept, ProductPictureKept,
     ProductChangesAreTyped
<1> QED
  BY <1>4, <1>5, <1>6, <1>7, <1>8 DEF ProductInv

\* The answer of a request is in the list, and the request is over.
LEMMA ProductListsReplaced ==
  ASSUME ProductInv, Catalogue!Busy, pOp.state = "done", Catalogue!Replaced, pOp' \in ProductOpRecord,
         pOp'.state \in {"sent", "shop"}, pOp'.kind # "idle"
  PROVE  /\ ProductListAgrees' /\ pList' \in [X -> [row : Catalogue!Row, fresh : BOOLEAN]]
         /\ UNCHANGED <<load, deferred>>
<1>1. /\ pList' = [pList EXCEPT ![pOp.id] = [row |-> pOp.got, fresh |-> pOp.fresh]]
      /\ UNCHANGED <<load, deferred>>
  BY DEF Catalogue!Replaced
<1>2. pOp.got \in Catalogue!Row /\ pOp.fresh \in BOOLEAN /\ pOp.id \in X
  BY ProductRecords DEF ProductInv, ProductOpAgrees, ProductOpRecord
<1>3. pList \in [X -> [row : Catalogue!Row, fresh : BOOLEAN]]
  BY DEF ProductInv, ProductTyped
<1>4. [row |-> pOp.got, fresh |-> pOp.fresh] \in [row : Catalogue!Row, fresh : BOOLEAN]
  BY <1>2
<1>5. pList' \in [X -> [row : Catalogue!Row, fresh : BOOLEAN]]
  BY <1>1, <1>3, <1>4
<1>6. ~deferred => pOp.fresh
  BY DEF ProductInv, ProductListAgrees
<1>7. ~deferred' /\ Catalogue!Listed' => \A p \in X : pList'[p].fresh
  BY <1>1, <1>3, <1>6 DEF ProductInv, ProductListAgrees, Catalogue!Listed
<1>8. ProductListAgrees'
  BY <1>1, <1>7 DEF ProductInv, ProductListAgrees, Catalogue!Busy
<1> QED
  BY <1>1, <1>5, <1>8

LEMMA ProductShopsNext ==
  ASSUME ProductInv
  PROVE  LET q == [pOp EXCEPT !.state = "shop"] IN
         /\ q \in ProductOpRecord /\ q.kind = pOp.kind /\ q.stage = pOp.stage /\ q.id = pOp.id
         /\ q.body = pOp.body
         /\ q.state = "shop" /\ q.got = pOp.got
<1>1. pOp \in ProductOpRecord
  BY ProductRecords
<1> QED
  BY <1>1 DEF ProductOpRecord

LEMMA ProductContentSavedKeeps == ASSUME ProductInv, Catalogue!ContentSaved PROVE ProductInv'
<1>1. /\ pOp.stage = "product" /\ pOp.state = "done"
      /\ editor' = [editor EXCEPT !.row = pOp.got, !.name = pOp.got.name, !.reset = FALSE,
                    !.text = pOp.got.text]
      /\ Catalogue!Replaced
      /\ pOp' = IF editor.put \/ editor.remove
               THEN [Catalogue!Call("saving", "image", pOp.id, Catalogue!ImageBody(editor)) EXCEPT !.saved = TRUE]
               ELSE [pOp EXCEPT !.state = "shop"]
      /\ UNCHANGED <<pRows, pOthers, asking, candidate, pCalls, edits, typed, written, pCrossed>>
  BY DEF Catalogue!ContentSaved, Catalogue!server, Catalogue!history
<1>2. /\ Catalogue!Busy /\ editor # Catalogue!Closed /\ pOp.id \in X /\ pOp.got \in Catalogue!Row
      /\ editor.id = pOp.id /\ editor \in ProductEditorRecord
  BY <1>1, ProductRecords, ProductConstants DEF ProductInv, ProductOpAgrees
<1>3. ProductWritten("name") /\ ProductWritten("text")
  BY <1>1, ProductConstants DEF ProductInv, ProductSentAgrees
<1>4. pOp.got.name \in ProductText /\ pOp.got.text \in ProductText
  BY <1>2 DEF Catalogue!Row, ProductText
<1>5. /\ editor' \in ProductEditorRecord /\ editor'.id = pOp.id /\ editor'.row = pOp.got
      /\ editor'.name = pOp.got.name
      /\ ~editor'.reset /\ editor'.text = pOp.got.text /\ editor'.put = editor.put
      /\ editor'.remove = editor.remove
  BY <1>1, <1>2, <1>4 DEF ProductEditorRecord
<1>6. editor' # Catalogue!Closed
  BY <1>2, <1>5, ProductConstants DEF Catalogue!Closed
<1>7. ProductEditorAgrees'
  BY <1>1, <1>2, <1>3, <1>5 DEF ProductInv, ProductEditorAgrees, ProductNameKept, ProductTextKept,
     ProductPictureKept, ProductChangesAreTyped, Catalogue!NameChanged, Catalogue!TextChanged,
     ProductWritten
<1>8. /\ pOp' \in ProductOpRecord /\ pOp'.kind # "idle" /\ pOp'.id = pOp.id /\ pOp'.state \in {"sent", "shop"}
      /\ \/ pOp'.stage = "image" /\ pOp'.body \in [image : {"new", "none"}] /\ pOp'.state = "sent"
         \/ pOp'.stage = "product" /\ pOp'.body = pOp.body /\ pOp'.state = "shop"
  <2>1. CASE pOp' = [Catalogue!Call("saving", "image", pOp.id,
                                    Catalogue!ImageBody(editor)) EXCEPT !.saved = TRUE]
    <3> DEFINE c == Catalogue!Call("saving", "image", pOp.id, Catalogue!ImageBody(editor))
    <3>1. /\ c \in ProductOpRecord /\ c.kind = "saving" /\ c.stage = "image" /\ c.id = pOp.id
          /\ c.body = Catalogue!ImageBody(editor) /\ c.state = "sent"
      BY <1>2, ProductBodies, ProductIsCalled
    <3> HIDE DEF c
    <3>2. LET q == [c EXCEPT !.saved = TRUE] IN
          q \in ProductOpRecord /\ q.kind = c.kind /\ q.stage = c.stage /\ q.id = c.id /\ q.body = c.body /\ q.state = c.state
      BY <3>1 DEF ProductOpRecord
    <3>3. pOp' = [c EXCEPT !.saved = TRUE]
      BY <2>1 DEF c
    <3> QED
      BY <1>2, <3>1, <3>2, <3>3, ProductBodies
  <2>2. CASE pOp' = [pOp EXCEPT !.state = "shop"]
    BY <1>1, <1>2, <2>2, ProductShopsNext DEF Catalogue!Busy
  <2> QED
    BY <1>1, <2>1, <2>2
<1>9. /\ ProductListAgrees' /\ pList' \in [X -> [row : Catalogue!Row, fresh : BOOLEAN]]
      /\ UNCHANGED <<load, deferred>>
  BY <1>1, <1>2, <1>8, ProductListsReplaced
<1>10. ProductTyped'
  BY <1>1, <1>5, <1>8, <1>9 DEF ProductInv, ProductTyped
<1>11. ProductOpAgrees'
  BY <1>1, <1>2, <1>5, <1>6, <1>8, ProductConstants DEF ProductInv, ProductOpAgrees
<1>12. ProductSentAgrees'
  BY <1>1, <1>3, <1>8, ProductConstants DEF ProductSentAgrees, ProductWritten
<1> QED
  BY <1>7, <1>9, <1>10, <1>11, <1>12 DEF ProductInv

LEMMA ProductImageSavedKeeps == ASSUME ProductInv, Catalogue!ImageSaved PROVE ProductInv'
<1>1. /\ pOp.stage = "image" /\ pOp.state = "done"
      /\ editor' = [editor EXCEPT !.row = pOp.got, !.name = pOp.got.name, !.reset = FALSE, !.put = FALSE,
                    !.remove = FALSE]
      /\ Catalogue!Replaced /\ pCrossed' = (pCrossed \/ pOp.got.text # editor.row.text)
      /\ pOp' = [pOp EXCEPT !.state = "shop"]
      /\ UNCHANGED <<pRows, pOthers, asking, candidate, pCalls, edits, typed, written>>
  BY DEF Catalogue!ImageSaved, Catalogue!server
<1>2. /\ Catalogue!Busy /\ editor # Catalogue!Closed /\ pOp.id \in X /\ pOp.got \in Catalogue!Row
      /\ editor.id = pOp.id /\ editor \in ProductEditorRecord
  BY <1>1, ProductRecords, ProductConstants DEF ProductInv, ProductOpAgrees
<1>3. ProductWritten("name") /\ ProductWritten("text") /\ ProductWritten("image")
  BY <1>1, ProductConstants DEF ProductInv, ProductSentAgrees
<1>4. pOp.got.name \in ProductText
  BY <1>2 DEF Catalogue!Row, ProductText
<1>5. /\ editor' \in ProductEditorRecord /\ editor'.id = pOp.id /\ editor'.row = pOp.got
      /\ editor'.name = pOp.got.name
      /\ ~editor'.reset /\ editor'.text = editor.text /\ ~editor'.put /\ ~editor'.remove
  BY <1>1, <1>2, <1>4 DEF ProductEditorRecord
<1>6. editor' # Catalogue!Closed
  BY <1>2, <1>5, ProductConstants DEF Catalogue!Closed
<1>7. ProductEditorAgrees'
  <2>1. ProductNameKept' /\ ProductTextKept' /\ ProductPictureKept'
    BY <1>1, <1>3 DEF ProductNameKept, ProductTextKept, ProductPictureKept, ProductWritten
  <2>2. Catalogue!TextChanged(editor) => typed.text = [is |-> editor.text] \/ pCrossed
    BY <1>2 DEF ProductInv, ProductEditorAgrees, ProductChangesAreTyped
  <2>3. Catalogue!TextChanged(editor)' => typed'.text = [is |-> editor'.text] \/ pCrossed'
    BY <1>1, <1>5, <2>2 DEF Catalogue!TextChanged
  <2>4. ProductChangesAreTyped'
    BY <1>1, <1>5, <2>3 DEF ProductChangesAreTyped, Catalogue!NameChanged, Catalogue!TextChanged
  <2> QED
    BY <2>1, <2>4 DEF ProductEditorAgrees
<1>8. /\ pOp' \in ProductOpRecord /\ pOp'.kind # "idle" /\ pOp'.id = pOp.id /\ pOp'.state = "shop"
      /\ pOp'.stage = "image" /\ pOp'.body = pOp.body
  BY <1>1, <1>2, ProductShopsNext DEF Catalogue!Busy
<1>9. /\ ProductListAgrees' /\ pList' \in [X -> [row : Catalogue!Row, fresh : BOOLEAN]]
      /\ UNCHANGED <<load, deferred>>
  BY <1>1, <1>2, <1>8, ProductListsReplaced
<1>10. pCrossed' \in BOOLEAN
  BY <1>1
<1>11. ProductTyped'
  BY <1>1, <1>5, <1>8, <1>9, <1>10 DEF ProductInv, ProductTyped
<1>12. ProductOpAgrees'
  BY <1>1, <1>2, <1>5, <1>6, <1>8, ProductConstants DEF ProductInv, ProductOpAgrees
<1>13. ProductSentAgrees'
  BY <1>1, <1>3, <1>8, ProductConstants DEF ProductSentAgrees, ProductWritten
<1> QED
  BY <1>7, <1>9, <1>11, <1>12, <1>13 DEF ProductInv

LEMMA ProductPublicationSavedKeeps == ASSUME ProductInv, Catalogue!PublicationSaved PROVE ProductInv'
<1>1. /\ pOp.stage = "publication" /\ pOp.state = "done"
      /\ editor' = IF editor.id = pOp.id
                   THEN [editor EXCEPT !.row = pOp.got, !.name = pOp.got.name, !.reset = FALSE, !.text = pOp.got.text]
                   ELSE editor
      /\ Catalogue!Replaced /\ candidate' = None /\ pOp' = [pOp EXCEPT !.state = "shop"]
      /\ UNCHANGED <<pRows, pOthers, asking, pCalls, edits, typed, written, pCrossed>>
  BY DEF Catalogue!PublicationSaved, Catalogue!server, Catalogue!history
<1>2. Catalogue!Busy /\ pOp.id \in X /\ pOp.got \in Catalogue!Row
  BY <1>1, ProductRecords, ProductConstants DEF ProductInv, ProductOpAgrees
<1>3. editor # Catalogue!Closed => ProductWritten("name") /\ ProductWritten("text")
  BY <1>1, ProductConstants DEF ProductInv, ProductSentAgrees
<1>4. pOp.got.name \in ProductText /\ pOp.got.text \in ProductText
  BY <1>2 DEF Catalogue!Row, ProductText
<1>5. /\ editor' # Catalogue!Closed => editor' \in ProductEditorRecord /\ editor # Catalogue!Closed
      /\ ProductEditorAgrees'
  <2>1. CASE editor.id = pOp.id
    <3>1. editor # Catalogue!Closed /\ editor \in ProductEditorRecord
      BY <1>2, <2>1, ProductRecords, ProductConstants
    <3>2. /\ editor' \in ProductEditorRecord /\ editor'.row = pOp.got /\ editor'.name = pOp.got.name
          /\ ~editor'.reset /\ editor'.text = pOp.got.text /\ editor'.put = editor.put
          /\ editor'.remove = editor.remove
      BY <1>1, <1>4, <1>2, <2>1, <3>1 DEF ProductEditorRecord
    <3> QED
      BY <1>1, <1>3, <3>1, <3>2 DEF ProductInv, ProductEditorAgrees, ProductNameKept, ProductTextKept,
         ProductPictureKept, ProductChangesAreTyped, Catalogue!NameChanged, Catalogue!TextChanged,
         ProductWritten
  <2>2. CASE editor.id # pOp.id
    BY <1>1, <2>2 DEF ProductInv, ProductTyped, ProductEditorAgrees, ProductNameKept, ProductTextKept,
       ProductPictureKept, ProductChangesAreTyped
  <2> QED
    BY <2>1, <2>2
<1>8. /\ pOp' \in ProductOpRecord /\ pOp'.kind # "idle" /\ pOp'.id = pOp.id /\ pOp'.state = "shop"
      /\ pOp'.stage = "publication" /\ pOp'.body = pOp.body
  BY <1>1, <1>2, ProductShopsNext DEF Catalogue!Busy
<1>9. /\ ProductListAgrees' /\ pList' \in [X -> [row : Catalogue!Row, fresh : BOOLEAN]]
      /\ UNCHANGED <<load, deferred>>
  BY <1>1, <1>2, <1>8, ProductListsReplaced
<1>10. candidate' \in X \cup {None}
  BY <1>1
<1>11. ProductTyped'
  BY <1>1, <1>5, <1>8, <1>9, <1>10 DEF ProductInv, ProductTyped
<1>12. ProductOpAgrees'
  BY <1>1, <1>2, <1>8, ProductConstants DEF ProductInv, ProductOpAgrees
<1>13. ProductSentAgrees'
  BY <1>1, <1>3, <1>5, <1>8, ProductConstants DEF ProductSentAgrees, ProductWritten
<1> QED
  BY <1>5, <1>9, <1>11, <1>12, <1>13 DEF ProductInv

LEMMA ProductPerformKeeps == ASSUME ProductInv, Catalogue!Perform PROVE ProductInv'
<1>1. /\ Catalogue!Busy /\ pOp.state = "sent"
      /\ LET row == pRows[pOp.id]
             after == CASE pOp.stage = "product" ->
                         [row EXCEPT !.name = IF Catalogue!Sent("name") THEN pOp.body.name.is ELSE @,
                                     !.text = IF Catalogue!Sent("text") THEN pOp.body.text.is ELSE @]
                    [] pOp.stage = "image" -> [row EXCEPT !.image = pOp.body.image]
                    [] OTHER -> [row EXCEPT !.shown = pOp.body.shown]
         IN /\ pRows' = [pRows EXCEPT ![pOp.id] = after]
            /\ pOp' = [pOp EXCEPT !.state = "done", !.got = after, !.fresh = TRUE]
      /\ written' = IF pOp.stage = "product"
                    THEN [written EXCEPT !.name = IF Catalogue!Sent("name") THEN typed.name ELSE @,
                                         !.text = IF Catalogue!Sent("text") THEN typed.text ELSE @]
                    ELSE IF pOp.stage = "image" THEN [written EXCEPT !.image = typed.image] ELSE written
      /\ UNCHANGED <<pOthers, pList, load, deferred, editor, asking, candidate, pCalls, edits, typed,
                     pCrossed>>
  BY DEF Catalogue!Perform, Catalogue!page
<1>2. /\ pOp \in ProductOpRecord /\ pOp.id \in X /\ pOp.stage \in {"product", "image", "publication"}
      /\ typed \in ProductFields /\ written \in ProductFields
  BY <1>1, ProductRecords
<1> DEFINE row == pRows[pOp.id]
<1>3. row \in Catalogue!Row /\ pRows \in [X -> Catalogue!Row]
  BY <1>2 DEF ProductInv, ProductTyped
<1>4. PICK after \in Catalogue!Row : /\ pRows' = [pRows EXCEPT ![pOp.id] = after]
                                     /\ pOp' = [pOp EXCEPT !.state = "done", !.got = after, !.fresh = TRUE]
  <2>1. CASE pOp.stage = "product"
    <3> DEFINE n == IF Catalogue!Sent("name") THEN pOp.body.name.is ELSE row.name
               t == IF Catalogue!Sent("text") THEN pOp.body.text.is ELSE row.text
    <3>1. pOp.body \in ProductContent
      BY <2>1 DEF ProductInv, ProductOpAgrees
    <3>2. row.name \in ProductText /\ row.text \in ProductText
      BY <1>3 DEF Catalogue!Row, ProductText
    <3>3. n \in ProductText /\ t \in ProductText
      BY <3>1, <3>2 DEF ProductContent, ProductChanged, Catalogue!Sent
    <3>4. pRows' = [pRows EXCEPT ![pOp.id] = [row EXCEPT !.name = n, !.text = t]]
          /\ pOp' = [pOp EXCEPT !.state = "done", !.got = [row EXCEPT !.name = n, !.text = t], !.fresh = TRUE]
      BY <1>1, <1>3, <2>1 DEF Catalogue!Row
    <3> HIDE DEF n, t, row
    <3>5. [row EXCEPT !.name = n, !.text = t] \in Catalogue!Row
      BY <1>3, <3>3 DEF Catalogue!Row, ProductText
    <3> QED
      BY <3>4, <3>5
  <2>2. CASE pOp.stage = "image"
    <3>1. pOp.body \in [image : {"new", "none"}]
      BY <2>2 DEF ProductInv, ProductOpAgrees
    <3>2. pOp.body.image \in {"new", "none"}
      BY <3>1
    <3>3. [row EXCEPT !.image = pOp.body.image] \in Catalogue!Row
      <4> HIDE DEF row
      <4> QED
        BY <1>3, <3>2 DEF Catalogue!Row
    <3>4. pOp.stage # "product"
      BY <2>2
    <3> QED
      BY <1>1, <2>2, <3>3, <3>4
  <2>3. CASE pOp.stage = "publication"
    <3>1. pOp.body \in [shown : BOOLEAN]
      BY <2>3 DEF ProductInv, ProductOpAgrees
    <3>2. pOp.body.shown \in BOOLEAN
      BY <3>1
    <3>3. [row EXCEPT !.shown = pOp.body.shown] \in Catalogue!Row
      <4> HIDE DEF row
      <4> QED
        BY <1>3, <3>2 DEF Catalogue!Row
    <3>4. pOp.stage # "product" /\ pOp.stage # "image"
      BY <2>3
    <3> QED
      BY <1>1, <2>3, <3>3, <3>4
  <2> QED
    BY <1>2, <2>1, <2>2, <2>3
<1>5. /\ pOp' \in ProductOpRecord /\ pOp'.kind = pOp.kind /\ pOp'.stage = pOp.stage /\ pOp'.id = pOp.id
      /\ pOp'.body = pOp.body
      /\ pOp'.state = "done" /\ pOp'.got \in Catalogue!Row /\ pOp'.fresh
  BY <1>2, <1>4 DEF ProductOpRecord
<1>6. pRows' \in [X -> Catalogue!Row]
  BY <1>3, <1>4
<1>7. /\ written' \in ProductFields
      /\ pOp.stage = "product" => /\ written'.name = IF Catalogue!Sent("name") THEN typed.name ELSE written.name
                                  /\ written'.text = IF Catalogue!Sent("text") THEN typed.text ELSE written.text
                                  /\ written'.image = written.image
      /\ pOp.stage = "image" => written'.image = typed.image /\ written'.name = written.name /\ written'.text = written.text
      /\ pOp.stage = "publication" => written' = written
  <2> DEFINE n == IF Catalogue!Sent("name") THEN typed.name ELSE written.name
             t == IF Catalogue!Sent("text") THEN typed.text ELSE written.text
  <2>1. n \in ProductChanged /\ t \in ProductChanged /\ typed.image \in ProductPicture
    BY <1>2 DEF ProductFields
  <2>2. pOp.stage = "product" => written' = [written EXCEPT !.name = n, !.text = t]
    BY <1>1, <1>2 DEF ProductFields
  <2>3. LET q == [written EXCEPT !.name = n,
                  !.text = t] IN q \in ProductFields /\ q.name = n /\ q.text = t /\ q.image = written.image
    <3> HIDE DEF n, t
    <3> QED
      BY <1>2, <2>1 DEF ProductFields
  <2>4. LET q == [written EXCEPT !.image = typed.image] IN
        q \in ProductFields /\ q.image = typed.image /\ q.name = written.name /\ q.text = written.text
    BY <1>2, <2>1 DEF ProductFields
  <2>5. pOp.stage = "image" => written' = [written EXCEPT !.image = typed.image]
    BY <1>1
  <2>6. pOp.stage = "publication" => written' = written
    BY <1>1
  <2> HIDE DEF n, t
  <2>7. pOp.stage = "product" => written' \in ProductFields /\ written'.name = n /\ written'.text = t /\ written'.image = written.image
    BY <2>2, <2>3
  <2> QED
    BY <1>2, <2>4, <2>5, <2>6, <2>7 DEF n, t
<1>8. ProductTyped'
  BY <1>1, <1>5, <1>6, <1>7 DEF ProductInv, ProductTyped
<1>9. ProductOpAgrees'
  BY <1>1, <1>5, ProductConstants DEF ProductInv, ProductOpAgrees
<1>10. ProductListAgrees'
  BY <1>1, <1>5 DEF ProductInv, ProductListAgrees, Catalogue!Listed, Catalogue!Busy
<1>11. ProductEditorAgrees'
  <2>1. written'.name = written.name \/ written'.name = typed.name
    BY <1>2, <1>7
  <2>2. written'.text = written.text \/ written'.text = typed.text
    BY <1>2, <1>7
  <2>3. written'.image = written.image \/ written'.image = typed.image
    BY <1>2, <1>7
  <2> QED
    BY <1>1, <2>1, <2>2, <2>3 DEF ProductInv, ProductEditorAgrees, ProductNameKept, ProductTextKept,
       ProductPictureKept, ProductChangesAreTyped
<1>12. ProductSentAgrees'
  BY <1>1, <1>2, <1>5, <1>7 DEF ProductInv, ProductSentAgrees, ProductWritten, Catalogue!Sent
<1> QED
  BY <1>8, <1>9, <1>10, <1>11, <1>12 DEF ProductInv

\* The list of products begins with its first reading on its way.
LEMMA ProductInitKeeps == ASSUME Catalogue!Init PROVE ProductInv
<1>1. \A p \in X : pRows[p] \in Catalogue!Row /\ pRows \in [X -> Catalogue!Row]
  BY DEF Catalogue!Init, Catalogue!Row
<1>2. pList \in [X -> [row : Catalogue!Row, fresh : BOOLEAN]]
  BY <1>1 DEF Catalogue!Init
<1> DEFINE first == [n |-> 1, got |-> None, fresh |-> TRUE]
<1>3. first \in ProductReadRecord /\ first.fresh /\ first.n = 1
  BY DEF ProductReadRecord
<1>4. load \in ProductLoadRecord /\ load.loading /\ load.seq = 1 /\ load.sent = {first}
  BY <1>3, ProductConstants DEF Catalogue!Init, ProductLoadRecord
<1>5. /\ Catalogue!Idle \in ProductOpRecord /\ Catalogue!Idle.kind = "idle" /\ Catalogue!Idle.state = None
      /\ Catalogue!Idle.stage = None
  BY ProductConstants DEF Catalogue!Idle, ProductOpRecord
<1>6. Catalogue!Nothing \in ProductFields
  BY DEF Catalogue!Nothing, ProductFields, ProductChanged, ProductPicture
<1>7. pCrossed \in BOOLEAN /\ deferred \in BOOLEAN /\ ~deferred /\ pRows \in [X -> Catalogue!Row]
  BY DEF Catalogue!Init, Catalogue!Row
<1>8. ProductTyped
  BY <1>2, <1>4, <1>5, <1>6, <1>7 DEF Catalogue!Init, ProductTyped
<1>9. ProductOpAgrees /\ ProductSentAgrees
  BY <1>5, ProductConstants DEF Catalogue!Init, ProductOpAgrees, ProductSentAgrees
<1>10. ProductListAgrees
  BY <1>3, <1>4, <1>5, <1>7, ProductConstants DEF Catalogue!Init, ProductListAgrees, Catalogue!Listed
<1>11. ProductEditorAgrees
  BY DEF Catalogue!Init, ProductEditorAgrees
<1> QED
  BY <1>8, <1>9, <1>10, <1>11 DEF ProductInv

\* Every step of the products keeps what they rely on.
LEMMA ProductNextKeeps == ASSUME ProductInv, Catalogue!Next PROVE ProductInv'
<1>1. None \in ProductText /\ Z \subseteq ProductText
  BY DEF ProductText
<1> QED
  BY <1>1, ProductRefreshKeeps, ProductRetryLoadKeeps, ProductServeKeeps, ProductLoadAnswerKeeps,
     ProductRequestEditKeeps, ProductPublishKeeps, ProductOpenDeleteKeeps, ProductRequestCloseKeeps,
     ProductDiscardKeeps, ProductKeepEditingKeeps, ProductTypeNameKeeps, ProductTypeTextKeeps,
     ProductResetNameKeeps, ProductSelectImageKeeps, ProductDiscardImageKeeps, ProductToggleRemoveKeeps,
     ProductSubmitKeeps, ProductCancelDeleteKeeps, ProductConfirmDeleteKeeps, ProductPerformKeeps,
     ProductContentSavedKeeps, ProductImageSavedKeeps, ProductPublicationSavedKeeps, ProductCallFailsKeeps,
     ProductShopRefreshedKeeps, ProductOthersChangeKeeps DEF Catalogue!Next

\* No refresh and nothing typed is lost.
LEMMA ProductShows ==
  ASSUME ProductInv
  PROVE  Catalogue!TypeOK /\ Catalogue!RefreshIsHonoured /\ Catalogue!NothingTypedIsLost
<1>1. Catalogue!TypeOK
  BY ProductRecords DEF ProductInv, ProductTyped, Catalogue!TypeOK, ProductOpRecord
<1>2. Catalogue!RefreshIsHonoured
  BY DEF ProductInv, ProductListAgrees, Catalogue!RefreshIsHonoured
<1>3. Catalogue!NothingTypedIsLost
  <2>1. editor.id # None => editor # Catalogue!Closed
    BY ProductRecords
  <2>2. typed["name"] = typed.name /\ typed["text"] = typed.text /\ typed["image"] = typed.image
        /\ written["name"] = written.name /\ written["text"] = written.text
        /\ written["image"] = written.image
    OBVIOUS
  <2> QED
    BY <2>1 DEF ProductInv, ProductEditorAgrees, ProductNameKept, ProductTextKept, ProductPictureKept,
       Catalogue!NothingTypedIsLost
<1> QED
  BY <1>1, <1>2, <1>3

\* A step of the page sends as a product what was typed.
LEMMA ProductSendsTyped ==
  ASSUME ProductInv, Catalogue!Next, ~Catalogue!Busy, pOp'.kind = "saving", pOp'.stage = "product"
  PROVE  /\ pOp'.body.name # None => typed.name = pOp'.body.name
         /\ pOp'.body.text # None => typed.text = pOp'.body.text \/ pCrossed
<1>1. pOp.stage = None /\ pOp.state = None /\ pOp.kind = "idle"
  BY ProductRecords DEF Catalogue!Busy
<1>2. Catalogue!Idle.kind = "idle" /\ [pOp EXCEPT !.fresh = FALSE].kind = "idle"
  <2>1. pOp \in ProductOpRecord
    BY ProductRecords
  <2> QED
    BY <1>1, <2>1 DEF Catalogue!Idle, ProductOpRecord
<1>3. \A kind, p, body : Catalogue!Call(kind, "publication", p, body).stage = "publication"
  BY DEF Catalogue!Call
<1>4. /\ ~Catalogue!Perform /\ ~Catalogue!ContentSaved /\ ~Catalogue!ImageSaved /\ ~Catalogue!PublicationSaved
      /\ ~Catalogue!CallFails /\ ~Catalogue!ShopRefreshed
  BY <1>1, ProductConstants DEF Catalogue!Perform, Catalogue!ContentSaved, Catalogue!ImageSaved,
     Catalogue!PublicationSaved, Catalogue!CallFails, Catalogue!ShopRefreshed
<1>5. pOp' # pOp /\ pOp'.stage # "publication" /\ pOp' # Catalogue!Idle /\ pOp' # [pOp EXCEPT !.fresh = FALSE]
  BY <1>1, <1>2
<1>6. Catalogue!Submit
  <2>1. /\ ~Catalogue!Refresh /\ ~Catalogue!RetryLoad /\ ~Catalogue!Serve /\ ~Catalogue!LoadAnswer
        /\ ~Catalogue!RequestClose /\ ~Catalogue!Discard /\ ~Catalogue!KeepEditing /\ ~Catalogue!CancelDelete
        /\ ~Catalogue!OthersChange
    BY <1>5 DEF Catalogue!Refresh, Catalogue!RetryLoad, Catalogue!Serve, Catalogue!LoadAnswer,
       Catalogue!RequestClose, Catalogue!Discard, Catalogue!KeepEditing, Catalogue!CancelDelete,
       Catalogue!OthersChange
  <2>2. \A p \in X : ~Catalogue!RequestEdit(p) /\ ~Catalogue!Publish(p) /\ ~Catalogue!OpenDelete(p)
    BY <1>3, <1>5 DEF Catalogue!RequestEdit, Catalogue!Publish, Catalogue!OpenDelete
  <2>3. ~Catalogue!ConfirmDelete
    BY <1>3, <1>5 DEF Catalogue!ConfirmDelete
  <2>4. \A e, field, value : ~Catalogue!Put(e, field, value)
    BY <1>5 DEF Catalogue!Put
  <2>5. /\ ~Catalogue!ResetName /\ ~Catalogue!SelectImage /\ ~Catalogue!DiscardImage
        /\ ~Catalogue!ToggleRemove
        /\ \A w : ~Catalogue!TypeName(w) /\ ~Catalogue!TypeText(w)
    BY <2>4, Zenon DEF Catalogue!ResetName, Catalogue!SelectImage, Catalogue!DiscardImage,
       Catalogue!ToggleRemove, Catalogue!TypeName, Catalogue!TypeText
  <2> QED
    BY <1>4, <2>1, <2>2, <2>3, <2>5 DEF Catalogue!Next
<1>7. Catalogue!IsDirty(editor) /\ editor # Catalogue!Closed
  BY <1>6, ProductRecords DEF Catalogue!Submit
<1>8. pOp' = Catalogue!Call("saving", "product", editor.id, Catalogue!ContentBody(editor))
  <2>1. Catalogue!Call("saving", "image", editor.id, Catalogue!ImageBody(editor)).stage = "image"
    BY DEF Catalogue!Call
  <2> QED
    BY <1>6, <2>1 DEF Catalogue!Submit
<1>9. pOp'.body = Catalogue!ContentBody(editor)
  BY <1>8 DEF Catalogue!Call
<1>10. Catalogue!ContentBody(editor).name # None => typed.name = Catalogue!ContentBody(editor).name
  BY <1>7, ProductConstants DEF Catalogue!ContentBody, ProductInv, ProductEditorAgrees,
     ProductChangesAreTyped
<1>11. Catalogue!ContentBody(editor).text # None => typed.text = Catalogue!ContentBody(editor).text \/ pCrossed
  BY <1>7, ProductConstants DEF Catalogue!ContentBody, ProductInv, ProductEditorAgrees,
     ProductChangesAreTyped
<1> QED
  BY <1>9, <1>10, <1>11

-----------------------------------------------------------------------------
(* The campaigns: their list, form and switch *)

CampaignRow  == Campaigns!Input \cup {None}
CampaignRows == [X -> CampaignRow]

CampaignSaids == {<<>>} \cup {<<x>> : x \in CampaignRows \cup CampaignRow}
CampaignCallRecord == [n : Nat, kind : Campaigns!Kinds, key : X \cup {None}, input : CampaignRow, at : Campaigns!Steps, said : CampaignSaids]
CampaignIsCall(c) ==
  /\ c \in CampaignCallRecord /\ c.n \in 1..sent
  /\ c.kind # "list" => c.key \in used /\ c.input \in Campaigns!Input
  /\ IF c.at = "answered" THEN c.said = <<c.said[1]>> /\ c.said[1] \in (IF c.kind = "list" THEN CampaignRows ELSE Campaigns!Input) \cup {None}
                          ELSE c.said = <<>>
  /\ c.kind = "list" => c.at \in {"sent", "answered"}

CampaignTyped ==
  /\ rows \in CampaignRows /\ list \in CampaignRows /\ \A c \in calls : CampaignIsCall(c)
  /\ \A c, d \in calls : c.n = d.n => c = d
  /\ loaded \in BOOLEAN /\ loading \in BOOLEAN /\ active \in BOOLEAN /\ left \in BOOLEAN
  /\ others \in 0..CampaignOthers /\ doubts \subseteq {"reload", "administrator", "lost"}
  /\ draft \in Campaigns!Draft \cup {None} /\ original \in Campaigns!Draft \cup {None}
  /\ sent \in 0..CampaignCalls /\ wanted \in 0..sent /\ busy \in 0..sent

\* A key is given once, and every campaign there is or is shown, and every request, has one that was given.
CampaignKeysAgree ==
  /\ used \subseteq X /\ forms = Cardinality(used)
  /\ editing \in used \cup {None} /\ creation \in used \cup {None}
  /\ draft # None /\ editing = None => creation # None
  /\ \A k \in X : rows[k] # None \/ list[k] # None => k \in used
  /\ \A c \in calls : c.kind = "list" /\ c.at = "answered" /\ c.said[1] # None => \A k \in X : c.said[1][k] # None => k \in used

\* The reload that is waited for is on its way.
CampaignLoadingAgrees ==
  /\ active /\ loading => left \/ \E c \in calls : c.n = wanted /\ c.kind = "list"
  /\ ~active => wanted = 0
  /\ ~active /\ loaded /\ loading => left

\* The steps of a write.
CampaignWritesAgree ==
  \A c \in calls :
    /\ c.at = "written" => rows[c.key] # None
    /\ c.kind = "create" /\ c.at = "answered" => c.said[1] \in {c.input, None}

\* While nothing puts the list in doubt there is at most one write, the one that is waited for, and the
\* list has the terms of the rows but for the campaign that write has just changed.
CampaignChanging(c, k) == c.kind = "update" /\ c.key = k /\ (c.at = "written" \/ (c.at = "answered" /\ c.said[1] # None))
CampaignListAgrees ==
  doubts = {} =>
    /\ \A c \in calls : c.kind # "list" => c.n = busy
    /\ \A c \in calls : c.kind = "toggle" /\ c.at = "sent" => rows[c.key] # None /\ rows[c.key].terms = c.input.terms
    /\ \A c \in calls : c.kind # "list" /\ c.at = "answered" => c.said[1] \in {None, rows[c.key]}
    /\ \A k \in X : list[k] # None =>
         rows[k] # None /\ (list[k].terms = rows[k].terms \/ \E c \in calls : CampaignChanging(c, k))

CampaignInv == CampaignTyped /\ CampaignKeysAgree /\ CampaignLoadingAgrees /\ CampaignWritesAgree /\ CampaignListAgrees

\* What the campaigns use of the constants.
LEMMA CampaignConstants ==
  /\ CampaignCalls \in Nat \ {0} /\ CampaignOthers \in Nat /\ IsFiniteSet(X)
  /\ None \notin X /\ None \notin Campaigns!Input /\ Campaigns!Blank \notin Y
  BY ConsoleAssumption, SameSizes DEF Campaigns!CampaignConstants, Campaigns!NamesAreFree

LEMMA CampaignTuples == \A x : <<x>> # <<>> /\ <<x>>[1] = x /\ (\A y : <<x>> = <<y>> => x = y)
  OBVIOUS

LEMMA CampaignInputs ==
  ASSUME NEW i \in Campaigns!Input
  PROVE  i # None /\ i \in CampaignRow /\ i \in Campaigns!Draft /\ i.terms \in Y /\ i.enabled \in BOOLEAN
  BY CampaignConstants DEF Campaigns!Input, CampaignRow, Campaigns!Draft

CampaignNew(kind, key, input) == [n |-> sent + 1, kind |-> kind, key |-> key, input |-> input, at |-> "sent", said |-> <<>>]

LEMMA CampaignSends ==
  ASSUME CampaignInv, NEW kind \in Campaigns!Kinds, NEW key, NEW input, Campaigns!Send(kind, key, input),
         used' = used,
         IF kind = "list" THEN key = None /\ input = None ELSE key \in used /\ input \in Campaigns!Input
  PROVE  /\ calls' = calls \cup {CampaignNew(kind, key, input)} /\ sent' = sent + 1
         /\ sent' \in 0..CampaignCalls
         /\ \A c \in calls' : CampaignIsCall(c)'
         /\ \A c, d \in calls' : c.n = d.n => c = d
         /\ CampaignNew(kind, key, input).kind = kind /\ CampaignNew(kind, key, input).n = sent + 1
         /\ CampaignNew(kind, key, input).at = "sent"
         /\ CampaignNew(kind, key, input).key = key /\ CampaignNew(kind, key, input).input = input
         /\ \A c \in calls : c.n \in 1..sent
<1>0. PICK q : q = CampaignNew(kind, key, input)
  OBVIOUS
<1>1. calls' = calls \cup {q} /\ sent' = sent + 1 /\ sent < CampaignCalls
  BY <1>0 DEF Campaigns!Send, CampaignNew
<1>2. /\ q.n = sent + 1 /\ q.kind = kind /\ q.key = key /\ q.input = input /\ q.at = "sent" /\ q.said = <<>>
  BY <1>0 DEF CampaignNew
<1>3. sent \in Nat /\ sent' \in 0..CampaignCalls /\ 1..sent \subseteq 1..sent' /\ sent' \in 1..sent'
  BY <1>1, CampaignConstants DEF CampaignInv, CampaignTyped
<1>9. q \in CampaignCallRecord
  BY <1>0, <1>3 DEF CampaignNew, CampaignCallRecord, CampaignSaids, Campaigns!Steps, CampaignRow,
     CampaignInv, CampaignKeysAgree
<1>4. CampaignIsCall(q)'
  BY <1>1, <1>2, <1>3, <1>9 DEF CampaignIsCall
<1>5. \A c \in calls : c.n \in 1..sent /\ CampaignIsCall(c)'
  BY <1>3 DEF CampaignInv, CampaignTyped, CampaignIsCall
<1>6. \A c \in calls : c.n # q.n
  BY <1>2, <1>3, <1>5
<1>7. \A c, d \in calls' : c.n = d.n => c = d
  BY <1>1, <1>6 DEF CampaignInv, CampaignTyped
<1> QED
  BY <1>0, <1>1, <1>2, <1>3, <1>4, <1>5, <1>7

LEMMA CampaignAdvances ==
  ASSUME CampaignInv, NEW c \in calls, NEW step \in Campaigns!Steps, NEW said,
         Campaigns!Becomes(c, step, said), sent' = sent, used' = used,
         c.kind = "list" => step = "answered",
         \/ step # "answered" /\ said = <<>>
         \/ step = "answered" /\ \E x \in (IF c.kind = "list" THEN CampaignRows ELSE Campaigns!Input) \cup {None} : said = <<x>>
  PROVE  \E q : /\ calls' = (calls \ {c}) \cup {q}
                /\ q.n = c.n /\ q.kind = c.kind /\ q.key = c.key /\ q.input = c.input /\ q.at = step
                /\ q.said = said
                /\ \A x \in calls' : CampaignIsCall(x)'
                /\ \A x, y \in calls' : x.n = y.n => x = y
<1>1. CampaignIsCall(c)
  BY DEF CampaignInv, CampaignTyped
<1> DEFINE q == [c EXCEPT !.at = step, !.said = said]
<1>2. said \in CampaignSaids
  BY DEF CampaignSaids, CampaignRow
<1>3. calls' = (calls \ {c}) \cup {q}
  BY DEF Campaigns!Becomes
<1>4. q.n = c.n /\ q.kind = c.kind /\ q.key = c.key /\ q.input = c.input /\ q.at = step /\ q.said = said
      /\ q \in CampaignCallRecord
  BY <1>1, <1>2 DEF CampaignIsCall, CampaignCallRecord
<1> HIDE DEF q
<1>5. step = "answered" => q.said = <<q.said[1]>> /\ q.said[1] \in (IF q.kind = "list" THEN CampaignRows ELSE Campaigns!Input) \cup {None}
  BY <1>4, CampaignTuples
<1>6. CampaignIsCall(q)'
  BY <1>1, <1>4, <1>5 DEF CampaignIsCall
<1>7. \A x \in calls : CampaignIsCall(x)'
  BY DEF CampaignInv, CampaignTyped, CampaignIsCall
<1>8. \A x \in calls' : CampaignIsCall(x)'
  BY <1>3, <1>6, <1>7
<1>9. \A x, y \in calls' : x.n = y.n => x = y
  BY <1>3, <1>4 DEF CampaignInv, CampaignTyped
<1> QED
  BY <1>3, <1>4, <1>8, <1>9

\* What the server's steps leave alone.
LEMMA CampaignServerKeepsTypes ==
  ASSUME CampaignInv, rows' \in CampaignRows, \A x \in calls' : CampaignIsCall(x)', \A x,
         y \in calls' : x.n = y.n => x = y,
         UNCHANGED <<sent, active, list, loaded, loading, wanted, busy, others, left, doubts>>, UNCHANGED Campaigns!form
  PROVE  CampaignTyped'
  BY DEF CampaignInv, CampaignTyped, Campaigns!form

LEMMA CampaignServerKeepsLoading ==
  ASSUME CampaignInv, NEW c \in calls, NEW q, calls' = (calls \ {c}) \cup {q}, q.n = c.n, q.kind = c.kind,
         UNCHANGED <<active, loaded, loading, wanted, left>>
  PROVE  CampaignLoadingAgrees'
  BY DEF CampaignInv, CampaignLoadingAgrees

LEMMA CampaignAnswers ==
  ASSUME CampaignInv, NEW c \in calls, CampaignIsCall(c), NEW said \in {c.said, Campaigns!Lost},
         Campaigns!Accepted(said), Campaigns!Ends(c, said)
  PROVE  /\ c.at = "answered" /\ said = c.said /\ calls' = calls \ {c}
         /\ c.said[1] \in (IF c.kind = "list" THEN CampaignRows ELSE Campaigns!Input) /\ c.said[1] # None
<1>1. said # <<>> /\ said # <<None>>
  BY DEF Campaigns!Accepted, Campaigns!Lost
<1>2. c.at = "answered" /\ said = c.said /\ calls' = calls \ {c}
  BY <1>1 DEF Campaigns!Ends, Campaigns!Lost
<1> QED
  BY <1>1, <1>2 DEF CampaignIsCall

LEMMA CampaignListKeeps ==
  ASSUME CampaignInv, Campaigns!ServerStep, NEW c \in calls, Campaigns!List(c)
  PROVE  CampaignInv'
<1>1. /\ c.kind = "list" /\ c.at = "sent" /\ Campaigns!Becomes(c, "answered", <<rows>>) /\ rows' = rows
      /\ UNCHANGED <<sent, active, list, loaded, loading, wanted, busy, others, left, doubts>>
      /\ UNCHANGED Campaigns!form
  BY DEF Campaigns!List, Campaigns!ServerStep
<1>2. sent' = sent /\ used' = used /\ rows \in CampaignRows
  BY <1>1 DEF Campaigns!form, CampaignInv, CampaignTyped
<1>3. \E x \in (IF c.kind = "list" THEN CampaignRows ELSE Campaigns!Input) \cup {None} : <<rows>> = <<x>>
  BY <1>1, <1>2
<1>4. PICK q : /\ calls' = (calls \ {c}) \cup {q}
               /\ q.n = c.n /\ q.kind = c.kind /\ q.key = c.key /\ q.input = c.input /\ q.at = "answered"
               /\ q.said = <<rows>>
               /\ \A x \in calls' : CampaignIsCall(x)'
               /\ \A x, y \in calls' : x.n = y.n => x = y
  BY <1>1, <1>2, <1>3, CampaignAdvances DEF Campaigns!Steps
<1>5. q.said[1] = rows
  BY <1>4, CampaignTuples
<1>6. CampaignTyped' /\ CampaignLoadingAgrees'
  BY <1>1, <1>2, <1>4, CampaignServerKeepsTypes, CampaignServerKeepsLoading
<1>7. CampaignKeysAgree' /\ CampaignWritesAgree'
  BY <1>1, <1>4, <1>5 DEF CampaignInv, CampaignKeysAgree, CampaignWritesAgree, Campaigns!form
<1>8. \A x \in calls : x.kind # "list" => x \in calls'
  BY <1>1, <1>4
<1>9. \A x \in calls' : x.kind # "list" => x \in calls
  BY <1>1, <1>4
<1>10. CampaignListAgrees'
  BY <1>1, <1>8, <1>9 DEF CampaignInv, CampaignListAgrees, CampaignChanging
<1> QED
  BY <1>6, <1>7, <1>10 DEF CampaignInv

\* A step of a write that leaves the rows alone.
LEMMA CampaignWriteStepKeeps ==
  ASSUME CampaignInv, Campaigns!ServerStep, NEW c \in calls, c.kind # "list", c.at # "answered", rows' = rows,
         NEW step \in {"looked", "answered"}, NEW said, Campaigns!Becomes(c, step, said),
         \/ step = "looked" /\ c.kind = "create" /\ said = <<>> /\ c.at # "written"
         \/ /\ step = "answered"
            /\ \E x : /\ said = <<x>> /\ x \in {None, rows[c.key]} /\ (c.kind = "create" => x \in {None, c.input})
                      /\ (c.at = "written" /\ c.kind # "create" => x # None)
  PROVE  CampaignInv'
<1>1. /\ UNCHANGED <<sent, active, list, loaded, loading, wanted, busy, others, left, doubts>>
      /\ UNCHANGED Campaigns!form
  BY DEF Campaigns!ServerStep
<1>2. sent' = sent /\ used' = used /\ rows \in CampaignRows /\ c.key \in X /\ rows[c.key] \in CampaignRow
  BY <1>1 DEF Campaigns!form, CampaignInv, CampaignTyped, CampaignIsCall, CampaignKeysAgree, CampaignRows
<1>3. PICK q : /\ calls' = (calls \ {c}) \cup {q}
               /\ q.n = c.n /\ q.kind = c.kind /\ q.key = c.key /\ q.input = c.input /\ q.at = step
               /\ q.said = said
               /\ \A x \in calls' : CampaignIsCall(x)'
               /\ \A x, y \in calls' : x.n = y.n => x = y
  BY <1>2, CampaignAdvances DEF Campaigns!Steps, CampaignRow
<1>4. CampaignTyped' /\ CampaignLoadingAgrees'
  BY <1>1, <1>2, <1>3, CampaignServerKeepsTypes, CampaignServerKeepsLoading
<1>5. step = "answered" => /\ q.said[1] \in {None, rows[c.key]} /\ (c.kind = "create" => q.said[1] \in {None, c.input})
                           /\ (c.at = "written" /\ c.kind # "create" => q.said[1] # None)
  BY <1>3, CampaignTuples
<1>6. CampaignKeysAgree' /\ CampaignWritesAgree'
  BY <1>1, <1>3, <1>5 DEF CampaignInv, CampaignKeysAgree, CampaignWritesAgree, Campaigns!form
<1>7. ASSUME NEW k \in X, NEW x \in calls,
             CampaignChanging(x, k) PROVE \E y \in calls' : CampaignChanging(y, k)
  <2>1. CASE x # c
    BY <1>3, <1>7, <2>1
  <2>2. CASE x = c
    <3>1. c.at = "written" /\ c.kind = "update" /\ c.key = k
      BY <1>7, <2>2 DEF CampaignChanging
    <3>2. step = "answered" /\ q.said[1] # None /\ q \in calls'
      BY <1>3, <1>5, <3>1
    <3> QED
      BY <1>3, <3>1, <3>2 DEF CampaignChanging
  <2> QED
    BY <2>1, <2>2
<1>8. CampaignListAgrees'
  <2> SUFFICES ASSUME doubts = {} PROVE CampaignListAgrees'
    BY <1>1 DEF CampaignListAgrees
  <2>1. \A x \in calls' : x.kind # "list" => x.n = busy
    BY <1>3 DEF CampaignInv, CampaignListAgrees
  <2>2. \A x \in calls' : x.kind = "toggle" /\ x.at = "sent" => rows[x.key] # None /\ rows[x.key].terms = x.input.terms
    BY <1>3 DEF CampaignInv, CampaignListAgrees
  <2>3. \A x \in calls' : x.kind # "list" /\ x.at = "answered" => x.said[1] \in {None, rows[x.key]}
    BY <1>3, <1>5 DEF CampaignInv, CampaignListAgrees
  <2>4. \A k \in X : list[k] # None =>
         rows[k] # None /\ (list[k].terms = rows[k].terms \/ \E x \in calls' : CampaignChanging(x, k))
    BY <1>7 DEF CampaignInv, CampaignListAgrees
  <2> QED
    BY <1>1, <2>1, <2>2, <2>3, <2>4 DEF CampaignListAgrees, CampaignChanging
<1> QED
  BY <1>4, <1>6, <1>8 DEF CampaignInv

LEMMA CampaignRecovers ==
  ASSUME NEW row, NEW i
  PROVE  Campaigns!RecoverCreation(row, i) \in {None, row} /\ Campaigns!RecoverCreation(row, i) \in {None, i}
  BY DEF Campaigns!RecoverCreation

LEMMA CampaignQuietSteps ==
  ASSUME CampaignInv, Campaigns!ServerStep, NEW c \in calls,
         Campaigns!Look(c) \/ Campaigns!ReadBack(c) \/ (Campaigns!Refuse(c) /\ c.kind # "list")
  PROVE  CampaignInv'
<1>1. rows' = rows /\ CampaignIsCall(c)
  BY DEF Campaigns!Look, Campaigns!ReadBack, Campaigns!Refuse, CampaignInv, CampaignTyped
<1>2. CASE Campaigns!Look(c)
  <2>1. c.kind = "create" /\ c.at = "sent"
    BY <1>2 DEF Campaigns!Look
  <2>2. CASE rows[c.key] # None
    BY <1>1, <1>2, <2>1, <2>2, CampaignRecovers, CampaignWriteStepKeeps DEF Campaigns!Look
  <2>3. CASE rows[c.key] = None
    BY <1>1, <1>2, <2>1, <2>3, CampaignWriteStepKeeps DEF Campaigns!Look
  <2> QED
    BY <2>2, <2>3
<1>3. CASE Campaigns!ReadBack(c)
  <2>1. c.at = "written" /\ c.kind # "list" /\ rows[c.key] # None
    BY <1>1, <1>3 DEF Campaigns!ReadBack, CampaignIsCall, CampaignInv, CampaignWritesAgree
  <2>2. CASE c.kind = "create"
    BY <1>1, <1>3, <2>1, <2>2, CampaignRecovers, CampaignWriteStepKeeps DEF Campaigns!ReadBack
  <2>3. CASE c.kind # "create"
    BY <1>1, <1>3, <2>1, <2>3, CampaignWriteStepKeeps DEF Campaigns!ReadBack
  <2> QED
    BY <2>2, <2>3
<1>4. CASE Campaigns!Refuse(c) /\ c.kind # "list"
  <2>1. c.at \in {"sent", "looked"} /\ Campaigns!Becomes(c, "answered", <<None>>)
    BY <1>4 DEF Campaigns!Refuse
  <2> QED
    BY <1>1, <1>4, <2>1, CampaignWriteStepKeeps
<1> QED
  BY <1>2, <1>3, <1>4

LEMMA CampaignRefusedListKeeps ==
  ASSUME CampaignInv, Campaigns!ServerStep, NEW c \in calls, Campaigns!Refuse(c), c.kind = "list"
  PROVE  CampaignInv'
<1>1. /\ c.kind = "list" /\ Campaigns!Becomes(c, "answered", <<None>>) /\ rows' = rows
      /\ UNCHANGED <<sent, active, list, loaded, loading, wanted, busy, others, left, doubts>>
      /\ UNCHANGED Campaigns!form
  BY DEF Campaigns!Refuse, Campaigns!ServerStep
<1>2. sent' = sent /\ used' = used /\ rows \in CampaignRows
  BY <1>1 DEF Campaigns!form, CampaignInv, CampaignTyped
<1>3. PICK q : /\ calls' = (calls \ {c}) \cup {q}
               /\ q.n = c.n /\ q.kind = c.kind /\ q.key = c.key /\ q.input = c.input /\ q.at = "answered"
               /\ q.said = <<None>>
               /\ \A x \in calls' : CampaignIsCall(x)'
               /\ \A x, y \in calls' : x.n = y.n => x = y
  BY <1>1, <1>2, CampaignAdvances DEF Campaigns!Steps
<1>4. q.said[1] = None
  BY <1>3, CampaignTuples
<1>5. CampaignTyped' /\ CampaignLoadingAgrees'
  BY <1>1, <1>2, <1>3, CampaignServerKeepsTypes, CampaignServerKeepsLoading
<1>6. CampaignKeysAgree' /\ CampaignWritesAgree'
  BY <1>1, <1>3, <1>4 DEF CampaignInv, CampaignKeysAgree, CampaignWritesAgree, Campaigns!form
<1>7. \A x \in calls : x.kind # "list" => x \in calls'
  BY <1>1, <1>3
<1>8. \A x \in calls' : x.kind # "list" => x \in calls
  BY <1>1, <1>3
<1>9. CampaignListAgrees'
  BY <1>1, <1>7, <1>8 DEF CampaignInv, CampaignListAgrees, CampaignChanging
<1> QED
  BY <1>5, <1>6, <1>9 DEF CampaignInv

LEMMA CampaignWriteKeeps ==
  ASSUME CampaignInv, Campaigns!ServerStep, NEW c \in calls, Campaigns!Write(c)
  PROVE  CampaignInv'
<1>1. UNCHANGED <<sent, active, list, loaded, loading, wanted, busy, others, left,
                  doubts>> /\ UNCHANGED Campaigns!form
      /\ Campaigns!Becomes(c, "written", <<>>) /\ c.at # "written" /\ c.at # "answered"
      /\ c.kind \in {"create", "update", "toggle"}
      /\ (c.kind = "toggle" => c.at = "sent")
  BY DEF Campaigns!ServerStep, Campaigns!Write
<1>2. /\ sent' = sent /\ used' = used /\ rows \in CampaignRows /\ c.key \in X /\ c.key \in used
      /\ c.input \in Campaigns!Input /\ c.input # None
  BY <1>1, CampaignInputs DEF Campaigns!form, CampaignInv, CampaignTyped, CampaignIsCall, CampaignKeysAgree
<1>3. rows' = IF c.kind = "create" /\ rows[c.key] # None THEN rows ELSE [rows EXCEPT ![c.key] = c.input]
  BY DEF Campaigns!Write
<1>4. /\ rows' \in CampaignRows /\ rows'[c.key] # None /\ \A k \in X \ {c.key} : rows'[k] = rows[k]
      /\ \A k \in X : rows[k] # None => rows'[k] # None
      /\ (c.kind # "create" => rows'[c.key] = c.input)
      /\ (c.kind = "create" => rows'[c.key] = rows[c.key] \/ rows[c.key] = None)
  BY <1>2, <1>3 DEF CampaignRows, CampaignRow
<1>5. PICK q : /\ calls' = (calls \ {c}) \cup {q}
               /\ q.n = c.n /\ q.kind = c.kind /\ q.key = c.key /\ q.input = c.input /\ q.at = "written"
               /\ q.said = <<>>
               /\ \A x \in calls' : CampaignIsCall(x)'
               /\ \A x, y \in calls' : x.n = y.n => x = y
  BY <1>1, <1>2, CampaignAdvances DEF Campaigns!Steps
<1>6. CampaignTyped' /\ CampaignLoadingAgrees'
  BY <1>1, <1>4, <1>5, CampaignServerKeepsTypes, CampaignServerKeepsLoading
<1>7. CampaignKeysAgree'
  BY <1>1, <1>2, <1>4, <1>5 DEF CampaignInv, CampaignKeysAgree, Campaigns!form
<1>8. CampaignWritesAgree'
  <2>1. \A x \in calls : x.at = "written" => x.key \in X
    BY DEF CampaignInv, CampaignTyped, CampaignIsCall, CampaignKeysAgree
  <2> QED
    BY <1>4, <1>5, <2>1 DEF CampaignInv, CampaignWritesAgree
<1>9. CampaignListAgrees'
  <2> SUFFICES ASSUME doubts = {} PROVE CampaignListAgrees'
    BY <1>1 DEF CampaignListAgrees
  <2>1. \A x \in calls' : x.kind # "list" => x = q
    BY <1>1, <1>5 DEF CampaignInv, CampaignListAgrees, CampaignTyped
  <2>2. q.n = busy
    BY <1>1, <1>5 DEF CampaignInv, CampaignListAgrees
  <2>3. ASSUME NEW k \in X, list[k] # None
        PROVE  rows'[k] # None /\ (list[k].terms = rows'[k].terms \/ \E x \in calls' : CampaignChanging(x, k))
    <3>1. rows[k] # None /\ (list[k].terms = rows[k].terms \/ \E x \in calls : CampaignChanging(x, k))
      BY <2>3 DEF CampaignInv, CampaignListAgrees
    <3>2. ~\E x \in calls : CampaignChanging(x, k)
      <4> SUFFICES ASSUME NEW x \in calls, CampaignChanging(x, k) PROVE FALSE
        OBVIOUS
      <4>1. x = c
        BY <1>1 DEF CampaignChanging, CampaignInv, CampaignListAgrees, CampaignTyped
      <4> QED
        BY <1>1, <4>1 DEF CampaignChanging
    <3>3. rows'[k] # None /\ list[k].terms = rows[k].terms
      BY <1>4, <3>1, <3>2
    <3>4. CASE k # c.key \/ c.kind = "create"
      BY <1>4, <3>1, <3>3, <3>4
    <3>5. CASE k = c.key /\ c.kind = "update"
      BY <1>5, <3>3, <3>5 DEF CampaignChanging
    <3>6. CASE k = c.key /\ c.kind = "toggle"
      <4>1. rows[k].terms = c.input.terms
        BY <1>1, <3>6 DEF CampaignInv, CampaignListAgrees
      <4> QED
        BY <1>4, <3>3, <3>6, <4>1
    <3> QED
      BY <1>1, <3>4, <3>5, <3>6
  <2> QED
    BY <1>1, <1>5, <2>1, <2>2, <2>3 DEF CampaignListAgrees, CampaignChanging
<1> QED
  BY <1>6, <1>7, <1>8, <1>9 DEF CampaignInv

LEMMA CampaignServerStepKeeps == ASSUME CampaignInv, Campaigns!ServerStep PROVE CampaignInv'
<1>1. PICK c \in calls : Campaigns!List(c) \/ Campaigns!Look(c) \/ Campaigns!Write(c) \/ Campaigns!ReadBack(c) \/ Campaigns!Refuse(c)
  BY DEF Campaigns!ServerStep
<1> QED
  BY <1>1, CampaignListKeeps, CampaignQuietSteps, CampaignWriteKeeps, CampaignRefusedListKeeps

\* A request of the panel is sent; a write only when no other is waited for.
LEMMA CampaignSendingKeeps ==
  ASSUME CampaignInv, NEW kind \in Campaigns!Kinds, NEW key, NEW input, Campaigns!Send(kind, key, input),
         IF kind = "list" THEN key = None /\ input = None ELSE key \in used /\ input \in Campaigns!Input,
         UNCHANGED <<rows, list, loaded, others, left, doubts>>, UNCHANGED Campaigns!form,
         kind = "list" => wanted' = sent + 1 /\ loading' = TRUE /\ active' = TRUE /\ busy' = busy,
         kind # "list" => busy = 0 /\ busy' = sent + 1 /\ UNCHANGED <<active, wanted, loading>>,
         kind = "toggle" /\ doubts = {} => rows[key] # None /\ rows[key].terms = input.terms
  PROVE  CampaignInv'
<1>0. PICK q : q = CampaignNew(kind, key, input)
  OBVIOUS
<1>1. /\ calls' = calls \cup {q} /\ sent' = sent + 1 /\ sent' \in 0..CampaignCalls
      /\ \A c \in calls' : CampaignIsCall(c)'
      /\ \A c, d \in calls' : c.n = d.n => c = d
      /\ q.kind = kind /\ q.n = sent + 1 /\ q.at = "sent" /\ q.key = key /\ q.input = input
      /\ \A c \in calls : c.n \in 1..sent
  <2>1. used' = used
    BY DEF Campaigns!form
  <2> QED
    BY <1>0, <2>1, CampaignSends
<1>2. /\ sent \in Nat /\ wanted' \in 0..sent' /\ busy' \in 0..sent' /\ loading' \in BOOLEAN
      /\ active' \in BOOLEAN
  <2>1. sent \in Nat /\ wanted \in 0..sent /\ busy \in 0..sent
    BY CampaignConstants DEF CampaignInv, CampaignTyped
  <2>2. wanted' \in 0..sent' /\ busy' \in 0..sent'
    BY <1>1, <2>1
  <2>3. loading' \in BOOLEAN /\ active' \in BOOLEAN
    <3>1. loading \in BOOLEAN /\ active \in BOOLEAN
      BY DEF CampaignInv, CampaignTyped
    <3>2. CASE kind = "list"
      BY <3>2
    <3>3. CASE kind # "list"
      BY <3>1, <3>3
    <3> QED
      BY <3>2, <3>3
  <2> QED
    BY <2>1, <2>2, <2>3
<1>3. CampaignTyped'
  BY <1>1, <1>2 DEF CampaignInv, CampaignTyped, Campaigns!form
<1>4. CampaignKeysAgree' /\ CampaignWritesAgree'
  BY <1>1 DEF CampaignInv, CampaignKeysAgree, CampaignWritesAgree, Campaigns!form
<1>5. CampaignLoadingAgrees'
  BY <1>1 DEF CampaignInv, CampaignLoadingAgrees
<1>6. CampaignListAgrees'
  <2> SUFFICES ASSUME doubts = {} PROVE CampaignListAgrees'
    BY DEF CampaignListAgrees
  <2>1. \A x \in calls' : x.kind # "list" => x.n = busy'
    <3>1. \A x \in calls : x.kind # "list" => x.n = busy /\ busy # 0
      BY <1>1, <1>2 DEF CampaignInv, CampaignListAgrees
    <3> QED
      BY <1>1, <3>1
  <2>2. \A x \in calls' : x.kind = "toggle" /\ x.at = "sent" => rows[x.key] # None /\ rows[x.key].terms = x.input.terms
    BY <1>1 DEF CampaignInv, CampaignListAgrees
  <2>3. \A x \in calls' : x.kind # "list" /\ x.at = "answered" => x.said[1] \in {None, rows[x.key]}
    BY <1>1 DEF CampaignInv, CampaignListAgrees
  <2>4. \A k \in X : list[k] # None =>
         rows[k] # None /\ (list[k].terms = rows[k].terms \/ \E x \in calls' : CampaignChanging(x, k))
    BY <1>1 DEF CampaignInv, CampaignListAgrees
  <2> QED
    BY <2>1, <2>2, <2>3, <2>4 DEF CampaignListAgrees, CampaignChanging
<1> QED
  BY <1>3, <1>4, <1>5, <1>6 DEF CampaignInv

LEMMA CampaignReloadKeeps == ASSUME CampaignInv, Campaigns!Reload PROVE CampaignInv'
  BY CampaignSendingKeeps DEF Campaigns!Reload, Campaigns!Kinds

LEMMA CampaignShowKeeps == ASSUME CampaignInv, Campaigns!Show PROVE CampaignInv'
<1>1. CASE loaded
  <2>1. /\ ~active /\ active' = TRUE
        /\ UNCHANGED <<calls, sent, wanted, loading, rows, list, loaded, busy, others, left, doubts>>
        /\ UNCHANGED Campaigns!form
    BY <1>1 DEF Campaigns!Show
  <2>2. CampaignTyped' /\ CampaignKeysAgree' /\ CampaignWritesAgree' /\ CampaignListAgrees'
    BY <2>1 DEF CampaignInv, CampaignTyped, CampaignIsCall, CampaignKeysAgree, CampaignWritesAgree,
       CampaignListAgrees, CampaignChanging, Campaigns!form
  <2>3. CampaignLoadingAgrees'
    BY <1>1, <2>1 DEF CampaignInv, CampaignLoadingAgrees
  <2> QED
    BY <2>2, <2>3 DEF CampaignInv
<1>2. CASE ~loaded
  BY <1>2, CampaignSendingKeeps DEF Campaigns!Show, Campaigns!Kinds
<1> QED
  BY <1>1, <1>2 DEF CampaignInv, CampaignTyped

LEMMA CampaignHideKeeps == ASSUME CampaignInv, Campaigns!Hide PROVE CampaignInv'
<1>1. /\ active' = FALSE /\ wanted' = 0 /\ left' = (left \/ (loaded /\ loading))
      /\ UNCHANGED <<rows, calls, sent, list, loaded, loading, busy, others, doubts>>
      /\ UNCHANGED Campaigns!form
  BY DEF Campaigns!Hide
<1>2. left' \in BOOLEAN /\ active' \in BOOLEAN
  BY <1>1
<1>3. CampaignTyped' /\ CampaignKeysAgree' /\ CampaignWritesAgree' /\ CampaignListAgrees'
  BY <1>1, <1>2, CampaignConstants DEF CampaignInv, CampaignTyped, CampaignIsCall, CampaignKeysAgree,
     CampaignWritesAgree, CampaignListAgrees, CampaignChanging, Campaigns!form
<1>4. CampaignLoadingAgrees'
  BY <1>1 DEF CampaignLoadingAgrees
<1> QED
  BY <1>3, <1>4 DEF CampaignInv

\* The form alone changes.
LEMMA CampaignFormKeeps ==
  ASSUME CampaignInv,
         UNCHANGED <<rows, calls, sent, active, list, loaded, loading, wanted, busy, others, left, doubts>>,
         used \subseteq used', used' \subseteq X, forms' = Cardinality(used'),
         draft' \in Campaigns!Draft \cup {None}, original' \in Campaigns!Draft \cup {None},
         editing' \in used' \cup {None}, creation' \in used' \cup {None},
         draft' # None /\ editing' = None => creation' # None
  PROVE  CampaignInv'
<1>1. CampaignTyped'
  BY DEF CampaignInv, CampaignTyped, CampaignIsCall
<1>2. CampaignKeysAgree'
  BY DEF CampaignInv, CampaignKeysAgree
<1> QED
  BY <1>1, <1>2 DEF CampaignInv, CampaignLoadingAgrees, CampaignWritesAgree, CampaignListAgrees,
     CampaignChanging

LEMMA CampaignOpenNewKeeps == ASSUME CampaignInv, Campaigns!OpenNew PROVE CampaignInv'
<1>1. PICK k \in X \ used : creation' = k /\ used' = used \cup {k}
  BY DEF Campaigns!OpenNew
<1>2. /\ forms' = forms + 1 /\ draft' = [terms |-> Campaigns!Blank, enabled |-> FALSE] /\ original' = draft'
      /\ editing' = None
      /\ UNCHANGED <<rows, calls, sent, active, list, loaded, loading, wanted, busy, others, left, doubts>>
  BY DEF Campaigns!OpenNew
<1>3. used \subseteq X /\ IsFiniteSet(used) /\ forms = Cardinality(used)
  BY CampaignConstants, FS_Subset DEF CampaignInv, CampaignKeysAgree
<1>4. forms' = Cardinality(used')
  BY <1>1, <1>2, <1>3, FS_AddElement
<1>5. draft' \in Campaigns!Draft
  BY <1>2 DEF Campaigns!Draft
<1> QED
  BY <1>1, <1>2, <1>3, <1>4, <1>5, CampaignConstants, CampaignFormKeeps

LEMMA CampaignOpenEditKeeps == ASSUME CampaignInv, NEW k \in X, Campaigns!OpenEdit(k) PROVE CampaignInv'
<1>1. /\ list[k] # None /\ draft' = list[k] /\ original' = list[k] /\ editing' = k
      /\ UNCHANGED <<rows, calls, sent, active, list, loaded, loading, wanted, busy, creation, used, forms,
                     others, left, doubts>>
  BY DEF Campaigns!OpenEdit
<1>2. k \in used /\ used \subseteq X /\ forms = Cardinality(used) /\ creation \in used \cup {None}
  BY <1>1 DEF CampaignInv, CampaignKeysAgree
<1>3. list[k] \in Campaigns!Draft
  BY <1>1, CampaignInputs DEF CampaignInv, CampaignTyped, CampaignRows, CampaignRow
<1> QED
  BY <1>1, <1>2, <1>3, CampaignConstants, CampaignFormKeeps

LEMMA CampaignCloseEditorKeeps == ASSUME CampaignInv, Campaigns!CloseEditor PROVE CampaignInv'
<1>1. /\ draft' = None /\ original' = None /\ editing' = None
      /\ UNCHANGED <<rows, calls, sent, active, list, loaded, loading, wanted, busy, creation, used, forms,
                     others, left, doubts>>
  BY DEF Campaigns!CloseEditor
<1>2. used \subseteq X /\ forms = Cardinality(used) /\ creation \in used \cup {None}
  BY DEF CampaignInv, CampaignKeysAgree
<1> QED
  BY <1>1, <1>2, CampaignFormKeeps

LEMMA CampaignUpdateKeeps ==
  ASSUME CampaignInv, NEW i \in Campaigns!Input, Campaigns!Update(i)
  PROVE  CampaignInv'
<1>1. /\ draft # None /\ draft' = i
      /\ UNCHANGED <<rows, calls, sent, active, list, loaded, loading, wanted, busy, original, editing,
                     creation, used, forms,
                     others, left, doubts>>
  BY DEF Campaigns!Update
<1>2. used \subseteq X /\ forms = Cardinality(used) /\ creation \in used \cup {None} /\ editing \in used \cup {None}
      /\ (editing = None => creation # None) /\ original \in Campaigns!Draft \cup {None}
  BY <1>1 DEF CampaignInv, CampaignKeysAgree, CampaignTyped
<1> QED
  BY <1>1, <1>2, CampaignInputs, CampaignFormKeeps

LEMMA CampaignSaveKeeps == ASSUME CampaignInv, Campaigns!Save PROVE CampaignInv'
<1>1. /\ busy = 0 /\ draft \in Campaigns!Input /\ busy' = sent + 1
      /\ UNCHANGED <<rows, active, list, loaded, loading, wanted, others, left, doubts>>
      /\ UNCHANGED Campaigns!form
  BY DEF Campaigns!Save
<1>2. draft # None
  BY <1>1, CampaignInputs
<1>3. CASE editing = None
  <2>1. Campaigns!Send("create", creation, draft) /\ creation \in used
    BY <1>2, <1>3 DEF Campaigns!Save, CampaignInv, CampaignKeysAgree
  <2> QED
    BY <1>1, <2>1, CampaignSendingKeeps DEF Campaigns!Kinds
<1>4. CASE editing # None
  <2>1. Campaigns!Send("update", editing, draft) /\ editing \in used
    BY <1>4 DEF Campaigns!Save, CampaignInv, CampaignKeysAgree
  <2> QED
    BY <1>1, <2>1, CampaignSendingKeeps DEF Campaigns!Kinds
<1> QED
  BY <1>3, <1>4

LEMMA CampaignToggleKeeps == ASSUME CampaignInv, NEW k \in X, Campaigns!Toggle(k) PROVE CampaignInv'
<1>1. /\ busy = 0 /\ list[k] # None /\ Campaigns!Send("toggle", k, Campaigns!ToggleInput(k))
      /\ busy' = sent + 1
      /\ UNCHANGED <<rows, active, list, loaded, loading, wanted, others, left, doubts>>
      /\ UNCHANGED Campaigns!form
  BY DEF Campaigns!Toggle
<1>2. k \in used /\ list[k] \in Campaigns!Input
  BY <1>1 DEF CampaignInv, CampaignKeysAgree, CampaignTyped, CampaignRows, CampaignRow
<1>3. Campaigns!ToggleInput(k) \in Campaigns!Input /\ Campaigns!ToggleInput(k).terms = list[k].terms
  <2>1. \A i \in Campaigns!Input : [i EXCEPT !.enabled = ~i.enabled] \in Campaigns!Input /\ [i EXCEPT !.enabled = ~i.enabled].terms = i.terms
    BY DEF Campaigns!Input
  <2>2. Campaigns!ToggleInput(k) = [list[k] EXCEPT !.enabled = ~list[k].enabled]
    BY <1>2 DEF Campaigns!ToggleInput, Campaigns!Input
  <2> QED
    BY <1>2, <2>1, <2>2
<1>4. doubts = {} => rows[k] # None /\ rows[k].terms = list[k].terms
  <2> SUFFICES ASSUME doubts = {} PROVE rows[k] # None /\ rows[k].terms = list[k].terms
    OBVIOUS
  <2>1. \A x \in calls : x.n # 0
    BY DEF CampaignInv, CampaignTyped, CampaignIsCall
  <2>2. ~\E x \in calls : CampaignChanging(x, k)
    BY <1>1, <2>1 DEF CampaignInv, CampaignListAgrees, CampaignChanging
  <2> QED
    BY <1>1, <2>2 DEF CampaignInv, CampaignListAgrees
<1> QED
  BY <1>1, <1>2, <1>3, <1>4, CampaignSendingKeeps DEF Campaigns!Kinds

LEMMA CampaignAnotherAdministratorKeeps ==
  ASSUME CampaignInv, Campaigns!AnotherAdministrator
  PROVE  CampaignInv'
<1>1. PICK k \in X, i \in Campaigns!Input : rows[k] # None /\ rows[k] # i /\ rows' = [rows EXCEPT ![k] = i]
  BY DEF Campaigns!AnotherAdministrator
<1>2. /\ others < CampaignOthers /\ others' = others + 1 /\ doubts' = doubts \cup {"administrator"}
      /\ UNCHANGED <<calls, sent, active, list, loaded, loading, wanted, busy, left>>
      /\ UNCHANGED Campaigns!form
  BY DEF Campaigns!AnotherAdministrator
<1>3. rows' \in CampaignRows /\ (\A j \in X : rows[j] # None <=> rows'[j] # None)
  BY <1>1, CampaignInputs DEF CampaignInv, CampaignTyped, CampaignRows
<1>4. others' \in 0..CampaignOthers
  BY <1>2, CampaignConstants DEF CampaignInv, CampaignTyped
<1>5. CampaignTyped'
  BY <1>2, <1>3, <1>4 DEF CampaignInv, CampaignTyped, CampaignIsCall, Campaigns!form
<1>6. \A c \in calls : c.at = "written" => c.key \in X
  BY DEF CampaignInv, CampaignTyped, CampaignIsCall, CampaignKeysAgree
<1>7. CampaignKeysAgree' /\ CampaignWritesAgree'
  BY <1>2, <1>3, <1>6 DEF CampaignInv, CampaignKeysAgree, CampaignWritesAgree, Campaigns!form
<1>8. CampaignListAgrees'
  BY <1>2 DEF CampaignListAgrees
<1> QED
  BY <1>2, <1>5, <1>7, <1>8 DEF CampaignInv, CampaignLoadingAgrees

\* A request ends that nobody waits for.
LEMMA CampaignIgnoredKeeps == ASSUME CampaignInv, NEW c \in calls, Campaigns!Ignored(c) PROVE CampaignInv'
<1>1. /\ c.kind = "list" /\ c.n # wanted /\ calls' = calls \ {c}
      /\ UNCHANGED <<rows, sent, active, list, loaded, loading, wanted, busy, others, left, doubts>>
      /\ UNCHANGED Campaigns!form
  BY DEF Campaigns!Ignored
<1>2. CampaignTyped' /\ CampaignKeysAgree' /\ CampaignWritesAgree'
  BY <1>1 DEF CampaignInv, CampaignTyped, CampaignIsCall, CampaignKeysAgree, CampaignWritesAgree,
     Campaigns!form
<1>3. CampaignLoadingAgrees'
  BY <1>1 DEF CampaignInv, CampaignLoadingAgrees
<1>4. CampaignListAgrees'
  BY <1>1 DEF CampaignInv, CampaignListAgrees, CampaignChanging
<1> QED
  BY <1>2, <1>3, <1>4 DEF CampaignInv

LEMMA CampaignListedKeeps == ASSUME CampaignInv, NEW c \in calls, Campaigns!Listed(c) PROVE CampaignInv'
<1>1. /\ c.kind = "list" /\ c.n = wanted /\ wanted' = 0 /\ loading' = FALSE
      /\ UNCHANGED <<rows, sent, active, busy, others, left>> /\ UNCHANGED Campaigns!form
  BY DEF Campaigns!Listed
<1>2. PICK said \in {c.said, Campaigns!Lost} :
        /\ Campaigns!Ends(c, said)
        /\ IF ~Campaigns!Accepted(said) THEN UNCHANGED <<list, loaded, doubts>>
           ELSE /\ list' = said[1] /\ loaded' = TRUE
                /\ doubts' = (IF busy = 0 THEN {} ELSE doubts)
                               \cup (IF said[1] # rows THEN {"reload"} ELSE {})
                               \cup (IF Campaigns!Abandoned THEN {"lost"} ELSE {})
  BY DEF Campaigns!Listed
<1>3. CampaignIsCall(c) /\ calls' \in {calls, calls \ {c}} /\ active # FALSE
  <2>1. c.n # 0
    BY DEF CampaignInv, CampaignTyped, CampaignIsCall
  <2> QED
    BY <1>1, <1>2, <2>1 DEF Campaigns!Ends, CampaignInv, CampaignTyped, CampaignLoadingAgrees
<1>4. CampaignLoadingAgrees'
  BY <1>1, <1>3 DEF CampaignLoadingAgrees
<1>5. \A x \in calls : x.kind # "list" => x \in calls'
  BY <1>1, <1>3
<1>6. calls' \subseteq calls
  BY <1>3
<1>10. loading' \in BOOLEAN
  BY <1>1
<1>11. 0 \in 0..sent
  BY CampaignConstants DEF CampaignInv, CampaignTyped
<1>9. wanted' \in 0..sent' /\ loading' \in BOOLEAN
  BY <1>1, <1>10, <1>11
<1>7. CASE UNCHANGED <<list, loaded, doubts>>
  <2>3. CampaignTyped'
    BY <1>1, <1>6, <1>7, <1>9 DEF CampaignInv, CampaignTyped, CampaignIsCall, Campaigns!form
  <2>1. CampaignTyped' /\ CampaignKeysAgree' /\ CampaignWritesAgree'
    BY <1>1, <1>6, <1>7, <2>3 DEF CampaignInv, CampaignKeysAgree, CampaignWritesAgree, Campaigns!form
  <2>2. CampaignListAgrees'
    BY <1>1, <1>5, <1>6, <1>7 DEF CampaignInv, CampaignListAgrees, CampaignChanging
  <2> QED
    BY <1>4, <2>1, <2>2 DEF CampaignInv
<1>8. CASE Campaigns!Accepted(said)
  <2>1. c.at = "answered" /\ said = c.said /\ c.said[1] \in CampaignRows /\ c.said[1] # None
    BY <1>1, <1>2, <1>3, <1>8, CampaignAnswers
  <2>2. /\ list' = c.said[1] /\ loaded' = TRUE
        /\ doubts' = (IF busy = 0 THEN {} ELSE doubts)
                       \cup (IF c.said[1] # rows THEN {"reload"} ELSE {})
                       \cup (IF Campaigns!Abandoned THEN {"lost"} ELSE {})
    BY <1>2, <1>8, <2>1
  <2>3. doubts' \subseteq {"reload", "administrator", "lost"}
    BY <2>2 DEF CampaignInv, CampaignTyped
  <2>4. CampaignTyped'
    <3>1. loaded' \in BOOLEAN /\ list' \in CampaignRows
      BY <2>1, <2>2
    <3> QED
      BY <1>1, <1>6, <1>9, <2>3, <3>1 DEF CampaignInv, CampaignTyped, CampaignIsCall, Campaigns!form
  <2>5. CampaignKeysAgree' /\ CampaignWritesAgree'
    BY <1>1, <1>6, <2>1, <2>2 DEF CampaignInv, CampaignKeysAgree, CampaignWritesAgree, Campaigns!form
  <2>6. CampaignListAgrees'
    <3> SUFFICES ASSUME doubts' = {} PROVE CampaignListAgrees'
      BY DEF CampaignListAgrees
    <3>1. list' = rows /\ ~Campaigns!Abandoned /\ (busy = 0 \/ doubts = {})
      BY <2>2
    <3>2. \A x \in calls : x.kind # "list" => x.n = busy /\ busy # 0
      BY <3>1 DEF Campaigns!Abandoned, CampaignInv, CampaignTyped, CampaignIsCall
    <3>3. CASE busy = 0
      <4>1. \A x \in calls' : x.kind = "list"
        BY <1>6, <3>2, <3>3
      <4> QED
        BY <1>1, <3>1, <4>1 DEF CampaignListAgrees
    <3>4. CASE doubts = {}
      BY <1>1, <1>6, <3>1, <3>2, <3>4 DEF CampaignInv, CampaignListAgrees
    <3> QED
      BY <3>1, <3>3, <3>4
  <2> QED
    BY <1>4, <2>4, <2>5, <2>6 DEF CampaignInv
<1> QED
  BY <1>2, <1>7, <1>8

\* The panel stops waiting for a write without having taken its answer.
LEMMA CampaignNotTaken ==
  ASSUME CampaignInv, NEW c \in calls, c.kind # "list", c.n = busy, busy' = 0,
         NEW said \in {c.said, Campaigns!Lost}, Campaigns!Ends(c, said),
         ~Campaigns!Accepted(said), doubts' = Campaigns!Doubtful(said),
         UNCHANGED <<rows, list, sent, active, loaded, loading, wanted, others, left>>, UNCHANGED Campaigns!form
  PROVE  CampaignInv'
<1>1. calls' \subseteq calls /\ (\A x \in calls : x.kind = "list" => x \in calls')
  BY DEF Campaigns!Ends
<1>2. doubts' \subseteq {"reload", "administrator", "lost"}
  BY DEF Campaigns!Doubtful, CampaignInv, CampaignTyped
<1>3. CampaignTyped' /\ CampaignKeysAgree' /\ CampaignWritesAgree'
  BY <1>1, <1>2, CampaignConstants DEF CampaignInv, CampaignTyped, CampaignIsCall, CampaignKeysAgree,
     CampaignWritesAgree, Campaigns!form
<1>4. CampaignLoadingAgrees'
  BY <1>1 DEF CampaignInv, CampaignLoadingAgrees
<1>5. CampaignListAgrees'
  <2> SUFFICES ASSUME doubts' = {} PROVE CampaignListAgrees'
    BY DEF CampaignListAgrees
  <2>1. said # Campaigns!Lost /\ doubts = {}
    BY DEF Campaigns!Doubtful
  <2>2. said = <<None>> /\ c.at = "answered" /\ calls' = calls \ {c} /\ c.said = <<None>>
    BY <2>1 DEF Campaigns!Accepted, Campaigns!Ends
  <2>3. c.said[1] = None
    BY <2>2, CampaignTuples
  <2>4. \A x \in calls' : x.kind = "list"
    BY <2>1, <2>2 DEF CampaignInv, CampaignListAgrees, CampaignTyped
  <2>5. ASSUME NEW k \in X, NEW x \in calls PROVE ~CampaignChanging(x, k)
    <3>1. x = c => ~CampaignChanging(x, k)
      BY <2>2, <2>3 DEF CampaignChanging
    <3>2. x # c => x.kind = "list"
      BY <2>2, <2>4
    <3> QED
      BY <3>1, <3>2 DEF CampaignChanging
  <2> QED
    BY <2>1, <2>4, <2>5 DEF CampaignInv, CampaignListAgrees
<1> QED
  BY <1>3, <1>4, <1>5 DEF CampaignInv

\* It takes it: what it shows of the campaign is what was read back.
LEMMA CampaignTaken ==
  ASSUME CampaignInv, NEW c \in calls, c.kind # "list", c.n = busy, busy' = 0,
         NEW said \in {c.said, Campaigns!Lost}, Campaigns!Ends(c, said),
         Campaigns!Accepted(said), doubts' = Campaigns!Doubtful(said),
         list' = [list EXCEPT ![c.key] = said[1]] \/ (list' = list /\ list[c.key] = None),
         UNCHANGED <<rows, sent, active, loaded, loading, wanted, creation, used, forms, others, left>>,
         \/ draft' = said[1] /\ original' = said[1] /\ editing' \in {editing, c.key} /\ (editing' = None => draft # None)
         \/ UNCHANGED <<draft, original, editing>>
  PROVE  CampaignInv'
<1>1. CampaignIsCall(c) /\ c.key \in used /\ c.key \in X
  BY DEF CampaignInv, CampaignTyped, CampaignIsCall, CampaignKeysAgree
<1>2. /\ c.at = "answered" /\ said = c.said /\ calls' = calls \ {c} /\ c.said[1] \in Campaigns!Input
      /\ c.said[1] # None
  BY <1>1, CampaignAnswers
<1>3. doubts' = doubts \/ doubts' = doubts \cup {"lost"}
  BY DEF Campaigns!Doubtful
<1>4. list' \in CampaignRows /\ \A k \in X : list'[k] = list[k] \/ (k = c.key /\ list'[k] = c.said[1])
  BY <1>1, <1>2 DEF CampaignInv, CampaignTyped, CampaignRows, CampaignRow
<1>5. doubts' \subseteq {"reload", "administrator", "lost"}
  BY <1>3 DEF CampaignInv, CampaignTyped
<1>6. draft' \in Campaigns!Draft \cup {None} /\ original' \in Campaigns!Draft \cup {None}
  BY <1>2, CampaignInputs DEF CampaignInv, CampaignTyped
<1>7. CampaignTyped'
  BY <1>2, <1>4, <1>5, <1>6, CampaignConstants DEF CampaignInv, CampaignTyped, CampaignIsCall
<1>8. CampaignKeysAgree'
  BY <1>1, <1>2, <1>4, CampaignConstants DEF CampaignInv, CampaignKeysAgree
<1>9. CampaignWritesAgree' /\ CampaignLoadingAgrees'
  BY <1>2 DEF CampaignInv, CampaignWritesAgree, CampaignLoadingAgrees
<1>10. CampaignListAgrees'
  <2> SUFFICES ASSUME doubts' = {} PROVE CampaignListAgrees'
    BY DEF CampaignListAgrees
  <2>1. doubts = {}
    BY <1>3
  <2>2. c.said[1] = rows[c.key] /\ \A x \in calls' : x.kind = "list"
    BY <1>2, <2>1 DEF CampaignInv, CampaignListAgrees, CampaignTyped
  <2>3. ASSUME NEW k \in X, list'[k] # None PROVE rows[k] # None /\ list'[k].terms = rows[k].terms
    <3>1. CASE k # c.key
      <4>1. list'[k] = list[k]
        BY <1>4, <3>1
      <4>2. ~\E x \in calls : CampaignChanging(x, k)
        BY <1>2, <2>2, <3>1 DEF CampaignChanging
      <4> QED
        BY <2>1, <2>3, <4>1, <4>2 DEF CampaignInv, CampaignListAgrees
    <3>2. CASE k = c.key
      <4>1. list'[k] = c.said[1]
        BY <1>1, <1>2, <2>3, <3>2 DEF CampaignInv, CampaignTyped, CampaignRows
      <4> QED
        BY <1>2, <2>2, <3>2, <4>1
    <3> QED
      BY <3>1, <3>2
  <2> QED
    BY <2>2, <2>3 DEF CampaignListAgrees
<1> QED
  BY <1>7, <1>8, <1>9, <1>10 DEF CampaignInv

LEMMA CampaignSavedKeeps == ASSUME CampaignInv, NEW c \in calls, Campaigns!Saved(c) PROVE CampaignInv'
<1>1. /\ c.kind # "list" /\ c.n = busy /\ busy' = 0
      /\ UNCHANGED <<rows, sent, active, loaded, loading, wanted, creation, used, forms, others, left>>
  BY DEF Campaigns!Saved
<1>2. PICK said \in {c.said, Campaigns!Lost} :
       /\ Campaigns!Ends(c, said)
       /\ IF ~Campaigns!Accepted(said) THEN UNCHANGED <<list, draft, original, editing>>
          ELSE /\ list' = [list EXCEPT ![c.key] = said[1]]
               /\ draft' = said[1] /\ original' = said[1] /\ editing' = c.key
       /\ doubts' = Campaigns!Doubtful(said)
  BY DEF Campaigns!Saved
<1>3. c.key \in X /\ c.key # None
  BY <1>1, CampaignConstants DEF CampaignInv, CampaignTyped, CampaignIsCall, CampaignKeysAgree
<1>4. CASE ~Campaigns!Accepted(said)
  BY <1>1, <1>2, <1>4, CampaignNotTaken DEF Campaigns!form
<1>5. CASE Campaigns!Accepted(said)
  BY <1>1, <1>2, <1>3, <1>5, CampaignTaken
<1> QED
  BY <1>4, <1>5

LEMMA CampaignToggledKeeps == ASSUME CampaignInv, NEW c \in calls, Campaigns!Toggled(c) PROVE CampaignInv'
<1>1. /\ c.kind # "list" /\ c.n = busy /\ busy' = 0
      /\ UNCHANGED <<rows, sent, active, loaded, loading, wanted, editing, creation, used, forms, others,
                     left>>
  BY DEF Campaigns!Toggled
<1>2. PICK said \in {c.said, Campaigns!Lost} :
       /\ Campaigns!Ends(c, said)
       /\ IF ~Campaigns!Accepted(said) THEN UNCHANGED <<list, draft, original>>
          ELSE /\ list' = IF list[c.key] = None THEN list ELSE [list EXCEPT ![c.key] = said[1]]
               /\ IF editing = c.key /\ ~Campaigns!Dirty THEN draft' = said[1] /\ original' = said[1]
                  ELSE UNCHANGED <<draft, original>>
       /\ doubts' = Campaigns!Doubtful(said)
  BY DEF Campaigns!Toggled
<1>3. c.key \in X /\ c.key # None
  BY <1>1, CampaignConstants DEF CampaignInv, CampaignTyped, CampaignIsCall, CampaignKeysAgree
<1>4. CASE ~Campaigns!Accepted(said)
  BY <1>1, <1>2, <1>4, CampaignNotTaken DEF Campaigns!form
<1>5. CASE Campaigns!Accepted(said)
  BY <1>1, <1>2, <1>3, <1>5, CampaignTaken
<1> QED
  BY <1>4, <1>5

\* The list is loaded, or it is asked for.
LEMMA CampaignStarts ==
  ASSUME rows \in CampaignRows, used = {k \in X : rows[k] # None}, forms = Cardinality(used),
         draft = None, original = None, editing = None, creation = None,
         busy = 0, others = 0, left = FALSE, doubts = {}, active = TRUE, loaded \in BOOLEAN, loading \in BOOLEAN,
         list = rows \/ list = [k \in X |-> None],
         \/ calls = {} /\ sent = 0 /\ wanted = 0 /\ loading = FALSE
         \/ /\ calls = {[n |-> 1, kind |-> "list", key |-> None, input |-> None, at |-> "sent",
                         said |-> <<>>]}
            /\ sent = 1 /\ wanted = 1 /\ CampaignCalls >= 1
  PROVE  CampaignInv
<1>1. list \in CampaignRows /\ \A k \in X : list[k] # None => list[k] = rows[k]
  BY DEF CampaignRows, CampaignRow
<1>2. CampaignKeysAgree
  BY <1>1 DEF CampaignKeysAgree
<1>3. \A c \in calls : CampaignIsCall(c) /\ c.kind = "list" /\ c.at = "sent"
  BY DEF CampaignIsCall, CampaignCallRecord, CampaignSaids, Campaigns!Kinds, Campaigns!Steps, CampaignRow
<1>4. CampaignTyped
  <2>1. active \in BOOLEAN /\ left \in BOOLEAN
    OBVIOUS
  <2>2. sent \in 0..CampaignCalls /\ wanted \in 0..sent /\ busy \in 0..sent /\ others \in 0..CampaignOthers
    BY CampaignConstants
  <2>3. \A c, d \in calls : c.n = d.n => c = d
    OBVIOUS
  <2> QED
    BY <1>1, <1>3, <2>1, <2>2, <2>3 DEF CampaignTyped
<1> QED
  BY <1>1, <1>2, <1>3, <1>4 DEF CampaignInv, CampaignLoadingAgrees, CampaignWritesAgree, CampaignListAgrees

\* The section of campaigns opens with its reload on its way.
LEMMA CampaignInitKeeps == ASSUME Campaigns!Init PROVE CampaignInv
<1>1. /\ rows \in CampaignRows /\ list = [k \in X |-> None] /\ active = TRUE /\ loaded \in BOOLEAN
      /\ loading \in BOOLEAN
  BY DEF Campaigns!Init, CampaignRows, CampaignRow
<1>2. CampaignCalls >= 1
  BY CampaignConstants
<1> QED
  BY <1>1, <1>2, CampaignStarts, SameSizes DEF Campaigns!Init

\* Every step of the campaigns keeps what they rely on.
LEMMA CampaignNextKeeps == ASSUME CampaignInv, Campaigns!Next PROVE CampaignInv'
  BY CampaignReloadKeeps, CampaignHideKeeps, CampaignShowKeeps, CampaignOpenNewKeeps, CampaignOpenEditKeeps,
     CampaignCloseEditorKeeps, CampaignUpdateKeeps, CampaignSaveKeeps, CampaignToggleKeeps,
     CampaignServerStepKeeps, CampaignAnotherAdministratorKeeps, CampaignListedKeeps, CampaignIgnoredKeeps,
     CampaignSavedKeeps, CampaignToggledKeeps DEF Campaigns!Next

\* A key is given once, so that a campaign is created once; the reload that is waited for comes.
LEMMA CampaignShows ==
  ASSUME CampaignInv
  PROVE  Campaigns!TypeOK /\ Campaigns!CreatedOnceAsWritten /\ Campaigns!LoadingIsWaitedFor
<1>1. IsFiniteSet(used) /\ Cardinality(used) \in 0..Cardinality(X)
  <2>1. used \subseteq X /\ IsFiniteSet(X)
    BY CampaignConstants DEF CampaignInv, CampaignKeysAgree
  <2> QED
    BY <2>1, FS_Subset, FS_CardinalityType
<1>2. Campaigns!TypeOK
  <2>1. \A c \in calls : /\ c.n \in 1..sent /\ c.kind \in Campaigns!Kinds /\ c.at \in Campaigns!Steps
                         /\ c.kind # "list" => c.key \in X /\ c.input \in Campaigns!Input
                         /\ c.at = "answered" <=> c.said # <<>>
    <3> SUFFICES ASSUME NEW c \in calls
                 PROVE  /\ c.n \in 1..sent /\ c.kind \in Campaigns!Kinds /\ c.at \in Campaigns!Steps
                        /\ c.kind # "list" => c.key \in X /\ c.input \in Campaigns!Input
                        /\ c.at = "answered" <=> c.said # <<>>
      OBVIOUS
    <3>1. CampaignIsCall(c) /\ used \subseteq X
      BY DEF CampaignInv, CampaignTyped, CampaignKeysAgree
    <3> QED
      BY <3>1, CampaignTuples DEF CampaignIsCall, CampaignCallRecord
  <2>2. {sent, wanted, busy} \subseteq 0..CampaignCalls
    BY CampaignConstants DEF CampaignInv, CampaignTyped
  <2>3. forms \in 0..Cardinality(X) /\ used \subseteq X /\ {editing, creation} \subseteq X \cup {None}
    BY <1>1 DEF CampaignInv, CampaignKeysAgree
  <2>4. /\ rows \in [X -> Campaigns!Input \cup {None}] /\ list \in [X -> Campaigns!Input \cup {None}]
        /\ {loaded, loading, active, left} \subseteq BOOLEAN
        /\ others \in 0..CampaignOthers /\ doubts \subseteq {"reload", "administrator", "lost"}
        /\ {draft, original} \subseteq Campaigns!Draft \cup {None}
    BY DEF CampaignInv, CampaignTyped, CampaignRows, CampaignRow
  <2> QED
    BY <2>1, <2>2, <2>3, <2>4, SameSizes DEF Campaigns!TypeOK
<1>3. Campaigns!CreatedOnceAsWritten
  <2>1. {k \in X : rows[k] # None} \subseteq used
    BY DEF CampaignInv, CampaignKeysAgree
  <2>2. Cardinality({k \in X : rows[k] # None}) <= Cardinality(used)
    BY <1>1, <2>1, FS_Subset
  <2> QED
    BY <2>2, SameSizes DEF CampaignInv, CampaignKeysAgree, CampaignWritesAgree, Campaigns!CreatedOnceAsWritten
<1> QED
  BY <1>2, <1>3 DEF CampaignInv, CampaignLoadingAgrees, Campaigns!LoadingIsWaitedFor

\* A switch writes the terms the row has, unless something put the list in doubt.
LEMMA CampaignSwitching ==
  ASSUME CampaignInv, NEW c \in calls, Campaigns!Write(c), c.kind = "toggle"
  PROVE  rows'[c.key].terms = rows[c.key].terms \/ doubts # {}
<1>1. c.at = "sent" /\ rows' = [rows EXCEPT ![c.key] = c.input] /\ c.key \in X /\ rows \in CampaignRows
  BY DEF Campaigns!Write, CampaignInv, CampaignTyped, CampaignIsCall, CampaignKeysAgree
<1> QED
  BY <1>1 DEF CampaignInv, CampaignListAgrees, CampaignRows

-----------------------------------------------------------------------------
(* The updates from Dux and the switches of the catalogue *)

DuxAnswers == [kind : {"progress", "done", "refused"}, phase : 0..LastPhase]
DuxControlRecord == [collecting : BOOLEAN, public : BOOLEAN, n : Nat]
DuxPostRecord == [run : X, n : Nat, live : BOOLEAN, got : {None} \cup DuxAnswers]
DuxPanelRecord ==
  [open : BOOLEAN, status : {None} \cup SUBSET Dux!Runs, loading : BOOLEAN, error : BOOLEAN,
   busy : {None, "sent", "pause", "reading"}, retries : Nat, action : {"new", "resume", "check"},
   said : X \cup {None}]
DuxView == [published : SUBSET Dux!Runs, control : DuxControlRecord]
DuxReadRecord == [of : {"status", "control"}, n : Nat, live : BOOLEAN, got : {None} \cup DuxView]
DuxSwitchRecord ==
  [state : {None} \cup DuxView, loading : BOOLEAN, error : BOOLEAN, busy : {None, "sent", "reading"},
   asking : BOOLEAN, said : Nat]
DuxWords == {"hide", "publish", "stop", "collect"}
DuxChangeRecord == [stage : {None, "sent", "done", "refused"}, body : DuxWords \cup {None}, n : Nat]

DuxTyped ==
  /\ ops \in [Dux!Runs -> [state : {"none", "running", "completed", "failed"}, phase : 0..LastPhase]]
  /\ control \in DuxControlRecord /\ posts \subseteq DuxPostRecord /\ panel \in DuxPanelRecord
  /\ dSession \in [id : X \cup {None}, phase : 0..LastPhase]
  /\ switches \in DuxSwitchRecord /\ reads \subseteq DuxReadRecord
  /\ change \in DuxChangeRecord /\ (change.stage = "sent" => change.body \in DuxWords)
  /\ late \subseteq DuxWords
  /\ count \in [posts : Nat, reads : Nat, changes : Nat, visits : Nat]
  /\ garbled \in BOOLEAN

\* A request that is waited for is the only one and of the update of this page; what it says is the server's.
DuxPostsAgree ==
  \A m \in posts :
    /\ m.run = dSession.id \/ m.run \in dropped \/ ops[m.run].state = "completed"
    /\ m.live => m.run = dSession.id /\ panel.busy = "sent" /\ \A q \in posts : q.live => q = m
    /\ m.got # None =>
         /\ m.live
         /\ m.got.kind = "done" => ops[m.run].state = "completed"
         /\ m.got.kind = "progress" => dSession.phase <= m.got.phase /\ m.got.phase <= ops[m.run].phase

DuxSessionAgrees ==
  /\ dSession.id # None => dSession.phase <= ops[dSession.id].phase
  /\ panel.busy \in {"sent", "pause"} => dSession.id # None /\ panel.said = None
  /\ panel.busy = "sent" => \E m \in posts : m.live
  /\ panel.busy # None => panel.open /\ panel.status # None /\ switches.busy = None
  /\ \A r \in X : ops[r].state = "running" => r = dSession.id \/ r \in dropped

\* What is read of the control, and what will be said of it.
DuxReadsAgree ==
  /\ switches.busy = "reading" => change.stage # "sent"
  /\ change.n <= control.n /\ switches.said <= control.n
  /\ \A r \in reads : r.live /\ r.got # None =>
       /\ r.of = "status" /\ panel.said # None => panel.said \in r.got.published
       /\ r.of = "control" =>
            /\ panel.said # None /\ panel.busy # "reading" => panel.said \in r.got.published
            /\ r.got.control.n >= switches.said
            /\ switches.busy = "reading" => r.got.control.n >= change.n

DuxInv == DuxTyped /\ DuxPostsAgree /\ DuxSessionAgrees /\ DuxReadsAgree /\ Dux!DistrustHasReason /\ Dux!SaidIsShown /\ Dux!ChangeIsShown

DuxOpRecord == [state : {"none", "running", "completed", "failed"}, phase : 0..LastPhase]

\* What the updates use of the constants.
LEMMA DuxConstants ==
  /\ None \notin X \cup Z /\ X \cap Z = {} /\ \A s \in SUBSET Dux!Runs : s # None
  /\ None \notin {"sent", "pause", "reading", "done", "refused"}
  /\ LastPhase \in Nat /\ MaxRetries \in Nat
<1>1. None \notin Dux!Runs /\ X \cap Z = {} /\ \A s \in SUBSET Dux!Runs : s # None
  BY ConsoleAssumption DEF Dux!DuxDeskAssumption
<1>2. /\ None \notin {"sent", "pause", "reading", "done", "refused"}
      /\ LastPhase \in Nat /\ MaxRetries \in Nat
  BY ConsoleAssumption DEF Dux!DuxDeskAssumption
<1>3. None \notin X \cup Z
  BY <1>1 DEF Dux!Runs
<1> QED
  BY <1>1, <1>2, <1>3

LEMMA DuxStepKeeps ==
  ASSUME DuxTyped, NEW r \in Dux!Runs, NEW o \in Dux!Steps(r)
  PROVE  /\ o \in DuxOpRecord /\ o.phase >= ops[r].phase
         /\ ops[r].state = "completed" => o.state = "completed"
         /\ o.state = "running" => ops[r].state \in {"none", "running"}
<1> DEFINE p == ops[r]
           failed == [p EXCEPT !.state = "failed"]
           begun == [p EXCEPT !.state = "running"]
           on == [p EXCEPT !.phase = @ + 1]
           done == [p EXCEPT !.state = "completed"]
<1>1. p \in DuxOpRecord /\ p.phase \in 0..LastPhase /\ LastPhase \in Nat
  BY DuxConstants DEF DuxTyped, DuxOpRecord
<1>2. o \in {p, failed} \/ (o = begun /\ p.state = "none") \/ (o = on /\ p.phase < LastPhase) \/ o = done
  BY DEF Dux!Steps
<1>3. p.state = "completed" => o = p
  BY DEF Dux!Steps
<1>4. o = on => p.state = "running"
  BY <1>1, <1>3 DEF Dux!Steps, DuxOpRecord
<1>5. /\ failed \in DuxOpRecord /\ failed.phase = p.phase /\ failed.state = "failed"
      /\ begun \in DuxOpRecord /\ begun.phase = p.phase /\ begun.state = "running"
      /\ done \in DuxOpRecord /\ done.phase = p.phase /\ done.state = "completed"
  BY <1>1 DEF DuxOpRecord
<1>6. p.phase < LastPhase => on \in DuxOpRecord /\ on.phase = p.phase + 1 /\ on.state = p.state
  BY <1>1 DEF DuxOpRecord
<1> HIDE DEF p, failed, begun, on, done
<1>7. o \in DuxOpRecord /\ o.phase >= p.phase /\ (o.state = "running" => p.state \in {"none", "running"})
  BY <1>1, <1>2, <1>4, <1>5, <1>6
<1> QED
  BY <1>3, <1>7 DEF p

\* A step of an operation.
LEMMA DuxOpsMove ==
  ASSUME DuxTyped, NEW r \in Dux!Runs, NEW o \in Dux!Steps(r), ops' = [ops EXCEPT ![r] = o]
  PROVE  /\ ops' \in [Dux!Runs -> DuxOpRecord]
         /\ \A q \in Dux!Runs : ops'[q] = IF q = r THEN o ELSE ops[q]
         /\ \A q \in Dux!Runs : /\ ops'[q].phase >= ops[q].phase
                                /\ ops[q].state = "completed" => ops'[q].state = "completed"
         /\ Dux!Completed \subseteq Dux!Completed'
<1>1. ops \in [Dux!Runs -> DuxOpRecord]
  BY DEF DuxTyped, DuxOpRecord
<1>2. /\ o \in DuxOpRecord /\ o.phase >= ops[r].phase /\ (ops[r].state = "completed" => o.state = "completed")
  BY DuxStepKeeps
<1>3. ops' \in [Dux!Runs -> DuxOpRecord] /\ \A q \in Dux!Runs : ops'[q] = IF q = r THEN o ELSE ops[q]
  BY <1>1, <1>2
<1>4. \A q \in Dux!Runs : /\ ops'[q].phase >= ops[q].phase
                          /\ ops[q].state = "completed" => ops'[q].state = "completed"
  BY <1>1, <1>2, <1>3, DuxConstants DEF DuxOpRecord
<1> QED
  BY <1>3, <1>4 DEF Dux!Completed

LEMMA DuxForgotten ==
  ASSUME DuxTyped, NEW of
  PROVE  /\ Dux!Forget(of) \subseteq DuxReadRecord
         /\ \A r \in Dux!Forget(of) : r.live => r \in reads /\ r.of # of
<1> DEFINE off(r) == IF r.of = of THEN [r EXCEPT !.live = FALSE] ELSE r
<1>1. \A r \in reads : off(r) \in DuxReadRecord /\ (off(r).live => off(r) = r /\ r.of # of)
  BY DEF DuxTyped, DuxReadRecord
<1> QED
  BY <1>1 DEF Dux!Forget

LEMMA DuxAsked ==
  ASSUME DuxTyped
  PROVE  /\ \A of \in {"status", "control"} : /\ Dux!Read(of) \in DuxReadRecord /\ Dux!Read(of).live
                                              /\ Dux!Read(of).of = of /\ Dux!Read(of).got = None
         /\ [count EXCEPT !.reads = @ + 1] \in [posts : Nat, reads : Nat, changes : Nat, visits : Nat]
  BY DEF DuxTyped, Dux!Read, DuxReadRecord

DuxOpsTyped == ops \in [Dux!Runs -> DuxOpRecord]

LEMMA DuxInvokeKeeps == ASSUME DuxInv, Dux!Invoke PROVE DuxInv'
<1>0. PICK m \in posts :
        /\ m.got = None
        /\ \E o \in Dux!Steps(m.run), told \in BOOLEAN :
             /\ ops' = [ops EXCEPT ![m.run] = o]
             /\ posts' = IF m.live
                         THEN (posts \ {m}) \cup {[m EXCEPT !.got = IF told THEN Dux!AnswerOf(o) ELSE Dux!Refusal]}
                         ELSE posts \ {m}
        /\ UNCHANGED <<control, panel, dSession, switches, reads, change, late, count, dropped, garbled>>
  BY DEF Dux!Invoke, Dux!changes, Dux!history
<1>1. PICK o \in Dux!Steps(m.run), told \in BOOLEAN :
        /\ ops' = [ops EXCEPT ![m.run] = o]
        /\ posts' = IF m.live
                    THEN (posts \ {m}) \cup {[m EXCEPT !.got = IF told THEN Dux!AnswerOf(o) ELSE Dux!Refusal]}
                    ELSE posts \ {m}
        /\ UNCHANGED <<control, panel, dSession, switches, reads, change, late, count, dropped, garbled>>
  BY <1>0
<1>2. m \in DuxPostRecord /\ m.run \in X /\ m.run \in Dux!Runs /\ posts \subseteq DuxPostRecord
  BY DEF DuxInv, DuxTyped, DuxPostRecord, Dux!Runs
<1>3. /\ ops' \in [Dux!Runs -> DuxOpRecord]
      /\ \A q \in Dux!Runs : ops'[q] = IF q = m.run THEN o ELSE ops[q]
      /\ \A q \in Dux!Runs : /\ ops'[q].phase >= ops[q].phase
                             /\ ops[q].state = "completed" => ops'[q].state = "completed"
      /\ Dux!Completed \subseteq Dux!Completed'
      /\ o \in DuxOpRecord /\ o.phase >= ops[m.run].phase
      /\ o.state = "running" => ops[m.run].state \in {"none", "running"}
      /\ ops \in [Dux!Runs -> DuxOpRecord]
  BY <1>1, <1>2, DuxOpsMove, DuxStepKeeps DEF DuxInv, DuxTyped, DuxOpRecord
<1> DEFINE g == IF told THEN Dux!AnswerOf(o) ELSE Dux!Refusal
           q == [m EXCEPT !.got = g]
<1>4. /\ g \in DuxAnswers /\ (g.kind = "done" => o.state = "completed")
      /\ g.kind = "progress" => g.phase = o.phase
  BY <1>3, DuxConstants DEF Dux!AnswerOf, Dux!Refusal, DuxAnswers, DuxOpRecord
<1> HIDE DEF g
<1>5. q \in DuxPostRecord /\ q.run = m.run /\ q.live = m.live /\ q.got = g
  BY <1>2, <1>4 DEF DuxPostRecord
<1>6. posts' = IF m.live THEN (posts \ {m}) \cup {q} ELSE posts \ {m}
  BY <1>1 DEF g
<1> HIDE DEF q
<1>7. posts' \subseteq DuxPostRecord
  BY <1>2, <1>5, <1>6
<1>8. DuxTyped'
  BY <1>1, <1>3, <1>7 DEF DuxInv, DuxTyped, DuxOpRecord
<1>9. \A p \in posts' : p \in posts \/ (p = q /\ m.live)
  BY <1>6
<1>10. DuxPostsAgree'
  <2> SUFFICES ASSUME NEW p \in posts'
               PROVE /\ p.run = dSession.id \/ p.run \in dropped \/ ops'[p.run].state = "completed"
                     /\ p.live => p.run = dSession.id /\ panel.busy = "sent" /\ \A x \in posts' : x.live => x = p
                     /\ p.got # None =>
                          /\ p.live
                          /\ p.got.kind = "done" => ops'[p.run].state = "completed"
                          /\ p.got.kind = "progress" => dSession.phase <= p.got.phase /\ p.got.phase <= ops'[p.run].phase
    BY <1>1 DEF DuxPostsAgree
  <2>1. CASE p \in posts
    <3>1. p.run \in Dux!Runs /\ p \in DuxPostRecord
      BY <1>2, <2>1 DEF DuxPostRecord, Dux!Runs
    <3>2. /\ ops'[p.run].phase >= ops[p.run].phase
          /\ (ops[p.run].state = "completed" => ops'[p.run].state = "completed")
      BY <1>3, <3>1
    <3>3. p.run = dSession.id \/ p.run \in dropped \/ ops'[p.run].state = "completed"
      BY <2>1, <3>2 DEF DuxInv, DuxPostsAgree
    <3>4. p.live => p.run = dSession.id /\ panel.busy = "sent" /\ \A x \in posts' : x.live => x = p
      <4>1. p.live /\ m.live => p = m
        BY <2>1 DEF DuxInv, DuxPostsAgree
      <4>2. m.live /\ p = m => p = q
        BY <1>6, <2>1
      <4> QED
        BY <1>5, <1>6, <1>9, <2>1, <4>1, <4>2 DEF DuxInv, DuxPostsAgree
    <3>5. p.got # None =>
            /\ p.live
            /\ p.got.kind = "done" => ops'[p.run].state = "completed"
            /\ p.got.kind = "progress" => dSession.phase <= p.got.phase /\ p.got.phase <= ops'[p.run].phase
      <4>1. ASSUME p.got # None, p.got.kind = "progress" PROVE p.got.phase <= ops'[p.run].phase
        <5>1. p.got.phase \in Nat /\ ops[p.run].phase \in Nat /\ ops'[p.run].phase \in Nat
          BY <1>3, <3>1, <4>1, DuxConstants DEF DuxPostRecord, DuxAnswers, DuxOpRecord
        <5> QED
          BY <2>1, <3>2, <4>1, <5>1 DEF DuxInv, DuxPostsAgree
      <4> QED
        BY <2>1, <3>2, <4>1 DEF DuxInv, DuxPostsAgree
    <3> QED
      BY <3>3, <3>4, <3>5
  <2>2. CASE p = q /\ m.live
    <3>1. m.run = dSession.id /\ panel.busy = "sent" /\ (\A x \in posts : x.live => x = m)
      BY <2>2 DEF DuxInv, DuxPostsAgree
    <3>2. \A x \in posts' : x.live => x = q
      BY <1>6, <2>2, <3>1
    <3>3. g.kind = "progress" => dSession.phase <= g.phase /\ g.phase <= ops'[m.run].phase
      <4>1. /\ dSession.phase <= ops[m.run].phase /\ dSession.phase \in Nat /\ ops[m.run].phase \in Nat
            /\ o.phase \in Nat
        BY <1>2, <1>3, <3>1, DuxConstants DEF DuxInv, DuxTyped, DuxSessionAgrees, DuxOpRecord
      <4> QED
        BY <1>2, <1>3, <1>4, <4>1
    <3> QED
      BY <1>2, <1>3, <1>4, <1>5, <2>2, <3>1, <3>2, <3>3
  <2> QED
    BY <1>9, <2>1, <2>2
<1>11. DuxSessionAgrees'
  <2>1. dSession.id # None => dSession.phase <= ops'[dSession.id].phase
    <3> SUFFICES ASSUME dSession.id # None PROVE dSession.phase <= ops'[dSession.id].phase
      OBVIOUS
    <3>1. dSession.id \in Dux!Runs /\ dSession.phase \in Nat
      BY DuxConstants DEF DuxInv, DuxTyped, Dux!Runs
    <3>2. ops[dSession.id].phase \in Nat /\ ops'[dSession.id].phase \in Nat
      BY <1>3, <3>1, DuxConstants DEF DuxOpRecord
    <3> QED
      BY <1>3, <3>1, <3>2 DEF DuxInv, DuxSessionAgrees
  <2>2. panel.busy = "sent" => \E p \in posts' : p.live
    <3> SUFFICES ASSUME panel.busy = "sent" PROVE \E p \in posts' : p.live
      OBVIOUS
    <3>1. PICK p \in posts : p.live
      BY DEF DuxInv, DuxSessionAgrees
    <3>2. CASE m.live
      BY <1>5, <1>6, <3>2
    <3>3. CASE ~m.live
      BY <1>6, <3>1, <3>3
    <3> QED
      BY <3>2, <3>3
  <2>3. ASSUME NEW r \in X, ops'[r].state = "running" PROVE r = dSession.id \/ r \in dropped
    <3>1. CASE r = m.run
      <4>1. o.state = "running" /\ ops[m.run].state # "completed"
        BY <1>2, <1>3, <2>3, <3>1
      <4> QED
        BY <3>1, <4>1 DEF DuxInv, DuxPostsAgree
    <3>2. CASE r # m.run
      BY <1>3, <2>3, <3>2 DEF DuxInv, DuxSessionAgrees, Dux!Runs
    <3> QED
      BY <3>1, <3>2
  <2> QED
    BY <1>1, <2>1, <2>2, <2>3 DEF DuxInv, DuxSessionAgrees
<1>12. Dux!SaidIsShown'
  BY <1>1, <1>3 DEF DuxInv, Dux!SaidIsShown, Dux!CatalogBusy
<1> QED
  BY <1>1, <1>8, <1>10, <1>11, <1>12 DEF DuxInv, DuxReadsAgree, Dux!DistrustHasReason, Dux!ChangeIsShown

LEMMA DuxOthersUpdateKeeps == ASSUME DuxInv, Dux!OthersUpdate PROVE DuxInv'
<1>1. PICK r \in Z : \E o \in Dux!Steps(r) : ops' = [ops EXCEPT ![r] = o]
  BY DEF Dux!OthersUpdate
<1>2. PICK o \in Dux!Steps(r) : ops' = [ops EXCEPT ![r] = o]
  BY <1>1
<1>3. UNCHANGED <<control, posts, panel, dSession, switches, reads, change, late, count, dropped, garbled>>
  BY DEF Dux!OthersUpdate, Dux!changes, Dux!history
<1>4. r \in Dux!Runs /\ r \notin X
  BY DuxConstants DEF Dux!Runs
<1>5. /\ ops' \in [Dux!Runs -> DuxOpRecord] /\ Dux!Completed \subseteq Dux!Completed'
      /\ \A q \in Dux!Runs : ops'[q] = IF q = r THEN o ELSE ops[q]
  BY <1>2, <1>4, DuxOpsMove DEF DuxInv
<1>6. \A q \in X : ops'[q] = ops[q]
  BY <1>4, <1>5 DEF Dux!Runs
<1>7. DuxTyped'
  BY <1>3, <1>5 DEF DuxInv, DuxTyped, DuxOpRecord
<1>8. DuxPostsAgree'
  <2>1. \A m \in posts : m.run \in X
    BY DEF DuxInv, DuxTyped, DuxPostRecord
  <2> QED
    BY <1>3, <1>6, <2>1 DEF DuxInv, DuxPostsAgree
<1>9. DuxSessionAgrees'
  <2>1. dSession.id # None => dSession.id \in X
    BY DEF DuxInv, DuxTyped
  <2> QED
    BY <1>3, <1>6, <2>1 DEF DuxInv, DuxSessionAgrees
<1>10. Dux!SaidIsShown'
  BY <1>3, <1>5 DEF DuxInv, Dux!SaidIsShown, Dux!CatalogBusy
<1> QED
  BY <1>3, <1>7, <1>8, <1>9, <1>10 DEF DuxInv, DuxReadsAgree, Dux!DistrustHasReason, Dux!ChangeIsShown

LEMMA DuxServeReadKeeps == ASSUME DuxInv, Dux!ServeRead PROVE DuxInv'
<1> DEFINE v == [published |-> Dux!Completed, control |-> control]
<1>1. PICK r \in reads : r.got = None /\ reads' = (reads \ {r}) \cup {[r EXCEPT !.got = v]}
  BY DEF Dux!ServeRead
<1>2. UNCHANGED <<ops, control, posts, panel, dSession, switches, change, late, count, dropped, garbled>>
  BY DEF Dux!ServeRead, Dux!server, Dux!changes, Dux!history
<1>3. v \in DuxView /\ v.published = Dux!Completed /\ v.control.n = control.n
  BY DEF DuxInv, DuxTyped, DuxView, Dux!Completed
<1> HIDE DEF v
<1> DEFINE q == [r EXCEPT !.got = v]
<1>4. q \in DuxReadRecord /\ q.of = r.of /\ q.live = r.live /\ q.got = v
  BY <1>1, <1>3 DEF DuxInv, DuxTyped, DuxReadRecord
<1>5. reads' = (reads \ {r}) \cup {q}
  BY <1>1
<1> HIDE DEF q
<1>6. DuxTyped'
  BY <1>2, <1>4, <1>5 DEF DuxInv, DuxTyped
<1>7. DuxReadsAgree'
  <2>1. ASSUME NEW p \in reads', p.live, p.got # None
        PROVE  /\ p.of = "status" /\ panel.said # None => panel.said \in p.got.published
               /\ p.of = "control" =>
                    /\ panel.said # None /\ panel.busy # "reading" => panel.said \in p.got.published
                    /\ p.got.control.n >= switches.said
                    /\ switches.busy = "reading" => p.got.control.n >= change.n
    <3>1. CASE p \in reads
      BY <2>1, <3>1 DEF DuxInv, DuxReadsAgree
    <3>2. CASE p = q
      <4>1. panel.said # None => panel.said \in Dux!Completed
        BY DEF DuxInv, Dux!SaidIsShown
      <4>2. control.n \in Nat /\ control.n >= switches.said /\ control.n >= change.n
        BY DEF DuxInv, DuxTyped, DuxReadsAgree, DuxControlRecord, DuxSwitchRecord, DuxChangeRecord
      <4> QED
        BY <1>3, <1>4, <3>2, <4>1, <4>2
    <3> QED
      BY <1>5, <2>1, <3>1, <3>2
  <2> QED
    BY <1>2, <2>1 DEF DuxInv, DuxReadsAgree
<1> QED
  BY <1>2, <1>6, <1>7 DEF DuxInv, DuxPostsAgree, DuxSessionAgrees, Dux!DistrustHasReason, Dux!SaidIsShown,
     Dux!Completed, Dux!CatalogBusy, Dux!ChangeIsShown

LEMMA DuxControlReadKeeps == ASSUME DuxInv, Dux!ControlRead PROVE DuxInv'
<1>1. PICK r \in reads, failed \in BOOLEAN :
        /\ r.of = "control" /\ (failed \/ r.got # None) /\ reads' = reads \ {r}
        /\ switches' = IF ~r.live THEN switches
                       ELSE Dux!AfterOwnRead(IF failed THEN [switches EXCEPT !.loading = FALSE, !.error = TRUE]
                                         ELSE [switches EXCEPT !.loading = FALSE, !.error = FALSE, !.state = r.got])
        /\ UNCHANGED <<ops, control, posts, panel, dSession, change, late, count, dropped, garbled>>
  BY DEF Dux!ControlRead, Dux!IsCurrent, Dux!server, Dux!changes, Dux!history
<1>2. /\ r \in DuxReadRecord /\ switches \in DuxSwitchRecord /\ change.n \in Nat /\ control.n \in Nat
      /\ switches.said \in Nat
  BY DEF DuxInv, DuxTyped, DuxChangeRecord, DuxControlRecord, DuxSwitchRecord
<1>3. CASE ~r.live
  <2>1. switches' = switches
    BY <1>1, <1>3
  <2>2. DuxTyped' /\ DuxReadsAgree'
    BY <1>1, <2>1 DEF DuxInv, DuxTyped, DuxReadsAgree
  <2> QED
    BY <1>1, <2>1, <2>2 DEF DuxInv, DuxPostsAgree, DuxSessionAgrees, Dux!DistrustHasReason, Dux!SaidIsShown,
       Dux!Completed, Dux!CatalogBusy, Dux!ChangeIsShown
<1>4. CASE r.live
  <2> DEFINE s == IF failed THEN [switches EXCEPT !.loading = FALSE, !.error = TRUE]
                  ELSE [switches EXCEPT !.loading = FALSE, !.error = FALSE, !.state = r.got]
  <2>1. /\ s \in DuxSwitchRecord /\ s.busy = switches.busy /\ s.said = switches.said /\ ~s.loading
        /\ s.error \/ (r.got # None /\ s.state = r.got)
    <3>1. CASE failed
      BY <1>2, <3>1 DEF DuxSwitchRecord
    <3>2. CASE ~failed
      BY <1>1, <1>2, <3>2 DEF DuxSwitchRecord, DuxReadRecord
    <3> QED
      BY <3>1, <3>2
  <2> HIDE DEF s
  <2>2. switches' = IF s.busy = "reading" THEN [s EXCEPT !.busy = None, !.said = change.n] ELSE s
    BY <1>1, <1>4 DEF Dux!AfterOwnRead, s
  <2>3. /\ switches' \in DuxSwitchRecord
        /\ switches'.said = IF switches.busy = "reading" THEN change.n ELSE switches.said
        /\ switches'.busy = IF switches.busy = "reading" THEN None ELSE switches.busy
        /\ switches'.error \/ (r.got # None /\ switches'.state = r.got)
    BY <1>2, <2>1, <2>2 DEF DuxSwitchRecord
  <2>4. DuxTyped'
    BY <1>1, <2>3 DEF DuxInv, DuxTyped
  <2>5. DuxSessionAgrees'
    BY <1>1, <2>3 DEF DuxInv, DuxSessionAgrees
  <2>6. DuxReadsAgree'
    <3>1. change.n <= control.n /\ switches.said <= control.n
      BY DEF DuxInv, DuxReadsAgree
    <3>2. switches'.busy # "reading"
      BY <2>3, DuxConstants
    <3>3. ASSUME NEW p \in reads', p.live, p.got # None
          PROVE  /\ p.of = "status" /\ panel.said # None => panel.said \in p.got.published
                 /\ p.of = "control" =>
                      /\ panel.said # None /\ panel.busy # "reading" => panel.said \in p.got.published
                      /\ p.got.control.n >= switches'.said
      BY <1>1, <2>3, <3>3 DEF DuxInv, DuxReadsAgree
    <3> QED
      BY <1>1, <2>3, <3>1, <3>2, <3>3 DEF DuxReadsAgree
  <2>7. Dux!SaidIsShown'
    <3>1. panel.said # None => panel.busy = "reading" \/ switches'.error \/ panel.said \in switches'.state.published
      BY <1>1, <1>4, <2>3 DEF DuxInv, DuxReadsAgree
    <3> QED
      BY <1>1, <3>1 DEF DuxInv, Dux!SaidIsShown, Dux!Completed
  <2>8. Dux!ChangeIsShown'
    BY <1>1, <1>4, <2>3 DEF DuxInv, DuxReadsAgree, Dux!ChangeIsShown
  <2> QED
    BY <1>1, <2>4, <2>5, <2>6, <2>7, <2>8 DEF DuxInv, DuxPostsAgree, Dux!DistrustHasReason
<1> QED
  BY <1>3, <1>4

LEMMA DuxStatusReadKeeps == ASSUME DuxInv, Dux!StatusRead PROVE DuxInv'
<1>1. PICK r \in reads, failed \in BOOLEAN :
        /\ r.of = "status" /\ (failed \/ r.got # None)
        /\ LET p == IF ~Dux!IsCurrent(r) THEN panel
                    ELSE IF failed THEN [panel EXCEPT !.loading = FALSE, !.error = TRUE]
                    ELSE [panel EXCEPT !.loading = FALSE, !.status = r.got.published]
               first == panel.status = None /\ p.status # None
               ends  == panel.busy = "reading" /\ r.live
           IN /\ panel' = IF ends THEN [p EXCEPT !.busy = None] ELSE p
              /\ IF first \/ (ends /\ panel.status # None)
                 THEN /\ Dux!CanRead(1)
                      /\ reads' = (Dux!Forget("control") \ {r}) \cup {Dux!Read("control")}
                      /\ count' = [count EXCEPT !.reads = @ + 1]
                      /\ switches' = Dux!RefreshSwitches(IF first THEN Dux!Off ELSE switches)
                 ELSE reads' = reads \ {r} /\ UNCHANGED <<count, switches>>
        /\ UNCHANGED <<ops, control, posts, dSession, change, late, dropped, garbled>>
  BY DEF Dux!StatusRead, Dux!server, Dux!changes, Dux!history
<1> DEFINE p == IF ~r.live THEN panel
                ELSE IF failed THEN [panel EXCEPT !.loading = FALSE, !.error = TRUE]
                ELSE [panel EXCEPT !.loading = FALSE, !.status = r.got.published]
           first == panel.status = None /\ p.status # None
           ends  == panel.busy = "reading" /\ r.live
<1>2. r \in DuxReadRecord /\ panel \in DuxPanelRecord /\ switches \in DuxSwitchRecord
  BY DEF DuxInv, DuxTyped
<1>3. /\ panel' = IF ends THEN [p EXCEPT !.busy = None] ELSE p
      /\ IF first \/ (ends /\ panel.status # None)
         THEN /\ reads' = (Dux!Forget("control") \ {r}) \cup {Dux!Read("control")}
              /\ count' = [count EXCEPT !.reads = @ + 1]
              /\ switches' = Dux!RefreshSwitches(IF first THEN Dux!Off ELSE switches)
         ELSE reads' = reads \ {r} /\ UNCHANGED <<count, switches>>
  BY <1>1 DEF Dux!IsCurrent
<1>4. /\ p \in DuxPanelRecord /\ p.busy = panel.busy /\ p.said = panel.said /\ p.action = panel.action
      /\ panel.status # None => p.status # None
      /\ p.open = panel.open
      /\ r.live => p.error \/ (r.got # None /\ p.status = r.got.published)
      /\ ~r.live => p = panel
  <2>1. CASE ~r.live
    BY <1>2, <2>1
  <2>2. CASE r.live /\ failed
    BY <1>2, <2>2 DEF DuxPanelRecord
  <2>3. CASE r.live /\ ~failed
    BY <1>1, <1>2, <2>3, DuxConstants DEF DuxPanelRecord, DuxReadRecord, DuxView
  <2> QED
    BY <2>1, <2>2, <2>3
<1> HIDE DEF p
<1>5. /\ panel' \in DuxPanelRecord /\ panel'.said = panel.said /\ panel'.action = panel.action
      /\ panel'.open = panel.open
      /\ panel'.status = p.status /\ panel'.error = p.error /\ panel'.loading = p.loading
      /\ panel'.busy = IF ends THEN None ELSE panel.busy
  BY <1>3, <1>4 DEF DuxPanelRecord
<1>6. /\ switches' \in DuxSwitchRecord /\ switches'.said \in {0, switches.said}
      /\ switches' = switches \/ switches'.loading
      /\ switches'.busy = switches.busy \/ switches'.busy = None
  <2>1. Dux!Off \in DuxSwitchRecord /\ Dux!Off.said = 0 /\ Dux!Off.busy = None
    BY DEF Dux!Off, DuxSwitchRecord
  <2>2. \A s \in DuxSwitchRecord : LET t == Dux!RefreshSwitches(s) IN
          t \in DuxSwitchRecord /\ t.loading /\ t.said = s.said /\ t.busy = s.busy
    BY DEF Dux!RefreshSwitches, DuxSwitchRecord
  <2> QED
    BY <1>2, <1>3, <2>1, <2>2
<1>7. /\ reads' \subseteq DuxReadRecord /\ count' \in [posts : Nat, reads : Nat, changes : Nat, visits : Nat]
      /\ \A x \in reads' : x.live /\ x.got # None => x \in reads
      /\ switches' # switches \/ ends => \A x \in reads' : x.live /\ x.got # None => x.of # "control"
  <2>1. ends => panel.status # None
    BY DuxConstants DEF DuxInv, DuxSessionAgrees
  <2>2. CASE first \/ ends
    <3>1. /\ reads' = (Dux!Forget("control") \ {r}) \cup {Dux!Read("control")}
          /\ count' = [count EXCEPT !.reads = @ + 1]
      BY <1>3, <2>1, <2>2
    <3> QED
      BY <3>1, DuxForgotten, DuxAsked DEF DuxInv
  <2>3. CASE ~(first \/ ends)
    <3>1. reads' = reads \ {r} /\ UNCHANGED <<count, switches>>
      BY <1>3, <2>3
    <3> QED
      BY <2>3, <3>1 DEF DuxInv, DuxTyped
  <2> QED
    BY <2>2, <2>3
<1>8. DuxTyped'
  BY <1>1, <1>5, <1>6, <1>7 DEF DuxInv, DuxTyped
<1>9. DuxPostsAgree' /\ Dux!DistrustHasReason'
  BY <1>1, <1>5 DEF DuxInv, DuxPostsAgree, Dux!DistrustHasReason
<1>10. DuxSessionAgrees'
  <2>1. panel'.busy # None => panel'.busy = panel.busy
    BY <1>5
  <2> QED
    BY <1>1, <1>4, <1>5, <1>6, <2>1, DuxConstants DEF DuxInv, DuxSessionAgrees
<1>11. DuxReadsAgree'
  <2>1. switches'.busy = "reading" => switches.busy = "reading"
    BY <1>6, DuxConstants
  <2>2. switches'.said <= control.n
    BY <1>6 DEF DuxInv, DuxReadsAgree, DuxTyped, DuxControlRecord
  <2>3. ASSUME NEW x \in reads', x.live, x.got # None
        PROVE  /\ x.of = "status" /\ panel.said # None => panel.said \in x.got.published
               /\ x.of = "control" =>
                    /\ panel.said # None /\ panel'.busy # "reading" => panel.said \in x.got.published
                    /\ x.got.control.n >= switches'.said
                    /\ switches'.busy = "reading" => x.got.control.n >= change.n
    BY <1>5, <1>7, <2>1, <2>3 DEF DuxInv, DuxReadsAgree
  <2> QED
    BY <1>1, <1>5, <2>1, <2>2, <2>3 DEF DuxInv, DuxReadsAgree
<1>12. Dux!SaidIsShown'
  <2> SUFFICES ASSUME panel.said # None
               PROVE  /\ panel.said \in Dux!Completed
                      /\ panel'.loading \/ panel'.error \/ panel.said \in panel'.status
                      /\ panel'.busy = "reading" \/ switches'.busy # None \/ switches'.loading \/ switches'.error
                           \/ panel.said \in switches'.state.published
    BY <1>1, <1>5 DEF Dux!SaidIsShown, Dux!Completed, Dux!CatalogBusy
  <2>1. panel'.loading \/ panel'.error \/ panel.said \in panel'.status
    <3>1. CASE r.live
      BY <1>1, <1>4, <1>5, <3>1 DEF DuxInv, DuxReadsAgree
    <3>2. CASE ~r.live
      BY <1>4, <1>5, <3>2 DEF DuxInv, Dux!SaidIsShown
    <3> QED
      BY <3>1, <3>2
  <2>2. ends => switches'.loading
    <3>1. ends => panel.status # None
      BY DuxConstants DEF DuxInv, DuxSessionAgrees
    <3>2. \A s \in DuxSwitchRecord : Dux!RefreshSwitches(s).loading
      BY DEF Dux!RefreshSwitches, DuxSwitchRecord
    <3>3. Dux!Off \in DuxSwitchRecord
      BY DEF Dux!Off, DuxSwitchRecord
    <3> QED
      BY <1>2, <1>3, <3>1, <3>2, <3>3
  <2> QED
    BY <1>5, <1>6, <2>1, <2>2 DEF DuxInv, Dux!SaidIsShown, Dux!CatalogBusy
<1>13. Dux!ChangeIsShown'
  BY <1>6 DEF DuxInv, Dux!ChangeIsShown
<1> QED
  BY <1>8, <1>9, <1>10, <1>11, <1>12, <1>13 DEF DuxInv

LEMMA DuxReadAgainKeeps == ASSUME DuxInv, Dux!ReadAgain PROVE DuxInv'
<1>1. /\ count' = [count EXCEPT !.reads = @ + 1]
      /\ UNCHANGED <<ops, control, posts, dSession, change, late, dropped, garbled>>
  BY DEF Dux!ReadAgain, Dux!server, Dux!changes, Dux!history
<1>2. panel \in DuxPanelRecord /\ switches \in DuxSwitchRecord
  BY DEF DuxInv, DuxTyped
<1>3. /\ panel' \in DuxPanelRecord /\ switches' \in DuxSwitchRecord
      /\ panel'.busy = panel.busy /\ panel'.status = panel.status /\ panel'.said = panel.said
      /\ panel'.open = panel.open
      /\ panel'.action = panel.action /\ (panel' = panel \/ panel'.loading)
      /\ switches'.busy = switches.busy /\ switches'.said = switches.said
      /\ (switches' = switches \/ switches'.loading)
  BY <1>2 DEF Dux!ReadAgain, Dux!RefreshStatus, Dux!RefreshSwitches, DuxPanelRecord, DuxSwitchRecord
<1>4. reads' \subseteq DuxReadRecord /\ \A r \in reads' : r.live /\ r.got # None => r \in reads
  BY DuxForgotten, DuxAsked DEF Dux!ReadAgain, DuxInv
<1>5. DuxTyped'
  BY <1>1, <1>3, <1>4, DuxAsked DEF DuxInv, DuxTyped
<1>6. DuxPostsAgree' /\ DuxSessionAgrees' /\ Dux!DistrustHasReason'
  BY <1>1, <1>3 DEF DuxInv, DuxPostsAgree, DuxSessionAgrees, Dux!DistrustHasReason
<1>7. DuxReadsAgree'
  BY <1>1, <1>3, <1>4 DEF DuxInv, DuxReadsAgree
<1>8. Dux!SaidIsShown' /\ Dux!ChangeIsShown'
  BY <1>1, <1>3 DEF DuxInv, Dux!SaidIsShown, Dux!ChangeIsShown, Dux!Completed, Dux!CatalogBusy
<1> QED
  BY <1>5, <1>6, <1>7, <1>8 DEF DuxInv

LEMMA DuxAtRest ==
  /\ Dux!Closed \in DuxPanelRecord /\ Dux!Closed.busy = None /\ Dux!Closed.said = None
  /\ Dux!Closed.action = "new" /\ Dux!Closed.status = None
  /\ Dux!Off \in DuxSwitchRecord /\ Dux!Off.busy = None /\ Dux!Off.said = 0
  /\ Dux!NoSession.id = None /\ Dux!NoSession.phase = 0
  /\ Dux!NoSession \in [id : X \cup {None}, phase : 0..LastPhase]
  /\ Dux!NoChange \in DuxChangeRecord /\ Dux!NoChange.stage = None /\ Dux!NoChange.n = 0
  BY DuxConstants DEF Dux!Closed, Dux!Off, Dux!NoSession, Dux!NoChange, DuxPanelRecord, DuxSwitchRecord,
     DuxChangeRecord

LEMMA DuxOpenKeeps == ASSUME DuxInv, Dux!Open PROVE DuxInv'
<1>1. /\ ~panel.open /\ panel' = Dux!RefreshStatus([Dux!Closed EXCEPT !.open = TRUE])
      /\ reads' = reads \cup {Dux!Read("status")}
      /\ count' = [count EXCEPT !.reads = @ + 1, !.visits = @ + 1]
      /\ UNCHANGED <<ops, control, posts, dSession, switches, change, late, dropped, garbled>>
  BY DEF Dux!Open, Dux!server, Dux!changes, Dux!history
<1>2. /\ panel' \in DuxPanelRecord /\ panel'.busy = None /\ panel'.said = None /\ panel'.action = "new"
  BY <1>1, DuxAtRest DEF Dux!RefreshStatus, DuxPanelRecord
<1>3. count' \in [posts : Nat, reads : Nat, changes : Nat, visits : Nat]
  <2>1. count \in [posts : Nat, reads : Nat, changes : Nat, visits : Nat]
    BY DEF DuxInv, DuxTyped
  <2>2. \A i, j \in Nat : [count EXCEPT !.reads = i, !.visits = j]
                           \in [posts : Nat, reads : Nat, changes : Nat, visits : Nat]
    BY <2>1
  <2>3. count.reads + 1 \in Nat /\ count.visits + 1 \in Nat
    BY <2>1
  <2> QED
    BY <1>1, <2>2, <2>3
<1>4. reads' \subseteq DuxReadRecord /\ \A r \in reads' : r.live /\ r.got # None => r \in reads
  BY <1>1, DuxAsked DEF DuxInv, DuxTyped
<1>5. DuxTyped'
  BY <1>1, <1>2, <1>3, <1>4 DEF DuxInv, DuxTyped
<1>6. \A m \in posts : ~m.live
  BY <1>1, DuxConstants DEF DuxInv, DuxSessionAgrees, DuxPostsAgree
<1>7. DuxPostsAgree' /\ DuxSessionAgrees' /\ Dux!DistrustHasReason'
  BY <1>1, <1>2, <1>6, DuxConstants DEF DuxInv, DuxPostsAgree, DuxSessionAgrees, Dux!DistrustHasReason
<1>8. DuxReadsAgree'
  BY <1>1, <1>2, <1>4 DEF DuxInv, DuxReadsAgree
<1>9. Dux!SaidIsShown' /\ Dux!ChangeIsShown'
  BY <1>1, <1>2 DEF DuxInv, Dux!SaidIsShown, Dux!ChangeIsShown
<1> QED
  BY <1>5, <1>7, <1>8, <1>9 DEF DuxInv

LEMMA DuxLeaveKeeps == ASSUME DuxInv, Dux!Leave PROVE DuxInv'
<1>1. /\ panel' = Dux!Closed /\ switches' = Dux!Off /\ dSession' = Dux!NoSession /\ reads' = {}
      /\ change' = Dux!NoChange
      /\ posts' = {[m EXCEPT !.live = FALSE] : m \in {x \in posts : x.got = None}}
      /\ late' = late \cup (IF change.stage = "sent" THEN {change.body} ELSE {})
      /\ dropped' = dropped \cup ({dSession.id} \ {None})
      /\ UNCHANGED <<ops, control, count, garbled>>
  BY DEF Dux!Leave, Dux!server
<1>2. \A m \in posts : LET q == [m EXCEPT !.live = FALSE] IN
        q \in DuxPostRecord /\ ~q.live /\ q.run = m.run /\ q.got = m.got
  BY DEF DuxInv, DuxTyped, DuxPostRecord
<1>3. \A q \in posts' : \E m \in posts : q \in DuxPostRecord /\ ~q.live /\ q.run = m.run /\ q.got = None
  BY <1>1, <1>2
<1>4. DuxTyped'
  BY <1>1, <1>3, DuxAtRest, DuxConstants DEF DuxInv, DuxTyped
<1>5. DuxPostsAgree'
  <2>1. ASSUME NEW q \in posts'
        PROVE  /\ q.run \in dropped' \/ ops[q.run].state = "completed"
               /\ ~q.live /\ q.got = None
    <3>1. PICK m \in posts : ~q.live /\ q.run = m.run /\ q.got = None
      BY <1>3
    <3>2. m.run = dSession.id \/ m.run \in dropped \/ ops[m.run].state = "completed"
      BY DEF DuxInv, DuxPostsAgree
    <3>3. m.run # None
      BY DuxConstants DEF DuxInv, DuxTyped, DuxPostRecord
    <3> QED
      BY <1>1, <3>1, <3>2, <3>3
  <2> QED
    BY <1>1, <2>1 DEF DuxPostsAgree
<1>6. DuxSessionAgrees'
  BY <1>1, DuxAtRest, DuxConstants DEF DuxInv, DuxSessionAgrees
<1>7. DuxReadsAgree' /\ Dux!SaidIsShown' /\ Dux!ChangeIsShown' /\ Dux!DistrustHasReason'
  BY <1>1, DuxAtRest, DuxConstants DEF DuxInv, DuxReadsAgree, Dux!SaidIsShown, Dux!ChangeIsShown,
     Dux!DistrustHasReason, DuxTyped, DuxControlRecord
<1> QED
  BY <1>4, <1>5, <1>6, <1>7 DEF DuxInv

\* An update under way has said nothing of the next one.
LEMMA DuxNothingSaid ==
  ASSUME DuxInv, UNCHANGED <<ops, control, switches, change>>, panel'.said = None,
         \A r \in reads' : r.live /\ r.got # None => r \in reads
  PROVE  DuxReadsAgree' /\ Dux!SaidIsShown' /\ Dux!ChangeIsShown'
  BY DEF DuxInv, DuxReadsAgree, Dux!SaidIsShown, Dux!ChangeIsShown

LEMMA DuxSends ==
  ASSUME DuxInv, NEW id \in X, Dux!Send(id), \A m \in posts : ~m.live
  PROVE  /\ count' \in [posts : Nat, reads : Nat, changes : Nat, visits : Nat]
         /\ posts' \subseteq DuxPostRecord
         /\ \E q \in posts' : /\ q.run = id /\ q.live /\ q.got = None
                              /\ \A m \in posts' : m = q \/ (m \in posts /\ ~m.live /\ m.got = None)
<1> DEFINE q == [run |-> id, n |-> count.posts + 1, live |-> TRUE, got |-> None]
<1>1. posts' = posts \cup {q} /\ count' = [count EXCEPT !.posts = @ + 1]
  BY DEF Dux!Send
<1>2. q \in DuxPostRecord /\ q.run = id /\ q.live /\ q.got = None
  BY DEF DuxPostRecord, DuxInv, DuxTyped
<1> HIDE DEF q
<1>3. \A m \in posts : m.got = None
  BY DEF DuxInv, DuxPostsAgree
<1> QED
  BY <1>1, <1>2, <1>3 DEF DuxInv, DuxTyped

LEMMA DuxSynchronizeKeeps == ASSUME DuxInv, Dux!Synchronize PROVE DuxInv'
<1>1. /\ panel.open /\ panel.status # None /\ panel.busy = None /\ switches.busy = None
      /\ panel' = [panel EXCEPT !.busy = "sent", !.retries = 0, !.error = FALSE, !.said = None]
      /\ UNCHANGED <<ops, control, switches, reads, change, late, dropped, garbled>>
  BY DEF Dux!Synchronize, Dux!CatalogBusy, Dux!server, Dux!changes, Dux!history
<1>2. PICK r \in X : /\ Dux!TakesIdentity(r) /\ Dux!Send(r)
                     /\ dSession' = IF dSession.id = r THEN dSession ELSE [Dux!NoSession EXCEPT !.id = r]
  BY DEF Dux!Synchronize
<1>3. /\ panel' \in DuxPanelRecord /\ panel'.busy = "sent" /\ panel'.said = None
      /\ panel'.status = panel.status
      /\ panel'.action = panel.action /\ panel'.open = panel.open
  BY <1>1 DEF DuxInv, DuxTyped, DuxPanelRecord
<1>4. \A m \in posts : ~m.live
  BY <1>1, DuxConstants DEF DuxInv, DuxPostsAgree
<1>5. PICK q \in posts' : /\ q.run = r /\ q.live /\ q.got = None
                          /\ \A m \in posts' : m = q \/ (m \in posts /\ ~m.live /\ m.got = None)
  BY <1>2, <1>4, DuxSends
<1>6. /\ dSession' \in [id : X \cup {None}, phase : 0..LastPhase] /\ dSession'.id = r
      /\ r = dSession.id => dSession' = dSession
      /\ r # dSession.id => dSession.id = None /\ dSession'.phase = 0
  <2>1. CASE dSession.id = r
    BY <1>2, <2>1 DEF DuxInv, DuxTyped
  <2>2. CASE dSession.id # r
    BY <1>2, <2>2, DuxAtRest DEF Dux!TakesIdentity
  <2> QED
    BY <2>1, <2>2
<1>7. DuxTyped'
  BY <1>1, <1>2, <1>3, <1>4, <1>6, DuxSends DEF DuxInv, DuxTyped
<1>8. DuxPostsAgree'
  <2>1. \A m \in posts : m.run = dSession'.id \/ m.run \in dropped \/ ops[m.run].state = "completed"
    <3>1. \A m \in posts : m.run # None
      BY DuxConstants DEF DuxInv, DuxTyped, DuxPostRecord
    <3> QED
      BY <1>6, <3>1 DEF DuxInv, DuxPostsAgree
  <2> QED
    BY <1>1, <1>3, <1>5, <1>6, <2>1 DEF DuxPostsAgree
<1>9. DuxSessionAgrees'
  <2>1. dSession'.phase <= ops[r].phase
    BY <1>2, <1>6, DuxConstants DEF DuxInv, DuxTyped, DuxSessionAgrees, Dux!Runs
  <2>2. ASSUME NEW k \in X, ops[k].state = "running" PROVE k = dSession'.id \/ k \in dropped
    BY <1>6, <2>2, DuxConstants DEF DuxInv, DuxSessionAgrees
  <2>3. r # None
    BY DuxConstants
  <2> QED
    BY <1>1, <1>3, <1>5, <1>6, <2>1, <2>2, <2>3 DEF DuxSessionAgrees
<1>10. Dux!DistrustHasReason'
  BY <1>1, <1>3 DEF DuxInv, Dux!DistrustHasReason
<1> QED
  BY <1>1, <1>3, <1>7, <1>8, <1>9, <1>10, DuxNothingSaid DEF DuxInv

LEMMA DuxNextStepKeeps == ASSUME DuxInv, Dux!NextStep PROVE DuxInv'
<1>1. /\ panel.busy = "pause"
      /\ UNCHANGED <<ops, control, dSession, switches, reads, change, late, dropped, garbled>>
  BY DEF Dux!NextStep, Dux!server, Dux!changes, Dux!history
<1>2. /\ dSession.id # None /\ dSession.id \in X /\ panel.said = None /\ panel.status # None
      /\ switches.busy = None
      /\ panel.open
      /\ (\A m \in posts : ~m.live) /\ panel \in DuxPanelRecord
  BY <1>1, DuxConstants DEF DuxInv, DuxTyped, DuxSessionAgrees, DuxPostsAgree
<1>3. CASE Dux!Send(dSession.id) /\ panel' = [panel EXCEPT !.busy = "sent"]
  <2>1. /\ panel' \in DuxPanelRecord /\ panel'.busy = "sent" /\ panel'.said = None
        /\ panel'.status = panel.status
        /\ panel'.action = panel.action /\ panel'.open = panel.open
    BY <1>2, <1>3 DEF DuxPanelRecord
  <2>2. PICK q \in posts' : /\ q.run = dSession.id /\ q.live /\ q.got = None
                            /\ \A m \in posts' : m = q \/ (m \in posts /\ ~m.live /\ m.got = None)
    BY <1>2, <1>3, DuxSends
  <2>3. DuxTyped'
    BY <1>1, <1>2, <1>3, <2>1, DuxSends DEF DuxInv, DuxTyped
  <2>4. DuxPostsAgree'
    BY <1>1, <2>1, <2>2 DEF DuxInv, DuxPostsAgree
  <2>5. DuxSessionAgrees' /\ Dux!DistrustHasReason'
    BY <1>1, <1>2, <2>1, <2>2 DEF DuxInv, DuxSessionAgrees, Dux!DistrustHasReason
  <2> QED
    BY <1>1, <2>1, <2>3, <2>4, <2>5, DuxNothingSaid DEF DuxInv
<1>4. CASE /\ panel' = [panel EXCEPT !.busy = None, !.action = "resume", !.error = TRUE]
           /\ UNCHANGED <<posts, count>>
  <2>1. /\ panel' \in DuxPanelRecord /\ panel'.busy = None /\ panel'.said = None /\ panel'.action = "resume"
    BY <1>2, <1>4 DEF DuxPanelRecord
  <2>2. DuxTyped'
    BY <1>1, <1>4, <2>1 DEF DuxInv, DuxTyped
  <2>3. DuxPostsAgree' /\ DuxSessionAgrees' /\ Dux!DistrustHasReason'
    BY <1>1, <1>2, <1>4, <2>1, DuxConstants DEF DuxInv, DuxPostsAgree, DuxSessionAgrees,
       Dux!DistrustHasReason
  <2> QED
    BY <1>1, <2>1, <2>2, <2>3, DuxNothingSaid DEF DuxInv
<1> QED
  BY <1>3, <1>4 DEF Dux!NextStep

LEMMA DuxInterruptedKeeps == ASSUME DuxInv, Dux!Interrupted PROVE DuxInv'
<1>1. PICK m \in posts :
        /\ m.live
        /\ posts' = (posts \ {m}) \cup (IF m.got = None THEN {[m EXCEPT !.live = FALSE]} ELSE {})
  BY DEF Dux!Interrupted
<1>2. /\ panel' = (IF panel.retries < MaxRetries THEN [panel EXCEPT !.busy = "pause", !.retries = @ + 1]
                   ELSE [panel EXCEPT !.busy = None, !.action = "resume", !.error = TRUE])
      /\ UNCHANGED <<ops, control, dSession, switches, reads, change, late, count, dropped, garbled>>
  BY DEF Dux!Interrupted, Dux!server, Dux!changes, Dux!history
<1> DEFINE q == [m EXCEPT !.live = FALSE]
<1>3. q \in DuxPostRecord /\ q.run = m.run /\ ~q.live /\ q.got = m.got
  BY DEF DuxInv, DuxTyped, DuxPostRecord
<1> HIDE DEF q
<1>4. \A p \in posts' : p \in DuxPostRecord /\ ~p.live /\ p.got = None /\ \E x \in posts : p.run = x.run
  <2>1. \A p \in posts : p.live => p = m
    BY <1>1 DEF DuxInv, DuxPostsAgree
  <2>2. ASSUME NEW p \in posts' PROVE p \in DuxPostRecord /\ ~p.live /\ p.got = None /\ \E x \in posts : p.run = x.run
    <3>1. CASE p \in posts /\ p # m
      BY <2>1, <3>1 DEF DuxInv, DuxTyped, DuxPostsAgree
    <3>2. CASE p = q /\ m.got = None
      BY <1>3, <3>2
    <3> QED
      BY <1>1, <2>2, <3>1, <3>2 DEF q
  <2> QED
    BY <2>2
<1>5. /\ panel.busy = "sent" /\ panel.said = None /\ dSession.id # None /\ panel.status # None
      /\ switches.busy = None /\ panel.open
  BY <1>1, DuxConstants DEF DuxInv, DuxPostsAgree, DuxSessionAgrees
<1>6. /\ panel' \in DuxPanelRecord /\ panel'.busy \in {None, "pause"} /\ panel'.said = None
      /\ panel'.open = panel.open
      /\ panel'.status = panel.status /\ panel'.action \in {panel.action, "resume"}
  <2>1. panel \in DuxPanelRecord /\ panel.retries \in Nat
    BY DEF DuxInv, DuxTyped, DuxPanelRecord
  <2>2. CASE panel' = [panel EXCEPT !.busy = "pause", !.retries = @ + 1]
    <3>1. \A k \in Nat : LET p == [panel EXCEPT !.busy = "pause", !.retries = k] IN
            /\ p \in DuxPanelRecord /\ p.busy = "pause" /\ p.said = panel.said /\ p.open = panel.open
            /\ p.status = panel.status /\ p.action = panel.action
      BY <2>1 DEF DuxPanelRecord
    <3>2. panel.retries + 1 \in Nat
      BY <2>1
    <3> QED
      BY <1>5, <2>2, <3>1, <3>2
  <2>3. CASE panel' = [panel EXCEPT !.busy = None, !.action = "resume", !.error = TRUE]
    BY <1>5, <2>1, <2>3 DEF DuxPanelRecord
  <2> QED
    BY <1>2, <2>2, <2>3
<1>7. DuxTyped'
  BY <1>2, <1>4, <1>6 DEF DuxInv, DuxTyped
<1>8. DuxPostsAgree'
  BY <1>2, <1>4 DEF DuxInv, DuxPostsAgree
<1>9. DuxSessionAgrees' /\ Dux!DistrustHasReason'
  BY <1>2, <1>5, <1>6, DuxConstants DEF DuxInv, DuxSessionAgrees, Dux!DistrustHasReason
<1> QED
  BY <1>2, <1>6, <1>7, <1>8, <1>9, DuxNothingSaid DEF DuxInv

LEMMA DuxAnsweredKeeps == ASSUME DuxInv, Dux!Answered PROVE DuxInv'
<1>1. PICK m \in posts : /\ m.got # None /\ posts' = posts \ {m}
                         /\ Dux!Progress(m) \/ Dux!Done(m) \/ Dux!Refused(m) \/ Dux!Unreadable(m)
                         /\ UNCHANGED <<ops, control, switches, change, late>>
  BY DEF Dux!Answered, Dux!server, Dux!changes
<1>2. /\ m \in DuxPostRecord /\ m.got \in DuxAnswers /\ panel \in DuxPanelRecord
      /\ m.run = dSession.id /\ m.run \in X /\ m.run \in Dux!Runs /\ dSession.id # None
      /\ panel.busy = "sent" /\ panel.said = None /\ panel.status # None /\ switches.busy = None /\ panel.open
      /\ m.got.kind = "done" => ops[m.run].state = "completed"
      /\ m.got.kind = "progress" => dSession.phase <= m.got.phase /\ m.got.phase <= ops[m.run].phase
  BY <1>1, DuxConstants DEF DuxInv, DuxTyped, DuxPostRecord, DuxPostsAgree, DuxSessionAgrees, Dux!Runs
<1>3. posts' \subseteq posts /\ \A x \in posts' : ~x.live /\ x.got = None
  BY <1>1 DEF DuxInv, DuxPostsAgree
<1>4. ASSUME Dux!Distrust, UNCHANGED dropped, garbled' \in BOOLEAN, garbled' PROVE DuxInv'
  <2>1. /\ UNCHANGED <<dSession, reads, count>>
        /\ panel' = [panel EXCEPT !.busy = None, !.action = "check", !.error = TRUE]
    BY <1>4 DEF Dux!Distrust
  <2>2. panel' \in DuxPanelRecord /\ panel'.busy = None /\ panel'.said = None
    BY <1>2, <2>1 DEF DuxPanelRecord
  <2>3. DuxTyped'
    BY <1>1, <1>3, <1>4, <2>1, <2>2 DEF DuxInv, DuxTyped
  <2>4. DuxPostsAgree' /\ DuxSessionAgrees' /\ Dux!DistrustHasReason'
    BY <1>1, <1>3, <1>4, <2>1, <2>2, DuxConstants DEF DuxInv, DuxPostsAgree, DuxSessionAgrees,
       Dux!DistrustHasReason
  <2> QED
    BY <1>1, <2>1, <2>2, <2>3, <2>4, DuxNothingSaid DEF DuxInv
<1>5. CASE Dux!Progress(m)
  <2>1. /\ m.got.kind = "progress" /\ m.got.phase \in 0..LastPhase /\ dSession.phase \in 0..LastPhase
        /\ UNCHANGED <<dropped, garbled>>
    BY <1>2, <1>5 DEF Dux!Progress, DuxAnswers, DuxInv, DuxTyped
  <2>2. Dux!Follows(m.got)
    BY <1>2, <2>1, DuxConstants DEF Dux!Follows
  <2>3. /\ dSession' = [dSession EXCEPT !.phase = m.got.phase]
        /\ panel' = [panel EXCEPT !.busy = "pause", !.retries = 0] /\ UNCHANGED <<reads, count>>
    BY <1>5, <2>2 DEF Dux!Progress
  <2>4. /\ panel' \in DuxPanelRecord /\ panel'.busy = "pause" /\ panel'.said = None
        /\ panel'.status = panel.status
        /\ panel'.open = panel.open /\ panel'.action = panel.action
    BY <1>2, <2>3 DEF DuxPanelRecord
  <2>5. /\ dSession' \in [id : X \cup {None}, phase : 0..LastPhase]
        /\ dSession'.id = dSession.id /\ dSession'.phase = m.got.phase
    BY <2>1, <2>3 DEF DuxInv, DuxTyped
  <2>6. DuxTyped'
    BY <1>1, <1>3, <2>1, <2>3, <2>4, <2>5 DEF DuxInv, DuxTyped
  <2>7. DuxPostsAgree'
    BY <1>1, <1>3, <2>1, <2>5 DEF DuxInv, DuxPostsAgree
  <2>8. DuxSessionAgrees' /\ Dux!DistrustHasReason'
    BY <1>1, <1>2, <2>1, <2>4, <2>5, DuxConstants DEF DuxInv, DuxSessionAgrees, Dux!DistrustHasReason
  <2> QED
    BY <1>1, <2>3, <2>4, <2>6, <2>7, <2>8, DuxNothingSaid DEF DuxInv
<1>6. CASE Dux!Done(m)
  <2>1. /\ m.got.kind = "done" /\ dSession' = Dux!NoSession
        /\ panel' = Dux!RefreshStatus([panel EXCEPT !.busy = "reading", !.action = "new", !.said = m.run])
        /\ reads' = Dux!Forget("status") \cup {Dux!Read("status")}
        /\ count' = [count EXCEPT !.reads = @ + 1]
        /\ UNCHANGED <<dropped, garbled>>
    BY <1>6 DEF Dux!Done
  <2>2. /\ panel' \in DuxPanelRecord /\ panel'.busy = "reading" /\ panel'.said = m.run
        /\ panel'.status = panel.status
        /\ panel'.open = panel.open /\ panel'.action = "new" /\ panel'.loading
    BY <1>2, <2>1 DEF DuxPanelRecord, Dux!RefreshStatus
  <2>3. /\ reads' \subseteq DuxReadRecord
        /\ \A r \in reads' : r.live /\ r.got # None => r \in reads /\ r.of # "status"
    BY <2>1, DuxForgotten, DuxAsked DEF DuxInv
  <2>4. DuxTyped'
    BY <1>1, <1>3, <2>1, <2>2, <2>3, DuxAsked, DuxAtRest DEF DuxInv, DuxTyped
  <2>5. ops[m.run].state = "completed"
    BY <1>2, <2>1
  <2>6. DuxPostsAgree'
    BY <1>1, <1>2, <1>3, <2>1, <2>5, DuxAtRest, DuxConstants DEF DuxInv, DuxPostsAgree
  <2>7. DuxSessionAgrees' /\ Dux!DistrustHasReason'
    BY <1>1, <1>2, <2>1, <2>2, <2>5, DuxAtRest, DuxConstants DEF DuxInv, DuxSessionAgrees,
       Dux!DistrustHasReason
  <2>8. DuxReadsAgree'
    BY <1>1, <2>2, <2>3 DEF DuxInv, DuxReadsAgree
  <2>9. Dux!SaidIsShown' /\ Dux!ChangeIsShown'
    BY <1>1, <1>2, <2>2, <2>5 DEF DuxInv, Dux!SaidIsShown, Dux!ChangeIsShown, Dux!Completed
  <2> QED
    BY <2>4, <2>6, <2>7, <2>8, <2>9 DEF DuxInv
<1>7. CASE Dux!Refused(m)
  <2>1. /\ dSession' = Dux!NoSession /\ dropped' = dropped \cup {dSession.id}
        /\ panel' = [panel EXCEPT !.busy = None, !.action = "new", !.error = TRUE]
        /\ UNCHANGED <<reads, count, garbled>>
    BY <1>7 DEF Dux!Refused, Dux!LetGo
  <2>2. panel' \in DuxPanelRecord /\ panel'.busy = None /\ panel'.said = None /\ panel'.action = "new"
    BY <1>2, <2>1 DEF DuxPanelRecord
  <2>3. DuxTyped'
    BY <1>1, <1>3, <2>1, <2>2, DuxAtRest DEF DuxInv, DuxTyped
  <2>4. DuxPostsAgree' /\ DuxSessionAgrees' /\ Dux!DistrustHasReason'
    BY <1>1, <1>3, <2>1, <2>2, DuxAtRest, DuxConstants DEF DuxInv, DuxPostsAgree, DuxSessionAgrees,
       Dux!DistrustHasReason
  <2> QED
    BY <1>1, <2>1, <2>2, <2>3, <2>4, DuxNothingSaid DEF DuxInv
<1>8. CASE Dux!Unreadable(m)
  BY <1>4, <1>8 DEF Dux!Unreadable
<1> QED
  BY <1>1, <1>5, <1>6, <1>7, <1>8

LEMMA DuxAskKeeps == ASSUME DuxInv, Dux!Ask \/ Dux!Cancel PROVE DuxInv'
<1>1. /\ \E b \in BOOLEAN : switches' = [switches EXCEPT !.asking = b]
      /\ UNCHANGED <<ops, control, posts, panel, dSession, reads, change, late, count, dropped, garbled>>
  BY DEF Dux!Ask, Dux!Cancel, Dux!server, Dux!changes, Dux!history
<1>2. /\ switches' \in DuxSwitchRecord /\ switches'.busy = switches.busy /\ switches'.said = switches.said
      /\ switches'.state = switches.state /\ switches'.loading = switches.loading
      /\ switches'.error = switches.error
  BY <1>1 DEF DuxInv, DuxTyped, DuxSwitchRecord
<1>3. DuxTyped'
  BY <1>1, <1>2 DEF DuxInv, DuxTyped
<1> QED
  BY <1>1, <1>2, <1>3 DEF DuxInv, DuxPostsAgree, DuxSessionAgrees, DuxReadsAgree, Dux!DistrustHasReason,
     Dux!SaidIsShown, Dux!Completed, Dux!CatalogBusy, Dux!ChangeIsShown

LEMMA DuxChangeKeeps == ASSUME DuxInv, Dux!Change PROVE DuxInv'
<1>1. /\ switches.busy = None /\ panel.busy = None
      /\ reads' = Dux!Forget("control")
      /\ switches' = [switches EXCEPT !.busy = "sent", !.loading = FALSE, !.error = FALSE, !.said = 0]
      /\ count' = [count EXCEPT !.changes = @ + 1]
      /\ UNCHANGED <<ops, control, posts, panel, dSession, late, dropped, garbled>>
  BY DEF Dux!Change, Dux!Blocked, Dux!CatalogBusy, Dux!server, Dux!history
<1>2. PICK b \in DuxWords : change' = [stage |-> "sent", body |-> b, n |-> 0]
  BY DEF Dux!Change, Dux!Bodies, DuxWords
<1>3. /\ switches' \in DuxSwitchRecord /\ switches'.busy = "sent" /\ switches'.said = 0
      /\ change' \in DuxChangeRecord /\ change'.n = 0 /\ change'.body \in DuxWords
  BY <1>1, <1>2 DEF DuxInv, DuxTyped, DuxSwitchRecord, DuxChangeRecord
<1>4. reads' \subseteq DuxReadRecord /\ \A r \in reads' : r.live => r \in reads /\ r.of = "status"
  BY <1>1, DuxForgotten DEF DuxInv, DuxReadRecord
<1>5. count' \in [posts : Nat, reads : Nat, changes : Nat, visits : Nat]
  BY <1>1 DEF DuxInv, DuxTyped
<1>6. DuxTyped'
  BY <1>1, <1>3, <1>4, <1>5 DEF DuxInv, DuxTyped
<1>7. DuxReadsAgree'
  BY <1>1, <1>3, <1>4 DEF DuxInv, DuxReadsAgree, DuxTyped, DuxControlRecord
<1>8. Dux!SaidIsShown' /\ Dux!ChangeIsShown'
  BY <1>1, <1>3, DuxConstants DEF DuxInv, Dux!SaidIsShown, Dux!ChangeIsShown, Dux!Completed, Dux!CatalogBusy
<1> QED
  BY <1>1, <1>6, <1>7, <1>8 DEF DuxInv, DuxPostsAgree, DuxSessionAgrees, Dux!DistrustHasReason

LEMMA DuxServeChangeKeeps == ASSUME DuxInv, Dux!ServeChange PROVE DuxInv'
<1>1. UNCHANGED <<ops, posts, panel, dSession, switches, reads, count, dropped, garbled>>
  BY DEF Dux!ServeChange, Dux!history
<1>2. control \in DuxControlRecord /\ change \in DuxChangeRecord /\ control.n \in Nat
  BY DEF DuxInv, DuxTyped, DuxControlRecord
<1>3. ASSUME NEW b \in DuxWords PROVE Dux!Applied(b) \in DuxControlRecord /\ Dux!Applied(b).n >= control.n
  <2> DEFINE c == [control EXCEPT !.n = @ + 1]
  <2>1. c \in DuxControlRecord /\ c.n = control.n + 1
    BY <1>2 DEF DuxControlRecord
  <2>2. \A d \in DuxControlRecord : LET hidden == [d EXCEPT !.public = FALSE]  shown == [d EXCEPT !.public = TRUE]
                                   stopped == [d EXCEPT !.collecting = FALSE]  going == [d EXCEPT !.collecting = TRUE]
          IN  /\ {hidden, shown, stopped, going} \subseteq DuxControlRecord
              /\ hidden.n = d.n /\ shown.n = d.n /\ stopped.n = d.n /\ going.n = d.n
    BY DEF DuxControlRecord
  <2>3. Dux!Applied(b) \in {[c EXCEPT !.public = FALSE], [c EXCEPT !.public = TRUE], control,
                        [c EXCEPT !.collecting = FALSE], [c EXCEPT !.collecting = TRUE]}
    BY DEF Dux!Applied, DuxWords
  <2>4. LET hidden == [c EXCEPT !.public = FALSE]  shown == [c EXCEPT !.public = TRUE]
            stopped == [c EXCEPT !.collecting = FALSE]  going == [c EXCEPT !.collecting = TRUE]
        IN  /\ {hidden, shown, stopped, going} \subseteq DuxControlRecord
            /\ hidden.n = c.n /\ shown.n = c.n /\ stopped.n = c.n /\ going.n = c.n
    BY <2>1, <2>2
  <2> HIDE DEF c
  <2> DEFINE S == {[c EXCEPT !.public = FALSE], [c EXCEPT !.public = TRUE],
                   [c EXCEPT !.collecting = FALSE], [c EXCEPT !.collecting = TRUE]}
  <2>5. \A x \in S : x \in DuxControlRecord /\ x.n = c.n
    BY <2>4
  <2>6. Dux!Applied(b) = control \/ Dux!Applied(b) \in S
    BY <2>3
  <2> HIDE DEF S
  <2> QED
    BY <1>2, <2>1, <2>5, <2>6
<1>4. /\ control' \in DuxControlRecord /\ control'.n >= control.n /\ late' \subseteq DuxWords
      /\ \/ change.stage = "sent" /\ change' \in DuxChangeRecord /\ change'.n = control'.n /\ change'.stage # "sent"
         \/ change' = change
  <2>1. CASE /\ change.stage = "sent" /\ control' = Dux!Applied(change.body) /\ UNCHANGED late
             /\ change' = [change EXCEPT !.stage = IF control' # control THEN "done" ELSE "refused",
                           !.n = control'.n]
    <3>1. control' \in DuxControlRecord /\ control'.n >= control.n /\ control'.n \in Nat
      BY <1>3, <2>1 DEF DuxInv, DuxTyped, DuxControlRecord
    <3>2. change' \in DuxChangeRecord /\ change'.n = control'.n /\ change'.stage # "sent"
      BY <1>2, <2>1, <3>1 DEF DuxChangeRecord
    <3> QED
      BY <2>1, <3>1, <3>2 DEF DuxInv, DuxTyped
  <2>2. CASE \E b \in late : control' = Dux!Applied(b) /\ late' = late \ {b} /\ UNCHANGED change
    BY <1>3, <2>2 DEF DuxInv, DuxTyped
  <2> QED
    BY <2>1, <2>2 DEF Dux!ServeChange
<1>5. control'.n \in Nat
  BY <1>4 DEF DuxControlRecord
<1>6. DuxTyped'
  BY <1>1, <1>4 DEF DuxInv, DuxTyped
<1>7. DuxReadsAgree'
  <2>1. switches.said \in Nat /\ change.n \in Nat
    BY DEF DuxInv, DuxTyped, DuxSwitchRecord, DuxChangeRecord
  <2>2. switches.busy = "reading" => change' = change
    BY <1>4 DEF DuxInv, DuxReadsAgree
  <2> QED
    BY <1>1, <1>2, <1>4, <1>5, <2>1, <2>2 DEF DuxInv, DuxReadsAgree
<1> QED
  BY <1>1, <1>6, <1>7 DEF DuxInv, DuxPostsAgree, DuxSessionAgrees, Dux!DistrustHasReason, Dux!SaidIsShown,
     Dux!Completed, Dux!CatalogBusy, Dux!ChangeIsShown

LEMMA DuxChangeAnsweredKeeps == ASSUME DuxInv, Dux!ChangeAnswered PROVE DuxInv'
<1>1. switches.busy = "sent" /\ UNCHANGED <<ops, control, posts, panel, dSession, dropped, garbled>>
  BY DEF Dux!ChangeAnswered, Dux!server, Dux!history
<1>2. panel.busy = None /\ switches \in DuxSwitchRecord /\ change \in DuxChangeRecord /\ control.n \in Nat
  BY <1>1, DuxConstants DEF DuxInv, DuxSessionAgrees, DuxTyped, DuxControlRecord
<1>3. CASE /\ change.stage = "done" /\ Dux!ReadBack /\ UNCHANGED late
           /\ change' = [change EXCEPT !.stage = None]
  <2>1. /\ switches' = Dux!RefreshSwitches([switches EXCEPT !.asking = FALSE, !.busy = "reading"])
        /\ reads' = Dux!Forget("control") \cup {Dux!Read("control")}
        /\ count' = [count EXCEPT !.reads = @ + 1]
    BY <1>3 DEF Dux!ReadBack
  <2>2. /\ switches' \in DuxSwitchRecord /\ switches'.busy = "reading" /\ switches'.said = switches.said
        /\ switches'.loading
        /\ change' \in DuxChangeRecord /\ change'.n = change.n /\ change'.stage = None
    BY <1>2, <1>3, <2>1 DEF Dux!RefreshSwitches, DuxSwitchRecord, DuxChangeRecord
  <2>3. /\ reads' \subseteq DuxReadRecord
        /\ \A r \in reads' : r.live /\ r.got # None => r \in reads /\ r.of # "control"
    BY <2>1, DuxForgotten, DuxAsked DEF DuxInv
  <2>4. DuxTyped'
    BY <1>1, <1>3, <2>1, <2>2, <2>3, DuxAsked, DuxConstants DEF DuxInv, DuxTyped
  <2>5. DuxReadsAgree'
    BY <1>1, <2>2, <2>3, DuxConstants DEF DuxInv, DuxReadsAgree
  <2>6. Dux!SaidIsShown' /\ Dux!ChangeIsShown' /\ DuxSessionAgrees'
    BY <1>1, <1>2, <2>2 DEF DuxInv, Dux!SaidIsShown, Dux!ChangeIsShown, Dux!Completed, DuxSessionAgrees
  <2> QED
    BY <1>1, <2>4, <2>5, <2>6 DEF DuxInv, DuxPostsAgree, Dux!DistrustHasReason
<1>4. CASE /\ change' = Dux!NoChange
           /\ late' = late \cup (IF change.stage = "sent" THEN {change.body} ELSE {})
           /\ switches' = [switches EXCEPT !.busy = None, !.error = TRUE] /\ UNCHANGED <<reads, count>>
  <2>1. /\ switches' \in DuxSwitchRecord /\ switches'.busy = None /\ switches'.said = switches.said
        /\ switches'.error
    BY <1>2, <1>4 DEF DuxSwitchRecord
  <2>2. DuxTyped'
    BY <1>1, <1>4, <2>1, DuxAtRest, DuxConstants DEF DuxInv, DuxTyped
  <2>3. DuxReadsAgree'
    BY <1>1, <1>2, <1>4, <2>1, DuxAtRest, DuxConstants DEF DuxInv, DuxReadsAgree
  <2>4. Dux!SaidIsShown' /\ Dux!ChangeIsShown' /\ DuxSessionAgrees'
    BY <1>1, <1>2, <2>1 DEF DuxInv, Dux!SaidIsShown, Dux!ChangeIsShown, Dux!Completed, DuxSessionAgrees
  <2> QED
    BY <1>1, <2>2, <2>3, <2>4 DEF DuxInv, DuxPostsAgree, Dux!DistrustHasReason
<1> QED
  BY <1>3, <1>4 DEF Dux!ChangeAnswered

\* The panel begins closed, nothing sent.
LEMMA DuxInitKeeps == ASSUME Dux!Init PROVE DuxInv
<1>1. DuxTyped
  <2>1. ops \in [Dux!Runs -> [state : {"none", "running", "completed", "failed"}, phase : 0..LastPhase]]
    BY DuxConstants DEF Dux!Init
  <2>2. count \in [posts : Nat, reads : Nat, changes : Nat, visits : Nat]
    BY DEF Dux!Init
  <2>4. control \in DuxControlRecord
    BY DEF Dux!Init, DuxControlRecord
  <2> QED
    BY <2>1, <2>2, <2>4, DuxAtRest, DuxConstants DEF Dux!Init, DuxTyped
<1>2. \A r \in Dux!Runs : ops[r].state = "none"
  BY DEF Dux!Init
<1> QED
  BY <1>1, <1>2, DuxAtRest, DuxConstants DEF Dux!Init, DuxInv, DuxPostsAgree, DuxSessionAgrees,
     DuxReadsAgree, Dux!DistrustHasReason, Dux!SaidIsShown, Dux!ChangeIsShown, Dux!Runs

\* Every step of the updates keeps what they rely on.
LEMMA DuxNextKeeps == ASSUME DuxInv, Dux!Next PROVE DuxInv'
  BY DuxInvokeKeeps, DuxOthersUpdateKeeps, DuxServeReadKeeps, DuxStatusReadKeeps, DuxControlReadKeeps,
     DuxReadAgainKeeps, DuxOpenKeeps, DuxLeaveKeeps, DuxSynchronizeKeeps, DuxNextStepKeeps,
     DuxInterruptedKeeps, DuxAnsweredKeeps, DuxAskKeeps, DuxChangeKeeps, DuxServeChangeKeeps,
     DuxChangeAnsweredKeeps DEF Dux!Next

\* There is one live POST at most, and what was said of the updates and the switches is shown.
LEMMA DuxShows == ASSUME DuxInv PROVE Dux!TypeOK /\ Dux!UpdateIsFollowed /\ Dux!WhatIsSaidIsShown
<1>1. Cardinality({m \in posts : m.live}) <= 1
  <2>1. CASE {m \in posts : m.live} = {}
    BY <2>1, FS_EmptySet
  <2>2. CASE {m \in posts : m.live} # {}
    <3>1. PICK m \in posts : m.live
      BY <2>2
    <3>2. {p \in posts : p.live} = {m}
      BY <3>1 DEF DuxInv, DuxPostsAgree
    <3>3. Cardinality({m}) = 1
      BY FS_Singleton
    <3> QED
      BY <3>2, <3>3
  <2> QED
    BY <2>1, <2>2
<1>2. Dux!OneUpdateAtATime
  BY <1>1, SameSizes DEF Dux!OneUpdateAtATime, DuxInv, DuxSessionAgrees, DuxPostsAgree
<1>3. Dux!TypeOK
  BY DEF Dux!TypeOK, DuxInv, DuxTyped, DuxPostRecord, DuxPanelRecord, DuxSwitchRecord, DuxReadRecord,
     DuxChangeRecord, DuxControlRecord
<1> QED
  BY <1>2, <1>3 DEF DuxInv, Dux!UpdateIsFollowed, Dux!WhatIsSaidIsShown

-----------------------------------------------------------------------------
(* The console: one page is used, the others stay as they begin. *)

\* What every page keeps holds of all of them, of those nobody uses too.
ConsoleInv ==
  /\ part \in {"frame", "campaigns", "orders", "assisted", "catalogue", "dux"}
  /\ FrameInv /\ CampaignInv /\ OrderInv /\ RequestInv /\ ProductInv /\ DuxInv

\* A page nobody uses stays as it is: its variables are all its invariant is about.
LEMMA FrameStays == ASSUME FrameInv, UNCHANGED frameVars PROVE FrameInv'
  BY DEF frameVars, FrameInv, FrameTyped, FramePlaceAgrees, FrameConsoleAgrees, Frame!Running, FrameBusyAgrees,
     FrameSessionAgrees

LEMMA CampaignStays == ASSUME CampaignInv, UNCHANGED campaignVars PROVE CampaignInv'
  BY DEF campaignVars, CampaignInv, CampaignTyped, CampaignIsCall, CampaignKeysAgree, CampaignLoadingAgrees,
     CampaignWritesAgree, CampaignListAgrees

LEMMA OrderStays == ASSUME OrderInv, UNCHANGED orderVars PROVE OrderInv'
  BY DEF orderVars, OrderInv, OrderTyped, OrderDetailsAgree, OrderLiveDetails, OrderReportsAgree,
     OrderLiveReports, OrderDecisionsAgree, Orders!DetailIsCurrent, Orders!ReportIsCurrent,
     Orders!OpenOrderShowsSomething

LEMMA RequestStays == ASSUME RequestInv, UNCHANGED assistedVars PROVE RequestInv'
  BY DEF assistedVars, RequestInv, RequestTyped, RequestReadsAgree, RequestListAgrees, RequestOpAgrees,
     RequestPaneAgrees, Assisted!Mounted

LEMMA ProductStays == ASSUME ProductInv, UNCHANGED catalogueVars PROVE ProductInv'
  BY DEF catalogueVars, ProductInv, ProductTyped, ProductOpAgrees, ProductListAgrees, Catalogue!Busy,
     Catalogue!Listed, ProductEditorAgrees, ProductNameKept, ProductTextKept, ProductPictureKept,
     ProductChangesAreTyped, ProductSentAgrees, ProductWritten

LEMMA DuxStays == ASSUME DuxInv, UNCHANGED duxVars PROVE DuxInv'
  BY DEF duxVars, DuxInv, DuxTyped, DuxPostsAgree, DuxSessionAgrees, DuxReadsAgree, Dux!DistrustHasReason,
     Dux!SaidIsShown, Dux!Completed, Dux!CatalogBusy, Dux!ChangeIsShown

\* A list of campaigns that has been loaded begins as its page's own behaviour might have left it.
LEMMA LoadedStarts == ASSUME Loaded PROVE CampaignInv
<1>1. /\ rows \in CampaignRows /\ list = rows /\ active = TRUE /\ loaded \in BOOLEAN /\ loading \in BOOLEAN
      /\ calls = {} /\ sent = 0 /\ wanted = 0 /\ loading = FALSE
  BY DEF Loaded, CampaignRows, CampaignRow
<1> QED
  BY <1>1, CampaignStarts DEF Loaded

\* Every page begins with its invariant.
LEMMA ConsoleStarts == ASSUME MCInit PROVE ConsoleInv
<1>1. FrameInv
  BY FrameInitKeeps DEF MCInit
<1>2. OrderInv
  BY OrderInitKeeps DEF MCInit
<1>3. RequestInv
  BY RequestInitKeeps DEF MCInit
<1>4. ProductInv
  BY ProductInitKeeps DEF MCInit
<1>5. DuxInv
  BY DuxInitKeeps DEF MCInit
<1>6. CampaignInv
  BY CampaignInitKeeps, LoadedStarts DEF MCInit, Opened
<1>7. part \in {"frame", "campaigns", "orders", "assisted", "catalogue", "dux"}
  BY DEF MCInit
<1> QED
  BY <1>1, <1>2, <1>3, <1>4, <1>5, <1>6, <1>7 DEF ConsoleInv

\* A step is one of one page, and the others keep their variables.
LEMMA OnePageMoves ==
  ASSUME [MCNext]_vars
  PROVE  /\ UNCHANGED part
         /\ (part = "frame" /\ Frame!Next) \/ UNCHANGED frameVars
         /\ (part = "campaigns" /\ Campaigns!Next) \/ UNCHANGED campaignVars
         /\ (part = "orders" /\ Orders!Next) \/ UNCHANGED orderVars
         /\ (part = "assisted" /\ Assisted!Next) \/ UNCHANGED assistedVars
         /\ (part = "catalogue" /\ Catalogue!Next) \/ UNCHANGED catalogueVars
         /\ (part = "dux" /\ Dux!Next) \/ UNCHANGED duxVars
<1>1. CASE MCNext
  BY <1>1 DEF MCNext
<1>2. CASE UNCHANGED vars
  BY <1>2 DEF vars
<1> QED
  BY <1>1, <1>2

\* A step keeps the invariant of its page, and leaves the others alone.
LEMMA ConsoleKeeps == ASSUME ConsoleInv, [MCNext]_vars PROVE ConsoleInv'
<1>1. FrameInv'
  BY OnePageMoves, FrameNextKeeps, FrameStays DEF ConsoleInv
<1>2. CampaignInv'
  BY OnePageMoves, CampaignNextKeeps, CampaignStays DEF ConsoleInv
<1>3. OrderInv'
  BY OnePageMoves, OrderNextKeeps, OrderStays DEF ConsoleInv
<1>4. RequestInv'
  BY OnePageMoves, RequestNextKeeps, RequestStays DEF ConsoleInv
<1>5. ProductInv'
  BY OnePageMoves, ProductNextKeeps, ProductStays DEF ConsoleInv
<1>6. DuxInv'
  BY OnePageMoves, DuxNextKeeps, DuxStays DEF ConsoleInv
<1> QED
  BY <1>1, <1>2, <1>3, <1>4, <1>5, <1>6, OnePageMoves DEF ConsoleInv

\* Every page keeps what it relies on: its requests on their way agree with what it waits for and shows.
THEOREM Invariance == MCSpec => []ConsoleInv
<1> QED
  BY ConsoleStarts, ConsoleKeeps, PTL DEF MCSpec

\* What the runs check of the pages follows from their invariants.
LEMMA ConsoleShows == ASSUME ConsoleInv PROVE WellTyped /\ ShownIsCurrent /\ WorkIsKept
<1>1. WellTyped
  <2>1. /\ Frame!TypeOK /\ Campaigns!TypeOK /\ Orders!TypeOK
        /\ Assisted!TypeOK /\ Catalogue!TypeOK /\ Dux!TypeOK
    BY FrameShows, CampaignShows, OrderShows, RequestShows, ProductShows, DuxShows DEF ConsoleInv
  <2>2. CASE part = "frame"
    BY <2>1, <2>2 DEF WellTyped
  <2>3. CASE part = "campaigns"
    BY <2>1, <2>3 DEF WellTyped
  <2>4. CASE part = "orders"
    BY <2>1, <2>4 DEF WellTyped
  <2>5. CASE part = "assisted"
    BY <2>1, <2>5 DEF WellTyped
  <2>6. CASE part = "catalogue"
    BY <2>1, <2>6 DEF WellTyped
  <2>7. CASE part = "dux"
    BY <2>1, <2>7 DEF WellTyped
  <2> QED
    BY <2>2, <2>3, <2>4, <2>5, <2>6, <2>7 DEF ConsoleInv
<1>2. ShownIsCurrent
  BY CampaignShows, OrderShows, RequestShows, ProductShows, DuxShows DEF ConsoleInv, ShownIsCurrent
<1>3. WorkIsKept
  BY <1>1, FrameShows, CampaignShows, ProductShows, DuxShows DEF ConsoleInv, WorkIsKept
<1> QED
  BY <1>1, <1>2, <1>3

\* The variables of the page that is used keep their types.
THEOREM TypeCorrect == MCSpec => []WellTyped
<1> QED
  BY Invariance, ConsoleShows, PTL

\* What a page of the console shows is what it asked for last, read after the last thing done there, and it
\* never waits for an answer that does not come: for any number of campaigns, orders, requests, products and
\* updates, and any bound.
THEOREM ShownIsAlwaysCurrent == MCSpec => []ShownIsCurrent
<1> QED
  BY Invariance, ConsoleShows, PTL

\* What is under way on a page goes on until it ends, once: an update from Dux, a campaign whose answer is
\* lost, what was typed in a product's editor, the operation the frame of the console knows of.
THEOREM WorkIsAlwaysKept == MCSpec => []WorkIsKept
<1> QED
  BY Invariance, ConsoleShows, PTL

-----------------------------------------------------------------------------
(* What no step does. *)

\* A step that is not the page's leaves its variables alone, so that each page's steps are the only ones to look at.
LEMMA StepsAreMeant ==
  ASSUME ConsoleInv, [MCNext]_vars
  PROVE  /\ [\A p \in drafts \ drafts' : p \in given' \/ Frame!Saved(p) \/ ended = "expired"
                \/ Frame!Overtaken \/ Frame!LateAnswer \/ Frame!LoggingOut]_(Frame!vars)
         /\ [Frame!Announced # {} /\ page = "admin" /\ page' = "shop"
               => Frame!Overtaken \/ crossed \/ Frame!Reload]_(Frame!vars)
         /\ [\A c \in calls : Campaigns!Write(c) /\ c.kind = "toggle" =>
               rows'[c.key].terms = rows[c.key].terms \/ doubts # {}]_(Campaigns!vars)
         /\ [action'.kind = "reject" /\ action.kind = None => asked = desk.selected]_(Orders!vars)
         /\ [(op.kind = None /\ op'.kind \in {"resolve", "prepare", "release", "finalize"}) =>
               /\ meant.kind = op'.kind /\ meant.of = op'.of
               /\ op'.kind # "resolve" => meant.n = pane.shown.n]_(Assisted!vars)
         /\ [(~Catalogue!Busy /\ pOp'.kind = "saving" /\ pOp'.stage = "product") =>
               /\ pOp'.body.name # None => typed.name = pOp'.body.name
               /\ pOp'.body.text # None => typed.text = pOp'.body.text \/ pCrossed]_(Catalogue!vars)
<1>1. Frame!Next => /\ \A p \in drafts \ drafts' : p \in given' \/ Frame!Saved(p) \/ ended = "expired"
                          \/ Frame!Overtaken \/ Frame!LateAnswer \/ Frame!LoggingOut
                    /\ Frame!Announced # {} /\ page = "admin" /\ page' = "shop"
                          => Frame!Overtaken \/ crossed \/ Frame!Reload
  BY FrameLosesOnly, FrameLeavesOnly DEF ConsoleInv
<1>2. \A c \in calls : Campaigns!Write(c) /\ c.kind = "toggle" => rows'[c.key].terms = rows[c.key].terms \/ doubts # {}
  BY CampaignSwitching DEF ConsoleInv
<1>3. Orders!Next => (action'.kind = "reject" /\ action.kind = None => asked = desk.selected)
  BY OrderRejecting DEF ConsoleInv
<1>4. Assisted!Next => ((op.kind = None /\ op'.kind \in {"resolve", "prepare", "release", "finalize"}) =>
                           /\ meant.kind = op'.kind /\ meant.of = op'.of
                           /\ op'.kind # "resolve" => meant.n = pane.shown.n)
  BY RequestConfirmed DEF ConsoleInv
<1>5. Catalogue!Next => ((~Catalogue!Busy /\ pOp'.kind = "saving" /\ pOp'.stage = "product") =>
                            /\ pOp'.body.name # None => typed.name = pOp'.body.name
                            /\ pOp'.body.text # None => typed.text = pOp'.body.text \/ pCrossed)
  BY ProductSendsTyped DEF ConsoleInv
<1>6. UNCHANGED frameVars => UNCHANGED Frame!vars
  BY DEF frameVars, Frame!vars
<1>7. UNCHANGED orderVars => UNCHANGED Orders!vars
  BY DEF orderVars, Orders!vars
<1>8. UNCHANGED assistedVars => UNCHANGED Assisted!vars
  BY DEF assistedVars, Assisted!vars
<1>9. UNCHANGED catalogueVars => UNCHANGED Catalogue!vars
  BY DEF catalogueVars, Catalogue!vars
<1> QED
  BY <1>1, <1>2, <1>3, <1>4, <1>5, <1>6, <1>7, <1>8, <1>9, OnePageMoves

\* Nothing is done on a page that was not meant: no form is lost and the console is not left during an
\* operation, a switch leaves a campaign's terms alone, an order is rejected and a request resolved only when
\* that was confirmed of it, and a save sends only what the person typed.
THEOREM AlwaysAsMeant == MCSpec => DoneAsMeant
<1> QED
  BY Invariance, StepsAreMeant, PTL DEF MCSpec, DoneAsMeant, Frame!EditsAreKept, Frame!WaitsForOperations,
     Campaigns!SwitchKeepsTerms, Orders!RejectionsAreAsked, Assisted!ConfirmedHere, Catalogue!OnlyTypedIsSent
=============================================================================
