------------------------------ MODULE DuxReads ------------------------------
(***************************************************************************)
(* One reading of Dux by a caller that collects everything in one request: *)
(* the directories that establish the company, its branch and its          *)
(* warehouses, then the pages of the enabled items (server/dux-api.ts,     *)
(* server/dux-inventory-reader.ts).  The analysis of editorial matches     *)
(* reads the items alone.                                                  *)
(*                                                                         *)
(* The client sends one GET at a time; each has its attempts, its          *)
(* interval, its timeout, and the whole reading one deadline and one       *)
(* budget of attempts.  Dux goes on changing meanwhile, and its answers    *)
(* are what the code admits they may be: short, with a wrong "hay_mas",    *)
(* late, refused, lost before or after their headers.  Timers fire on      *)
(* time; only beforeRequest (a heartbeat in D1) takes as long as it takes. *)
(***************************************************************************)
EXTENDS Integers, Sequences, FiniteSets

CONSTANTS
  ReadCodes,         \* codes of Dux
  StockOf,           \* what each shows: rows <<warehouse, "counted" or "null">>
  ItemPageLimit,     \* ITEM_PAGE_LIMIT, 50 in the code
  MaxItemPages,      \* MAX_ITEM_PAGES, 20
  RequestInterval,   \* minRequestIntervalMs
  RequestTimeout,    \* requestTimeoutMs
  SyncDeadline,      \* syncDeadlineMs
  MaxGetAttempts,    \* maxGetAttempts, 3
  MaxTotalAttempts,  \* maxTotalRequestAttempts, 45
  DefaultRetryDelay, \* defaultRetryDelay
  RetryAfters,       \* what Retry-After may ask for
  MaxRetryDelay,     \* maxRetryDelayMs
  MaxReadChanges,    \* bound: changes of the items in Dux
  ReadSlack          \* bound: how far past the deadline the clock goes

(* "own" is the configured deposit, "other" another one of the company,    *)
(* "foreign" one that is not authorised.                                   *)
Authorized == {"own", "other"}
Directories == <<"companies", "branches", "warehouses">>
StockRows == (Authorized \cup {"foreign"}) \X {"counted", "null"}

ASSUME ReadsAssumption ==
  /\ IsFiniteSet(ReadCodes) /\ StockOf \in [ReadCodes -> SUBSET StockRows]
  /\ ItemPageLimit \in Nat \ {0} /\ MaxItemPages \in Nat \ {0} /\ MaxGetAttempts \in Nat \ {0}
  /\ {RequestInterval, RequestTimeout, SyncDeadline, MaxTotalAttempts, DefaultRetryDelay,
      MaxRetryDelay, MaxReadChanges, ReadSlack} \cup RetryAfters \subseteq Nat

VARIABLES
  listing,           \* the enabled items as Dux lists them
  clock,             \* the clock
  scoped,            \* filter.warehouses: the directories were read
  step,              \* how many directories were read
  getPc,             \* where the GET under way is
  until,             \* when its timer fires
  try,               \* attempts at this GET
  attempts,          \* requestAttemptCount
  nextAt,            \* nextRequestAt
  read,              \* offset, expectedTotal, receivedCount, items, catalogItems
  asked,             \* history of the last GET, see Gets
  kept,              \* history: items that never left Dux since the first page
  moved              \* history: what changed in Dux since the first page; all changes

getVars == <<getPc, until, try, attempts, nextAt, asked>>
readVars == <<listing, clock, scoped, step, getVars, read, kept, moved>>

ReadRecords ==
  [offset : Nat, page : 0..MaxItemPages, total : Nat \cup {-1}, received : Nat,
   items : SUBSET [code : ReadCodes, stock : SUBSET StockRows], catalog : Seq(ReadCodes)]

(* When it began, and the wait its answer called for: the one the client   *)
(* took from an answer it read whole, or its own; and the one heard in     *)
(* headers whose body was lost.  Whether it began the interval after the   *)
(* one before, after what that one called for, and after what was heard.   *)
Gets == [start : Nat \cup {-1}, wait : Nat, heard : Nat,
         spaced : BOOLEAN, obeyed : BOOLEAN, respected : BOOLEAN]

ReadTypeOK ==
  /\ listing \in Seq(ReadCodes) /\ clock \in 0..SyncDeadline + ReadSlack /\ scoped \in BOOLEAN
  /\ step \in 0..Len(Directories)
  /\ getPc \in {"ready", "before", "slot", "flight", "backoff", "done", "failed"}
  /\ until \in 0..SyncDeadline + ReadSlack
  /\ try \in 0..MaxGetAttempts /\ attempts \in 0..MaxTotalAttempts
  /\ nextAt \in 0..SyncDeadline + RequestInterval /\ read \in ReadRecords
  /\ asked \in Gets /\ kept \subseteq ReadCodes
  /\ moved \in [n : 0..MaxReadChanges, kinds : SUBSET {"in", "out"}]

-----------------------------------------------------------------------------
(*                                  Dux                                    *)

Members(s) == {s[i] : i \in 1..Len(s)}
Once(s) == \A i, j \in 1..Len(s) : s[i] = s[j] => i = j
Reading == read.page > 0 /\ getPc \notin {"done", "failed"}

ItemsChange(kind, s) ==
  /\ moved.n < MaxReadChanges
  /\ listing' = s
  /\ moved' = [n |-> moved.n + 1,
                 kinds |-> IF Reading THEN moved.kinds \cup kind ELSE moved.kinds]
  /\ kept' = IF Reading THEN kept \cap Members(s) ELSE kept
  /\ UNCHANGED <<clock, scoped, step, getVars, read>>

ItemEnters == \E c \in ReadCodes \ Members(listing), i \in 0..Len(listing) :
  ItemsChange({"in"}, SubSeq(listing, 1, i) \o <<c>> \o SubSeq(listing, i + 1, Len(listing)))

ItemLeaves == \E i \in 1..Len(listing) :
  ItemsChange({"out"}, SubSeq(listing, 1, i - 1) \o SubSeq(listing, i + 1, Len(listing)))

-----------------------------------------------------------------------------
(*                           One GET of the client                         *)

RemainingMs == SyncDeadline - clock
Timed == getPc \in {"slot", "flight", "backoff"}
Due == Timed /\ clock = until

ReadTick ==
  /\ getPc \notin {"done", "failed"} /\ clock < SyncDeadline + ReadSlack /\ ~Due /\ getPc # "ready"
  /\ clock' = clock + 1
  /\ UNCHANGED <<listing, scoped, step, getVars, read, kept, moved>>

AroundGet == <<listing, clock, scoped, moved>>

Fail ==
  /\ getPc' = "failed"
  /\ UNCHANGED <<AroundGet, until, try, attempts, nextAt, asked, step, read, kept>>

(* waitWithinDeadline: a wait that would reach the deadline is given up.   *)
Wait(where, d) ==
  /\ d < RemainingMs
  /\ getPc' = where /\ until' = clock + d

(* performGet: an attempt is counted before beforeRequest runs.            *)
Attempt ==
  /\ getPc = "ready"
  /\ IF RemainingMs <= 0 \/ attempts >= MaxTotalAttempts THEN Fail
     ELSE /\ getPc' = "before" /\ attempts' = attempts + 1
          /\ UNCHANGED <<AroundGet, until, try, nextAt, asked, step, read, kept>>

(* waitForRequestSlot, once beforeRequest is through; it may also fail.    *)
TakeSlot ==
  /\ getPc = "before"
  /\ \/ Fail
     \/ /\ Wait("slot", IF nextAt > clock THEN nextAt - clock ELSE 0)
        /\ UNCHANGED <<AroundGet, try, attempts, nextAt, asked, step, read, kept>>

AttemptTimeout == IF RemainingMs < RequestTimeout THEN RemainingMs ELSE RequestTimeout

Launch ==
  /\ getPc = "slot" /\ Due
  /\ getPc' = "flight" /\ until' = clock + AttemptTimeout
  /\ nextAt' = clock + RequestInterval
  /\ asked' = [start |-> clock, wait |-> 0, heard |-> 0,
               spaced |-> asked.start < 0 \/ clock >= asked.start + RequestInterval,
               obeyed |-> clock >= asked.start + asked.wait,
               respected |-> clock >= asked.start + asked.heard]
  /\ UNCHANGED <<AroundGet, try, attempts, step, read, kept>>

(* Another attempt after d, unless they are used up.                       *)
RetryGet(d) ==
  /\ try + 1 < MaxGetAttempts
  /\ Wait("backoff", d)
  /\ UNCHANGED <<AroundGet, try, attempts, nextAt, step, read, kept>>

GetAgain ==
  /\ getPc = "backoff" /\ Due
  /\ getPc' = "ready" /\ try' = try + 1
  /\ UNCHANGED <<AroundGet, until, attempts, nextAt, asked, step, read, kept>>

(* retryDelayMilliseconds: null, no retry, for a wait over the maximum.    *)
RetryDelay(d) == IF d <= MaxRetryDelay THEN d ELSE SyncDeadline

(* 429 or 5xx read whole, with what it asks for or nothing.                *)
GetRefused ==
  /\ getPc = "flight" /\ ~Due
  /\ \E d \in RetryAfters \cup {0} :
       LET delay == IF d = 0 THEN DefaultRetryDelay ELSE RetryDelay(d) IN
       /\ asked' = [asked EXCEPT !.wait = clock - asked.start +
                                          (IF d = 0 THEN DefaultRetryDelay ELSE d)]
       /\ \/ RetryGet(delay)
          \/ /\ ~(try + 1 < MaxGetAttempts /\ delay < RemainingMs)
             /\ getPc' = "failed"
             /\ UNCHANGED <<AroundGet, until, try, attempts, nextAt, step, read, kept>>

(* No answer: the network fails, before the headers or while the body is   *)
(* read, or the timer aborts.  The headers may have been those of a 429 or *)
(* a 5xx, with what it asks for (counted from the GET, the earliest it can *)
(* be): the catch leaves that aside and waits the default delay.           *)
GetLost ==
  /\ getPc = "flight"
  /\ IF Due /\ until = SyncDeadline THEN Fail
     ELSE \/ /\ RetryGet(DefaultRetryDelay)
             /\ \E d \in RetryAfters \cup {0} :
                  asked' = [asked EXCEPT !.wait = clock - asked.start + DefaultRetryDelay,
                                         !.heard = d]
          \/ ~(try + 1 < MaxGetAttempts /\ DefaultRetryDelay < RemainingMs) /\ Fail

(* Any other status, a redirect.                                           *)
Unexpected == getPc = "flight" /\ ~Due /\ Fail

(* readProviderJson: a body that is too long, or is not JSON.              *)
Unreadable == getPc = "flight" /\ ~Due /\ Fail

-----------------------------------------------------------------------------
(*                         What the answers become                         *)

(* parseReferencePage: a directory that says it has more is refused.       *)
Partial == getPc = "flight" /\ ~Due /\ scoped /\ step < Len(Directories) /\ Fail

(* A directory is complete, and names the configured identity once.        *)
Verified ==
  /\ getPc = "flight" /\ ~Due /\ scoped /\ step < Len(Directories)
  /\ step' = step + 1 /\ getPc' = "ready" /\ try' = 0
  /\ UNCHANGED <<AroundGet, until, attempts, nextAt, asked, read, kept>>

(* transformItemsResponse: rows of other companies' warehouses and rows    *)
(* without quantities are taken out; an item left without any is excluded. *)
InScope(c)   == {r \in StockOf[c] : scoped => r[1] \in Authorized}
Quantified(c) == {r \in InScope(c) : r[2] = "counted"}

Excluded(c) ==
  IF scoped THEN Quantified(c) = {}
  ELSE <<"own", "null">> \in StockOf[c] /\ <<"own", "counted">> \notin StockOf[c]

Keep(page) == {[code |-> c, stock |-> Quantified(c)] : c \in {d \in Members(page) : ~Excluded(d)}}

(* What the response filter notes of a page before the client parses it.   *)
Observe(page) == [items |-> Keep(page), catalog |-> page]

(* Mutant: the totals of later pages are not compared.                     *)
AcceptsAnyTotal(page, total, more) ==
  LET received == read.received + Len(page) IN
  /\ total <= ItemPageLimit * MaxItemPages
  /\ received <= total
  /\ IF more THEN received < total /\ page # <<>> ELSE received = total

(* listQuantifiedInventoryItems: what a page must be.                      *)
Accepts(page, total, more) ==
  LET received == read.received + Len(page) IN
  /\ read.total \in {-1, total} /\ total <= ItemPageLimit * MaxItemPages
  /\ received <= total
  /\ IF more THEN received < total /\ page # <<>> ELSE received = total

(* A page of Dux: some first items of the slice that was asked for.        *)
SliceEnd == IF read.offset + ItemPageLimit < Len(listing) THEN read.offset + ItemPageLimit
            ELSE Len(listing)
Slice == SubSeq(listing, read.offset + 1, SliceEnd)

ItemsPage ==
  /\ getPc = "flight" /\ ~Due /\ (scoped => step = Len(Directories))
  /\ \E n \in 0..Len(Slice), more \in BOOLEAN :
       LET page == SubSeq(Slice, 1, n) IN
       IF ~Accepts(page, Len(listing), more) \/ (more /\ read.page + 1 = MaxItemPages) THEN Fail
       ELSE /\ read' = [offset |-> read.offset + ItemPageLimit, page |-> read.page + 1,
                        total |-> Len(listing), received |-> read.received + n,
                        items |-> read.items \cup Observe(page).items,
                        catalog |-> read.catalog \o Observe(page).catalog]
            /\ kept' = IF read.page = 0 THEN Members(listing) ELSE kept
            /\ getPc' = IF more THEN "ready" ELSE "done"
            /\ try' = 0
            /\ UNCHANGED <<AroundGet, until, attempts, nextAt, asked, step>>

-----------------------------------------------------------------------------
ReadInit ==
  /\ listing \in {s \in UNION {[1..n -> ReadCodes] : n \in 0..Cardinality(ReadCodes)} : Once(s)}
  /\ clock = 0 /\ scoped \in BOOLEAN /\ step = 0
  /\ getPc = "ready" /\ until = 0 /\ try = 0 /\ attempts = 0 /\ nextAt = 0
  /\ read = [offset |-> 0, page |-> 0, total |-> -1, received |-> 0,
             items |-> {}, catalog |-> <<>>]
  /\ asked = [start |-> -1, wait |-> 0, heard |-> 0,
              spaced |-> TRUE, obeyed |-> TRUE, respected |-> TRUE]
  /\ kept = {} /\ moved = [n |-> 0, kinds |-> {}]

ReadNext ==
  \/ ItemEnters
  \/ ItemLeaves
  \/ ReadTick
  \/ Attempt
  \/ TakeSlot
  \/ Launch
  \/ GetAgain
  \/ GetRefused
  \/ GetLost
  \/ Unexpected
  \/ Unreadable
  \/ Partial
  \/ Verified
  \/ ItemsPage

ReadSpec == ReadInit /\ [][ReadNext]_readVars

-----------------------------------------------------------------------------
(*                              Properties                                 *)

(* A reading that ends well holds every item that was in Dux all along,    *)
(* once, whatever short page or wrong "hay_mas" came, unless an item left  *)
(* and another one entered while it was made: then their number tells      *)
(* nothing.  The catalogue keeps every item it read; the quantities, the   *)
(* counted rows of the warehouses in scope, never a zero for a null.       *)
Counts(c) == StockOf[c] \cap (Authorized \X {"counted"})

ReadIsComplete ==
  getPc = "done" =>
    /\ moved.kinds = {"in", "out"} \/
         /\ kept \subseteq Members(read.catalog)
         /\ Once(read.catalog)
    /\ scoped => read.items =
                   {[code |-> c, stock |-> Counts(c)] :
                      c \in {d \in Members(read.catalog) : Counts(d) # {}}}

(* No GET begins within the interval of the one before it, nor before what *)
(* a refusal read whole asked for, or the default delay after one that     *)
(* asked for nothing or an answer that was lost, nor outlives the deadline *)
(* of the whole reading.                                                   *)
GetsArePaced ==
  getPc = "flight" => asked.spaced /\ asked.obeyed /\ until <= SyncDeadline

(* docs/ARCHITECTURE.md: the client respects Retry-After when there is     *)
(* one.  Here also the one of an answer whose body was lost.               *)
RetryAfterIsRespected == getPc = "flight" => asked.obeyed /\ asked.respected

(* A reading that ends has every product that was there all along, once,   *)
(* and its calls keep the pace and the waits of the refusals it read       *)
(* whole.  Its variables keep their types.                                 *)
ReadIsWhole == ReadTypeOK /\ ReadIsComplete /\ GetsArePaced

=============================================================================
