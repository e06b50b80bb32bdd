----------------------------- MODULE MCConsole ------------------------------
(***************************************************************************)
(* The pages of the administrator's console, for TLC.  They share no state *)
(* but the server's, which each module models as far as its page sees it:  *)
(* a behaviour is one of one page, `part`, and the others stay as they     *)
(* begin.                                                                  *)
(***************************************************************************)
EXTENDS Integers, FiniteSets, TLC

CONSTANTS
  X,  \* campaigns, orders, requests, products, updates
  Y,  \* terms, periods
  Z,  \* orders of the other channel, words, the updates of the relay
  None,
  MaxEntries, MaxTraversals, MaxRequests, MaxLogins,       \* bounds of AdminConsole
  CampaignCalls, CampaignOthers,                           \* of CampaignEditor
  OrderReads, OrderActions, OrderChanges,                  \* of OrdersDesk
  RequestReads, RequestActions, RequestChanges,            \* of AssistedDesk
  ProductLoads, ProductEdits, ProductCalls, ProductOthers, \* of ProductDesk
  LastPhase, MaxRetries, UpdatePosts, UpdateReads, UpdateChanges, UpdateVisits  \* of DuxDesk

VARIABLES
  part,
  entries, at, traversals, page, known, restoring, session, section, drafts, requests,
  orderBusy, login, ended, given, crossed,
  rows, calls, sent, active, list, loaded, loading, wanted, draft, original, editing,
  creation, used, forms, busy, others, left, doubts,
  pending, world, oSection, filter, report, desk, action, oReads, oCount, oEnded, listed, asked,
  request, aWorld, aList, pane, op, aReads, aCount, effect, meant,
  pRows, pList, load, deferred, editor, asking, candidate, pOp, pCalls, edits, pOthers, typed,
  written, pCrossed,
  ops, control, posts, panel, dSession, switches, reads, change, late, count, dropped, garbled

frameVars     == <<entries, at, traversals, page, known, restoring, session,
                   section, drafts, requests, orderBusy, login, ended, given,
                   crossed>>
campaignVars  == <<rows, calls, sent, active, list, loaded, loading, wanted,
                   draft, original, editing, creation, used, forms, busy, others,
                   left, doubts>>
orderVars     == <<pending, world, oSection, filter, report, desk, action, oReads,
                   oCount, oEnded, listed, asked>>
assistedVars  == <<request, aWorld, aList, pane, op, aReads, aCount, effect,
                   meant>>
catalogueVars == <<pRows, pList, load, deferred, editor, asking, candidate, pOp,
                   pCalls, edits, pOthers, typed, written, pCrossed>>
duxVars       == <<ops, control, posts, panel, dSession, switches, reads, change,
                   late, count, dropped, garbled>>

Frame == INSTANCE AdminConsole
Campaigns == INSTANCE CampaignEditor WITH Keys <- X, Terms <- Y, MaxCalls <- CampaignCalls,
               MaxOthers <- CampaignOthers, Nothing <- None
Orders == INSTANCE OrdersDesk WITH WhatsApp <- X, CheckoutPro <- Z, Filters <- Y,
            MaxReads <- OrderReads, MaxActions <- OrderActions, MaxChanges <- OrderChanges,
            section <- oSection, reads <- oReads, count <- oCount, ended <- oEnded
Assisted == INSTANCE AssistedDesk WITH Requests <- X, MaxReads <- RequestReads, MaxActions <- RequestActions,
              MaxChanges <- RequestChanges, world <- aWorld, list <- aList, reads <- aReads, count <- aCount
Catalogue == INSTANCE ProductDesk WITH Products <- X, Words <- Z, MaxLoads <- ProductLoads,
              MaxEdits <- ProductEdits, MaxCalls <- ProductCalls, MaxOthers <- ProductOthers,
              rows <- pRows, list <- pList, op <- pOp, calls <- pCalls, others <- pOthers,
              wanted <- typed, crossed <- pCrossed
Dux == INSTANCE DuxDesk WITH Mine <- X, Scheduled <- Z, MaxPosts <- UpdatePosts, MaxReads <- UpdateReads,
         MaxChanges <- UpdateChanges, MaxVisits <- UpdateVisits, session <- dSession

ASSUME ConsoleAssumption ==
  /\ Frame!BoundsAreNaturals /\ Campaigns!CampaignConstants /\ Campaigns!NamesAreFree
  /\ Orders!DeskAssumption /\ Assisted!AssistedDeskAssumption
  /\ Catalogue!ProductDeskAssumption /\ Dux!DuxDeskAssumption

-----------------------------------------------------------------------------
\* The section of campaigns is opened, or it has been and the list is loaded.
\* No campaign is enabled at first.
Opened == Campaigns!Init
Loaded ==
  /\ rows \in [X -> Campaigns!Input \cup {None}] /\ list = rows
  /\ used = {k \in X : rows[k] # None} /\ forms = Cardinality(used)
  /\ calls = {} /\ sent = 0 /\ wanted = 0 /\ active = TRUE /\ loaded = TRUE /\ loading = FALSE
  /\ draft = None /\ original = None /\ editing = None /\ creation = None
  /\ busy = 0 /\ others = 0 /\ left = FALSE /\ doubts = {}

MCInit ==
  /\ part \in {"frame", "campaigns", "orders", "assisted", "catalogue", "dux"}
  /\ Frame!Init /\ Orders!Init /\ Assisted!Init /\ Catalogue!Init /\ Dux!Init
  /\ Opened \/ Loaded
  /\ \A k \in X : rows[k] # None => ~rows[k].enabled /\ part = "campaigns"
  /\ Cardinality({k \in X : rows[k] # None}) <= 1
  /\ loaded => part = "campaigns"
  /\ \A k \in X : request[k].status # "submitted" => part = "assisted"

MCNext ==
  \/ part = "frame" /\ Frame!Next
     /\ UNCHANGED <<part, campaignVars, orderVars, assistedVars, catalogueVars, duxVars>>
  \/ part = "campaigns" /\ Campaigns!Next
     /\ UNCHANGED <<part, frameVars, orderVars, assistedVars, catalogueVars, duxVars>>
  \/ part = "orders" /\ Orders!Next
     /\ UNCHANGED <<part, frameVars, campaignVars, assistedVars, catalogueVars, duxVars>>
  \/ part = "assisted" /\ Assisted!Next
     /\ UNCHANGED <<part, frameVars, campaignVars, orderVars, catalogueVars, duxVars>>
  \/ part = "catalogue" /\ Catalogue!Next
     /\ UNCHANGED <<part, frameVars, campaignVars, orderVars, assistedVars, duxVars>>
  \/ part = "dux" /\ Dux!Next
     /\ UNCHANGED <<part, frameVars, campaignVars, orderVars, assistedVars, catalogueVars>>

vars == <<part, frameVars, campaignVars, orderVars, assistedVars, catalogueVars, duxVars>>

MCSpec == MCInit /\ [][MCNext]_vars

\* Two requests of the campaigns' panel at a time, three of them and writes of
\* others in all; forms that enable a campaign are the ones its switch makes.
FewCalls ==
  /\ Cardinality(calls) <= 2 /\ sent + others <= 3
  /\ draft # None => ~draft.enabled \/ draft = original

Symmetry == Permutations(X) \cup Permutations(Y)

-----------------------------------------------------------------------------
(* Properties *)

\* The variables of the page keep their types.
WellTyped ==
  CASE part = "frame"     -> Frame!TypeOK
    [] part = "campaigns" -> Campaigns!TypeOK
    [] part = "orders"    -> Orders!TypeOK
    [] part = "assisted"  -> Assisted!TypeOK
    [] part = "catalogue" -> Catalogue!TypeOK
    [] part = "dux"       -> Dux!TypeOK

\* What a page shows is what it asked for last, read after the last thing done
\* there, and it never waits for an answer that does not come: of the orders,
\* the web requests, the campaigns, the products and the updates from Dux.
ShownIsCurrent ==
  /\ part = "orders" =>
       Orders!DetailIsCurrent /\ Orders!ReportIsCurrent /\ Orders!OpenOrderShowsSomething
  /\ part = "assisted"  => Assisted!OneRequestOnScreen /\ Assisted!ShownIsPersisted
  /\ part = "campaigns" => Campaigns!LoadingIsWaitedFor
  /\ part = "catalogue" => Catalogue!RefreshIsHonoured
  /\ part = "dux"       => Dux!WhatIsSaidIsShown

\* What is under way goes on until it ends, once: an update from Dux under its
\* identity, a campaign that is created however often its answer is lost, what
\* was typed in the editor of a product whose save fails, and the operation a panel
\* reports, of which the console's frame knows.  The variables of the page keep their
\* types.
WorkIsKept ==
  /\ WellTyped
  /\ part = "dux"       => Dux!UpdateIsFollowed
  /\ part = "campaigns" => Campaigns!CreatedOnceAsWritten
  /\ part = "catalogue" => Catalogue!NothingTypedIsLost
  /\ part = "frame"     => Frame!AnnouncedWhileRunning

\* Nothing is done that was not meant: forms are not lost and the console is not left
\* during an operation its panel reports, a switch leaves a campaign's terms alone, an order is
\* rejected and a request resolved only when that was confirmed of it, and a save
\* writes only what the person changed.
DoneAsMeant ==
  /\ Frame!EditsAreKept /\ Frame!WaitsForOperations
  /\ Campaigns!SwitchKeepsTerms
  /\ Orders!RejectionsAreAsked
  /\ Assisted!ConfirmedHere
  /\ Catalogue!OnlyTypedIsSent

\* docs/ACCESSIBILITY.md: the person is kept from leaving while a remote operation
\* is active, whichever panel runs it.
OperationsAreGuarded == Frame!OperationsAreGuarded
=============================================================================
