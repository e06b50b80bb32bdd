--------------------------- MODULE CampaignEditor ---------------------------
(***************************************************************************)
(* The marketing panel of the administrator's console and the server that  *)
(* stores the campaigns: the list, the form, the saving of a new or an     *)
(* edited campaign, the quick switch that enables or disables one.         *)
(*                                                                         *)
(* Code: src/src/admin/MarketingPanel.tsx, src/src/marketing/api.ts,       *)
(* src/functions/api/admin/marketing.ts, writeMarketingCampaign in         *)
(* src/server/marketing.ts.                                                *)
(*                                                                         *)
(* What a campaign says is one value of Terms, and whether it is enabled.  *)
(* The server works on each request in steps, the requests interleave, and *)
(* a request whose answer was lost may still be under way.  Another        *)
(* administrator, with a panel of its own, may write a campaign meanwhile. *)
(* Campaigns are never deleted.                                            *)
(***************************************************************************)
EXTENDS Integers, FiniteSets

CONSTANTS
  Keys,      \* creation keys: the identity of a campaign is made from one
  Terms,     \* what a campaign may say
  MaxCalls,  \* requests of the panel
  MaxOthers, \* campaigns another administrator writes
  Nothing    \* no campaign, no form, a refusal

CampaignConstants == MaxCalls \in Nat \ {0} /\ MaxOthers \in Nat /\ IsFiniteSet(Keys)

Blank == "blank"    \* the terms of EMPTY_DRAFT, which no validation accepts

Input == [terms : Terms, enabled : BOOLEAN]
Draft == [terms : Terms \cup {Blank}, enabled : BOOLEAN]

NamesAreFree == Nothing \notin Keys \cup Input /\ Blank \notin Terms

VARIABLES
  rows,      \* marketing_campaigns: Input or Nothing for each key
  calls,     \* requests the server has not finished, or whose answer travels
  sent,      \* how many there have been
  active,    \* the section is shown
  list,      \* campaigns, as the panel has them
  loaded, loading,
  wanted,    \* loadSequence: the reload whose answer counts, 0 if none does
  draft,     \* the form: Input or Nothing
  original,  \* what the form was opened with
  editing,   \* editingId: Nothing for a new campaign
  creation,  \* creationKey
  used,      \* keys given so far
  forms,     \* history: campaigns there were, and forms opened for a new one
  busy,      \* the operation in flight: its number, or 0
  others,    \* campaigns another administrator has written
  left,      \* history: the section was left while a reload was in flight
  doubts     \* history: why the list may not be what is stored

form == <<draft, original, editing, creation, used, forms>>
vars == <<rows, calls, sent, active, list, loaded, loading, wanted, draft, original,
          editing, creation, used, forms, busy, others, left, doubts>>

(* "sent", "looked" (a creation whose key had no row), "written",          *)
(* "answered"; "said" is <<what the answer shows>>, or <<>> so far.        *)
Steps == {"sent", "looked", "written", "answered"}
Kinds == {"list", "create", "update", "toggle"}

TypeOK ==
  /\ rows \in [Keys -> Input \cup {Nothing}] /\ list \in [Keys -> Input \cup {Nothing}]
  /\ \A c \in calls : /\ c.n \in 1..sent /\ c.kind \in Kinds /\ c.at \in Steps
                      /\ c.kind # "list" => c.key \in Keys /\ c.input \in Input
                      /\ c.at = "answered" <=> c.said # <<>>
  /\ {loaded, loading, active, left} \subseteq BOOLEAN
  /\ others \in 0..MaxOthers /\ doubts \subseteq {"reload", "administrator", "lost"}
  /\ {draft, original} \subseteq Draft \cup {Nothing}
  /\ {editing, creation} \subseteq Keys \cup {Nothing} /\ used \subseteq Keys
  /\ forms \in 0..Cardinality(Keys)
  /\ {sent, wanted, busy} \subseteq 0..MaxCalls

-----------------------------------------------------------------------------
(*                              The panel                                  *)

Dirty == draft # original

Send(kind, key, input) ==
  /\ sent < MaxCalls /\ sent' = sent + 1
  /\ calls' = calls \cup {[n |-> sent + 1, kind |-> kind, key |-> key, input |-> input,
                           at |-> "sent", said |-> <<>>]}

(* reload: asked for by the person once loaded, or because nothing is.     *)
Reload ==
  /\ active /\ busy = 0 /\ ~loading
  /\ Send("list", Nothing, Nothing)
  /\ wanted' = sent + 1 /\ loading' = TRUE
  /\ UNCHANGED <<rows, active, list, loaded, busy, others, left, doubts>>
  /\ UNCHANGED form

(* The section is left: the cleanup of the effect gives up the reload.     *)
Hide ==
  /\ active /\ busy = 0
  /\ active' = FALSE /\ wanted' = 0
  /\ left' = (left \/ (loaded /\ loading))
  /\ UNCHANGED <<rows, calls, sent, list, loaded, loading, busy, others, doubts>>
  /\ UNCHANGED form

(* It is shown again: what was never loaded is asked for.                  *)
Show ==
  /\ ~active /\ active' = TRUE
  /\ IF loaded
     THEN UNCHANGED <<calls, sent, wanted, loading>>
     ELSE /\ Send("list", Nothing, Nothing)
          /\ wanted' = sent + 1 /\ loading' = TRUE
  /\ UNCHANGED <<rows, list, loaded, busy, others, left, doubts>> /\ UNCHANGED form

(* openEditor: at once when nothing is unsaved, after the person confirms  *)
(* otherwise.                                                              *)
OpenNew ==
  /\ active /\ busy = 0 /\ loaded /\ ~loading
  /\ \E k \in Keys \ used : creation' = k /\ used' = used \cup {k}
  /\ forms' = forms + 1
  /\ draft' = [terms |-> Blank, enabled |-> FALSE] /\ original' = draft'
  /\ editing' = Nothing
  /\ UNCHANGED <<rows, calls, sent, active, list, loaded, loading, wanted, busy,
                 others, left, doubts>>

OpenEdit(k) ==
  /\ active /\ busy = 0 /\ loaded /\ ~loading /\ list[k] # Nothing
  /\ draft' = list[k] /\ original' = list[k] /\ editing' = k
  /\ UNCHANGED <<rows, calls, sent, active, list, loaded, loading, wanted, busy,
                 creation, used, forms, others, left, doubts>>

CloseEditor ==
  /\ active /\ busy = 0 /\ draft # Nothing
  /\ draft' = Nothing /\ original' = Nothing /\ editing' = Nothing
  /\ UNCHANGED <<rows, calls, sent, active, list, loaded, loading, wanted, busy,
                 creation, used, forms, others, left, doubts>>

Update(i) ==
  /\ active /\ busy = 0 /\ draft # Nothing /\ i # draft
  /\ draft' = i
  /\ UNCHANGED <<rows, calls, sent, active, list, loaded, loading, wanted, busy,
                 original, editing, creation, used, forms, others, left, doubts>>

(* save: what validates, also while a reload is in flight.  The key of a   *)
(* creation is sent only for a new campaign.                               *)
Save ==
  /\ active /\ busy = 0 /\ draft \in Input
  /\ IF editing = Nothing THEN Send("create", creation, draft)
                          ELSE Send("update", editing, draft)
  /\ busy' = sent + 1
  /\ UNCHANGED <<rows, active, list, loaded, loading, wanted, others, left, doubts>>
  /\ UNCHANGED form

(* toggle: the whole campaign as the list has it, with "enabled" turned.   *)
ToggleInput(k) == [list[k] EXCEPT !.enabled = ~@]

Toggle(k) ==
  /\ active /\ busy = 0 /\ loaded /\ ~loading /\ list[k] # Nothing
  /\ ~(Dirty /\ editing = k)
  /\ Send("toggle", k, ToggleInput(k))
  /\ busy' = sent + 1
  /\ UNCHANGED <<rows, active, list, loaded, loading, wanted, others, left, doubts>>
  /\ UNCHANGED form

-----------------------------------------------------------------------------
(*                               The server                                *)

Becomes(c, at, said) ==
  calls' = (calls \ {c}) \cup {[c EXCEPT !.at = at, !.said = said]}

(* recoverCreation: a stored campaign answers the key that made it, unless *)
(* it says something else.                                                 *)
RecoverCreation(row, input) == IF row = input THEN row ELSE Nothing

List(c) ==
  /\ c.kind = "list" /\ c.at = "sent"
  /\ Becomes(c, "answered", <<rows>>)
  /\ UNCHANGED rows

(* A creation first looks for the campaign of its key.                     *)
Look(c) ==
  /\ c.kind = "create" /\ c.at = "sent"
  /\ IF rows[c.key] # Nothing
     THEN Becomes(c, "answered", <<RecoverCreation(rows[c.key], c.input)>>)
     ELSE Becomes(c, "looked", <<>>)
  /\ UNCHANGED rows

(* INSERT ... ON CONFLICT(id) DO NOTHING, or UPDATE of the whole row.      *)
Write(c) ==
  /\ \/ c.kind = "create" /\ c.at = "looked"
     \/ c.kind \in {"update", "toggle"} /\ c.at = "sent"
  /\ rows' = IF c.kind = "create" /\ rows[c.key] # Nothing THEN rows
             ELSE [rows EXCEPT ![c.key] = c.input]
  /\ Becomes(c, "written", <<>>)

(* The row is read back; a creation compares it once more.                 *)
ReadBack(c) ==
  /\ c.at = "written"
  /\ Becomes(c, "answered",
             <<IF c.kind = "create" THEN RecoverCreation(rows[c.key], c.input)
               ELSE rows[c.key]>>)
  /\ UNCHANGED rows

(* Invalid input, a coupon's code that is taken, the database: refused.    *)
Refuse(c) ==
  /\ c.at \in {"sent", "looked"}
  /\ Becomes(c, "answered", <<Nothing>>)
  /\ UNCHANGED rows

ServerStep ==
  /\ \E c \in calls : \/ List(c) \/ Look(c) \/ Write(c) \/ ReadBack(c) \/ Refuse(c)
  /\ UNCHANGED <<sent, active, list, loaded, loading, wanted, busy, others, left, doubts>>
  /\ UNCHANGED form

AnotherAdministrator ==
  /\ others < MaxOthers /\ others' = others + 1
  /\ \E k \in Keys, i \in Input : /\ rows[k] # Nothing /\ rows[k] # i
                                  /\ rows' = [rows EXCEPT ![k] = i]
  /\ doubts' = doubts \cup {"administrator"}
  /\ UNCHANGED <<calls, sent, active, list, loaded, loading, wanted, busy, left>>
  /\ UNCHANGED form

-----------------------------------------------------------------------------
(*                         Answers in the panel                            *)

(* The answer arrives, or the network fails and the panel stops waiting:   *)
(* the server may go on.                                                   *)
Lost == <<>>

Ends(c, said) ==
  \/ c.at = "answered" /\ said \in {c.said, Lost} /\ calls' = calls \ {c}
  \/ c.at # "answered" /\ said = Lost /\ calls' \in {calls, calls \ {c}}

(* A write the panel stopped waiting for.                                  *)
Abandoned  == \E c \in calls : c.kind # "list" /\ c.n # busy
Doubtful(said) == IF said = Lost THEN doubts \cup {"lost"} ELSE doubts

Accepted(said) == said \notin {Lost, <<Nothing>>}

Listed(c) ==
  /\ c.kind = "list" /\ c.n = wanted
  /\ \E said \in {c.said, Lost} :
       /\ Ends(c, said)
       /\ IF ~Accepted(said) THEN UNCHANGED <<list, loaded, doubts>>
          ELSE /\ list' = said[1] /\ loaded' = TRUE
               /\ doubts' = (IF busy = 0 THEN {} ELSE doubts)
                               \cup (IF said[1] # rows THEN {"reload"} ELSE {})
                               \cup (IF Abandoned THEN {"lost"} ELSE {})
  /\ wanted' = 0 /\ loading' = FALSE
  /\ UNCHANGED <<rows, sent, active, busy, others, left>> /\ UNCHANGED form

(* A reload that was given up.                                             *)
Ignored(c) ==
  /\ c.kind = "list" /\ c.n # wanted /\ c.at = "answered" /\ calls' = calls \ {c}
  /\ UNCHANGED <<rows, sent, active, list, loaded, loading, wanted, busy, others,
                 left, doubts>>
  /\ UNCHANGED form

Saved(c) ==
  /\ c.kind \in {"create", "update"} /\ c.n = busy
  /\ \E said \in {c.said, Lost} :
       /\ Ends(c, said)
       /\ IF ~Accepted(said) THEN UNCHANGED <<list, draft, original, editing>>
          ELSE /\ list' = [list EXCEPT ![c.key] = said[1]]
               /\ draft' = said[1] /\ original' = said[1] /\ editing' = c.key
       /\ doubts' = Doubtful(said)
  /\ busy' = 0
  /\ UNCHANGED <<rows, sent, active, loaded, loading, wanted, creation, used, forms,
                 others, left>>

(* The form follows when it shows that campaign and nothing is unsaved.    *)
Toggled(c) ==
  /\ c.kind = "toggle" /\ c.n = busy
  /\ \E said \in {c.said, Lost} :
       /\ Ends(c, said)
       /\ IF ~Accepted(said) THEN UNCHANGED <<list, draft, original>>
          ELSE /\ list' = IF list[c.key] = Nothing THEN list ELSE [list EXCEPT ![c.key] = said[1]]
               /\ IF editing = c.key /\ ~Dirty THEN draft' = said[1] /\ original' = said[1]
                  ELSE UNCHANGED <<draft, original>>
       /\ doubts' = Doubtful(said)
  /\ busy' = 0
  /\ UNCHANGED <<rows, sent, active, loaded, loading, wanted, editing, creation, used,
                 forms, others, left>>

-----------------------------------------------------------------------------
Init ==
  /\ rows \in [Keys -> Input \cup {Nothing}] /\ list = [k \in Keys |-> Nothing]
  /\ used = {k \in Keys : rows[k] # Nothing} /\ forms = Cardinality(used)
  /\ calls = {[n |-> 1, kind |-> "list", key |-> Nothing, input |-> Nothing,
               at |-> "sent", said |-> <<>>]}
  /\ sent = 1 /\ wanted = 1 /\ active = TRUE /\ loaded = FALSE /\ loading = TRUE
  /\ draft = Nothing /\ original = Nothing /\ editing = Nothing /\ creation = Nothing
  /\ busy = 0 /\ others = 0 /\ left = FALSE /\ doubts = {}

Next ==
  \/ Reload
  \/ Hide
  \/ Show
  \/ OpenNew
  \/ \E k \in Keys : OpenEdit(k)
  \/ CloseEditor
  \/ \E i \in Input : Update(i)
  \/ Save
  \/ \E k \in Keys : Toggle(k)
  \/ ServerStep
  \/ AnotherAdministrator
  \/ \E c \in calls : Listed(c)
  \/ \E c \in calls : Ignored(c)
  \/ \E c \in calls : Saved(c)
  \/ \E c \in calls : Toggled(c)

Spec == Init /\ [][Next]_vars

-----------------------------------------------------------------------------
(*                              Properties                                 *)

(* A form opened for a new campaign makes at most one, however often its   *)
(* answer is lost and the person saves again; and when the panel says it   *)
(* is saved, it is what the person wrote, never what an earlier attempt of *)
(* that form had stored.                                                   *)
CreatedOnceAsWritten ==
  /\ Cardinality({k \in Keys : rows[k] # Nothing}) <= forms
  /\ \A c \in calls : c.kind = "create" /\ c.at = "answered" => c.said[1] \in {c.input, Nothing}

(* The switch of the list enables or disables a campaign and leaves its    *)
(* terms alone: marketing.ts writes the whole row, so this rests on the    *)
(* list being what the server stores, which it is but for a save during a  *)
(* reload, another administrator and a request given up by the panel.      *)
SwitchKeepsTerms ==
  [][\A c \in calls : Write(c) /\ c.kind = "toggle" =>
       rows'[c.key].terms = rows[c.key].terms \/ doubts # {}]_vars

(* The panel shows that it is loading only while an answer it will take is *)
(* on its way, but when the section was left during a refresh.             *)
LoadingIsWaitedFor == active /\ loading => left \/ \E c \in calls : c.n = wanted

(* MarketingPanel.test.tsx: disabling a campaign does not alter its terms. *)
SwitchAltersNothing ==
  [][\A c \in calls : Write(c) /\ c.kind = "toggle" =>
       rows'[c.key].terms = rows[c.key].terms \/ "lost" \in doubts]_vars

=============================================================================
