---------------------------- MODULE ProductDesk ----------------------------
(***************************************************************************)
(* The page of products of the administrator (admin/ProductManager,        *)
(* ProductList, ProductEditor, ProductImageField): the list, the editor of *)
(* the name, the description and the picture of one product, and hiding or *)
(* showing a product in the shop.  ProductCatalog has what the server does *)
(* with each request; here a request writes its fields in one step.        *)
(*                                                                         *)
(* A render and its effects are one step.  Filters, order and pages of the *)
(* list, focus and messages are left out; an expired session unmounts the  *)
(* page and is left to AdminConsole.                                       *)
(***************************************************************************)
EXTENDS Naturals, FiniteSets

CONSTANTS
  Products,
  Words,      \* what can be typed as a name or as a description
  None,
  MaxLoads,   \* bound: readings of the list
  MaxEdits,   \* bound: changes made in the editor
  MaxCalls,   \* bound: requests that change a product
  MaxOthers   \* bound: changes of others, a synchronisation of Dux included

ProductDeskAssumption ==
  /\ MaxLoads \in Nat \ {0} /\ MaxEdits \in Nat /\ MaxCalls \in Nat /\ MaxOthers \in Nat
  /\ None \notin Products \cup Words /\ None \notin [is : Words \cup {None}]
  /\ None \notin {"idle", "saving", "quick", "deleting", "product", "image", "publication",
                  "sent", "done", "shop", "new", "none"}

VARIABLES
  rows,      \* server: the settings of each product over what Dux says
  list,      \* products, each with whether it was read after the last refresh was asked
  load,      \* loadSequenceRef, loading, loadError and the readings on their way
  deferred,  \* deferredInventoryRefreshRef
  editor,    \* editingProduct and what was typed over it
  asking,    \* pendingNavigation
  candidate, \* deleteCandidate
  op,        \* operation, and the request behind it
  calls, edits, others, \* bounds
  wanted,    \* history: what the person put in the open editor and did not discard
  written,   \* history: which of it the server has written
  crossed    \* history: a picture's answer brought the description of somebody else

vars == <<rows, list, load, deferred, editor, asking, candidate, op, calls, edits, others,
          wanted, written, crossed>>
server  == <<rows, others>>
page    == <<list, load, deferred>>
history == <<wanted, written, crossed>>

\* No override and no description of the web: those of Dux.
Row     == [name : Words \cup {None}, text : Words \cup {None}, image : {"none", "old", "new"}, shown : BOOLEAN]
Nothing == [name |-> None, text |-> None, image |-> None]
Closed  == [id |-> None]
Idle    == [kind |-> "idle", stage |-> None, id |-> None, body |-> None, saved |-> FALSE, state |-> None, got |-> None, fresh |-> FALSE]

Busy  == op.kind # "idle"

\* The name is shown as Dux has it (None) until another is typed.
Opened(p, row) == [id |-> p, row |-> row, name |-> row.name, reset |-> FALSE, text |-> row.text,
                   put |-> FALSE, remove |-> FALSE]
NameChanged(e) == e.reset \/ e.name # e.row.name
TextChanged(e) == e.text # e.row.text
IsDirty(e) == e.id # None /\ (NameChanged(e) \/ TextChanged(e) \/ e.put \/ e.remove)

-----------------------------------------------------------------------------
(* The list *)

LoadAgain(sent) ==
  /\ load.seq < MaxLoads
  /\ load' = [load EXCEPT !.seq = @ + 1, !.loading = TRUE, !.error = FALSE,
                          !.sent = sent \cup {[n |-> load.seq + 1, got |-> None, fresh |-> TRUE]}]
StartLoad == LoadAgain(load.sent)

\* The effect of [isDirty, remoteBusy, deleteCandidate].
RunsDeferred(quiet) == quiet /\ deferred

AfterRender ==
  LET quiet == ~IsDirty(editor') /\ op'.kind = "idle" /\ candidate' = None
  IN IF RunsDeferred(quiet) THEN deferred' = FALSE /\ StartLoad /\ UNCHANGED list
     ELSE IF quiet THEN deferred' = FALSE /\ UNCHANGED <<list, load>>
     ELSE UNCHANGED page

\* "shekinah:admin-products-refresh"
Refresh ==
  /\ list' = [p \in Products |-> [list[p] EXCEPT !.fresh = FALSE]]
  /\ op' = [op EXCEPT !.fresh = FALSE]
  /\ LET sent == {[r EXCEPT !.fresh = r.got = None] : r \in load.sent}
     IN IF IsDirty(editor) \/ Busy \/ candidate # None
        THEN deferred' = TRUE /\ load' = [load EXCEPT !.sent = sent]
        ELSE deferred' = deferred /\ LoadAgain(sent)
  /\ UNCHANGED <<server, editor, asking, candidate, calls, edits, history>>

RetryLoad ==
  /\ load.error /\ ~load.loading /\ StartLoad
  /\ UNCHANGED <<server, list, deferred, editor, asking, candidate, op, calls, edits, history>>

Serve ==
  \E r \in load.sent :
    /\ r.got = None
    /\ load' = [load EXCEPT !.sent = (@ \ {r}) \cup {[r EXCEPT !.got = rows]}]
    /\ UNCHANGED <<server, list, deferred, editor, asking, candidate, op, calls, edits, history>>

IsLast(r) == r.n = load.seq

LoadAnswer ==
  \E r \in load.sent :
    /\ \/ /\ r.got # None
          /\ list' = IF IsLast(r) THEN [p \in Products |-> [row |-> r.got[p], fresh |-> r.fresh]] ELSE list
          /\ load' = [load EXCEPT !.sent = @ \ {r}, !.loading = IF IsLast(r) THEN FALSE ELSE @]
       \/ /\ list' = list
          /\ load' = [load EXCEPT !.sent = @ \ {r}, !.loading = IF IsLast(r) THEN FALSE ELSE @,
                                  !.error = @ \/ IsLast(r)]
    /\ UNCHANGED <<server, deferred, editor, asking, candidate, op, calls, edits, history>>

Listed == ~load.loading /\ ~load.error

-----------------------------------------------------------------------------
(* The editor *)

OpenEdit(p, row) ==
  /\ editor' = Opened(p, row) /\ asking' = None /\ candidate' = None
  /\ wanted' = Nothing /\ written' = Nothing /\ crossed' = FALSE

CloseEditor ==
  /\ editor' = Closed /\ asking' = None
  /\ wanted' = Nothing /\ written' = Nothing /\ crossed' = FALSE

\* requestEdit, from the row of a product.
RequestEdit(p) ==
  /\ ~Busy /\ candidate = None /\ Listed /\ editor.id # p
  /\ IF IsDirty(editor)
     THEN /\ asking' = [edit |-> p, row |-> list[p].row] /\ asking # asking'
          /\ UNCHANGED <<editor, candidate, wanted, written, crossed>>
     ELSE OpenEdit(p, list[p].row)
  /\ UNCHANGED <<server, page, op, calls, edits>>

RequestClose ==
  /\ editor.id # None /\ ~Busy
  /\ IF IsDirty(editor)
     THEN /\ asking' = [edit |-> None] /\ asking # asking'
          /\ UNCHANGED <<page, editor, wanted, written, crossed>>
     ELSE CloseEditor /\ UNCHANGED page
  /\ UNCHANGED <<server, candidate, op, calls, edits>>

\* "Descartar cambios" and "Seguir editando".
Discard ==
  /\ asking # None /\ ~Busy
  /\ IF asking.edit # None THEN OpenEdit(asking.edit, asking.row) ELSE CloseEditor /\ UNCHANGED candidate
  /\ op' = op /\ AfterRender
  /\ UNCHANGED <<server, calls, edits>>

KeepEditing ==
  /\ asking # None /\ asking' = None
  /\ UNCHANGED <<server, page, editor, candidate, op, calls, edits, history>>

\* A change of one field; typing what was there again makes the editor clean.
Put(e, field, value) ==
  /\ editor.id # None /\ ~Busy /\ e # editor
  /\ editor' = e
  /\ wanted' = [wanted EXCEPT ![field] = value]
  /\ written' = [written EXCEPT ![field] = None]
  /\ UNCHANGED <<asking, candidate, op, crossed>> /\ AfterRender
  /\ edits < MaxEdits /\ edits' = edits + 1
  /\ UNCHANGED <<server, calls>>

TypeName(w)  == editor.id # None /\ Put([editor EXCEPT !.name = w, !.reset = FALSE], "name", IF editor.row.name = w THEN None ELSE [is |-> w])
TypeText(w)  == editor.id # None /\ Put([editor EXCEPT !.text = w], "text", IF editor.row.text = w THEN None ELSE [is |-> w])
\* onResetName; its button is disabled when the name already is Dux's.
ResetName    == /\ editor.id # None /\ ~(editor.row.name = None /\ editor.name = None)
                /\ Put([editor EXCEPT !.name = None, !.reset = TRUE], "name", [is |-> None])
SelectImage  == Put([editor EXCEPT !.put = TRUE, !.remove = FALSE], "image", [is |-> "new"])
DiscardImage == editor.id # None /\ editor.put /\ Put([editor EXCEPT !.put = FALSE], "image", None)
ToggleRemove ==
  /\ editor.id # None /\ ~editor.put /\ editor.row.image # "none"
  /\ Put([editor EXCEPT !.remove = ~@], "image", IF editor.remove THEN None ELSE [is |-> "none"])

-----------------------------------------------------------------------------
(* The operations *)

MayCall == calls < MaxCalls /\ calls' = calls + 1 /\ edits' = edits
Call(kind, stage, p, body) ==
  [kind |-> kind, stage |-> stage, id |-> p, body |-> body, saved |-> FALSE, state |-> "sent", got |-> None, fresh |-> FALSE]

\* The body of the PATCH: the fields that changed.
ContentBody(e) ==
  [name |-> IF NameChanged(e) THEN [is |-> IF e.reset THEN None ELSE e.name] ELSE None,
   text |-> IF TextChanged(e) THEN [is |-> e.text] ELSE None]
ImageBody(e) == [image |-> IF e.put THEN "new" ELSE "none"]

Submit ==
  /\ ~Busy /\ IsDirty(editor) /\ MayCall
  /\ op' = IF NameChanged(editor) \/ TextChanged(editor)
           THEN Call("saving", "product", editor.id, ContentBody(editor))
           ELSE Call("saving", "image", editor.id, ImageBody(editor))
  /\ UNCHANGED <<server, page, editor, asking, candidate, history>>

\* setPublication, from "Volver a publicar" and from the confirmed "Dar de baja".
Publish(p) ==
  /\ ~Busy /\ Listed /\ ~IsDirty(editor) /\ candidate = None /\ ~list[p].row.shown /\ MayCall
  /\ op' = Call("quick", "publication", p, [shown |-> TRUE])
  /\ UNCHANGED <<server, page, editor, asking, candidate, history>>

OpenDelete(p) ==
  /\ ~Busy /\ Listed /\ ~IsDirty(editor) /\ candidate = None /\ list[p].row.shown
  /\ candidate' = p
  /\ UNCHANGED <<server, page, editor, asking, op, calls, edits, history>>

CancelDelete ==
  /\ candidate # None /\ ~Busy /\ candidate' = None
  /\ UNCHANGED <<editor, op>> /\ AfterRender
  /\ UNCHANGED <<server, asking, calls, edits, history>>

ConfirmDelete ==
  /\ candidate # None /\ Listed /\ ~Busy /\ ~IsDirty(editor) /\ MayCall
  /\ op' = Call("deleting", "publication", candidate, [shown |-> FALSE])
  /\ UNCHANGED <<server, page, editor, asking, candidate, history>>

\* The server writes the fields that were sent (writeDuxProductWebSettings).
Sent(field) == op.stage = "product" /\ op.body[field] # None
Perform ==
  /\ Busy /\ op.state = "sent"
  /\ LET row == rows[op.id]
         after == CASE op.stage = "product" ->
                         [row EXCEPT !.name = IF Sent("name") THEN op.body.name.is ELSE @,
                                     !.text = IF Sent("text") THEN op.body.text.is ELSE @]
                    [] op.stage = "image" -> [row EXCEPT !.image = op.body.image]
                    [] OTHER -> [row EXCEPT !.shown = op.body.shown]
     IN /\ rows' = [rows EXCEPT ![op.id] = after]
        /\ op' = [op EXCEPT !.state = "done", !.got = after, !.fresh = TRUE]
  /\ written' = IF op.stage = "product"
                THEN [written EXCEPT !.name = IF Sent("name") THEN wanted.name ELSE @,
                                     !.text = IF Sent("text") THEN wanted.text ELSE @]
                ELSE IF op.stage = "image" THEN [written EXCEPT !.image = wanted.image] ELSE written
  /\ UNCHANGED <<others, page, editor, asking, candidate, calls, edits, wanted, crossed>>

\* replaceProduct
Replaced == list' = [list EXCEPT ![op.id] = [row |-> op.got, fresh |-> op.fresh]] /\ UNCHANGED <<load, deferred>>

\* The content was saved: it is shown, and the picture goes next.
ContentSaved ==
  /\ op.stage = "product" /\ op.state = "done"
  /\ editor' = [editor EXCEPT !.row = op.got, !.name = op.got.name, !.reset = FALSE,
                              !.text = op.got.text]
  /\ Replaced
  /\ op' = IF editor.put \/ editor.remove
           THEN [Call("saving", "image", op.id, ImageBody(editor)) EXCEPT !.saved = TRUE]
           ELSE [op EXCEPT !.state = "shop"]
  /\ UNCHANGED <<server, asking, candidate, calls, edits, history>>

\* So was the picture.  What is typed as description is not taken from its answer.
ImageSaved ==
  /\ op.stage = "image" /\ op.state = "done"
  /\ editor' = [editor EXCEPT !.row = op.got, !.name = op.got.name, !.reset = FALSE,
                              !.put = FALSE, !.remove = FALSE]
  /\ Replaced
  /\ crossed' = (crossed \/ op.got.text # editor.row.text)
  /\ op' = [op EXCEPT !.state = "shop"]
  /\ UNCHANGED <<server, asking, candidate, calls, edits, wanted, written>>

PublicationSaved ==
  /\ op.stage = "publication" /\ op.state = "done"
  /\ editor' = IF editor.id = op.id
               THEN [editor EXCEPT !.row = op.got, !.name = op.got.name, !.reset = FALSE,
                                   !.text = op.got.text]
               ELSE editor
  /\ Replaced
  /\ candidate' = None
  /\ op' = [op EXCEPT !.state = "shop"]
  /\ UNCHANGED <<server, asking, calls, edits, history>>

AfterFailure == editor

\* A refusal, a request or an answer that was lost, an answer of another form.
CallFails ==
  /\ Busy /\ op.state \in {"sent", "done"}
  /\ editor' = AfterFailure
  /\ op' = IF op.saved THEN [op EXCEPT !.state = "shop"] ELSE Idle
  /\ candidate' = candidate /\ AfterRender
  /\ UNCHANGED <<server, asking, calls, edits, history>>

\* refreshRuntimeCatalog has ended, one way or the other.
ShopRefreshed ==
  /\ Busy /\ op.state = "shop"
  /\ op' = Idle /\ UNCHANGED <<editor, candidate>> /\ AfterRender
  /\ UNCHANGED <<server, asking, calls, edits, history>>

\* Another administrator writes a description, or hides a product or shows it.
OthersChange ==
  /\ others < MaxOthers /\ others' = others + 1
  /\ \E p \in Products :
       \/ \E w \in Words : w # rows[p].text /\ rows' = [rows EXCEPT ![p].text = w]
       \/ rows' = [rows EXCEPT ![p].shown = ~@]
  /\ UNCHANGED <<page, editor, asking, candidate, op, calls, edits, history>>

-----------------------------------------------------------------------------
Init ==
  /\ rows = [p \in Products |-> [name |-> None, text |-> None, image |-> "old", shown |-> TRUE]] /\ others = 0
  /\ list = [p \in Products |-> [row |-> rows[p], fresh |-> FALSE]]
  /\ load = [seq |-> 1, loading |-> TRUE, error |-> FALSE, sent |-> {[n |-> 1, got |-> None, fresh |-> TRUE]}]
  /\ deferred = FALSE /\ editor = Closed /\ asking = None /\ candidate = None
  /\ op = Idle /\ calls = 0 /\ edits = 0
  /\ wanted = Nothing /\ written = Nothing /\ crossed = FALSE

Next ==
  \/ Refresh \/ RetryLoad \/ Serve \/ LoadAnswer
  \/ \E p \in Products : RequestEdit(p) \/ Publish(p) \/ OpenDelete(p)
  \/ RequestClose \/ Discard \/ KeepEditing
  \/ \E w \in Words : TypeName(w) \/ TypeText(w)
  \/ TypeText(None) \/ ResetName \/ SelectImage \/ DiscardImage \/ ToggleRemove
  \/ Submit \/ CancelDelete \/ ConfirmDelete
  \/ Perform \/ ContentSaved \/ ImageSaved \/ PublicationSaved \/ CallFails \/ ShopRefreshed
  \/ OthersChange

Spec == Init /\ [][Next]_vars

-----------------------------------------------------------------------------
TypeOK ==
  /\ rows \in [Products -> Row] 
  /\ editor.id \in Products \cup {None} /\ candidate \in Products \cup {None}
  /\ op.kind \in {"idle", "saving", "quick", "deleting"} /\ load.seq \in 1..MaxLoads

\* No refresh is forgotten: when nothing is being edited, asked or done and the list is
\* shown, all of it was read after the list was last told to refresh (ProductManager.tsx:
\* 68-82: a refresh in the middle of an edit is put off).
RefreshIsHonoured ==
  (Listed /\ ~IsDirty(editor) /\ ~Busy /\ candidate = None) =>
    ~deferred /\ \A p \in Products : list[p].fresh

\* What a person put in the editor and did not discard is still there, or the server has
\* written it, whichever of the two requests of a save failed and wherever it did
\* ("Tus cambios siguen en el editor").
NothingTypedIsLost ==
  editor.id # None =>
    \A field \in {"name", "text", "image"} :
      wanted[field] # None =>
        \/ written[field] = wanted[field]
        \/ CASE field = "name"  -> editor.name = wanted.name.is
             [] field = "text"  -> editor.text = wanted.text.is
             [] OTHER -> IF wanted.image.is = "new" THEN editor.put ELSE editor.remove

\* A save writes what the person changed and nothing else: opening the editor, saving a
\* picture or a description freezes no name, and no name saves a description (PRODUCT_ABM.md:
\* "Abrir el editor o guardar descripción/foto no congela el nombre"), but for a
\* description that a picture's answer brought while the older one was in the editor.
OnlyTypedIsSent ==
  [][(~Busy /\ op'.kind = "saving" /\ op'.stage = "product") =>
       /\ op'.body.name # None => wanted.name = op'.body.name
       /\ op'.body.text # None => wanted.text = op'.body.text \/ crossed]_vars
=============================================================================
