--------------------------- MODULE ProductCatalog ---------------------------
(***************************************************************************)
(* The products the shop shows (server/dux-catalog, dux-catalog-collecting,   *)
(* dux-public-catalog, dux-product-admin, dux-product-web-settings,        *)
(* catalog-images and manual-catalog-retirement): the snapshot a completed *)
(* reading of Dux replaces, the administrator's settings of each product   *)
(* over it, and the pictures in R2 that settings, preserved content and    *)
(* Mercado Libre content refer to.                                         *)
(*                                                                         *)
(* The slug of a product is the name it had when it was first published,   *)
(* joined with a hash of its code: here, that name.  A reading is refused  *)
(* whole for a text, a code or a category that is not valid: here, a       *)
(* step.  Prices, stock and categories of an item are in CatalogContract.  *)
(* The names of the next-state relation are its own, so that one instance  *)
(* can hold this module and DuxRequestGate.                                *)
(***************************************************************************)
EXTENDS Naturals

CONSTANTS
  Codes, Names,
  Admins,      \* requests of the panel that edit products
  Uploads,     \* R2 keys made by crypto.randomUUID, in the order they are made
  Historic,    \* managed pictures of the preserved content
  Imported,    \* pictures of Mercado Libre, their key is a hash of the bytes
  Preserved,   \* dux_editorial_content: Codes -> Historic \cup {None}
  MaxChanges,  \* bound: changes of Dux, of the imported content and of the collection
  MaxFaults,   \* bound: failed statements and calls to R2
  None

ASSUME CatalogAssumption ==
  /\ Uploads \subseteq Nat \ {0} /\ Preserved \in [Codes -> Historic \cup {None}]
  /\ MaxChanges \in Nat /\ MaxFaults \in Nat

\* An uploaded key is a new random one: no historic one, and no hash of imported bytes.
\* NULL is none of the values it stands beside.
ASSUME KeysAssumption ==
  /\ Uploads \cap (Historic \cup Imported) = {}
  /\ None \notin Names \cup Uploads \cup Historic \cup Imported
  /\ \A images \in SUBSET Uploads : images # None

VARIABLES
  dux,       \* the items of the provider
  snapshot,  \* dux_catalog_snapshots_v2
  sync,      \* the publication of a completed reading
  collecting, \* dux_catalog_control.snapshot_collection_enabled
  settings,  \* dux_product_web_settings
  objects,   \* pictures some ml_editorial_objects row of kind content holds
  imported,  \* the picture Mercado Libre content shows for a code
  bucket,    \* CATALOG_IMAGES
  admin,
  made,      \* R2 keys already given
  disturbed, \* a fault happened, or two edits of a product overlapped
  changes, faults

catalogVars == <<dux, snapshot, sync, collecting, settings, objects, imported, bucket, admin, made,
                 disturbed, changes, faults>>
stored == <<snapshot, collecting, settings, objects, imported, bucket>>
world  == <<dux, changes, faults>>

Pictures == Uploads \cup Historic \cup Imported

Items     == [name : Names]
Entries   == [slug : Names, name : Names]
Gone      == [name |-> None] \* not sent, or not enabled
Out       == [slug |-> None, name |-> None]

\* NULL, [] and [picture] of images_json.  The description and the name of the row are
\* left out: a patch keeps or replaces each of them as it does the status.
NoRow    == [status |-> "published", images |-> None]
Settings == [status : {"published", "unpublished"}, images : {None, {}} \cup {{i} : i \in Uploads}]

StatusOps == {"hide", "show"}
ImageOps  == {"replace", "remove"}
Ops       == StatusOps \cup ImageOps

\* shown: the pictures the product had when the request read it.
Idle     == [pc |-> "idle", op |-> "none", code |-> None, shown |-> {}, upload |-> 0]
IdleSync == [pc |-> "idle", items |-> [c \in Codes |-> Gone], slugs |-> [c \in Codes |-> None]]

CatalogInit ==
  /\ dux \in [Codes -> Items]
  /\ snapshot = None /\ sync = IdleSync
  /\ collecting = TRUE
  /\ settings = [c \in Codes |-> NoRow]
  /\ objects = {} /\ imported = [c \in Codes |-> None]
  /\ bucket = Historic
  /\ admin = [a \in Admins |-> Idle] /\ made = 0
  /\ disturbed = FALSE /\ changes = 0 /\ faults = 0

(***************************************************************************)
(* Reading the snapshot and what is shown of a product.                    *)
(***************************************************************************)

Published(c) == snapshot[c] # Out
CodeOf(slug, c) == Published(c) /\ snapshot[c].slug = slug

\* Dux -> preserved -> Mercado Libre -> settings; NULL inherits.
PreservedImages(c) == {Preserved[c]} \ {None}
EditorialImages(c) == IF imported[c] = None THEN PreservedImages(c) ELSE {imported[c]}
Shown(c) == IF settings[c].images = None THEN EditorialImages(c) ELSE settings[c].images

\* isDuxWebImageReferenced.
WebReferenced(i) == \E c \in Codes : settings[c].images # None /\ i \in settings[c].images

\* As it would be if only the settings and Mercado Libre content counted.
ReferencedNow(i) == WebReferenced(i) \/ i \in objects

\* isCatalogImageReferenced, the manual catalogue retired.
Referenced(i) ==
  \/ WebReferenced(i)
  \/ i \in objects
  \/ \E c \in Codes : Preserved[c] = i

(***************************************************************************)
(* persistDuxCatalogSnapshotWhenEnabled.                                   *)
(***************************************************************************)

\* A completed reading is published: control first, then the previous snapshot.
\* A missing one does not end it.
ReadPrevious ==
  /\ sync.pc = "idle" /\ collecting
  /\ sync' = [pc |-> "write", items |-> dux,
              slugs |-> [c \in Codes |-> IF snapshot = None THEN None ELSE snapshot[c].slug]]
  /\ UNCHANGED <<stored, world, admin, made, disturbed>>

\* A known code keeps its slug.
Slug(c) == IF sync.slugs[c] # None THEN sync.slugs[c] ELSE sync.items[c].name

\* buildStoredPayload (module CatalogContract has what it checks): enabled items only.
Entry(c) == IF sync.items[c] = Gone THEN Out
            ELSE [slug |-> Slug(c), name |-> sync.items[c].name]

\* The trigger dux_catalog_v2_update_collection_guard may still refuse it.
Persist ==
  /\ sync.pc = "write" /\ sync' = IdleSync
  /\ snapshot' = IF collecting THEN [c \in Codes |-> Entry(c)] ELSE snapshot
  /\ UNCHANGED <<collecting, settings, objects, imported, bucket, world, admin, made, disturbed>>

\* A text, a code or a category of the reading is not valid, or it is too large.
Refuse ==
  /\ sync.pc = "write" /\ faults < MaxFaults /\ faults' = faults + 1
  /\ sync' = IdleSync
  /\ UNCHANGED <<stored, dux, changes, admin, made, disturbed>>

\* updateDuxCatalogControl: snapshot_collection_enabled.
SetCollecting ==
  /\ changes < MaxChanges /\ changes' = changes + 1
  /\ collecting' = ~collecting
  /\ UNCHANGED <<snapshot, settings, objects, imported, bucket, dux, faults, sync, admin, made, disturbed>>

(***************************************************************************)
(* patchAdminDuxProduct, replaceAdminDuxProductImage and                   *)
(* removeAdminDuxProductImage: every call to R2 and every statement of a   *)
(* request is a step of its own.                                           *)
(***************************************************************************)

GoesTo(a, pc)  == admin' = [admin EXCEPT ![a].pc = pc]
Done(a)      == admin' = [admin EXCEPT ![a] = Idle]
Fails        == faults < MaxFaults /\ faults' = faults + 1 /\ disturbed' = TRUE
Overlaps(a, c) == \E b \in Admins \ {a} : admin[b].code = c

\* requireProduct: the product of a slug of the snapshot.  Its reads are
\* one step: the first only gives the code, which no snapshot gives to another slug.
Begin(a) ==
  \E c \in Codes, op \in Ops :
    /\ admin[a].pc = "idle" /\ snapshot # None /\ CodeOf(snapshot[c].slug, c)
    /\ admin' = [admin EXCEPT ![a] = [Idle EXCEPT !.pc = IF op = "replace" THEN "put" ELSE "write",
                                     !.op = op, !.code = c, !.shown = Shown(c)]]
    /\ disturbed' = (disturbed \/ Overlaps(a, c))
    /\ UNCHANGED <<stored, world, sync, made>>

Put(a) ==
  /\ admin[a].pc = "put" /\ made + 1 \in Uploads /\ made' = made + 1
  /\ \/ /\ bucket' = bucket \cup {made + 1}
        /\ admin' = [admin EXCEPT ![a].pc = "write", ![a].upload = made + 1]
        /\ UNCHANGED <<faults, disturbed>>
     \/ \E kept \in {{}, {made + 1}} : bucket' = bucket \cup kept /\ Done(a) /\ Fails
  /\ UNCHANGED <<snapshot, collecting, settings, objects, imported, dux, changes, sync>>

\* As it would be if a patch wrote the default of the fields it does not name.
PatchedAll(a) ==
  LET op  == admin[a].op
  IN [status |-> IF op = "hide" THEN "unpublished" ELSE "published",
      images |-> IF op = "replace" THEN {admin[a].upload} ELSE IF op = "remove" THEN {} ELSE settings[admin[a].code].images]

\* writeDuxProductWebSettings: each field of the row that the patch does not name stays.
Patched(a) ==
  LET row == settings[admin[a].code]
      op  == admin[a].op
  IN [status |-> IF op = "hide" THEN "unpublished" ELSE IF op = "show" THEN "published" ELSE row.status,
      images |-> IF op = "replace" THEN {admin[a].upload} ELSE IF op = "remove" THEN {} ELSE row.images]

Write(a) ==
  /\ admin[a].pc = "write"
  /\ settings' = [settings EXCEPT ![admin[a].code] = Patched(a)]
  /\ IF admin[a].op \in ImageOps THEN GoesTo(a, "cleanup") ELSE Done(a)
  /\ UNCHANGED <<snapshot, collecting, objects, imported, bucket, world, sync, made, disturbed>>

\* The statement fails, or only its answer is lost.
WriteFails(a) ==
  /\ admin[a].pc = "write" /\ Fails
  /\ \E row \in {settings[admin[a].code], Patched(a)} : settings' = [settings EXCEPT ![admin[a].code] = row]
  /\ IF admin[a].op = "replace" THEN GoesTo(a, "undo") ELSE Done(a)
  /\ UNCHANGED <<snapshot, collecting, objects, imported, bucket, dux, changes, sync, made>>

\* A fresh read decides whether the new picture may go.
Undo(a) ==
  /\ admin[a].pc = "undo"
  /\ IF WebReferenced(admin[a].upload) THEN Done(a)
     ELSE admin' = [admin EXCEPT ![a].pc = "delete", ![a].shown = {admin[a].upload}]
  /\ UNCHANGED <<stored, world, sync, made, disturbed>>

\* cleanupPreviousWebImages: each picture the request had read, when nothing holds it.
Check(a) ==
  /\ admin[a].pc = "cleanup"
  /\ IF admin[a].shown = {} THEN Done(a)
     ELSE \E i \in admin[a].shown :
            IF Referenced(i) THEN admin' = [admin EXCEPT ![a].shown = @ \ {i}]
            ELSE GoesTo(a, "delete")
  /\ UNCHANGED <<stored, world, sync, made, disturbed>>

Delete(a) ==
  /\ admin[a].pc = "delete"
  /\ bucket' = bucket \ admin[a].shown /\ Done(a)
  /\ UNCHANGED <<snapshot, collecting, settings, objects, imported, world, sync, made, disturbed>>

\* A check or a deletion that fails leaves the picture; so does a request that dies.
GiveUp(a) ==
  /\ admin[a].pc # "idle" /\ Fails /\ Done(a)
  /\ UNCHANGED <<stored, dux, changes, sync, made>>

(***************************************************************************)
(* Dux and the Mercado Libre content (module EditorialContent).            *)
(***************************************************************************)

DuxChanges ==
  /\ changes < MaxChanges /\ changes' = changes + 1
  /\ \E c \in Codes, i \in Items \cup {Gone} : dux' = [dux EXCEPT ![c] = i]
  /\ UNCHANGED <<stored, faults, sync, admin, made, disturbed>>

\* importEditorialImage and the publication of the content; a withdrawal leaves the objects.
EditorialChanges ==
  /\ changes < MaxChanges /\ changes' = changes + 1
  /\ \E c \in Codes, i \in Imported \cup {None} :
       /\ imported' = [imported EXCEPT ![c] = i]
       /\ objects' = objects \cup ({i} \ {None}) /\ bucket' = bucket \cup ({i} \ {None})
  /\ UNCHANGED <<snapshot, collecting, settings, dux, faults, sync, admin, made, disturbed>>

CatalogNext ==
  \/ ReadPrevious \/ Persist \/ Refuse
  \/ SetCollecting
  \/ \E a \in Admins : \/ Begin(a) \/ Put(a) \/ Write(a) \/ WriteFails(a)
                        \/ Undo(a) \/ Check(a) \/ Delete(a) \/ GiveUp(a)
  \/ DuxChanges \/ EditorialChanges

CatalogSpec == CatalogInit /\ [][CatalogNext]_catalogVars

(***************************************************************************)
(* Properties.                                                             *)
(***************************************************************************)

\* Every variable has the values of its type.
CatalogTypes ==
  /\ dux \in [Codes -> Items \cup {Gone}]
  /\ snapshot = None \/ snapshot \in [Codes -> Entries \cup {Out}]
  /\ sync \in [pc : {"idle", "write"}, items : [Codes -> Items \cup {Gone}], slugs : [Codes -> Names \cup {None}]]
  /\ collecting \in BOOLEAN
  /\ settings \in [Codes -> Settings]
  /\ objects \subseteq Imported /\ imported \in [Codes -> Imported \cup {None}] /\ bucket \subseteq Pictures
  /\ admin \in [Admins -> [pc : {"idle", "put", "write", "undo", "cleanup", "delete"}, op : Ops \cup {"none"},
                          code : Codes \cup {None}, shown : SUBSET Pictures, upload : {0} \cup Uploads]]
  /\ made \in {0} \cup Uploads /\ disturbed \in BOOLEAN
  /\ changes \in 0..MaxChanges /\ faults \in 0..MaxFaults

\* A picture that a setting, the preserved content or an imported one refers to is in R2,
\* whatever edits overlap and whichever statement fails: "Preserved content and Mercado
\* Libre publications remain referenced even when an override masks them", and an
\* uncertain write keeps its object (dux-product-admin.ts).
ReferencedAreStored ==
  objects \cup UNION {PreservedImages(c) \cup EditorialImages(c) \cup Shown(c) : c \in Codes} \subseteq bucket

\* When no call failed and no two edits of a product overlapped, an uploaded picture that
\* nothing refers to has been deleted once the requests are over.
InTurnNothingIsLeft ==
  (~disturbed /\ \A a \in Admins : admin[a].pc = "idle") => \A i \in bucket \cap Uploads : Referenced(i)

\* A field of the settings changes only by a request that names it, so an edit of the
\* picture never publishes again a product another request has hidden, nor the reverse.
Asked(c, ops) == \E a \in Admins : admin[a].code = c /\ admin[a].op \in ops /\ admin'[a] # admin[a]
FieldsAreIndependent ==
  [][\A c \in Codes :
       /\ settings'[c].status # settings[c].status => Asked(c, StatusOps)
       /\ settings'[c].images # settings[c].images => Asked(c, ImageOps)]_catalogVars

\* While a product stays in the catalogue its slug, which addresses, carts and requests
\* hold, is the same, however Dux renames it.
IdentityKept ==
  [][\A c \in Codes : (snapshot # None /\ snapshot' # None /\ Published(c) /\ Published(c)')
                       => snapshot'[c].slug = snapshot[c].slug]_catalogVars

\* Whatever edits overlap and whichever statement fails, a picture that is
\* referred to is stored, and edits one after the other leave none behind.
PicturesAreStored == CatalogTypes /\ ReferencedAreStored /\ InTurnNothingIsLeft

\* A product keeps its slug while it is listed, and an edit changes its own
\* field only.
EditsStayApart == FieldsAreIndependent /\ IdentityKept
=============================================================================
