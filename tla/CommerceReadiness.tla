-------------------------- MODULE CommerceReadiness --------------------------
(***************************************************************************)
(* The administrator's diagnosis (server/commerce-readiness.ts) and the    *)
(* guards it foretells: whether web requests are registered, whether a     *)
(* payment is configured, whether a direct purchase is prepared.           *)
(*                                                                         *)
(* A setting is a record: the flags and secrets of the environment, the    *)
(* last migration applied to the database, and what the database says of   *)
(* the catalogue.  A value that more than one program text reads has as    *)
(* many forms as those texts tell apart.                                   *)
(***************************************************************************)
EXTENDS Integers, FiniteSets

\* What each migration adds to the schema, of what the program looks for; 0021 replaces
\* the trigger that closes the conversion of a request.
Objects(migration) ==
  (IF migration >= 20 THEN {"requests"} ELSE {})
  \cup (IF migration = 20 THEN {"conversion closed"} ELSE {})
  \cup (IF migration >= 21 THEN {"conversion guarded", "assisted"} ELSE {})
  \cup (IF migration >= 22 THEN {"order number"} ELSE {})
  \cup (IF migration >= 23 THEN {"financial guards"} ELSE {})
  \cup (IF migration >= 24 THEN {"direct"} ELSE {})
Converts(s) == Objects(s.migration) \cap {"conversion closed", "conversion guarded"} # {}
Lacks(objects, s) == ~objects \subseteq Objects(s.migration)

\* Configuration, each requirement by the code of its refusal; "" is none.
RequireCommerceMode(s) ==
  CASE s.mode = "none" -> "PAYMENT_MODE_MISSING"
    [] s.mode = "other" -> "PAYMENT_MODE_INVALID"
    [] OTHER -> ""
RequireMercadoPagoAccessToken(s) ==
  CASE s.access = "short" -> "PAYMENT_CREDENTIALS_MISSING"
    [] s.access = "other application" /\ s.mode = "production" -> "PAYMENT_APPLICATION_MISMATCH"
    [] OTHER -> ""
RequireSecret(present, code) == IF present THEN "" ELSE code
RequirePublicSiteUrl(s)      == IF s.site THEN "" ELSE "SITE_URL_INVALID"

\* The identifiers of Dux: any of 19 digits for the diagnosis, a safe integer for those
\* who use them.  The token may have no space at its ends.
DuxCredentialsConfigured(s) == s.token # "none" /\ s.tenantIds # "none"
ReadDuxInventoryConfig(s)   == s.duxApi /\ s.token = "token" /\ s.tenantIds = "safe"
ReadDirectCheckoutConfig(s) == ReadDuxInventoryConfig(s) /\ s.orderIds

RequireDirectCheckoutSchema(s) == "direct" \in Objects(s.migration)
SnapshotMaxAge(s, age) == s.maxAge /\ age = "fresh"

-----------------------------------------------------------------------------
\* The diagnosis.
InspectSchema(s) ==
  [webRequests |-> ~Lacks({"requests"}, s) /\ Converts(s),
   assistedCheckout |-> ~Lacks({"assisted", "conversion guarded", "order number", "financial guards"}, s),
   assistedLifecycleGuards |-> ~Lacks({"financial guards"}, s)]

IsSnapshotFresh(s) == s.synced # "future" /\ SnapshotMaxAge(s, s.synced)
ReadDuxStatus(s) ==
  [credentialsConfigured |-> DuxCredentialsConfigured(s),
   publicCatalog |-> s.public,
   snapshotAvailable |-> s.snapshot = "stored",
   stale |-> s.snapshot # "none" /\ ~IsSnapshotFresh(s)]

ReadConfiguration(s) ==
  LET mode == RequireCommerceMode(s)
      payment == IF mode # "" THEN "" ELSE RequireMercadoPagoAccessToken(s)
      secrets == {RequireSecret(s.webhook, "WEBHOOK_SECRET_MISSING"),
                  RequireSecret(s.secret, "ORDER_TOKEN_SECRET_MISSING")}
  IN ({mode, payment, RequirePublicSiteUrl(s)} \cup secrets) \ {""}

If(condition, code) == IF condition THEN {code} ELSE {}

WebBlockers(s) ==
  LET schema == InspectSchema(s)  dux == ReadDuxStatus(s)
  IN If(~schema.webRequests, "WEB_REQUEST_MIGRATION_REQUIRED") \cup If(~s.secret, "ORDER_TOKEN_SECRET_MISSING")
     \cup If(~dux.snapshotAvailable, "DUX_CATALOG_SNAPSHOT_UNAVAILABLE") \cup If(~s.web, "WEB_ORDERS_DISABLED")
WebWarnings(s) ==
  LET dux == ReadDuxStatus(s)
  IN If(dux.stale, "DUX_CATALOG_SNAPSHOT_STALE") \cup If(dux.publicCatalog = "off", "DUX_PUBLIC_CATALOG_DISABLED")

AssistedBlockers(s) ==
  LET schema == InspectSchema(s)  dux == ReadDuxStatus(s)
  IN ReadConfiguration(s)
     \cup If(~schema.assistedCheckout, "ASSISTED_CHECKOUT_MIGRATION_REQUIRED")
     \cup If(~schema.assistedLifecycleGuards, "ASSISTED_DUX_LIFECYCLE_MIGRATION_REQUIRED")
     \cup If(~s.web, "WEB_ORDERS_DISABLED") \cup If(~s.assisted, "ASSISTED_CHECKOUT_DISABLED")
     \cup If(~s.commerce, "COMMERCE_DISABLED") \cup If(~s.duxApi, "DUX_API_DISABLED")
     \cup If(~dux.credentialsConfigured, "DUX_CREDENTIALS_MISSING")
     \cup If(~dux.snapshotAvailable, "DUX_CATALOG_SNAPSHOT_UNAVAILABLE") \cup If(dux.stale, "DUX_CATALOG_SNAPSHOT_STALE")
     \cup If(dux.publicCatalog # "on", "DUX_PUBLIC_CATALOG_DISABLED")

DirectOnly(s) ==
  If(~RequireDirectCheckoutSchema(s), "DIRECT_CHECKOUT_MIGRATION_REQUIRED")
  \cup If(~ReadDirectCheckoutConfig(s), "DIRECT_CHECKOUT_IDENTITY_MISSING")
  \cup If(~s.direct, "DIRECT_CHECKOUT_DISABLED")
DirectBlockers(s) ==
  (AssistedBlockers(s) \ {"ASSISTED_CHECKOUT_DISABLED", "DUX_CATALOG_SNAPSHOT_STALE"}) \cup DirectOnly(s)

-----------------------------------------------------------------------------
\* The guards.  A reading is stored by the run that read the stock, which began before it.
WebOrderRegistrationEnabled(s) ==
  /\ s.web /\ s.secret
  /\ ~Lacks({"requests"}, s) /\ Converts(s)
  /\ s.public = "on" /\ s.snapshot \in {"stored", "empty"} /\ s.read # "future"
  /\ IF s.direct THEN ReadDirectCheckoutConfig(s) /\ RequireDirectCheckoutSchema(s) ELSE SnapshotMaxAge(s, s.read)

AssistedCheckoutConfigured(s) ==
  /\ s.commerce /\ s.assisted
  /\ RequireCommerceMode(s) = "" /\ RequireMercadoPagoAccessToken(s) = "" /\ RequirePublicSiteUrl(s) = ""
  /\ s.secret /\ s.webhook
DirectCheckoutPaymentConfigured(s) == s.direct /\ AssistedCheckoutConfigured([s EXCEPT !.assisted = TRUE])

RequireTenant(s) == s.tenant = "same" /\ s.public = "on"
DirectCheckoutAdvances(s) ==
  s.direct /\ s.web /\ RequireDirectCheckoutSchema(s) /\ ReadDirectCheckoutConfig(s) /\ RequireTenant(s)

-----------------------------------------------------------------------------
\* Every setting that is at most three fields away from one where everything works; the
\* reading of the stock is not later than its publication.
Values ==
  [web |-> BOOLEAN, assisted |-> BOOLEAN, direct |-> BOOLEAN, commerce |-> BOOLEAN, duxApi |-> BOOLEAN,
   mode |-> {"production", "sandbox", "none", "other"}, access |-> {"application", "other application", "short"},
   webhook |-> BOOLEAN, secret |-> BOOLEAN, site |-> BOOLEAN, maxAge |-> BOOLEAN,
   token |-> {"token", "spaced", "none"}, tenantIds |-> {"safe", "large", "none"}, orderIds |-> BOOLEAN,
   migration |-> 19 .. 24, public |-> {"on", "off", "none"}, tenant |-> {"same", "other"},
   snapshot |-> {"stored", "empty", "failed", "none"},
   synced |-> {"fresh", "stale", "future"}, read |-> {"fresh", "stale", "future"}]
Working ==
  [web |-> TRUE, assisted |-> TRUE, direct |-> TRUE, commerce |-> TRUE, duxApi |-> TRUE,
   mode |-> "production", access |-> "application", webhook |-> TRUE, secret |-> TRUE, site |-> TRUE, maxAge |-> TRUE,
   token |-> "token", tenantIds |-> "safe", orderIds |-> TRUE, migration |-> 24, public |-> "on", tenant |-> "same",
   snapshot |-> "stored", synced |-> "fresh", read |-> "fresh"]
Away(settings) == UNION {{[s EXCEPT ![f] = v] : v \in Values[f]} : f \in DOMAIN Values, s \in settings}
SettingCases ==
  {[rule |-> "setting", s |-> s] : s \in {t \in Away(Away(Away({Working}))) :
     <<t.read, t.synced>> \notin {<<"future", "fresh">>, <<"future", "stale">>, <<"fresh", "stale">>}}}
=============================================================================
