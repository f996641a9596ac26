------------------------- MODULE IntegrationDoctor -------------------------
(***************************************************************************)
(* DiagnosticsEngine (src/src/services/diagnostics-engine.ts) over the     *)
(* evidence a client supplies: session payloads, redirects, orders,        *)
(* webhooks, environment and authentication, and the go-live checklist.    *)
(* Pure functions; OrderDoctor has the checks of orders.                   *)
(***************************************************************************)
EXTENDS OrderDoctor, Configuration

-----------------------------------------------------------------------------
(* Session payloads.                                                       *)

RedirectPaths == {"cancel_url", "cancel_url.href", "complete_url", "complete_url.href"}

\* createSessionRequestSchema on a payload, given as the paths at which it has no value
\* of the right type (broken) or one that fails a check of its own (invalid), the
\* currencies of the order and of its other amounts, and the totals in cents.  The checks
\* across fields are made unless something is broken.
SchemaIssues(payload) ==
  {[path |-> path, message |-> "field"] : path \in payload.broken \cup payload.invalid}
    \cup IF payload.broken # {} THEN {}
         ELSE {[path |-> "order", message |-> "currency"] :
                 c \in payload.currencies \ {payload.currency}}
              \cup {[path |-> "order.order_amount", message |-> "total"] :
                 n \in {payload.itemized} \ {payload.amount, Nothing}}

\* An issue that is about neither the reference, the currency nor the redirects is
\* dropped.
PayloadFindings(issue) ==
  IF issue.path = "order.reference_id"
    THEN {Finding("MISSING_ORDER_REFERENCE", "high", issue.path)}
  ELSE IF issue.message = "currency"
    THEN {Finding("CURRENCY_INCONSISTENCY", "high", issue.path)}
  ELSE IF issue.path \in RedirectPaths
    THEN {Finding(IF issue.path \in {"cancel_url.href", "complete_url.href"}
                  THEN "INVALID_REDIRECT_URL" ELSE "MISSING_REDIRECT_URL",
                  "high", issue.path)}
  ELSE {}

ValidateSessionPayload(payload) == UNION {PayloadFindings(i) : i \in SchemaIssues(payload)}

-----------------------------------------------------------------------------
(* Redirects and webhooks.                                                 *)

ValidUrl(spelling, allowedHosts) ==
  /\ spelling \in DOMAIN UrlParts
  /\ LET url == UrlParts[spelling] IN
     /\ url.protocol = "https" \/ url.hostname \in {"localhost", "127.0.0.1"}
     /\ allowedHosts = {} \/ url.hostname \in allowedHosts

ValidateRedirectUrls(redirects) ==
  LET Check(label, spelling) ==
        IF spelling \in {"unset", "blank"}
          THEN {Finding("MISSING_REDIRECT_URL", "high", label)}
        ELSE IF ~ValidUrl(spelling, redirects.allowedHosts)
          THEN {Finding("INVALID_REDIRECT_URL", "high", label)} ELSE {}
  IN  Check("cancel_url", redirects.cancel) \cup Check("complete_url", redirects.complete)

TestWebhookConfiguration(webhooks) ==
  {Finding("MISSING_WEBHOOK_SUBSCRIPTION", "high", event) :
     event \in webhooks.required \ webhooks.subscribed}
    \cup {Finding("INVALID_WEBHOOK_SIGNATURE", "critical", n) :
            n \in {webhooks.invalidSignatures} \ {0}}
    \cup {Finding("MISSING_WEBHOOK_EVENT", "high", event) : event \in webhooks.missing}
    \cup {Finding("OUT_OF_ORDER_WEBHOOK_EVENT", "medium", n) :
            n \in {webhooks.outOfOrder} \ {0}}

-----------------------------------------------------------------------------
(* The whole integration.                                                  *)

\* The gateway is compared by its host name alone.
EnvironmentFindings(input) ==
  LET expected == IF input.environment = "production" THEN ProductionOrigin ELSE SandboxOrigin IN
  IF \/ input.credential \notin {"unknown", input.environment}
     \/ input.gateway.hostname # expected.hostname
    THEN {Finding("ENVIRONMENT_CREDENTIAL_MISMATCH", "critical", input.environment)}
    ELSE {}

AuthenticationFindings(input) ==
  IF Past(input.tokenExpiresAt, input.now)
    THEN {Finding("AUTHENTICATION_EXPIRED", "high", input.tokenExpiresAt)} ELSE {}

MismatchFindings(input) ==
  {Finding("MERCHANT_ORDER_MISMATCH", "high", n) : n \in {input.mismatches} \ {0}}

DiagnoseIntegration(input) ==
  (IF input.payload = Nothing THEN {} ELSE ValidateSessionPayload(input.payload))
    \cup (IF input.redirects = Nothing THEN {} ELSE ValidateRedirectUrls(input.redirects))
    \cup AuditAuthCaptureFlow(input.orders, input.now)
    \cup DetectStuckAuthorizations(input.orders, input.now, input.threshold)
    \cup DetectDuplicateRefunds(input.orders)
    \cup (IF input.webhooks = Nothing THEN {} ELSE TestWebhookConfiguration(input.webhooks))
    \cup EnvironmentFindings(input) \cup AuthenticationFindings(input)
    \cup StaleCheckouts(input.orders, input.now) \cup MismatchedReferences(input.orders)
    \cup MismatchFindings(input)

\* generateGoLiveChecklist: the codes that fail each check.
CheckedCodes ==
  [CONFIGURATION |-> {"ENVIRONMENT_CREDENTIAL_MISMATCH"},
   AUTHENTICATION |-> {"AUTHENTICATION_EXPIRED"},
   SESSION_PAYLOAD |-> {"MISSING_ORDER_REFERENCE", "CURRENCY_INCONSISTENCY"},
   REDIRECT_URLS |-> {"INVALID_REDIRECT_URL", "MISSING_REDIRECT_URL"},
   WEBHOOKS |-> {"MISSING_WEBHOOK_SUBSCRIPTION", "INVALID_WEBHOOK_SIGNATURE",
                 "MISSING_WEBHOOK_EVENT", "OUT_OF_ORDER_WEBHOOK_EVENT"},
   ORDER_FLOW |-> {"UNCAPTURED_AUTHORIZATION", "REFUND_BEFORE_CAPTURE",
                   "REFUND_EXCEEDS_REFUNDABLE_AMOUNT"}]

Passed(check, input) ==
  \A found \in DiagnoseIntegration(input) : found.code \notin CheckedCodes[check]

Blocking(input) ==
  {found \in DiagnoseIntegration(input) : found.severity \in {"critical", "high"}}

\* Fault: only critical findings block.
ReadyForProductionUncritical(input) ==
  /\ input.environment = "production"
  /\ \A found \in DiagnoseIntegration(input) : found.severity # "critical"

ReadyForProduction(input) == input.environment = "production" /\ Blocking(input) = {}

=============================================================================
