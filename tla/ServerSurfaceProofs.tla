------------------------- MODULE ServerSurfaceProofs -------------------------
(***************************************************************************)
(* Proofs of ServerSurface: what a configuration grants, for every         *)
(* environment the process may be started with, and every request.         *)
(***************************************************************************)
EXTENDS ServerSurface, TLAPS

\* An executing tool is registered behind a policy that makes it dangerous: it needs
\* write mode, confirmation and a capability (tools/*/register.ts).
LEMMA ExecutionsAreDangerous ==
  ASSUME NEW r \in Registrations, r.tool \in Executions
  PROVE  \E capability : Executes(capability) \in r.policies
<1>1. ASSUME r \in AuthTools \cup ReportTools \cup DiagnosticTools PROVE FALSE
  BY <1>1 DEF AuthTools, ReportTools, DiagnosticTools, Register, Executions
<1>2. ASSUME r \in ReconciliationTools \cup SupportTools \cup AuditTools PROVE FALSE
  BY <1>2 DEF ReconciliationTools, SupportTools, AuditTools, Register, Executions
<1>3. ASSUME r \in SessionTools \cup OrderTools PROVE Executes("finance") \in r.policies
  BY <1>3 DEF SessionTools, OrderTools, Register, Executions
<1>4. ASSUME r \in CaptureTools \cup RefundTools \cup ReleaseTools
      PROVE  Executes("finance") \in r.policies
  BY <1>4 DEF CaptureTools, RefundTools, ReleaseTools, Register, Executions
<1>5. ASSUME r \in WebhookTools PROVE Executes("webhooks") \in r.policies
  BY <1>5 DEF WebhookTools, Register, Executions
<1> QED BY <1>1, <1>2, <1>3, <1>4, <1>5 DEF Registrations

\* A registered tool that executes runs in write mode, with confirmation, under a profile
\* that grants its capability.
LEMMA RegisteredIsGranted ==
  ASSUME NEW tool \in Executions, NEW conf, tool \in Registered(conf)
  PROVE  /\ conf.readOnly = "false" /\ conf.requireConfirmation = "true"
         /\ \E r \in Registrations : \E policy \in r.policies :
              /\ r.tool = tool /\ policy.dangerous
              /\ policy.capability \in ProfileCapabilities[conf.permissionProfile]
<1>1. PICK r \in Registrations :
        /\ r.tool = tool
        /\ \A policy \in r.policies : ShouldRegisterTool(policy, conf)
  BY DEF Registered
<1>2. PICK capability : Executes(capability) \in r.policies
  BY <1>1, ExecutionsAreDangerous
<1>3. /\ Executes(capability).capability = capability
      /\ Executes(capability).mutation = TRUE /\ Executes(capability).dangerous = TRUE
  BY DEF Executes, Policy
<1>4. ShouldRegisterTool(Executes(capability), conf)
  BY <1>1, <1>2
<1> QED BY <1>1, <1>2, <1>3, <1>4 DEF ShouldRegisterTool

-----------------------------------------------------------------------------
(* Every execution was granted.                                            *)

\* The running process has a configuration that its environment was loaded into.
Loaded ==
  Running => \E raw \in RawEnvironments : Loadable(raw) /\ config = LoadConfig(raw)

InductiveInvariant == Loaded /\ ExecutedAsConfigured

\* What loadConfig sees to in a configuration that others can reach.
LEMMA LoadedIsAuthenticated ==
  ASSUME Loaded, Running, Remote(config)
  PROVE  config.authToken \notin {"unset", "none"}
<1>1. PICK raw \in RawEnvironments : Loadable(raw) /\ config = LoadConfig(raw)
  BY DEF Loaded
<1>2. /\ config.authToken = OptionalString(raw.MCP_HTTP_AUTH_TOKEN)
      /\ config.authToken = Parsed(raw).authToken
      /\ config.transport = Parsed(raw).transport /\ config.httpHost = Parsed(raw).httpHost
  BY <1>1 DEF LoadConfig, Parsed
<1>3. Remote(Parsed(raw))
  BY <1>2 DEF Remote
<1>4. config.authToken # "unset"
  BY <1>1, <1>2, <1>3 DEF Loadable
<1> QED BY <1>2, <1>4, SurfaceAssumption DEF OptionalString

\* A process in production, and no other, talks to the gateway of production.
LEMMA LoadedIsItsGateway ==
  ASSUME Loaded, Running
  PROVE  config.environment = "production" <=> config.apiBaseUrl = ProductionOrigin
<1>1. PICK raw \in RawEnvironments : Loadable(raw) /\ config = LoadConfig(raw)
  BY DEF Loaded
<1> DEFINE parsed == Parsed(raw)
<1>2. /\ config.environment = parsed.environment
      /\ config.apiBaseUrl = Gateway(parsed.apiBaseUrl)
  BY <1>1 DEF LoadConfig, Parsed
<1>3. BaseUrlAccepted(parsed.apiBaseUrl, parsed.environment)
  BY <1>1 DEF Loadable
<1>4. SandboxOrigin # ProductionOrigin
  <2>1. SandboxOrigin.hostname # ProductionOrigin.hostname
    BY DEF SandboxOrigin, ProductionOrigin, Https
  <2> QED BY <2>1
<1> HIDE DEF parsed
<1> QED BY <1>2, <1>3, <1>4 DEF BaseUrlAccepted, Gateway

\* A confirmed call is executed only by a caller the transport admits, on a preview of the
\* same tool, merchant and environment.
LEMMA ExecuteIsGranted ==
  ASSUME InductiveInvariant, NEW tool \in Tools, NEW request \in HttpRequests,
         Execute(tool, request)
  PROVE  InductiveInvariant'
<1> USE DEF Execute
<1>1. PICK preview \in previews :
        /\ Confirmed(preview, tool)
        /\ executed' = [tool |-> tool, preview |-> preview, bearer |-> request.bearer]
        /\ config' = config
  OBVIOUS
<1>2. Loaded'
  BY DEF InductiveInvariant, Loaded, Running
<1>3. /\ preview.tool = tool /\ preview.merchant = config.apiKey
      /\ preview.environment = "production" <=> config.apiBaseUrl = ProductionOrigin
  BY <1>1, LoadedIsItsGateway DEF Confirmed, InductiveInvariant
<1>4. /\ config.readOnly = "false" /\ config.requireConfirmation = "true"
      /\ \E r \in Registrations : \E policy \in r.policies :
           /\ r.tool = tool /\ policy.dangerous
           /\ policy.capability \in ProfileCapabilities[config.permissionProfile]
  BY RegisteredIsGranted, SurfaceAssumption
<1>5. config.merchant \in {"unset", config.apiKey}
  BY DEF Authenticates
<1>6. ASSUME Remote(config) PROVE request.bearer = config.authToken /\ request.bearer # "none"
  <2>1. request.path = "/mcp" /\ Status(request) = 200
    BY <1>6 DEF Arrives, Remote
  <2>2. BearerAccepted(request)
    BY <2>1 DEF Status
  <2> QED BY <1>6, <2>2, LoadedIsAuthenticated DEF BearerAccepted, InductiveInvariant
<1>7. Remote(config)' = Remote(config)
  BY <1>1 DEF Remote
<1>8. ExecutedAsConfigured'
  BY <1>1, <1>3, <1>4, <1>5, <1>6, <1>7 DEF ExecutedAsConfigured
<1> QED BY <1>2, <1>8 DEF InductiveInvariant

LEMMA SurfaceStep == InductiveInvariant /\ [Next]_vars => InductiveInvariant'
<1> SUFFICES ASSUME InductiveInvariant, [Next]_vars PROVE InductiveInvariant'
  OBVIOUS
<1>1. ASSUME NEW raw \in RawEnvironments, Start(raw) PROVE InductiveInvariant'
  BY <1>1 DEF Start, InductiveInvariant, Loaded, Running, ExecutedAsConfigured
<1>2. ASSUME UNCHANGED <<config, executed>> PROVE InductiveInvariant'
  BY <1>2 DEF InductiveInvariant, Loaded, Running, ExecutedAsConfigured, Remote
<1>3. ASSUME NEW tool \in Tools, NEW request \in HttpRequests,
             Prepare(tool, request) \/ Execute(tool, request)
      PROVE  InductiveInvariant'
  BY <1>2, <1>3, ExecuteIsGranted DEF Prepare
<1>4. ASSUME Stop PROVE InductiveInvariant'
  BY <1>4 DEF Stop, InductiveInvariant, Loaded, Running, ExecutedAsConfigured
<1> QED BY <1>1, <1>2, <1>3, <1>4 DEF Next, vars

\* Whatever was executed, under any environment and by any caller, was executed in write
\* mode, with confirmation, under a profile that grants it, for the merchant and the
\* environment it was prepared for, and over the network with the token.
THEOREM ExecutedAsConfiguredCorrect == Spec => []ExecutedAsConfigured
<1>1. Init => InductiveInvariant
  BY DEF Init, InductiveInvariant, Loaded, Running, ExecutedAsConfigured
<1>2. InductiveInvariant => ExecutedAsConfigured
  BY DEF InductiveInvariant
<1> QED BY <1>1, <1>2, SurfaceStep, PTL DEF Spec

-----------------------------------------------------------------------------
(* Every pair of tools is registered as a whole.                           *)

\* The tool that prepares an execution needs what the execution needs, and less.
LEMMA PreparationIsWeaker ==
  ASSUME NEW tool \in Executions, NEW conf, tool \in Registered(conf)
  PROVE  Preparation[tool] \in Registered(conf)
<1>1. CASE tool \notin {"capture_order", "refund_order", "release_authorization"}
  BY <1>1 DEF Preparation
<1>2. ASSUME tool \in {"capture_order", "refund_order", "release_authorization"}
      PROVE  ShouldRegisterTool(Reads("finance"), conf)
  <2>1. PICK r \in Registrations :
          /\ r.tool = tool
          /\ \A policy \in r.policies : ShouldRegisterTool(policy, conf)
    BY DEF Registered
  <2>2. Reads("finance") \in r.policies
    <3>1. r \in CaptureTools \cup RefundTools \cup ReleaseTools
      <4> USE <1>2, <2>1 DEF Register
      <4>1. r \notin AuthTools \cup SessionTools \cup OrderTools \cup ReportTools
        BY DEF AuthTools, SessionTools, OrderTools, ReportTools
      <4>2. r \notin ReconciliationTools \cup DiagnosticTools \cup SupportTools \cup AuditTools
        BY DEF ReconciliationTools, DiagnosticTools, SupportTools, AuditTools
      <4>3. r \notin WebhookTools
        BY DEF WebhookTools
      <4> QED BY <4>1, <4>2, <4>3 DEF Registrations
    <3> QED BY <3>1 DEF CaptureTools, RefundTools, ReleaseTools, Register
  <2> QED BY <2>1, <2>2
<1>3. ASSUME NEW preview \in {"preview_capture", "preview_refund",
                              "preview_release_authorization"}
      PROVE  [tool |-> preview, policies |-> {Reads("finance")}] \in Registrations
  BY DEF Registrations, Register, CaptureTools, RefundTools, ReleaseTools
<1>4. ASSUME NEW preview \in {"preview_capture", "preview_refund",
                              "preview_release_authorization"},
             ShouldRegisterTool(Reads("finance"), conf)
      PROVE  preview \in Registered(conf)
  BY <1>3, <1>4 DEF Registered
<1> QED BY <1>1, <1>2, <1>4 DEF Preparation

\* No configuration, of any mode and profile, registers half of a pair.
THEOREM ExecutionsPreparableCorrect == Spec => []ExecutionsPreparable
<1>1. ExecutionsPreparable
  BY PreparationIsWeaker DEF ExecutionsPreparable
<1> QED BY <1>1, PTL

-----------------------------------------------------------------------------
(* The loader and the Integration Doctor.                                  *)

\* A finding that does not block is about an open checkout or the order of webhooks.
NotBlocking == {"STUCK_CHECKOUT_SESSION", "OUT_OF_ORDER_WEBHOOK_EVENT"}
Graded(found) == found.severity \in {"critical", "high"} \/ found.code \in NotBlocking

\* Only the comparison of environments finds a mismatch of environments.
Unrelated(found) == found.code # "ENVIRONMENT_CREDENTIAL_MISMATCH"

LEMMA OrderFindings ==
  ASSUME NEW orders, NEW time, NEW threshold,
         NEW found \in AuditAuthCaptureFlow(orders, time)
                         \cup DetectStuckAuthorizations(orders, time, threshold)
                         \cup DetectDuplicateRefunds(orders)
                         \cup StaleCheckouts(orders, time) \cup MismatchedReferences(orders)
  PROVE  Graded(found) /\ Unrelated(found)
<1> USE DEF Graded, Unrelated, NotBlocking, Finding
<1>1. ASSUME found \in MissingReferences(orders) \cup InconsistentCurrencies(orders)
                         \cup DuplicateReferences(orders)
      PROVE  Graded(found) /\ Unrelated(found)
  BY <1>1 DEF MissingReferences, InconsistentCurrencies, DuplicateReferences
<1>2. ASSUME found \in InvalidRefunds(orders) \cup DetectUncapturedOrders(orders, time)
      PROVE  Graded(found) /\ Unrelated(found)
  BY <1>2 DEF InvalidRefunds, DetectUncapturedOrders
<1>3. ASSUME found \in DetectStuckAuthorizations(orders, time, threshold)
                         \cup DetectDuplicateRefunds(orders)
      PROVE  Graded(found) /\ Unrelated(found)
  BY <1>3 DEF DetectStuckAuthorizations, DetectDuplicateRefunds
<1>4. ASSUME found \in StaleCheckouts(orders, time) \cup MismatchedReferences(orders)
      PROVE  Graded(found) /\ Unrelated(found)
  BY <1>4 DEF StaleCheckouts, MismatchedReferences
<1> QED BY <1>1, <1>2, <1>3, <1>4 DEF AuditAuthCaptureFlow

LEMMA OtherFindings ==
  ASSUME NEW payload, NEW redirects, NEW webhooks,
         NEW found \in ValidateSessionPayload(payload) \cup ValidateRedirectUrls(redirects)
                         \cup TestWebhookConfiguration(webhooks)
  PROVE  Graded(found) /\ Unrelated(found)
<1> USE DEF Graded, Unrelated, NotBlocking, Finding
<1>1. ASSUME found \in ValidateSessionPayload(payload) PROVE Graded(found) /\ Unrelated(found)
  <2>1. PICK issue \in SchemaIssues(payload) : found \in PayloadFindings(issue)
    BY <1>1 DEF ValidateSessionPayload
  <2> QED BY <2>1 DEF PayloadFindings
<1>2. ASSUME found \in ValidateRedirectUrls(redirects) PROVE Graded(found) /\ Unrelated(found)
  BY <1>2 DEF ValidateRedirectUrls
<1>3. ASSUME found \in TestWebhookConfiguration(webhooks) PROVE Graded(found) /\ Unrelated(found)
  BY <1>3 DEF TestWebhookConfiguration
<1> QED BY <1>1, <1>2, <1>3

LEMMA Findings ==
  ASSUME NEW input, NEW found \in DiagnoseIntegration(input)
  PROVE  Graded(found) /\ (Unrelated(found) \/ found \in EnvironmentFindings(input))
<1>1. ASSUME found \in EnvironmentFindings(input) PROVE Graded(found)
  BY <1>1 DEF EnvironmentFindings, Graded, Finding
<1>2. ASSUME found \in AuthenticationFindings(input) \cup MismatchFindings(input)
      PROVE  Graded(found) /\ Unrelated(found)
  BY <1>2 DEF AuthenticationFindings, MismatchFindings, Graded, Unrelated, Finding
<1> QED BY <1>1, <1>2, OrderFindings, OtherFindings DEF DiagnoseIntegration

\* What is loaded as production has the gateway that the doctor expects of production.
LEMMA ProductionIsExpected ==
  ASSUME Loaded, Running, config.environment = "production"
  PROVE  config.apiBaseUrl.hostname = ProductionOrigin.hostname
<1>1. PICK raw \in RawEnvironments : Loadable(raw) /\ config = LoadConfig(raw)
  BY DEF Loaded
<1>2. /\ config.apiBaseUrl = Gateway(Parsed(raw).apiBaseUrl)
      /\ config.environment = Parsed(raw).environment
  BY <1>1 DEF LoadConfig, Parsed
<1>3. /\ Parsed(raw).apiBaseUrl # "unset"
      /\ BaseUrlAccepted(Parsed(raw).apiBaseUrl, "production")
  BY <1>1, <1>2 DEF Loadable
<1> QED BY <1>2, <1>3 DEF BaseUrlAccepted, Gateway

\* Production passes the doctor's check of the configuration, and readiness implies every
\* check but that of webhooks, for whatever evidence a client supplies.
THEOREM LoaderAndDoctorAgreeCorrect == Spec => []LoaderAndDoctorAgree
<1>1. ASSUME Loaded, Running, NEW s \in Supplied,
             config.environment = "production", s.credential \in {"unknown", "production"}
      PROVE  Passed("CONFIGURATION", Own(s))
  <2>1. /\ Own(s).environment = "production" /\ Own(s).gateway = config.apiBaseUrl
        /\ Own(s).credential = s.credential
    BY <1>1, SurfaceAssumption DEF Own
  <2>2. EnvironmentFindings(Own(s)) = {}
    BY <1>1, <2>1, ProductionIsExpected DEF EnvironmentFindings
  <2>3. CheckedCodes["CONFIGURATION"] = {"ENVIRONMENT_CREDENTIAL_MISMATCH"}
    BY DEF CheckedCodes
  <2> QED BY <2>2, <2>3, Findings DEF Passed, Unrelated
<1>2. ASSUME NEW input, ReadyForProduction(input), NEW check \in DOMAIN CheckedCodes \ {"WEBHOOKS"}
      PROVE  Passed(check, input)
  <2>1. ASSUME NEW found \in DiagnoseIntegration(input) PROVE found.code \in NotBlocking
    BY <1>2, <2>1, Findings DEF ReadyForProduction, Blocking, Graded
  <2>2. CheckedCodes[check] \cap NotBlocking = {}
    BY DEF CheckedCodes, NotBlocking
  <2> QED BY <2>1, <2>2 DEF Passed
<1>3. Loaded => LoaderAndDoctorAgree
  BY <1>1, <1>2 DEF LoaderAndDoctorAgree
<1>4. Init => InductiveInvariant
  BY DEF Init, InductiveInvariant, Loaded, Running, ExecutedAsConfigured
<1>5. InductiveInvariant => LoaderAndDoctorAgree
  BY <1>3 DEF InductiveInvariant
<1> QED BY <1>4, <1>5, SurfaceStep, PTL DEF Spec
=============================================================================
