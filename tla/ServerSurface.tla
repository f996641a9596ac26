---------------------------- MODULE ServerSurface ----------------------------
(***************************************************************************)
(* What a configured server offers: it starts if its environment loads,    *)
(* registers the tools its permissions grant, admits calls over its        *)
(* transport (src/src/server/transports/http.ts), and is stopped and       *)
(* started again under another configuration over the same SQLite file.    *)
(* A confirmed execution is one step here; MutationGuard opens it up.      *)
(***************************************************************************)
EXTENDS ToolRegistration, IntegrationDoctor, FiniteSets

CONSTANTS
  RawEnvironments,  \* the environments the process may be started with
  HttpRequests,     \* requests that reach an HTTP transport
  Tools,            \* the executing tools that clients call
  Supplied,         \* evidence a client may supply to the Integration Doctor
  MaxPreviews       \* bound on the previews kept at a time

\* "none" as a bearer is a request without the header, and nobody's token.
ASSUME SurfaceAssumption ==
  /\ Tools \subseteq Executions
  /\ \A raw \in RawEnvironments : raw.MCP_HTTP_AUTH_TOKEN # "none"
  /\ \A s \in Supplied : {"environment", "gateway"} \subseteq DOMAIN s

VARIABLES
  config,    \* AppConfig of the running process, Nothing if none runs
  previews,  \* stored previews: the tool they are for, and their context
  executed   \* history: the last execution of this process, and the preview it used

vars == <<config, previews, executed>>

Running == config # Nothing

Init == config = Nothing /\ previews = {} /\ executed = Nothing

-----------------------------------------------------------------------------
(* Admission.                                                              *)

\* The host check of createMcpExpressApp: its own list, unless one is configured.
HostAccepted(request) ==
  request.host \in IF IsLoopback(config.httpHost)
                   THEN {"localhost", "127.0.0.1", "[::1]"} ELSE config.allowedHosts

\* verifyOrigin
OriginAllowed(request) ==
  \/ request.origin \in {"none"} \cup config.allowedOrigins
  \/ /\ IsLoopback(config.httpHost)
     /\ request.origin \in DOMAIN UrlParts
     /\ IsLoopback(UrlParts[request.origin].hostname)

\* verifyBearer
BearerAccepted(request) == config.authToken \in {"unset", request.bearer}

\* A route is registered for the method; Express answers HEAD where it answers GET.
Routed(request) ==
  request.method \in {"GET", "HEAD"}
                       \cup IF request.path = "/mcp" THEN {"POST", "DELETE"} ELSE {}

Status(request) ==
  IF ~HostAccepted(request) THEN 403
  ELSE IF ~Routed(request) THEN 404
  ELSE IF request.path = "/health" THEN 200
  ELSE IF ~OriginAllowed(request) THEN 403
  ELSE IF ~BearerAccepted(request) THEN 401
  ELSE IF request.method = "POST" THEN 200 ELSE 405

\* A tool call arrives: over stdio, or in a POST to /mcp that is admitted.
Arrives(request) ==
  \/ config.transport = "stdio"
  \/ request.method = "POST" /\ request.path = "/mcp" /\ Status(request) = 200

-----------------------------------------------------------------------------
(* Tool calls.                                                             *)

\* Credentials are configured, and of the configured merchant if there is one.
Authenticates == config.apiKey # "unset" /\ config.merchant \in {"unset", config.apiKey}

\* The context a preview is stored with and confirmed against.
Context(tool) ==
  [tool |-> tool, environment |-> config.environment, merchant |-> config.apiKey]

\* A preview tool, or an executing tool called without confirmation.
Prepare(tool, request) ==
  /\ Running /\ Arrives(request)
  /\ Preparation[tool] \in Registered(config)
  /\ Authenticates
  /\ Cardinality(previews) < MaxPreviews
  /\ previews' = previews \cup {Context(tool)}
  /\ UNCHANGED <<config, executed>>

\* Fault: the environment is left out of the comparison.
ConfirmedAnywhere(preview, tool) ==
  /\ preview.tool = tool
  /\ preview.merchant = config.apiKey

\* confirmPreview finds the preview of an id to be for this call, in this context.
Confirmed(preview, tool) ==
  /\ preview.tool = tool
  /\ preview.merchant = config.apiKey
  /\ preview.environment = config.environment

\* A confirmed call with the id of a stored preview, which is consumed.
Execute(tool, request) ==
  /\ Running /\ Arrives(request)
  /\ tool \in Registered(config)
  /\ Authenticates
  /\ \E preview \in previews :
       /\ Confirmed(preview, tool)
       /\ previews' = previews \ {preview}
       /\ executed' = [tool |-> tool, preview |-> preview, bearer |-> request.bearer]
  /\ UNCHANGED config

-----------------------------------------------------------------------------
(* The process.                                                            *)

\* loadConfig succeeds; a SQLite file keeps the previews of earlier processes.
Start(raw) ==
  /\ ~Running
  /\ Loadable(raw)
  /\ config' = LoadConfig(raw)
  /\ previews' = IF config'.storage = "sqlite" THEN previews ELSE {}
  /\ executed' = Nothing

Stop ==
  /\ Running
  /\ config' = Nothing
  /\ previews' = IF config.storage = "sqlite" THEN previews ELSE {}
  /\ executed' = Nothing

Next ==
  \/ \E raw \in RawEnvironments : Start(raw)
  \/ \E tool \in Tools, request \in HttpRequests :
       Prepare(tool, request) \/ Execute(tool, request)
  \/ Stop

Spec == Init /\ [][Next]_vars

-----------------------------------------------------------------------------

\* Whatever was executed was executed in write mode, by a process that requires
\* confirmation and whose profile grants the capability of the tool; on a preview of the
\* same tool that some process, perhaps an earlier one with another configuration over the
\* same file, made for the merchant this one acts for and for the side, sandbox or
\* production, of the gateway it posts to; and where others can reach the transport, by a
\* caller with the token (env.ts:153-168, env.ts:200-224, permissions.ts:22,
\* mutation-guard.ts:126).
ExecutedAsConfigured ==
  executed # Nothing =>
    /\ config.readOnly = "false" /\ config.requireConfirmation = "true"
    /\ \E r \in Registrations : \E policy \in r.policies :
         /\ r.tool = executed.tool /\ policy.dangerous
         /\ policy.capability \in ProfileCapabilities[config.permissionProfile]
    /\ executed.preview.tool = executed.tool
    /\ executed.preview.merchant = config.apiKey
    /\ config.merchant \in {"unset", executed.preview.merchant}
    /\ executed.preview.environment = "production" <=> config.apiBaseUrl = ProductionOrigin
    /\ Remote(config) => executed.bearer = config.authToken /\ executed.bearer # "none"

\* Every executing tool that a configuration registers can be prepared under the same
\* configuration: no profile and no mode registers half of a pair
\* (captures/register.ts:15-37, webhooks/register.ts:25-167).
ExecutionsPreparable ==
  Running =>
    \A tool \in Executions \cap Registered(config) : Preparation[tool] \in Registered(config)

\* The evidence of the running server itself.
Own(supplied) ==
  [supplied EXCEPT !.environment = config.environment, !.gateway = config.apiBaseUrl]

\* What loads as production passes the doctor's check of the configuration unless its
\* credentials are another environment's, and what the doctor calls ready passes every
\* check of its own list but that of webhooks, whose order is no obstacle (env.ts:133,
\* diagnostics-engine.ts:489, diagnostics-engine.ts:581).
LoaderAndDoctorAgree ==
  Running => \A s \in Supplied :
    LET input == Own(s) IN
    /\ config.environment = "production" /\ s.credential \in {"unknown", "production"}
         => Passed("CONFIGURATION", input)
    /\ ReadyForProduction(input) =>
         \A check \in DOMAIN CheckedCodes \ {"WEBHOOKS"} : Passed(check, input)

=============================================================================
