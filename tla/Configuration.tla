---------------------------- MODULE Configuration ----------------------------
(***************************************************************************)
(* What the server reads from its environment at start                     *)
(* (src/src/config/env.ts) and what a permission profile grants            *)
(* (config/permissions.ts): pure functions.                                *)
(*                                                                         *)
(* The raw value of a variable is "unset", "blank" (white space only) or a *)
(* spelling of its value; a comma separated list is the set of its items.  *)
(* The API key stands for key and secret, and names the merchant it        *)
(* belongs to; "limits" stands for the numeric variables.                  *)
(***************************************************************************)
EXTENDS Naturals

CONSTANT UrlParts  \* what new URL makes of each spelling that it accepts

Origin(url) == [protocol |-> url.protocol, hostname |-> url.hostname, port |-> url.port]
Https(hostname) == [protocol |-> "https", hostname |-> hostname, port |-> "default"]

SandboxOrigin == Https("sandbox.gateway.sezzle.com")
ProductionOrigin == Https("gateway.sezzle.com")

ASSUME UrlAssumption ==
  \A spelling \in DOMAIN UrlParts :
    /\ DOMAIN UrlParts[spelling] = {"protocol", "hostname", "port", "bare"}
    /\ UrlParts[spelling].bare \in BOOLEAN  \* no credentials, path, query or fragment

\* The URL parser keeps the brackets of an IPv6 hostname, so "[::1]" is not among these.
IsLoopback(host) == host \in {"127.0.0.1", "::1", "localhost"}

-----------------------------------------------------------------------------
(* rawEnvironmentSchema.                                                   *)

OptionalString(raw) == IF raw = "blank" THEN "unset" ELSE raw

\* A plain enum: a blank value is none of its members.
Choice(raw, values, default) ==
  IF raw = "unset" THEN default ELSE IF raw \in values THEN raw ELSE "invalid"

EnvBoolean(raw) == Choice(OptionalString(raw), {"true", "false"}, "true")
EnvInteger(raw) == Choice(OptionalString(raw), {"in range"}, "in range")
RequiredString(raw, default) ==
  IF raw = "unset" THEN default ELSE IF raw = "blank" THEN "invalid" ELSE raw

Profiles == {"read", "finance", "webhooks", "support", "admin"}
LogLevels == {"trace", "debug", "info", "warn", "error", "fatal", "silent"}

Parsed(raw) ==
  [environment |-> Choice(raw.SEZZLE_ENV, {"sandbox", "production"}, "sandbox"),
   apiBaseUrl |-> OptionalString(raw.SEZZLE_API_BASE_URL),
   merchant |-> OptionalString(raw.SEZZLE_MERCHANT_UUID),
   apiKey |-> OptionalString(raw.SEZZLE_API_KEY),
   readOnly |-> EnvBoolean(raw.SEZZLE_READ_ONLY),
   requireConfirmation |-> EnvBoolean(raw.SEZZLE_REQUIRE_CONFIRMATION),
   permissionProfile |-> Choice(raw.SEZZLE_PERMISSION_PROFILE, Profiles, "read"),
   transport |-> Choice(raw.MCP_TRANSPORT, {"stdio", "http"}, "stdio"),
   httpHost |-> RequiredString(raw.MCP_HTTP_HOST, "127.0.0.1"),
   authToken |-> OptionalString(raw.MCP_HTTP_AUTH_TOKEN),
   allowedHosts |-> raw.MCP_HTTP_ALLOWED_HOSTS,
   allowedOrigins |-> raw.MCP_HTTP_ALLOWED_ORIGINS,
   logLevel |-> Choice(raw.LOG_LEVEL, LogLevels, "info"),
   limits |-> EnvInteger(raw.limits),
   storage |-> Choice(raw.SEZZLE_STORAGE, {"memory", "sqlite"}, "memory"),
   sqlitePath |-> RequiredString(raw.SEZZLE_SQLITE_PATH, "./data/sezzle-ops.db")]

WellFormed(config) ==
  "invalid" \notin {config.environment, config.readOnly, config.requireConfirmation,
                    config.permissionProfile, config.transport, config.httpHost,
                    config.logLevel, config.limits, config.storage, config.sqlitePath}

-----------------------------------------------------------------------------
(* parseApiBaseUrl and loadConfig.                                         *)

\* Whether the spelling of a base URL, or the default for none, is accepted.
BaseUrlAccepted(spelling, environment) ==
  IF spelling = "unset" THEN environment = "sandbox"
  ELSE /\ spelling \in DOMAIN UrlParts
       /\ LET url == UrlParts[spelling] IN
          /\ url.bare
          /\ \/ url.protocol = "https"
             \/ url.protocol = "http" /\ IsLoopback(url.hostname)
          /\ environment = "production" <=> Origin(url) = ProductionOrigin

Gateway(spelling) ==
  IF spelling = "unset" THEN SandboxOrigin ELSE Origin(UrlParts[spelling])

\* An HTTP transport that other machines can reach.
Remote(config) == config.transport = "http" /\ ~IsLoopback(config.httpHost)

\* Fault: an allow list of hosts is taken for authentication.
LoadableWithoutToken(raw) ==
  LET config == Parsed(raw) IN
  /\ WellFormed(config)
  /\ config.readOnly = "false" => config.requireConfirmation = "true"
  /\ Remote(config) => config.allowedHosts # {}
  /\ config.environment = "production" =>
       "unset" \notin {config.apiBaseUrl, config.merchant, config.apiKey}
  /\ BaseUrlAccepted(config.apiBaseUrl, config.environment)

\* loadConfig throws no ConfigurationError.
Loadable(raw) ==
  LET config == Parsed(raw) IN
  /\ WellFormed(config)
  /\ config.readOnly = "false" => config.requireConfirmation = "true"
  /\ Remote(config) => config.authToken # "unset" /\ config.allowedHosts # {}
  /\ config.environment = "production" =>
       "unset" \notin {config.apiBaseUrl, config.merchant, config.apiKey}
  /\ BaseUrlAccepted(config.apiBaseUrl, config.environment)

LoadConfig(raw) == [Parsed(raw) EXCEPT !.apiBaseUrl = Gateway(@)]

-----------------------------------------------------------------------------
(* Permissions.                                                            *)

ProfileCapabilities ==
  [read |-> {"read"}, finance |-> {"read", "finance"}, webhooks |-> {"webhooks"},
   support |-> {"support"},
   admin |-> {"read", "finance", "webhooks", "support", "admin"}]

ShouldRegisterTool(policy, config) ==
  /\ policy.capability \in ProfileCapabilities[config.permissionProfile]
  /\ policy.mutation => config.readOnly = "false"
  /\ policy.dangerous => config.requireConfirmation = "true"

=============================================================================
