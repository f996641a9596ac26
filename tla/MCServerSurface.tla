--------------------------- MODULE MCServerSurface ---------------------------
(* Environments that differ from the defaults in the variables of one concern *)
(* at a time, and evidence that differs from flawless evidence in two fields. *)
EXTENDS ServerSurface, TLC

CONSTANTS usd, cad

Url(protocol, hostname, port, bare) ==
  [protocol |-> protocol, hostname |-> hostname, port |-> port, bare |-> bare]

Spellings ==
  "https://gateway.sezzle.com" :> Url("https", "gateway.sezzle.com", "default", TRUE)
  @@ "https://gateway.sezzle.com/v2" :> Url("https", "gateway.sezzle.com", "default", FALSE)
  @@ "https://gateway.sezzle.com:8443" :> Url("https", "gateway.sezzle.com", "8443", TRUE)
  @@ "http://gateway.sezzle.com" :> Url("http", "gateway.sezzle.com", "default", TRUE)
  @@ "https://sandbox.gateway.sezzle.com"
       :> Url("https", "sandbox.gateway.sezzle.com", "default", TRUE)
  @@ "http://localhost:3000" :> Url("http", "localhost", "3000", TRUE)
  @@ "https://shop.example" :> Url("https", "shop.example", "default", TRUE)

Defaults ==
  [SEZZLE_ENV |-> "unset", SEZZLE_API_BASE_URL |-> "unset", SEZZLE_MERCHANT_UUID |-> "unset",
   SEZZLE_API_KEY |-> "m1", SEZZLE_READ_ONLY |-> "unset",
   SEZZLE_REQUIRE_CONFIRMATION |-> "unset", SEZZLE_PERMISSION_PROFILE |-> "unset",
   MCP_TRANSPORT |-> "unset", MCP_HTTP_HOST |-> "unset", MCP_HTTP_AUTH_TOKEN |-> "unset",
   MCP_HTTP_ALLOWED_HOSTS |-> {}, MCP_HTTP_ALLOWED_ORIGINS |-> {}, limits |-> "unset",
   LOG_LEVEL |-> "unset", SEZZLE_STORAGE |-> "sqlite", SEZZLE_SQLITE_PATH |-> "unset"]

Gateways ==
  {[Defaults EXCEPT !.SEZZLE_ENV = environment, !.SEZZLE_API_BASE_URL = url,
      !.SEZZLE_MERCHANT_UUID = merchant, !.SEZZLE_API_KEY = key,
      !.SEZZLE_READ_ONLY = "false", !.SEZZLE_PERMISSION_PROFILE = "finance"] :
     environment \in {"unset", "blank", "production"},
     url \in DOMAIN Spellings \cup {"unset", "blank", "gateway"},
     merchant \in {"blank", "m1"}, key \in {"unset", "m1", "m2"}}

Modes ==
  {[Defaults EXCEPT !.SEZZLE_READ_ONLY = readOnly, !.SEZZLE_REQUIRE_CONFIRMATION = confirm,
      !.SEZZLE_PERMISSION_PROFILE = profile, !.SEZZLE_STORAGE = storage, !.limits = limits] :
     readOnly \in {"unset", "blank", "false", "no"}, confirm \in {"true", "false"},
     profile \in Profiles \cup {"unset", "blank"}, storage \in {"unset", "sqlite"},
     limits \in {"blank", "out of range"}}

Transports ==
  {[Defaults EXCEPT !.MCP_TRANSPORT = "http", !.MCP_HTTP_HOST = host,
      !.MCP_HTTP_AUTH_TOKEN = token, !.MCP_HTTP_ALLOWED_HOSTS = hosts,
      !.MCP_HTTP_ALLOWED_ORIGINS = origins, !.SEZZLE_READ_ONLY = readOnly,
      !.SEZZLE_PERMISSION_PROFILE = "admin"] :
     host \in {"unset", "blank", "::1", "0.0.0.0"}, token \in {"unset", "t1"},
     hosts \in {{}, {"shop.example"}}, origins \in {{}, {"https://shop.example"}},
     readOnly \in {"unset", "false"}}

Storages ==
  {[Defaults EXCEPT !.LOG_LEVEL = level, !.SEZZLE_SQLITE_PATH = path,
      !.SEZZLE_STORAGE = storage] :
     level \in {"blank", "silent", "verbose"}, path \in {"unset", "blank"},
     storage \in {"blank", "memory", "sqlite"}}

SomeEnvironments == Gateways \cup Modes \cup Transports \cup Storages

Request(method, path, host, origin, bearer) ==
  [method |-> method, path |-> path, host |-> host, origin |-> origin, bearer |-> bearer]

SomeRequests ==
  {Request("POST", "/mcp", host, origin, bearer) :
     host \in {"localhost", "shop.example"},
     origin \in {"none", "null", "https://shop.example", "http://localhost:3000"},
     bearer \in {"none", "t1", "t2"}}
    \cup {Request("GET", "/mcp", "localhost", "none", "t1"),
          Request("POST", "/health", "localhost", "none", "t1")}

-----------------------------------------------------------------------------

Shipped ==
  [NoOrder EXCEPT !.id = "o1", !.reference = "r1", !.merchantReference = "r1",
     !.currency = usd, !.merchantCurrency = usd, !.authorized = 2, !.captured = 2,
     !.refunded = 1, !.approved = TRUE, !.expiresAt = 1, !.checkout = "active",
     !.checkoutExpiresAt = 3, !.updatedAt = 0,
     !.refundAttempts = <<[id |-> "a", amount |-> 1, at |-> 0]>>]

SomeOrders ==
  LET repeated(id, at) == <<[id |-> "a", amount |-> 1, at |-> 0], [id |-> id, amount |-> 1, at |-> at]>> IN
  {Shipped,
   [Shipped EXCEPT !.reference = Nothing],
   [Shipped EXCEPT !.reference = "r2"],
   [Shipped EXCEPT !.merchantCurrency = cad],
   [Shipped EXCEPT !.captured = 1],
   [Shipped EXCEPT !.captured = 1, !.updatedAt = Nothing, !.expiresAt = Nothing],
   [Shipped EXCEPT !.captured = 0, !.approved = FALSE],
   [Shipped EXCEPT !.refunded = 3],
   [Shipped EXCEPT !.checkoutExpiresAt = 2],
   [Shipped EXCEPT !.refundAttempts = repeated("a", 1)],
   [Shipped EXCEPT !.refundAttempts = repeated("b", 0)],
   [Shipped EXCEPT !.refundAttempts = repeated("b", 1)]}

SomePayloads ==
  LET sound == [broken |-> {}, invalid |-> {}, currency |-> usd, currencies |-> {usd},
                itemized |-> 2, amount |-> 2] IN
  {Nothing, sound,
   [sound EXCEPT !.broken = {"cancel_url"}, !.currencies = {cad}],
   [sound EXCEPT !.invalid = {"complete_url.href"}],
   [sound EXCEPT !.invalid = {"order.reference_id"}, !.currencies = {cad}],
   [sound EXCEPT !.itemized = 1]}

SomeRedirects ==
  {Nothing} \cup
  {[cancel |-> url, complete |-> "https://shop.example", allowedHosts |-> hosts] :
     url \in {"blank", "shop", "https://shop.example", "http://gateway.sezzle.com"},
     hosts \in {{}, {"shop.example"}, {"gateway.sezzle.com"}}}

SomeWebhooks ==
  LET sound == [subscribed |-> {"captured"}, required |-> {"captured"},
                invalidSignatures |-> 0, missing |-> {}, outOfOrder |-> 0] IN
  {Nothing, sound, [sound EXCEPT !.subscribed = {}], [sound EXCEPT !.invalidSignatures = 1],
   [sound EXCEPT !.missing = {"captured"}], [sound EXCEPT !.outOfOrder = 1]}

Flawless ==
  [environment |-> "production", gateway |-> ProductionOrigin, credential |-> "production",
   now |-> 2, tokenExpiresAt |-> 3, payload |-> Nothing, redirects |-> Nothing,
   orders |-> << >>, webhooks |-> Nothing, mismatches |-> 0, threshold |-> 1]

Pairs == {<<>>} \cup {<<o>> : o \in SomeOrders}
           \cup {<<Shipped, [o EXCEPT !.id = "o2"]>> : o \in SomeOrders}

SomeEvidence ==
  {[Flawless EXCEPT !.credential = credential, !.tokenExpiresAt = expires,
      !.mismatches = mismatches] :
     credential \in {"unknown", "sandbox", "production"}, expires \in {Nothing, 2, 3},
     mismatches \in {0, 1}}
    \cup {[Flawless EXCEPT !.payload = payload, !.orders = orders] :
            payload \in SomePayloads, orders \in Pairs}
    \cup {[Flawless EXCEPT !.redirects = redirects, !.webhooks = webhooks] :
            redirects \in SomeRedirects, webhooks \in SomeWebhooks}
=============================================================================
