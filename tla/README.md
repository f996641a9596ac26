# Verification of sezzle-merchant-mcp

TLA+ models of the server in `src/`, TLC configurations that check them on small
instances, and TLAPS proofs of the most important properties for every instance.
`PROJECT.json` maps each definition to the lines it translates, and lists components,
runs, hazards, findings and theorems. All line references are to files under `src/`.

1. [The system](#1-the-system)
2. [Modules](#2-modules)
3. [Runs](#3-runs)
4. [Fairness](#4-fairness)
5. [Proofs](#5-proofs)
6. [Findings](#6-findings)
7. [What is not modelled](#7-what-is-not-modelled)
8. [Plan, and what is left of it](#8-plan-and-what-is-left-of-it)

## 1. The system

The server exposes a merchant's Sezzle account to an MCP client: it reads orders and
reports, changes orders and webhooks after a preview and an explicit confirmation,
ingests webhook deliveries and reconciles settlement reports. It is one Node.js
process: between two `await`s its code runs without interruption, and every `await` is
a point where other tool calls, timers, Sezzle or a shutdown intervene. Several
processes may share one SQLite file.

| Component | State | Operations | Properties that make it correct |
| --- | --- | --- | --- |
| Mutation protocol (`services/mutation-guard.ts`, `merchant-operations.ts`, `webhook-operations.ts`) | none of its own: records in storage, locals of the calls across awaits | create a preview; confirm, reserve, consume, send, record success or failure | a mutation takes effect at most once, only if exactly it was confirmed while its preview was open; recorded and audited outcomes are true and agree; every call ends |
| Storage (`storage/memory-store.ts`, `sqlite-store.ts`) | previews, operations, audits, webhook events | save, get and consume a preview; reserve and complete an operation; append an audit; save and list events | reservations and spent previews are final; the first version of an event stands |
| Order finance (`domain/money.ts`, `order.ts`) | none; the order is Sezzle's | derive the financial state; validate capture, refund, release, reauthorization | no operation beyond what is left, to the cent; what is previewed as remaining remains |
| Webhook ingestion (`api/webhook-verifier.ts`, `services/webhook-operations.ts`, `event-store.ts`) | stored events, a counter of invalid signatures in memory | verify, parse, save, audit | each event stored once, each delivery counted, audits match what is stored |
| Event timelines (`services/event-store.ts`) | none; reads the stored events | timeline, out-of-order detection, missing events | ordered by occurrence and every inversion noticed, where the texts of a key have one format |
| Sezzle API client (`api/request.ts`, `auth-client.ts`, `sezzle-client.ts`) | limiter and its queue, token cache, acquisition under way | request with timer and retries; acquire a token; replay after a 401 | no write sent twice; no stale or foreign token used; no operation waits for ever |
| Settlement reconciliation (`domain/reconciliation.ts`) | none | deduplicate, match, compare, derive the payout | each row placed once, duplicates without influence, the sums balance |
| Settlement and report parsing (`domain/decimal.ts`, `settlement.ts`) | none | decimal texts to cents and ten-thousandths, and back | read exactly or refused, never rounded |
| Transports and shutdown (`index.ts`, `server/transports/`) | open connections, one server per POST; the process's progress through its shutdown | accept, answer, clean up after a client that hung up; close transports, wait, close the store | the store is closed after the last response; what a client is told is on record; a shutdown ends |
| Configuration, permissions, tool registration (`config/`, `tools/*/register.ts`) | the loaded configuration, fixed for a process | load or refuse an environment; register the tools it grants; admit HTTP requests | nothing is executed without write mode, confirmation, the profile's grant and, where others can reach the server, the token; no half of a preview/execute pair is registered |
| Integration Doctor (`services/diagnostics-engine.ts`) | none; evidence the client supplies | findings, checklist, verdict of readiness | finds what the operations would find; agrees with itself and with the loader |
| Support policy, schemas, hashing, logging | see section 7 | | |

How they interact: a tool handler calls an operation, which calls the API client, the
mutation guard and storage in turn, each behind an `await`. All operations share one
client (one limiter, one token cache) and one store. The parts are composed in the
models as follows: `MutationGuard` composes execution calls with storage
(`MutationStore`), Sezzle, restarts and the retries of the client; `SezzleClient` opens
up that client and lets several operations share it; `OrderLedger` opens up the
validation that `MutationGuard` takes as the constant `Permitted`, and lets two
executions share an order; `EventTimeline` reads the store that `WebhookIngest` fills;
`ServerLifecycle` puts the transport and the shutdown around the calls of
`MutationGuard`; `OrderDiagnosis` lets the Integration Doctor look at the order that
`OrderLedger` changes; `ServerSurface` composes the configuration, the registered tools,
the admission of requests and the Integration Doctor.

What is hard in this code, in one line each (the `hazards` of `PROJECT.json` give every
one its line and its properties):

- two executions of one preview, or of two previews of one order, between reads and writes that lie an `await` apart;
- a request that timed out, was lost or answered in an unreadable way, and was or may yet be carried out;
- a retry, or a replay after a 401, of something already done;
- storage that throws between two storage calls, a process that dies there, a restart for another merchant;
- a verdict that is recorded in two places, by calls either of which may fail;
- operations that join a token acquisition begun by another, while tokens age, are revoked or belong to somebody else;
- a slot of the limiter needed for a request and for the token the request waits for;
- events delivered again, changed, out of order or in the same millisecond;
- sums of signed amounts under several keys, duplicates by id or by content;
- a shutdown beside handlers nobody waits for, connections accepted while it runs, a second signal;
- rules that are written down twice: registration of a preview and of its execution, what an operation accepts and what the doctor reports, readiness and its checklist.

## 2. Modules

Definitions keep the names of the source where TLA+ allows it. Operators whose comment
begins with `Fault:` are not part of the models: each is a plausible bug in the
definition that follows it, which a property must notice when it takes that definition's
place (`mutants` in `PROJECT.json`).

### MutationStore, MutationGuard and ApprovedMutation

`MutationStore` holds previews, operations and audits, with the conditional updates both
stores share (`Reservable`, `Consumable`, `Completable`); `Durable` tells SqliteStore
from MemoryStore at a restart (`Reopen`), and `storageUp` says whether calls throw.

`MutationGuard` has one process per execution call. Its `pc` is the `await` the call is
suspended at:

    idle -ReadTarget-> read -BeginConfirm-> looked -CheckAndReserve-> reserved
         -Consume-> consumed -Send-> awaiting -RecordSuccess-> succeeding
         -CompleteSuccess-> succeeded

and, from several of these, `failing -RecordFailure-> closing -CompleteFailure-> failed`,
or `rejected`, `error` (an exception that was not audited) and `lost` (the process died).
`arg`, `seen` and `loaded` are the locals that live across awaits; `loaded` in particular
is the preview record checked after it was read. `reply`, `tries`, `reauthed` and `late`
are the HTTP request of the call, `target` and `keys` are Sezzle's state, and `effects`
and `winner` are history variables. Decisions worth knowing:

- A preview id stands for its idempotency key too; both are fresh and random.
- `authenticate` and `getOrder` before an execution are one step: nothing of the call's is visible between them. `ReadFails` covers failures of either and the `ORDER_STATE_INVALID` thrown by validation, none of which is audited. A preview's read and save are one step for the same reason.
- `Permitted` is what validation accepts, a relation of request, target state and time.
- Sezzle is a nondeterministic environment. It may carry out a request before any answer that is not a refusal, after the client gave up on it (`LateArrival`), or never; it honours idempotency keys.
- "garbled" is a success whose body cannot be read, breaks off or fits no schema. Tools without a response body cannot meet it; letting them is an over-approximation.
- Time in the limiter's queue and in backoff is time before `Answer`.
- Calls share nothing but storage and Sezzle, so the model covers several processes on one SQLite file as well.

`ApprovedMutation` is the abstract specification: one mutation per preview that is
opened, spent, takes effect and is settled, each at most once, in an order that lets only
a spent preview take effect and only one that took effect be settled as succeeded.
`MutationGuard` implements it under the mapping `phaseBar`, `verdictBar`
(`ImplementsApprovedMutation`).

### OrderFinance and OrderLedger

`OrderFinance` translates `calculateFinancialState` and the four preview functions in
the order of their checks. A transaction list is its sum and the first flaw found in it
(a non-positive amount, another currency), which is all the code tells apart;
`EXCEEDS_AVAILABLE_AMOUNT` stands for the code each operation has for it. `MaxSafe` is
`Number.MAX_SAFE_INTEGER`. `OrderLedger` lets calls preview, re-read and post operations
on one order while the dashboard works on it by Sezzle's rules and its authorization
expires. Sezzle is *not* relied on to check amounts: `CarryOut` carries out whatever is
posted, on the order as it is by then. A reauthorization creates an order of its own and
leaves this one as it is.

### WebhookIngest and EventTimeline

`ingestEvent` verifies, parses and saves in one synchronous stretch (`Ingest`,
`IngestForged`, `IngestMalformed`); the audit is a step of its own (`RecordIngested`,
`RecordRefused`). Equal bodies have equal hashes; `receipt` is the order of insertion.
`EventTimeline` adds the queries.

`CreatedAt` is the whole text of `created_at` as the schema admits it
(`z.iso.datetime({offset: true})`): the minute on the clock, the digits written after it
(none, seconds, seconds and a fraction of any length), and the zone, `Z` or a sign and
an offset. The code never parses it; it compares texts, in two ways: `timeline` with
`localeCompare` (`Collated`), `detectOutOfOrderEvents` with `<` (`CodeUnits`). Both are
`Text` with different ranks for the signs; what they agree on is that a text that stops
early is followed by its zone, so that `..00.500Z` comes before `..00Z` and `..00.123Z`
before `..00.12Z`, and that `Z` and `+00:00` are different texts of one instant.
`Instant` is the time that is meant. The two agree where the events of a key are written
in one precision and one zone (`OneFormat`), which is the premise of `TimelineInOrder`
and of the half of `HealthReported` about inversions; without it a timeline can be out of
order, an inversion can be missed or reported falsely, and the spelling rather than the
receipt decides between events of one instant (`SortsByOccurrence`, section 6). Of what
Sezzle writes nothing in `src/` says more.
`Listings` is the order in which a store returns events: a Map keeps insertion order
among equal receipt times, SQLite promises nothing, which is why the timeline properties
carry the premise `Untied`.

### SezzleClient

One process per operation, which makes one HTTP request at a time: its own, or the token
acquisition it started. A slot of the limiter is held from `fetch` to the headers
(`flight`) only; the timer covers the queue, the flight and the body of an error answer,
but not the body of a success (`reading`). A timer that fires in the queue only marks the
request (`aborted`); it fails when it is dequeued. Tokens are numbered as Sezzle issues
them, so "newer" is ">". `Authenticate` returns the cached token, joins the acquisition
under way or starts one; `StoreToken` is the end of `acquireToken`. Every success is read
as if it had a body, an over-approximation for `requestEmpty`.

### ServerLifecycle

Extends `MutationGuard` by `phase`, the process's way through `shutdown`
(`listening`, `closing`, `draining`, `stopped`), and by the `response` of each call's
POST. `Accept` takes a request, also while the transports of an earlier snapshot are being
closed, and, on a connection that is kept alive, until the HTTP server has closed
(`Reachable`); `Handle` lets the handler make its reads; `Disconnect` is a client that
hangs up, after which the handler goes on and nobody waits for it; `CloseStore` waits
for responses, not for handlers. Whether closing a transport ends its response is the
transport library's choice, hence the response `"cut"`. A second signal is a second
`close()` beside the first (`SignalAgain`), whose rejection is a restart at any point.
Over stdio there is one connection and closing it ends it. The configured transport is
the constant `Transport`.

### Configuration, ToolRegistration, IntegrationDoctor and ServerSurface

`Configuration` says which environments load, and as what: an environment is a record of
variables, each unset, blank or a value (the numeric ones are one field, `limits`, and
ports and time limits have no other influence), and `UrlParts` gives the parts that the URL
parser finds in a spelling. `ToolRegistration` lists every tool with the policies it is
registered under; a tool that stands behind two early returns has both. `Preparation`
maps an executing tool to the tool that prepares it, itself where one tool does both.
`IntegrationDoctor` has every finding of `diagnoseIntegration`, the checklist and the
verdict; `Finding` is its code, severity and subject. `ServerSurface` starts and stops
processes with one environment after another over one SQLite file; a preview is the
context it was made in, by this process or an earlier one, and a confirmed execution is
one step that `Confirmed` admits, with the preview it used in the history variable
`executed`. `ExecutedAsConfigured` holds this preview against the gateway and the
merchant of the process that executes, which come from other variables of its
environment.

### OrderDoctor and OrderDiagnosis

`OrderDoctor` translates the doctor's checks of orders, with every severity.
`OrderDiagnosis` extends `OrderLedger`: `Evidence` is what a client copies from
`get_order` into the doctor's schema, and the properties hold what is reported in a state
against what the operations accept in it. The schema has no field for releases, so the
converse implications carry the premise that nothing was released.

### Reconciliation

The state is the report, to which each step adds one row, so that every prefix of every
sequence of rows is an input; everything else is an operator of the report and the
merchant's books, in the order of `reconcile`: `Unique` (a row that repeats one kept so far, by id or by content,
is dropped), `RecordsFor`, mismatches and fee anomalies, `Confidence`, `Payout`. The evidence list and the safe-integer limit are left out. Two facts of
the code worth knowing: a CAPTURE or ORDER row without any order key contributes nothing
to the payout and is reported nowhere, and the count of `explainPayoutDifference` leaves
out unmatched merchant orders.

### DecimalAmount and MCReports

A decimal text is typed one digit, point or exponent at a time. Digits are sequences and
values are integers, so `Denotes`, the reference definition, is multiplication by a
power of ten, while `Shifted` follows the code: strip zeros, shift, cut, refuse what is
cut unless it is zeros. `MCReports` checks both ends of a report in one run: rows are
reconciled while no text has been typed, texts are typed while nothing is reconciled.

## 3. Runs

Passing runs, each exhaustive within its bounds:

| Run | Distinct states | What it shows |
| --- | --- | --- |
| `race` | 725,000 | MemoryStore; two executions race for one preview while its expiry passes, the target changes and a restart forgets everything. What is under way or took effect was approved (`OnlyApprovedEffects`); the second check of the consumed flag never decides (`ReserverConsumes`); reservations are made on open previews although the record was read earlier (`ReservedWhileOpen`); the refinement |
| `crash` | 248,000 | SqliteStore; storage fails between any two calls and the process restarts anywhere, perhaps for another environment. `AtMostOnce`, `SuccessIsReal`, `VerdictsAgree`, `VerdictsAreFinal`, the refinement, and, under fairness, `CallsEnd` and `ReservationsSettle` |
| `lifecycle` | 312,000 | two executions over HTTP while clients hang up, one or two signals arrive and the server is started again. `StoreOutlivesResponses`, `AnswerIsOnRecord`, `ImplementsProtocol` (the server is a behaviour of `MutationGuard`), and, under fairness, `ShutdownEnds` |
| `ledger` | 374,000 | two operations of any kind and amount on one order, fresh, partly used, unapproved, flawed or missing. `NeverOutOfRange`, `SentWithinMeans`, `OverdrawnOnlyByOverlap`, `RemainingAsPreviewed`; and in each of these states the doctor: `DoctorFindsCapturable`, `DoctorFindsOverRefund` |
| `webhook` | 1,120,000 | three deliveries of events in one or two versions, written in two precisions, forged and malformed ones, an outage and a restart, in every order of receipt, several perhaps in one millisecond. `CountsDeliveries`, `AuditsMatchStore`, `FirstVersionStands`, and, for texts of one format, `TimelineInOrder`; `HealthReported` (comparing neighbours finds every inversion of such texts; an event is missing exactly if none is stored) |
| `client` | 37,700 | a single slot, needed for requests and for the token they wait for; a write and a forced authentication. `WritesOnce`, `ReplayWithNewToken`, `JoinedHaveAcquirer`, `OwnMerchantOnly`, `CacheTakesNewest`, and, under fairness, `OperationsEnd` |
| `reconciliation` | 137,700 | every report of up to four of twelve rows against six books: `OneOfEachContent`, `EveryRowPlaced`, `BooksBalance`, `DuplicatesInert`; and 2,000 decimal texts: `AmountsExact` |
| `surface` | 14,800 | 486 environments, of which 136 load, 26 requests, four executing tools, two previews kept: `ExecutedAsConfigured`, `ExecutionsPreparable`, and over 244 bodies of evidence `LoaderAndDoctorAgree` |

Four runs end in a violation and are the subject of section 6: `shutdown`, `offsets`,
`client_hang`, `reconciliation_keys`.

### Bounds and why they are enough

- **One preview, two calls** (`race`, `crash`, `lifecycle`). Previews share nothing but the target, which may change arbitrarily anyway; the invariants and the refinement speak of each preview alone, and the proofs cover any number. A third call adds no new conflict: one call reserves, every other is refused the reservation. `Horizon = 2` with `Ttl = 2` reaches the moment of expiry exactly; `MaxRetries = 1` gives a first and a repeated attempt, each before and after the replay; one outage and one restart reach every point between two storage calls. Three requests (`race`) differ in identity, in payload only, and in whether they carry a key. In `lifecycle`, two calls make one that is answered while the other's response is cut; retries are left to `crash`.
- **`ledger`**: `MaxSafe = 3` puts the boundary within reach of two operations and dashboard actions; amounts -1 to 2 and a second currency hit each check on both sides.
- **`webhook`**: a first delivery, a repetition and a changed version of an event beside others, the changed version with a fraction that the others do not have, so that keys of one format and of mixed formats both occur; `Horizon = 2` makes both equal and different receipt times occur, with an outage and a restart between them.
- **`client`**: the write and the authentication contend for the one slot, the worst case for the deadlock that `OperationsEnd` excludes; `MaxTokens = 3` allows a foreign token, a refresh and a refresh after that; `MaxRetries = 2` a failure before and after a success. The safety properties of larger instances, with reads, more operations and more slots, are proved.
- **`reconciliation`**: a duplicate by id of one row and by content of another needs three rows; a fourth is the innocent one. For decimals, two digits of which one is zero, two places before and three behind the point, and exponents from -4 to 4 reach each branch of `Shifted` and of the limits (`MaxExponent = 3`, `MaxCents = 100`) from both sides.
- **`surface`**: environments differ from the defaults in the variables of one concern at a time (gateway and merchant; mode and profile; transport; storage and logging), evidence from flawless evidence in two fields. Two previews allow one of this and one of an earlier process. The proofs cover any set of either.
- Histories (`effects`, `late`, `applied`, `saves`, `executed`) need no bound of their own: the bounds above limit them.

Symmetry (of calls, previews and deliveries) is used in runs without liveness only.
Deadlock is not checked: every model stops when its calls have ended and its bounds are
used up, and that calls *do* end is stated as liveness.

## 4. Fairness

`FairSpec` of `MutationGuard` assumes weak fairness of each call's own steps: the event
loop resumes every settled `await`, storage calls are synchronous, and the request timer
settles the wait for Sezzle (`request.ts:124`). `NoAnswer` among those steps is that
timer. Nothing is assumed of clients, of Sezzle's answers, or of storage recovering.
Bodies of successful answers end before `Receive` or `RecordSuccess` there; the
qualification is what `SezzleClient` is about.

`TimerSpec` of `SezzleClient` assumes the event loop, the timers and the limiter's queue.
`FairSpec` adds that bodies of successful answers end, which no line of `src/` sees to;
only the HTTP runtime's own idle limit does. `client` needs it, and `client_hang`
shows that the timers alone are not enough.

`FairServerSpec` of `ServerLifecycle` assumes weak fairness of what the event loop does
for each call (`Serve`) and of the shutdown's own steps. No fairness is assumed of
clients hanging up, of signals or of the process being started again; in particular, a
client that keeps waiting for a response that was cut holds up the shutdown for ever,
and `ShutdownEnds` says that nothing else does.

## 5. Proofs

The proofs hold for every value of the constants under the named assumptions of the
modules (`StoreAssumption`, `GuardAssumption`, `NoneIsNoArgument`, `LifecycleAssumption`,
`MoneyAssumption`, `LedgerAssumption`, `InstantAssumption`, `IngestAssumption`,
`ClientAssumption`, `InputAssumption`, `DecimalAssumption`, `UrlAssumption`,
`SurfaceAssumption`), which say no more than which constants are numbers, that requests
have targets, that rows and orders have the fields of their schemas, that "no value" is not
a value, and, for the server, that its storage is durable and closed once. TLC evaluates them in every
run. The type invariants are proved instead of run.

**MutationGuardProofs** proves `TypeCorrect`, `AtMostOnceCorrect`,
`OnlyApprovedEffectsCorrect`, `ReserverConsumesCorrect` and `ReservedWhileOpenCorrect`
for any number of calls, previews, requests, retries, faults and restarts. None of these
is inductive. `MutationInvariant` (`InvariantCorrect`) is, and its conjuncts are the
argument:

- `CallsOnIssued`, `ArgumentsGiven`: a call works on an id the client was given, so no preview is created under it later;
- `WinnersHold`: a call past the reservation, or with a request under way, is the winner of its preview; hence the requests for a preview are one call's;
- `LoadedIsStored`: the record read before the `await` differs from the stored one at most in `consumed`; hence checks on the stale copy are checks on the store;
- `ReservationsStored`: a reservation disappears only together with the preview; this is why MemoryStore is safe at a restart, and it would fail if previews outlived reservations;
- `EffectsCounted`: with a key, Sezzle's memory of the key bounds the effects; without one, effects and copies of the request that may still arrive are at most one together. This is where the retry policy (never without a key) and the replay (only after a refusal) enter;
- `ReservedAsApproved`, `ReserverConsumes`: what is reserved is what was confirmed, and it is spent before the first request goes out.

Its second half goes on from there to the outcomes: `SuccessIsRealCorrect`,
`VerdictsAgreeCorrect`, `VerdictsAreFinalCorrect`, and `ImplementsApprovedMutationCorrect`,
the refinement `Spec => AM!Spec`. The additional invariant `OutcomesRecorded` has two
halves: `CallKnows`, that what a call is about to record agrees with what Sezzle did, and
`VerdictStands`, that what is recorded is true and no other call can change it. The
refinement has one step per action: most stutter, a reservation stutters too,
`Consume` spends, a first effect takes effect, a completion settles.

**OrderLedgerProofs** proves `LedgerTypeCorrect`, `NeverOutOfRangeCorrect`,
`SentWithinMeansCorrect`, `OverdrawnOnlyByOverlapCorrect` and
`RemainingAsPreviewedCorrect` for every `MaxSafe` and every starting order. The invariant
is `LedgerInvariant`: an execution's order is the one its preview shows. The rest is
arithmetic on sums. `DoctorFindsCapturableCorrect` and `DoctorFindsOverRefundCorrect`, about
`OrderDiagnosis`, follow from the type invariant alone, for every order and instant.

**ServerLifecycleProofs** proves `ImplementsProtocolCorrect`, `ServerSpec => Spec`, so that
everything proved of the protocol holds of the server through every shutdown
(`ServerAtMostOnce`); and with `ServerInvariant` `StoreOutlivesResponsesCorrect` and
`AnswerIsOnRecordCorrect`. Its conjuncts are `ClosedLast` (over HTTP the store is closed
when no connection is left), `ResponseFollows` (a call with an open response holds what
it reserved, one that was answered settled it) and `SpentStored` (what a call past the
reservation left in storage is still there: here `Durable` is needed).

**WebhookIngestProofs** proves `IngestInvariant` and from it `CountsDeliveriesCorrect`,
`NewOnceCorrect`, `AuditsMatchStoreCorrect` and `FirstVersionStandsCorrect`.
`CountsDeliveries` needs `StoredById`: a duplicate found by its hash has the id of the
delivery, because the id is part of what is hashed. `TimelineInOrderCorrect` and
`HealthReportedCorrect` say of any number of stored events, and of any order in which a
store may list them, what `EventTimeline` makes of them. They need one invariant more,
`ReceiptsInOrder`: what was received earlier has no later receipt time; and that under
`OneFormat` the order of the texts, in either comparison, is that of the instants
(`TextsAsInstants`, `OneFormatOrders`): texts of one length differ first in the minute or in
a digit, and equal zones shift both by the same. This holds for any number of digits. That a sort returns
what is asked for is a lemma on bijections (`RankExists`); that comparing neighbours is
enough is the argument that a sequence without a descent between neighbours has none at all.

**SezzleClientProofs** proves `ClientInvariantCorrect` for any number of operations,
slots, retries and tokens, and from it `WritesOnceCorrect`, `ReplayWithNewTokenCorrect`,
`QueueMatchesWaitingCorrect`, `JoinedHaveAcquirerCorrect`, `OwnMerchantOnlyCorrect` and
`CacheTakesNewestCorrect`. The argument: an operation that joined an acquisition has one
that acquires (`JoinedHaveAcquirer`), which limits who may change the cache; tokens are
held and cached in the order of issue (`TokensInOrder`), so a refresh begun after a
refusal brings a newer one (`RefreshIsNewer`); and `WritesAccounted` says of each stage
of a write whether it was carried out or may still be.

**ServerSurfaceProofs** proves `ExecutedAsConfiguredCorrect` and
`ExecutionsPreparableCorrect`. The first is inductive once three facts are known: a
configuration that loaded has a token wherever the transport is remote
(`LoadedIsAuthenticated`); its gateway is that of production exactly if its environment is
(`LoadedIsItsGateway`), so that a preview which matches the environment was made for the
gateway; and a registered executing tool is registered under a
dangerous policy that the profile grants (`RegisteredIsGranted`).
`LoaderAndDoctorAgreeCorrect` is proved for any evidence, by cases on the finding: all
but two kinds block (`Graded`), and only the comparison of environments finds a mismatch
of environments (`Unrelated`).

**ReportProofs** proves the properties of `Reconciliation` for every report, books and fee
tolerance, and that of `DecimalAmount` for texts of any length and every exponent.

- `OneOfEachContentCorrect`, `EveryRowPlacedCorrect` and `DuplicatesInertCorrect` rest on one description of `Unique` without its recursion, `Counting`: a row counts if and only if it repeats no earlier row that counts. A repeated row leaves `Unique`, and with it every result, as it was.
- `BooksBalanceCorrect`: full confidence means that every order is matched and no row with a key is left over (`FullConfidence`); then the groups of the payout and the rows of the orders are the same sets, group by group, and sums over a partition add up (`DataLemmas`). The attempt showed that its premise was too weak: rows of *two* orders may share one key, for instance when the merchant lists no uuid for either and Sezzle reports one uuid for both, and then the payout sums what the books keep apart. `KeysConsistent` therefore asks for one key per order *and* one order per key; a book and a row of the run now reach that case.
- `AmountsExactCorrect`: `Integer` reads digits as a polynomial in ten, so zeros at the end multiply (`IntegerShift`), zeros in front go (`IntegerUnpadded`), and digits cut off leave a remainder that is zero exactly if they all are (`IntegerSplit`, `RemainderZero`). `FormatExact` is the way back: padded to five digits and cut before the last four.

**DataLemmas** holds what `WebhookIngestProofs` and `ReportProofs` need of data: induction over the natural
numbers and over finite sets, in terms of a *set* of good values rather than a predicate,
which is the form the provers can instantiate; existence and uniqueness of functions defined
by recursion or by the folds of the community modules; sums over finite sets; sorting and
ranking by an order.

Only model-checked: liveness (`CallsEnd`, `ReservationsSettle`, `ShutdownEnds`,
`OperationsEnd`), which is out of the prover's reach, and the four properties of section 6,
which TLC refutes. It is not proved that the sum over a list of transactions is what
`OrderFinance` keeps of it: the list is abstracted where it is received.

## 6. Findings

- **`shutdown`** (`index.ts:33`). Shutdown waits for responses, not for handlers. The client of an execution hangs up, its handler goes on, and the store is closed under it. If Sezzle carries the mutation out meanwhile, `recordSuccess` throws, then `recordFailure` throws, and there is no audit event, although ARCHITECTURE.md:143 promises one for every executed operation. The reservation keeps the mutation from being repeated (`AtMostOnce` holds), and whoever is still answered is told what is on record (`AnswerIsOnRecord`).
- **`offsets`** (`event-store.ts:163`). Timelines compare `created_at` as text, and the schema accepts any offset and any precision (`domain/webhook.ts:19`), where README.md:404 says "Timelines order by `occurredAt`": 02:00+02:00 is sorted after 01:00Z although it was an hour earlier. Texts in UTC are not safe either: `..00.500Z` is sorted before `..00Z`. `detectOutOfOrderEvents` (`event-store.ts:241`) compares texts as well and then misses inversions or reports false ones.
- **`client_hang`** (`request.ts:186`). The timer is cleared when the headers arrive. A success whose body never ends holds up its operation, and, if it answers a token acquisition, every operation that joins it.
- **`reconciliation_keys`** (`reconciliation.ts:421`). An order whose capture is reported by reference only, beside an ORDER row with the uuid, matches completely and is counted twice in the expected payout.

Noticed while modelling, without a run of their own.

Of the protocol and the ledger:
- A mutation without idempotency key is repeated after a 401, where README.md:493 says "a mutation is replayed only when it carries documented idempotency" (a 401 was not carried out, so `AtMostOnce` holds).
- Attempts that fail in `authenticate` or `getOrder` leave no audit event, where ARCHITECTURE.md:143 says every attempt does.
- Two overlapping executions on one order can overdraw it, each having passed the state comparison; `OverdrawnOnlyByOverlap` says that this is the only way.
- SqliteStore lists events of one millisecond in no stated order, so their timeline may not follow receipt.

Of the configuration and the tools:
- `resources/register.ts:55` reports `mutationToolsRegistered: !readOnly`, which is true for profiles of which no mutating tool is registered.
- README.md:239 speaks of previews before writes are enabled; tools that preview and execute in one, such as `create_webhook`, are not registered in read-only mode.
- `http://[::1]` is never recognised as a loopback URL, since the parser keeps the brackets.

Of the Integration Doctor:
- `detectUncapturedOrders` does not know of releases and reports an order whose rest was released.
- More captured than authorized is reported by no finding, while `order.ts` refuses such an order.
- `WEBHOOKS` can fail in the checklist (a medium finding) while the verdict is ready; `DUPLICATE_REFUND` and others make it not ready while no check fails.
- The gateway is compared by host name only.
- A payload that the session schema refuses for an order total that does not add up yields no finding (`diagnostics-engine.ts:174`).

Of reports: ids of settlement rows can collide across settlements, and the text `.` is read as zero (`decimal.ts:9`).

## 7. What is not modelled

- **Settlement and report parsing** beyond decimals: the CSV grammar is a library's, and columns are mapped to fields one assignment each, checked by schemas.
- **Support policy**: one read and one audit around keyword routing and fixed texts. Its properties would restate its table.
- **Schemas and endpoints, hashing, logging, prompts and resources**: declarative, pure or output only. Canonical JSON under SHA-256 is taken as injective.
- **Libraries**: the MCP SDK and Express are modelled by what `src/` relies on (`Status`, the choice in `CloseTransports`), Sezzle by what its answers may be.
- **Within modelled parts**: SqliteStore on `:memory:`, limits and filters of listings, the text of messages, correlation ids, the evidence list of a reconciliation, the doctor's impact estimates, the numeric limits of the configuration beyond being in range.

## 8. Plan, and what is left of it

The plan was, in order of importance; all of it is done except where it says so.

1. `MutationStore`, `MutationGuard`, `ApprovedMutation`: safety, refinement, liveness.
2. `MutationGuardProofs`: types, `AtMostOnce`, `OnlyApprovedEffects`.
3. `OrderFinance`, `OrderLedger` and their proofs.
4. `WebhookIngest` and its proofs; `EventTimeline`.
5. `SezzleClient`: safety and progress; its proofs.
6. `Reconciliation`; the decimal arithmetic against a reference definition.
7. The findings above as runs of their own.
8. `ServerLifecycle`: transport and ordered shutdown, composed with calls in flight; its proofs.
9. Proofs of the outcomes and of the refinement.
10. Configuration, tool registration, Integration Doctor and their composition; its proofs.
11. Proofs about data: timelines and their health, reconciliation, decimals.

Left: the mapping of settlement fields, and ownership in the support policy, for which no
property was found that a unit test would not reach; and a composition of `SezzleClient` with `MutationGuard` in one module, where each now
stands for the other by the answers it may give.
