---------------------------- MODULE SezzleClient ----------------------------
(***************************************************************************)
(* The client of the Sezzle API that every operation of the server shares: *)
(* limiter, timeouts and retries of HttpClient (src/src/api/request.ts),   *)
(* the token cache of AuthClient (auth-client.ts) and the replay after a   *)
(* 401 of DefaultSezzleClient (sezzle-client.ts).                          *)
(*                                                                         *)
(* An operation makes one HTTP request at a time: its own, or the token    *)
(* acquisition it started.                                                 *)
(*                                                                         *)
(*   idle -> (joined ->) authenticated -> queued -> flight -> reading      *)
(*        -> done         (or erring, sleeping, and queued again)          *)
(***************************************************************************)
EXTENDS Integers, Sequences, FiniteSets

CONSTANTS
  Operations,     \* calls of the client, each at most once
  Logins,         \* those that only authenticate: authenticateMerchant
  Retryable,      \* those sent with retryable: GETs and keyed POSTs
  Configured,     \* whether SEZZLE_MERCHANT_UUID is configured
  MaxConcurrency, \* SEZZLE_MAX_CONCURRENCY
  MaxRetries,     \* SEZZLE_MAX_RETRIES
  MaxTokens,      \* bound on the tokens Sezzle issues
  None            \* absence of an operation

ASSUME ClientAssumption ==
  /\ Logins \subseteq Operations /\ Retryable \subseteq Operations
  /\ Configured \in BOOLEAN
  /\ MaxConcurrency \in Nat \ {0} /\ MaxRetries \in Nat /\ MaxTokens \in Nat
  /\ None \notin Operations

\* Requests that change something and must not be repeated.
Writes == Operations \ (Logins \cup Retryable)

\* Tokens are numbered as they are issued; 0 is no token.
Token == 0..MaxTokens

\* Answers other than success: 4xx; 408, 429 and most 5xx; 401.
Status == {"none", "declined", "unavailable", "unauthorized"}

Result == {"none", "ok", "garbled", "unreached", "unauthenticated"} \cup Status

InHttp == {"queued", "flight", "erring", "reading", "sleeping"}

VARIABLES
  pc,       \* per operation: the await it is suspended at
  login,    \* per operation: its HTTP request is the token acquisition
  attempt,  \* per operation: retries made of its HTTP request
  aborted,  \* per operation: the timer fired while its request was queued
  status,   \* per operation: the status of the error answer it reads
  token,    \* per operation: the token its request carries, or was granted
  refused,  \* per operation: the token answered with 401, 0 if none yet
  result,   \* per operation: how it ended
  queue,    \* p-limit: operations whose request waits for a slot
  current,  \* AuthClient.#state: the cached token
  fresh,    \* whether it has more than a minute left
  inFlight, \* AuthClient.#inFlight: the operation that acquires a token
  issued,   \* Sezzle: number of tokens issued
  valid,    \* Sezzle: tokens it accepts
  foreign,  \* Sezzle: tokens issued to another merchant
  applied,  \* history: how often Sezzle carried out a write
  late      \* writes no longer waited for that Sezzle may still carry out

http == <<attempt, aborted, status>>
cache == <<current, fresh, inFlight>>
sezzle == <<issued, valid, foreign, applied, late>>
vars == <<pc, login, http, token, refused, result, queue, cache, sezzle>>

TypeOK ==
  /\ pc \in [Operations -> {"idle", "joined", "authenticated", "done"} \cup InHttp]
  /\ login \in [Operations -> BOOLEAN]
  /\ attempt \in [Operations -> 0..MaxRetries]
  /\ aborted \in [Operations -> BOOLEAN]
  /\ status \in [Operations -> Status]
  /\ token \in [Operations -> Token] /\ refused \in [Operations -> Token]
  /\ result \in [Operations -> Result]
  /\ queue \in Seq(Operations)
  /\ current \in Token /\ fresh \in BOOLEAN
  /\ inFlight \in Operations \cup {None}
  /\ issued \in Token
  /\ valid \subseteq 1..issued /\ foreign \subseteq 1..issued
  /\ applied \in [Operations -> Nat]
  /\ late \subseteq Writes

Init ==
  /\ pc = [o \in Operations |-> "idle"]
  /\ login = [o \in Operations |-> FALSE]
  /\ attempt = [o \in Operations |-> 0]
  /\ aborted = [o \in Operations |-> FALSE]
  /\ status = [o \in Operations |-> "none"]
  /\ token = [o \in Operations |-> 0] /\ refused = [o \in Operations |-> 0]
  /\ result = [o \in Operations |-> "none"]
  /\ queue = <<>>
  /\ current = 0 /\ fresh = FALSE /\ inFlight = None
  /\ issued = 0 /\ valid = {} /\ foreign = {}
  /\ applied = [o \in Operations |-> 0] /\ late = {}

Goto(o, state) == pc' = [pc EXCEPT ![o] = state]

-----------------------------------------------------------------------------
(* HttpClient: limiter, timer, retries.                                    *)

\* Fault: an operation keeps its slot from its first 401 to its end.
RunningToTheEnd ==
  {o \in Operations : pc[o] = "flight" \/ (refused[o] # 0 /\ pc[o] # "done")}

\* The operations that hold a slot of the limiter: from fetch to its headers.
Running == {o \in Operations : pc[o] = "flight"}

\* A new attempt: the timer starts and the request waits for a slot.
Enqueue(o, retries) ==
  /\ Goto(o, "queued")
  /\ queue' = Append(queue, o)
  /\ attempt' = [attempt EXCEPT ![o] = retries]
  /\ aborted' = [aborted EXCEPT ![o] = FALSE]
  /\ status' = [status EXCEPT ![o] = "none"]

\* What a new token acquisition, or its end, means to those that wait for it.
Waiting(o) == {o} \cup {p \in Operations : pc[p] = "joined"}

\* Fault: a failed acquisition is kept, as without the finally block.
AuthenticationFailsForGood(o) ==
  /\ pc' = [p \in Operations |-> IF p \in Waiting(o) THEN "done" ELSE pc[p]]
  /\ result' = [p \in Operations |->
       IF p \in Waiting(o) THEN "unauthenticated" ELSE result[p]]
  /\ login' = [login EXCEPT ![o] = FALSE]
  /\ UNCHANGED inFlight

\* The acquisition throws, in the operation that made it and in all that joined.
AuthenticationFails(o) ==
  /\ pc' = [p \in Operations |-> IF p \in Waiting(o) THEN "done" ELSE pc[p]]
  /\ result' = [p \in Operations |->
       IF p \in Waiting(o) THEN "unauthenticated" ELSE result[p]]
  /\ login' = [login EXCEPT ![o] = FALSE]
  /\ inFlight' = None

Finish(o, outcome) ==
  /\ Goto(o, "done")
  /\ result' = [result EXCEPT ![o] = outcome]
  /\ UNCHANGED <<login, inFlight>>

\* An HTTP request ends with an error.
Fail(o, outcome) ==
  \/ login[o] /\ AuthenticationFails(o)
  \/ ~login[o] /\ Finish(o, outcome)

\* The HTTP request is a read, a POST with an idempotency key or a token acquisition.
Repeatable(o) == login[o] \/ o \in Retryable

\* Fault: retryable is not looked at.
RetryOrFailAll(o, outcome) ==
  \/ /\ attempt[o] < MaxRetries
     /\ Goto(o, "sleeping")
     /\ UNCHANGED <<login, result, inFlight>>
  \/ attempt[o] = MaxRetries /\ Fail(o, outcome)

\* A timeout, a lost connection or a retryable status.
RetryOrFail(o, outcome) ==
  LET mayRetry == Repeatable(o) /\ attempt[o] < MaxRetries IN
  \/ /\ mayRetry
     /\ Goto(o, "sleeping")
     /\ UNCHANGED <<login, result, inFlight>>
  \/ ~mayRetry /\ Fail(o, outcome)

\* A slot is free: fetch is called, which rejects at once if the timer has fired.
Dequeue ==
  /\ queue # <<>> /\ Cardinality(Running) < MaxConcurrency
  /\ queue' = Tail(queue)
  /\ LET o == Head(queue) IN
     \/ /\ aborted[o]
        /\ RetryOrFail(o, "unreached")
     \/ /\ ~aborted[o]
        /\ Goto(o, "flight")
        /\ UNCHANGED <<login, result, inFlight>>
  /\ UNCHANGED <<http, token, refused, current, fresh, sezzle>>

\* The timer fires while the request waits for a slot: it keeps waiting.
TimeoutQueued(o) ==
  /\ pc[o] = "queued" /\ ~aborted[o]
  /\ aborted' = [aborted EXCEPT ![o] = TRUE]
  /\ UNCHANGED <<pc, login, attempt, status, token, refused, result, queue, cache,
                 sezzle>>

\* The timer fires, or the connection is lost, before the headers arrive or while
\* the body of an error answer is read.
NoAnswer(o) ==
  /\ pc[o] \in {"flight", "erring"}
  /\ late' = IF pc[o] = "flight" /\ ~login[o] /\ o \in Writes THEN late \cup {o} ELSE late
  /\ RetryOrFail(o, "unreached")
  /\ UNCHANGED <<http, token, refused, queue, current, fresh, issued, valid, foreign,
                 applied>>

\* The delay of the backoff, or of Retry-After, has passed.
WakeUp(o) ==
  /\ pc[o] = "sleeping"
  /\ Enqueue(o, attempt[o] + 1)
  /\ UNCHANGED <<login, token, refused, result, cache, sezzle>>

-----------------------------------------------------------------------------
(* AuthClient and #withAuthentication.                                     *)

\* Fault: a forced refresh is content with the cached token.
AuthenticateUnforced(o, force) ==
  \/ /\ current # 0 /\ fresh
     /\ Goto(o, "authenticated")
     /\ UNCHANGED <<login, http, queue, inFlight>>
  \/ /\ ~(current # 0 /\ fresh) /\ inFlight # None
     /\ Goto(o, "joined")
     /\ UNCHANGED <<login, http, queue, inFlight>>
  \/ /\ ~(current # 0 /\ fresh) /\ inFlight = None
     /\ inFlight' = o
     /\ login' = [login EXCEPT ![o] = TRUE]
     /\ Enqueue(o, 0)

\* Fault: acquisitions are not shared.
AuthenticateAlone(o, force) ==
  \/ /\ ~force /\ current # 0 /\ fresh
     /\ Goto(o, "authenticated")
     /\ UNCHANGED <<login, http, queue, inFlight>>
  \/ /\ force \/ current = 0 \/ ~fresh
     /\ inFlight' = o
     /\ login' = [login EXCEPT ![o] = TRUE]
     /\ Enqueue(o, 0)

\* authenticate: the cached token, the acquisition under way, or a new one.
Authenticate(o, force) ==
  LET cached == ~force /\ current # 0 /\ fresh IN
  \/ /\ cached
     /\ Goto(o, "authenticated")
     /\ UNCHANGED <<login, http, queue, inFlight>>
  \/ /\ ~cached /\ inFlight # None
     /\ Goto(o, "joined")
     /\ UNCHANGED <<login, http, queue, inFlight>>
  \/ /\ ~cached /\ inFlight = None
     /\ inFlight' = o
     /\ login' = [login EXCEPT ![o] = TRUE]
     /\ Enqueue(o, 0)

\* An operation is called; authenticateMerchant may be told to force a new token.
Begin(o) ==
  /\ pc[o] = "idle"
  /\ \E force \in {FALSE, (o \in Logins)} : Authenticate(o, force)
  /\ UNCHANGED <<token, refused, result, current, fresh, sezzle>>

\* getBearerToken resumes: it takes the token that is cached now.
TakeToken(o) ==
  /\ pc[o] = "authenticated"
  /\ \/ /\ o \in Logins
        /\ Finish(o, "ok")
        /\ UNCHANGED <<http, token, queue>>
     \/ /\ o \notin Logins /\ current = 0
        /\ Finish(o, "unauthenticated")
        /\ UNCHANGED <<http, token, queue>>
     \/ /\ o \notin Logins /\ current # 0
        /\ token' = [token EXCEPT ![o] = current]
        /\ Enqueue(o, 0)
        /\ UNCHANGED <<login, result, inFlight>>
  /\ UNCHANGED <<refused, current, fresh, sezzle>>

\* The body of an error answer is read; a first 401 starts the replay.
ReadError(o) ==
  /\ pc[o] = "erring"
  /\ \/ /\ status[o] = "unavailable"
        /\ RetryOrFail(o, "unavailable")
        /\ UNCHANGED <<http, refused, queue>>
     \/ /\ status[o] = "declined" \/ (status[o] = "unauthorized" /\ refused[o] # 0)
        /\ Fail(o, status[o])
        /\ UNCHANGED <<http, refused, queue>>
     \/ /\ status[o] = "unauthorized" /\ refused[o] = 0
        /\ refused' = [refused EXCEPT ![o] = token[o]]
        /\ Authenticate(o, TRUE)
        /\ UNCHANGED result
  /\ UNCHANGED <<token, current, fresh, sezzle>>

\* Fault: the token is cached before its merchant is looked at.
StoreTokenUnchecked(o) ==
  /\ current' = token[o] /\ fresh' = TRUE
  /\ \/ /\ token[o] \in foreign /\ Configured
        /\ AuthenticationFails(o)
     \/ /\ ~(token[o] \in foreign /\ Configured)
        /\ pc' = [p \in Operations |->
             IF p \in Waiting(o) THEN "authenticated" ELSE pc[p]]
        /\ login' = [login EXCEPT ![o] = FALSE]
        /\ inFlight' = None
        /\ UNCHANGED result

\* The end of acquireToken: the cache is emptied if the token is another merchant's.
StoreToken(o) ==
  \/ /\ token[o] \in foreign /\ Configured
     /\ current' = 0 /\ fresh' = FALSE
     /\ AuthenticationFails(o)
  \/ /\ ~(token[o] \in foreign /\ Configured)
     /\ current' = token[o] /\ fresh' = TRUE
     /\ pc' = [p \in Operations |->
          IF p \in Waiting(o) THEN "authenticated" ELSE pc[p]]
     /\ login' = [login EXCEPT ![o] = FALSE]
     /\ inFlight' = None
     /\ UNCHANGED result

\* The body of a successful answer is read, after the timer was cleared; it may break
\* off, be no JSON or not fit its schema.
ReadBody(o) ==
  /\ pc[o] = "reading"
  /\ \/ /\ Fail(o, "garbled")
        /\ UNCHANGED <<current, fresh>>
     \/ /\ login[o]
        /\ StoreToken(o)
     \/ /\ ~login[o]
        /\ Finish(o, "ok")
        /\ UNCHANGED <<current, fresh>>
  /\ UNCHANGED <<http, token, refused, queue, sezzle>>

-----------------------------------------------------------------------------
(* Sezzle and the clock.                                                   *)

CarryOut(o) ==
  applied' = IF o \in Writes THEN [applied EXCEPT ![o] = @ + 1] ELSE applied

\* Sezzle grants a token, to the configured merchant or to another one.
Grant(o) ==
  /\ pc[o] = "flight" /\ login[o]
  /\ issued < MaxTokens
  /\ issued' = issued + 1
  /\ valid' = valid \cup {issued'}
  /\ foreign' \in {foreign, foreign \cup {issued'}}
  /\ token' = [token EXCEPT ![o] = issued']
  /\ Goto(o, "reading")
  /\ UNCHANGED <<login, http, refused, result, queue, cache, applied, late>>

\* Sezzle carries out a request with a token it accepts.
Serve(o) ==
  /\ pc[o] = "flight" /\ ~login[o]
  /\ token[o] \in valid
  /\ CarryOut(o)
  /\ Goto(o, "reading")
  /\ UNCHANGED <<login, http, token, refused, result, queue, cache, issued, valid,
                 foreign, late>>

\* Sezzle answers with an error; one that is its own may follow the effect.
Refuse(o) ==
  /\ pc[o] = "flight"
  /\ \E s \in Status \ {"none"} :
       /\ s = "unauthorized" <=> (~login[o] /\ token[o] \notin valid)
       /\ status' = [status EXCEPT ![o] = s]
       /\ \/ UNCHANGED applied
          \/ s = "unavailable" /\ ~login[o] /\ CarryOut(o)
  /\ Goto(o, "erring")
  /\ UNCHANGED <<login, attempt, aborted, token, refused, result, queue, cache, issued,
                 valid, foreign, late>>

LateArrival(o) ==
  /\ o \in late
  /\ late' = late \ {o}
  /\ CarryOut(o)
  /\ UNCHANGED <<pc, login, http, token, refused, result, queue, cache, issued, valid,
                 foreign>>

\* The cached token comes within a minute of its expiry.
Age ==
  /\ current # 0 /\ fresh
  /\ fresh' = FALSE
  /\ UNCHANGED <<pc, login, http, token, refused, result, queue, current, inFlight,
                 sezzle>>

\* A token expires or is revoked.
Revoke ==
  /\ \E t \in valid : valid' = valid \ {t}
  /\ UNCHANGED <<pc, login, http, token, refused, result, queue, cache, issued, foreign,
                 applied, late>>

Environment(o) == Grant(o) \/ Serve(o) \/ Refuse(o) \/ LateArrival(o)

\* What the event loop, the timers and the connection see to.
Progress(o) ==
  TakeToken(o) \/ TimeoutQueued(o) \/ NoAnswer(o) \/ ReadError(o) \/ WakeUp(o)

Next ==
  \/ \E o \in Operations : Begin(o) \/ Progress(o) \/ ReadBody(o) \/ Environment(o)
  \/ Dequeue \/ Age \/ Revoke

Spec == Init /\ [][Next]_vars

\* The timer bounds every wait for headers and for the body of an error.
TimerSpec ==
  Spec /\ WF_vars(Dequeue) /\ \A o \in Operations : WF_vars(Progress(o))

\* Bodies of successful answers end as well.
FairSpec == TimerSpec /\ \A o \in Operations : WF_vars(ReadBody(o))

-----------------------------------------------------------------------------

\* A write is carried out at most once across retries, the refresh of its token and
\* the replay, and its outcome says so: a success was carried out, and one declined or
\* not authenticated never is (request.ts:148, sezzle-client.ts:458).
WritesOnce ==
  \A w \in Writes :
    /\ applied[w] + (IF w \in late THEN 1 ELSE 0) <= 1
    /\ result[w] \in {"ok", "garbled"} => applied[w] = 1
    /\ result[w] \in {"declined", "unauthorized", "unauthenticated"} =>
         applied[w] = 0 /\ w \notin late

\* A replay carries a newer token than the one that was refused, also when the forced
\* refresh joins an acquisition that others began before (auth-client.ts:51).
ReplayWithNewToken ==
  \A o \in Operations :
    refused[o] # 0 /\ pc[o] \in InHttp /\ ~login[o] => token[o] > refused[o]

\* The limiter's queue holds every request that waits for a slot once, and nothing
\* else: none is stranded, and none is sent after its operation ended (request.ts:141).
QueueMatchesWaiting ==
  /\ {queue[i] : i \in DOMAIN queue} = {o \in Operations : pc[o] = "queued"}
  /\ \A i, j \in DOMAIN queue : i # j => queue[i] # queue[j]

\* At most one token is being acquired, #inFlight is who acquires it for as long as it
\* does, and whoever joined waits for it (auth-client.ts:51-58).
JoinedHaveAcquirer ==
  /\ \A o \in Operations : login[o] <=> inFlight = o
  /\ \A o \in Operations : login[o] => pc[o] \in InHttp
  /\ (\E o \in Operations : pc[o] = "joined") => inFlight # None

\* No request carries a token of another merchant than the configured one, although it
\* reads the cache after an await (auth-client.ts:99, auth-client.ts:63).
OwnMerchantOnly ==
  Configured =>
    /\ current \notin foreign
    /\ \A o \in Operations : pc[o] \in InHttp /\ ~login[o] => token[o] \notin foreign

\* The cache is emptied or takes the newest token Sezzle granted, never an older one.
CacheTakesNewest == [][current' # current => current' \in {0, issued}]_vars

-----------------------------------------------------------------------------
(* The inductive invariant behind the five invariants and CacheTakesNewest. *)

\* What holds of an operation by where it is.
Stages ==
  \A o \in Operations :
    /\ pc[o] = "idle" => refused[o] = 0
    /\ pc[o] # "done" => result[o] = "none"
    /\ login[o] => status[o] # "unauthorized"
    /\ pc[o] = "sleeping" => Repeatable(o) /\ attempt[o] < MaxRetries

\* Every token known to the client was issued, and the one just granted is newer than
\* all others the client has, or has had refused.
TokensInOrder ==
  /\ current <= issued
  /\ \A o \in Operations : token[o] <= issued /\ refused[o] <= issued
  /\ \A a \in Operations : login[a] /\ pc[a] = "reading" =>
       /\ token[a] = issued /\ current < issued
       /\ \A o \in Operations : refused[o] < issued /\ (o # a => token[o] < issued)

\* Whoever wakes up from a refresh finds no token or a newer one than was refused.
RefreshIsNewer ==
  \A o \in Operations :
    pc[o] = "authenticated" /\ refused[o] # 0 => current = 0 \/ current > refused[o]

\* A write that can still be sent has not been carried out, and will not be late; one
\* that can arrive late was given up.
WritesAccounted ==
  \A w \in Writes :
    /\ \/ pc[w] \in {"idle", "joined", "authenticated", "queued", "flight", "sleeping"}
       \/ pc[w] \in InHttp /\ login[w]
       \/ pc[w] = "erring" /\ status[w] \in {"declined", "unauthorized"}
       => applied[w] = 0 /\ w \notin late
    /\ pc[w] = "reading" /\ ~login[w] => applied[w] = 1 /\ w \notin late
    /\ pc[w] = "erring" => applied[w] <= 1 /\ w \notin late /\ status[w] # "none"
    /\ w \in late => applied[w] = 0 /\ pc[w] = "done" /\ result[w] = "unreached"

ClientInvariant ==
  /\ JoinedHaveAcquirer /\ QueueMatchesWaiting
  /\ Stages /\ TokensInOrder /\ RefreshIsNewer /\ ReplayWithNewToken
  /\ OwnMerchantOnly
  /\ WritesAccounted /\ WritesOnce

-----------------------------------------------------------------------------
(* Liveness.                                                               *)

\* Every operation that is called ends, whoever else waits for the same slots and the
\* same token.
OperationsEnd == \A o \in Operations : pc[o] # "idle" ~> pc[o] = "done"

=============================================================================
