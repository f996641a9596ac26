--------------------------- MODULE MutationGuard ---------------------------
(***************************************************************************)
(* The preview, confirm, execute and record protocol of a mutation tool:   *)
(* MutationGuard (src/src/services/mutation-guard.ts) and the operations   *)
(* around it (merchant-operations.ts, webhook-operations.ts), with the     *)
(* Sezzle API they call, the storage they share, and a clock.              *)
(*                                                                         *)
(* An execution call is a process of its own.  It runs without             *)
(* interruption between two awaits and every await is a point where any    *)
(* other call, the clock, Sezzle or a restart may intervene:               *)
(*                                                                         *)
(*   idle -> read -> looked -> reserved -> consumed -> awaiting            *)
(*        -> succeeding -> succeeded        (or failing -> closing ->      *)
(*           failed, rejected, error, lost)                                *)
(***************************************************************************)
EXTENDS MutationStore, FiniteSets

CONSTANTS
  Targets,     \* orders, checkouts, webhooks: what a mutation changes
  KeyedTools,  \* tools that send the idempotency key: the financial POSTs
  Permitted,   \* <<request, snapshot, time>> triples that validation accepts
  Ttl,         \* SEZZLE_PREVIEW_TTL_SECONDS
  MaxRetries,  \* SEZZLE_MAX_RETRIES, per HTTP request
  Horizon,     \* bound on the clock
  MaxChanges,  \* bound on changes of targets by somebody else
  MaxFaults,   \* bound on storage outages
  MaxRestarts  \* bound on restarts of the process

ASSUME GuardAssumption ==
  /\ \A r \in Requests : r.target \in Targets
  /\ Ttl \in Nat /\ MaxRetries \in Nat /\ Horizon \in Nat
  /\ MaxChanges \in Nat /\ MaxFaults \in Nat /\ MaxRestarts \in Nat

Argument == [preview : PreviewIds, request : Requests, confirm : BOOLEAN]

ASSUME NoneIsNoArgument == None \notin Argument

\* Every way an execution call can have ended.
Ended == {"succeeded", "failed", "rejected", "error", "lost"}

CallState ==
  {"idle", "read", "looked", "reserved", "unreserved", "consumed", "unconsumed",
   "awaiting", "succeeding", "failing", "closing"} \cup Ended

\* The current HTTP request of a call: under way, or what came back of it.
Reply == {"none", "sent", "ok", "garbled", "declined", "unavailable", "unauthorized"}

VARIABLES
  stage,       \* per preview id: "unused", "saved", "issued" to the client, "dropped"
  pc,          \* per call: the await it is suspended at, or how it ended
  arg,         \* per call: the tool arguments
  seen,        \* per call: the target as its fresh read returned it
  loaded,      \* per call: the preview record getPreview returned
  reply,       \* per call: its current HTTP request
  tries,       \* per call: retries made of the current HTTP request
  reauthed,    \* per call: the request was replayed after a 401
  late,        \* per call: abandoned requests Sezzle may still receive
  target,      \* Sezzle's side: the current state of every target
  keys,        \* Sezzle's side: idempotency keys it has carried out
  effects,     \* history: how often Sezzle carried out a preview's mutation
  winner,      \* history: the call that reserved the operation of a preview
  now, context,
  changes, faults, restarts  \* counters for the bounds

inputVars == <<arg, seen, loaded>>
httpVars == <<reply, tries, reauthed, late>>
callVars == <<pc, inputVars, httpVars>>
sezzleVars == <<target, keys, effects>>
clockVars == <<now, context, changes, faults, restarts>>
vars == <<storeVars, stage, callVars, sezzleVars, winner, clockVars>>

TypeOK ==
  /\ StoreTypeOK
  /\ stage \in [PreviewIds -> {"unused", "saved", "issued", "dropped"}]
  /\ pc \in [Calls -> CallState]
  /\ arg \in [Calls -> Argument \cup {None}]
  /\ seen \in [Calls -> Snapshots \cup {None}]
  /\ loaded \in [Calls -> PreviewRecord \cup {None}]
  /\ reply \in [Calls -> Reply]
  /\ tries \in [Calls -> 0..MaxRetries]
  /\ reauthed \in [Calls -> BOOLEAN]
  /\ late \in [Calls -> Nat]
  /\ target \in [Targets -> Snapshots]
  /\ keys \subseteq PreviewIds
  /\ effects \in [PreviewIds -> Nat]
  /\ winner \in [PreviewIds -> Calls \cup {None}]
  /\ now \in 0..Horizon
  /\ context \in Contexts
  /\ changes \in 0..MaxChanges
  /\ faults \in 0..MaxFaults
  /\ restarts \in 0..MaxRestarts

Init ==
  /\ StoreInit
  /\ stage = [p \in PreviewIds |-> "unused"]
  /\ pc = [c \in Calls |-> "idle"]
  /\ arg = [c \in Calls |-> None]
  /\ seen = [c \in Calls |-> None]
  /\ loaded = [c \in Calls |-> None]
  /\ reply = [c \in Calls |-> "none"]
  /\ tries = [c \in Calls |-> 0]
  /\ reauthed = [c \in Calls |-> FALSE]
  /\ late = [c \in Calls |-> 0]
  /\ target \in [Targets -> Snapshots]
  /\ keys = {}
  /\ effects = [p \in PreviewIds |-> 0]
  /\ winner = [p \in PreviewIds |-> None]
  /\ now = 0
  /\ context \in Contexts
  /\ changes = 0 /\ faults = 0 /\ restarts = 0

PreviewOf(c) == arg[c].preview
Keyed(r) == r.tool \in KeyedTools
Identity(r) == <<r.tool, r.target>>
Permits(r, s) == <<r, s, now>> \in Permitted

Goto(c, state) == pc' = [pc EXCEPT ![c] = state]

-----------------------------------------------------------------------------
(* Preview calls.                                                          *)

\* createPreview saves the record.  Its read of the target is a moment earlier;
\* an execution that sees another target state cannot tell the two apart.
CreatePreview(p, r) ==
  /\ stage[p] = "unused"
  /\ storageUp
  /\ SavePreview(p, [request |-> r, context |-> context, state |-> target[r.target],
                     valid |-> Permits(r, target[r.target]),
                     expiresAt |-> now + Ttl, consumed |-> FALSE])
  /\ stage' = [stage EXCEPT ![p] = "saved"]
  /\ UNCHANGED <<callVars, sezzleVars, winner, clockVars>>

\* The preview is audited and its id returned; a failing audit withholds the id.
ReturnPreview(p) ==
  /\ stage[p] = "saved"
  /\ \/ /\ storageUp
        /\ AppendAudit(p, "preview")
        /\ stage' = [stage EXCEPT ![p] = "issued"]
     \/ /\ ~storageUp
        /\ stage' = [stage EXCEPT ![p] = "dropped"]
        /\ UNCHANGED storeVars
  /\ UNCHANGED <<callVars, sezzleVars, winner, clockVars>>

-----------------------------------------------------------------------------
(* Execution calls up to the reservation.                                  *)

\* An execution authenticates and reads its target afresh.
ReadTarget(c, p, r, confirm) ==
  /\ pc[c] = "idle"
  /\ stage[p] = "issued"
  /\ arg' = [arg EXCEPT ![c] = [preview |-> p, request |-> r, confirm |-> confirm]]
  /\ seen' = [seen EXCEPT ![c] = target[r.target]]
  /\ Goto(c, "read")
  /\ UNCHANGED <<storeVars, stage, loaded, httpVars, sezzleVars, winner, clockVars>>

\* Authentication or the read fails: the error leaves the tool call as it is.
ReadFails(c, p, r, confirm) ==
  /\ pc[c] = "idle"
  /\ stage[p] = "issued"
  /\ arg' = [arg EXCEPT ![c] = [preview |-> p, request |-> r, confirm |-> confirm]]
  /\ Goto(c, "error")
  /\ UNCHANGED <<storeVars, stage, seen, loaded, httpVars, sezzleVars, winner,
                 clockVars>>

\* #reject: audit the rejection, then throw; a failing audit throws first.
Reject(c) ==
  \/ storageUp /\ AppendAudit(c, "rejected") /\ Goto(c, "rejected")
  \/ ~storageUp /\ Goto(c, "error") /\ UNCHANGED storeVars

\* The request is valid on the state just read, and the client confirmed it.
Confirmable(c) == Permits(arg[c].request, seen[c]) /\ arg[c].confirm

BeginConfirm(c) ==
  /\ pc[c] = "read"
  /\ \/ ~Confirmable(c) /\ Reject(c) /\ UNCHANGED loaded
     \/ /\ Confirmable(c)
        /\ IF storageUp
           THEN /\ loaded' = [loaded EXCEPT ![c] = previews[PreviewOf(c)]]
                /\ Goto(c, "looked")
           ELSE Goto(c, "error") /\ UNCHANGED loaded
        /\ UNCHANGED storeVars
  /\ UNCHANGED <<stage, arg, seen, httpVars, sezzleVars, winner, clockVars>>

\* Fault: another request on the same target passes.
MatchesAnyRequest(c) ==
  LET preview == loaded[c]  request == arg[c].request IN
  /\ preview # None
  /\ ~preview.consumed
  /\ now < preview.expiresAt
  /\ Identity(preview.request) = Identity(request)
  /\ preview.context = context
  /\ preview.valid
  /\ preview.state = seen[c]

\* Fault: expiry is off by one.
MatchesAtExpiry(c) ==
  LET preview == loaded[c] IN
  /\ preview # None
  /\ ~preview.consumed
  /\ now <= preview.expiresAt
  /\ preview.context = context
  /\ preview.valid
  /\ preview.request = arg[c].request
  /\ preview.state = seen[c]

\* The checks of confirmPreview on the record it loaded, in one stretch of code.
Matches(c) ==
  LET preview == loaded[c]  request == arg[c].request IN
  /\ preview # None
  /\ ~preview.consumed
  /\ now < preview.expiresAt
  /\ Identity(preview.request) = Identity(request)
  /\ preview.context = context
  /\ preview.valid
  /\ preview.request = request
  /\ preview.state = seen[c]

CheckAndReserve(c) ==
  /\ pc[c] = "looked"
  /\ \/ ~Matches(c) /\ Reject(c) /\ UNCHANGED winner
     \/ /\ Matches(c) /\ storageUp /\ Reservable(PreviewOf(c))
        /\ ReserveOperation(PreviewOf(c))
        /\ winner' = [winner EXCEPT ![PreviewOf(c)] = c]
        /\ Goto(c, "reserved")
     \/ /\ Matches(c) /\ storageUp /\ ~Reservable(PreviewOf(c))
        /\ Goto(c, "unreserved")
        /\ UNCHANGED <<storeVars, winner>>
     \/ /\ Matches(c) /\ ~storageUp
        /\ Goto(c, "error")
        /\ UNCHANGED <<storeVars, winner>>
  /\ UNCHANGED <<stage, inputVars, httpVars, sezzleVars, clockVars>>

\* The call that reserved the operation consumes the preview.
Consume(c) ==
  /\ pc[c] = "reserved"
  /\ \/ /\ storageUp /\ Consumable(PreviewOf(c))
        /\ ConsumePreview(PreviewOf(c))
        /\ Goto(c, "consumed")
     \/ /\ storageUp /\ ~Consumable(PreviewOf(c))
        /\ Goto(c, "unconsumed")
        /\ UNCHANGED storeVars
     \/ /\ ~storageUp
        /\ Goto(c, "error")
        /\ UNCHANGED storeVars
  /\ UNCHANGED <<stage, inputVars, httpVars, sezzleVars, winner, clockVars>>

\* DUPLICATE_OPERATION: another call holds the operation, or took the preview.
RejectDuplicate(c) ==
  /\ pc[c] \in {"unreserved", "unconsumed"}
  /\ Reject(c)
  /\ UNCHANGED <<stage, inputVars, httpVars, sezzleVars, winner, clockVars>>

-----------------------------------------------------------------------------
(* The request to Sezzle.                                                  *)

\* A bearer token is at hand and the request goes out, or there is no token.
Send(c) ==
  /\ pc[c] = "consumed"
  /\ \/ Goto(c, "awaiting") /\ reply' = [reply EXCEPT ![c] = "sent"]
     \/ Goto(c, "failing") /\ UNCHANGED reply
  /\ UNCHANGED <<storeVars, stage, inputVars, tries, reauthed, late, sezzleVars,
                 winner, clockVars>>

\* Sezzle carries a request out, unless it has carried out one with its key.
CarryOut(c) ==
  LET p == PreviewOf(c)  r == arg[c].request IN
  IF Keyed(r) /\ p \in keys
  THEN UNCHANGED sezzleVars
  ELSE /\ effects' = [effects EXCEPT ![p] = @ + 1]
       /\ keys' = IF Keyed(r) THEN keys \cup {p} ELSE keys
       /\ \E s \in Snapshots : target' = [target EXCEPT ![r.target] = s]

\* Sezzle answers: success; success in a body the client cannot read; a retryable
\* error before or after the fact; a refusal (4xx, approved: false); or 401.
Answer(c) ==
  /\ pc[c] = "awaiting"
  /\ reply[c] = "sent"
  /\ \/ /\ \E answer \in {"ok", "garbled", "unavailable"} :
             reply' = [reply EXCEPT ![c] = answer]
        /\ CarryOut(c)
     \/ /\ \E answer \in {"unavailable", "declined", "unauthorized"} :
             reply' = [reply EXCEPT ![c] = answer]
        /\ UNCHANGED sezzleVars
  /\ UNCHANGED <<storeVars, stage, pc, inputVars, tries, reauthed, late, winner,
                 clockVars>>

\* A request the client gave up on reaches Sezzle after all.
LateArrival(c) ==
  /\ late[c] > 0
  /\ late' = [late EXCEPT ![c] = @ - 1]
  /\ CarryOut(c)
  /\ UNCHANGED <<storeVars, stage, pc, inputVars, reply, tries, reauthed, winner,
                 clockVars>>

\* Fault: requests without a key are retried as well.
MayRetryUnkeyed(c) == tries[c] < MaxRetries

\* HttpClient retries a request marked retryable: one that carries a key.
MayRetry(c) == Keyed(arg[c].request) /\ tries[c] < MaxRetries

RetryOrFail(c) ==
  IF MayRetry(c)
  THEN /\ tries' = [tries EXCEPT ![c] = @ + 1]
       /\ reply' = [reply EXCEPT ![c] = "sent"]
       /\ UNCHANGED pc
  ELSE /\ Goto(c, "failing")
       /\ reply' = [reply EXCEPT ![c] = "none"]
       /\ UNCHANGED tries

\* The request times out or the connection breaks, whatever Sezzle made of it, before
\* the answer or while the body of an error is read.
NoAnswer(c) ==
  /\ pc[c] = "awaiting"
  /\ reply[c] \notin {"ok", "garbled"}
  /\ late' = [late EXCEPT ![c] = IF reply[c] = "sent" THEN @ + 1 ELSE @]
  /\ RetryOrFail(c)
  /\ UNCHANGED <<storeVars, stage, inputVars, reauthed, sezzleVars, winner,
                 clockVars>>

\* After a 401 #withAuthentication forces a new token and repeats the operation,
\* once, whether or not it carries a key; without a token the call fails.
ReplayOnce(c) ==
  IF ~reauthed[c]
  THEN \/ /\ reauthed' = [reauthed EXCEPT ![c] = TRUE]
          /\ tries' = [tries EXCEPT ![c] = 0]
          /\ reply' = [reply EXCEPT ![c] = "sent"]
          /\ UNCHANGED pc
       \/ /\ Goto(c, "failing")
          /\ reply' = [reply EXCEPT ![c] = "none"]
          /\ UNCHANGED <<reauthed, tries>>
  ELSE /\ Goto(c, "failing")
       /\ reply' = [reply EXCEPT ![c] = "none"]
       /\ UNCHANGED <<reauthed, tries>>

Receive(c) ==
  /\ pc[c] = "awaiting"
  /\ \/ /\ reply[c] \in {"garbled", "declined"}
        /\ Goto(c, "failing")
        /\ reply' = [reply EXCEPT ![c] = "none"]
        /\ UNCHANGED <<tries, reauthed>>
     \/ reply[c] = "unavailable" /\ RetryOrFail(c) /\ UNCHANGED reauthed
     \/ reply[c] = "unauthorized" /\ ReplayOnce(c)
  /\ UNCHANGED <<storeVars, stage, inputVars, late, sezzleVars, winner, clockVars>>

-----------------------------------------------------------------------------
(* Recording the outcome.                                                  *)

\* Fault: an answer that is not an approval counts as success.
RecordSuccessUnapproved(c) ==
  /\ pc[c] = "awaiting"
  /\ reply[c] \in {"ok", "declined"}
  /\ reply' = [reply EXCEPT ![c] = "none"]
  /\ \/ storageUp /\ AppendAudit(c, "success") /\ Goto(c, "succeeding")
     \/ ~storageUp /\ Goto(c, "failing") /\ UNCHANGED storeVars
  /\ UNCHANGED <<stage, inputVars, tries, reauthed, late, sezzleVars, winner,
                 clockVars>>

\* Fault: a success that could not be audited is recorded all the same.
RecordSuccessUnaudited(c) ==
  /\ pc[c] = "awaiting"
  /\ reply[c] = "ok"
  /\ reply' = [reply EXCEPT ![c] = "none"]
  /\ Goto(c, "succeeding")
  /\ IF storageUp THEN AppendAudit(c, "success") ELSE UNCHANGED storeVars
  /\ UNCHANGED <<stage, inputVars, tries, reauthed, late, sezzleVars, winner,
                 clockVars>>

\* A success answer: recordSuccess audits it; an error there is caught as a failure.
RecordSuccess(c) ==
  /\ pc[c] = "awaiting"
  /\ reply[c] = "ok"
  /\ reply' = [reply EXCEPT ![c] = "none"]
  /\ \/ storageUp /\ AppendAudit(c, "success") /\ Goto(c, "succeeding")
     \/ ~storageUp /\ Goto(c, "failing") /\ UNCHANGED storeVars
  /\ UNCHANGED <<stage, inputVars, tries, reauthed, late, sezzleVars, winner,
                 clockVars>>

CompleteSuccess(c) ==
  LET p == PreviewOf(c) IN
  /\ pc[c] = "succeeding"
  /\ \/ /\ storageUp /\ Completable(p)
        /\ CompleteOperation(p, "succeeded")
        /\ Goto(c, "succeeded")
     \/ /\ ~storageUp \/ ~Completable(p)
        /\ Goto(c, "failing")
        /\ UNCHANGED storeVars
  /\ UNCHANGED <<stage, inputVars, httpVars, sezzleVars, winner, clockVars>>

\* Fault: the failure path waits for storage instead of throwing.
RecordFailureWaiting(c) ==
  /\ pc[c] = "failing"
  /\ storageUp /\ AppendAudit(c, "failure") /\ Goto(c, "closing")
  /\ UNCHANGED <<stage, inputVars, httpVars, sezzleVars, winner, clockVars>>

\* recordFailure audits whatever was thrown; an error here replaces the answer.
RecordFailure(c) ==
  /\ pc[c] = "failing"
  /\ \/ storageUp /\ AppendAudit(c, "failure") /\ Goto(c, "closing")
     \/ ~storageUp /\ Goto(c, "error") /\ UNCHANGED storeVars
  /\ UNCHANGED <<stage, inputVars, httpVars, sezzleVars, winner, clockVars>>

\* Fault: the operation is left in progress after a failure.
CompleteFailureSilently(c) ==
  /\ pc[c] = "closing"
  /\ Goto(c, "failed")
  /\ UNCHANGED <<storeVars, stage, inputVars, httpVars, sezzleVars, winner,
                 clockVars>>

CompleteFailure(c) ==
  LET p == PreviewOf(c) IN
  /\ pc[c] = "closing"
  /\ \/ /\ storageUp /\ Completable(p)
        /\ CompleteOperation(p, "failed")
        /\ Goto(c, "failed")
     \/ /\ ~storageUp \/ ~Completable(p)
        /\ Goto(c, "error")
        /\ UNCHANGED storeVars
  /\ UNCHANGED <<stage, inputVars, httpVars, sezzleVars, winner, clockVars>>

-----------------------------------------------------------------------------
(* The environment.                                                        *)

Tick ==
  /\ now < Horizon
  /\ now' = now + 1
  /\ UNCHANGED <<storeVars, stage, callVars, sezzleVars, winner, context, changes,
                 faults, restarts>>

\* The shopper, the dashboard or another client changes a target.
TargetChanges(t) ==
  /\ changes < MaxChanges
  /\ \E s \in Snapshots : target' = [target EXCEPT ![t] = s]
  /\ changes' = changes + 1
  /\ UNCHANGED <<storeVars, stage, callVars, keys, effects, winner, now, context,
                 faults, restarts>>

\* Shutdown closes the store under the calls in flight; a full disk or a lock held
\* past busy_timeout makes it throw until it recovers.
StorageFails ==
  /\ faults < MaxFaults
  /\ storageUp
  /\ SetStorageUp(FALSE)
  /\ faults' = faults + 1
  /\ UNCHANGED <<stage, callVars, sezzleVars, winner, now, context, changes,
                 restarts>>

StorageRecovers ==
  /\ ~storageUp
  /\ SetStorageUp(TRUE)
  /\ UNCHANGED <<stage, callVars, sezzleVars, winner, clockVars>>

\* The process dies with its calls and is started again, perhaps configured for
\* another merchant or environment.  Requests under way may still reach Sezzle.
Restart(ctx) ==
  /\ restarts < MaxRestarts
  /\ restarts' = restarts + 1
  /\ Reopen
  /\ context' = ctx
  /\ stage' = [p \in PreviewIds |-> IF stage[p] = "saved" THEN "dropped" ELSE stage[p]]
  /\ pc' = [c \in Calls |-> IF pc[c] \in Ended \cup {"idle"} THEN pc[c] ELSE "lost"]
  /\ late' = [c \in Calls |-> IF reply[c] = "sent" THEN late[c] + 1 ELSE late[c]]
  /\ reply' = [c \in Calls |-> "none"]
  /\ UNCHANGED <<inputVars, tries, reauthed, sezzleVars, winner, now, changes,
                 faults>>

-----------------------------------------------------------------------------

\* The steps by which a call, once begun, moves on without anybody's help but Sezzle's.
Progress(c) ==
  \/ BeginConfirm(c) \/ CheckAndReserve(c) \/ Consume(c) \/ RejectDuplicate(c)
  \/ Send(c) \/ NoAnswer(c) \/ Receive(c)
  \/ RecordSuccess(c) \/ CompleteSuccess(c) \/ RecordFailure(c) \/ CompleteFailure(c)

Sezzle(c) == Answer(c) \/ LateArrival(c)

Client ==
  \/ \E p \in PreviewIds, r \in Requests : CreatePreview(p, r)
  \/ \E p \in PreviewIds : ReturnPreview(p)
  \/ \E c \in Calls, p \in PreviewIds, r \in Requests, confirm \in BOOLEAN :
       ReadTarget(c, p, r, confirm) \/ ReadFails(c, p, r, confirm)

Environment ==
  \/ Tick
  \/ \E t \in Targets : TargetChanges(t)
  \/ StorageFails \/ StorageRecovers
  \/ \E ctx \in Contexts : Restart(ctx)

Next ==
  \/ Client
  \/ \E c \in Calls : Progress(c) \/ Sezzle(c)
  \/ Environment

Spec == Init /\ [][Next]_vars

\* The event loop resumes every settled await, and the request timeout settles the
\* wait for Sezzle.  Nothing makes clients call, Sezzle answer or storage recover.
FairSpec == Spec /\ \A c \in Calls : WF_vars(Progress(c))

-----------------------------------------------------------------------------
(* Safety.                                                                 *)

\* A request of the call is on its way to Sezzle, or was given up on and may be.
Underway(c) == late[c] > 0 \/ reply[c] = "sent"

\* Sezzle carries the mutation of a preview out at most once: whatever calls race
\* for it, whatever answers are lost, retried, replayed after a 401 or late, and
\* whenever the process restarts (mutation-guard.ts:173, request.ts:183,
\* sezzle-client.ts:458).
AtMostOnce == \A p \in PreviewIds : effects[p] <= 1

\* The call that reserved the operation of a preview acts for a client that confirmed
\* exactly the request of that preview, and the preview is spent for good.
Approved(p) ==
  LET c == winner[p] IN
  /\ c # None
  /\ PreviewOf(c) = p
  /\ arg[c].confirm
  /\ previews[p] # None =>
       /\ previews[p].request = arg[c].request
       /\ previews[p].valid
       /\ previews[p].consumed

\* Nothing reaches Sezzle, now or late, and nothing has taken effect there, that was
\* not approved; the request under way is the winner's (mutation-guard.ts:95-192).
OnlyApprovedEffects ==
  /\ \A p \in PreviewIds : effects[p] > 0 => Approved(p)
  /\ \A c \in Calls : Underway(c) => winner[PreviewOf(c)] = c /\ Approved(PreviewOf(c))

\* The call that reserves the operation is never refused the preview, so the last
\* check of confirmPreview (mutation-guard.ts:183) is never the one that decides, and
\* no preview is consumed by a call without the reservation.
ReserverConsumes ==
  /\ \A c \in Calls : pc[c] # "unconsumed"
  /\ \A p \in PreviewIds :
       previews[p] # None /\ previews[p].consumed => winner[p] # None

\* Success, reported to the client, recorded or audited, means Sezzle did carry the
\* mutation out ("Success is claimed only from an API success response").
SuccessIsReal ==
  /\ \A p \in PreviewIds : operations[p] = "succeeded" => effects[p] > 0
  /\ \A c \in Calls :
       pc[c] = "succeeded" \/ [by |-> c, result |-> "success"] \in audits
         => effects[PreviewOf(c)] > 0

Audited(c, result) == [by |-> c, result |-> result] \in audits

\* The operation record and the audit trail agree: a recorded success has its audit
\* event and no failure beside it, a recorded failure has its own, whichever storage
\* call of recordSuccess or recordFailure throws (mutation-guard.ts:202-239).
VerdictsAgree ==
  \A p \in PreviewIds :
    /\ operations[p] = "succeeded" =>
         Audited(winner[p], "success") /\ ~Audited(winner[p], "failure")
    /\ operations[p] = "failed" => Audited(winner[p], "failure")

\* An operation is reserved once ever, while its preview is still stored, unspent,
\* unexpired and of the present merchant and environment, although the checks are
\* made on a record read before an await (mutation-guard.ts:106-173).
ReservedWhileOpen ==
  [][\A p \in PreviewIds : winner'[p] # winner[p] =>
       /\ winner[p] = None
       /\ previews[p] # None
       /\ ~previews[p].consumed
       /\ now < previews[p].expiresAt
       /\ previews[p].context = context]_vars

\* A recorded verdict is never changed, and a spent preview never usable again; only
\* MemoryStore loses them, with everything else (sqlite-store.ts:226-290).
VerdictsAreFinal ==
  [][\A p \in PreviewIds : Durable =>
       /\ (operations[p] \in {"succeeded", "failed"} => operations'[p] = operations[p])
       /\ (operations[p] # "none" => operations'[p] # "none")
       /\ (previews[p] # None /\ previews[p].consumed => previews'[p] = previews[p])]_vars

-----------------------------------------------------------------------------
(* The inductive invariant behind AtMostOnce, OnlyApprovedEffects and the  *)
(* refinement.                                                             *)

\* The states of a call that has reserved its operation and not been interrupted.
Holding ==
  {"reserved", "unconsumed", "consumed", "awaiting", "succeeding", "failing",
   "closing", "succeeded", "failed"}

\* A call that has begun has its arguments.
ArgumentsGiven ==
  \A c \in Calls :
    arg[c] = None => pc[c] = "idle" /\ reply[c] = "none" /\ late[c] = 0

\* What a call has, it has from a client that holds an issued preview id.
CallsOnIssued ==
  \A c \in Calls :
    /\ arg[c] # None => stage[PreviewOf(c)] = "issued"
    /\ pc[c] # "awaiting" => reply[c] = "none"
    /\ pc[c] \in Holding \cup {"looked"} => arg[c].confirm

\* Reservations and the calls that hold them determine each other.
WinnersHold ==
  /\ \A c \in Calls :
       pc[c] \in Holding \/ late[c] > 0 => winner[PreviewOf(c)] = c
  /\ \A p \in PreviewIds : winner[p] # None =>
       /\ arg[winner[p]] # None
       /\ PreviewOf(winner[p]) = p
       /\ arg[winner[p]].confirm
       /\ pc[winner[p]] \notin {"idle", "read", "looked", "unreserved"}

\* A record read before an await differs from the stored one in consumed only.
LoadedIsStored ==
  \A c \in Calls : pc[c] = "looked" /\ loaded[c] # None =>
    /\ previews[PreviewOf(c)] # None
    /\ loaded[c] = [previews[PreviewOf(c)] EXCEPT !.consumed = loaded[c].consumed]
    /\ loaded[c].consumed => previews[PreviewOf(c)].consumed

\* A reservation can only have been lost together with the preview, by a restart.
ReservationsStored ==
  \A p \in PreviewIds :
    /\ stage[p] = "unused" => previews[p] = None
    /\ winner[p] # None /\ operations[p] = "none" => previews[p] = None
    /\ winner[p] = None => operations[p] = "none"

\* The requests of the call that may still have an effect.
Copies(c) == late[c] + (IF reply[c] = "sent" THEN 1 ELSE 0)

\* With a key the upstream counts; without one there is one request in all, and
\* none before it is sent or after it was answered 401.
EffectsCounted ==
  \A p \in PreviewIds :
    LET c == winner[p] IN
    /\ c = None => effects[p] = 0 /\ p \notin keys
    /\ c # None =>
         /\ Keyed(arg[c].request) => effects[p] = (IF p \in keys THEN 1 ELSE 0)
         /\ ~Keyed(arg[c].request) => effects[p] + Copies(c) <= 1
         /\ \/ pc[c] \in {"reserved", "unconsumed", "consumed"}
            \/ ~Keyed(arg[c].request) /\ reply[c] = "unauthorized"
            => effects[p] + Copies(c) = 0

\* A stored preview that is reserved was approved, and is spent before the first request.
ReservedAsApproved ==
  /\ \A p \in PreviewIds : winner[p] # None /\ previews[p] # None =>
       /\ previews[p].request = arg[winner[p]].request
       /\ previews[p].valid
       /\ previews[p].consumed \/ effects[p] + Copies(winner[p]) = 0
  /\ \A c \in Calls :
       /\ pc[c] = "reserved" => Consumable(PreviewOf(c))
       /\ pc[c] \in {"consumed", "awaiting"} => ~Consumable(PreviewOf(c))

MutationInvariant ==
  /\ ArgumentsGiven
  /\ CallsOnIssued
  /\ WinnersHold
  /\ LoadedIsStored
  /\ ReservationsStored
  /\ EffectsCounted
  /\ ReservedAsApproved
  /\ ReserverConsumes

\* The states of a call whose reserved operation has no verdict yet.
Undecided == {"reserved", "consumed", "awaiting", "succeeding", "failing", "closing"}

\* What a call knows and has audited of its operation, by where it is.
CallKnows(c) ==
  /\ pc[c] \in Undecided => operations[PreviewOf(c)] = "in_progress"
  /\ \/ reply[c] = "ok" \/ pc[c] \in {"succeeding", "succeeded"}
     \/ Audited(c, "success")
     => pc[c] # "idle" /\ effects[PreviewOf(c)] > 0
  /\ pc[c] = "succeeding" => Audited(c, "success")
  /\ pc[c] = "closing" => Audited(c, "failure")
  /\ Audited(c, "failure") => pc[c] \in {"closing", "failed", "error", "lost"}

\* What a recorded verdict says of the call that holds the operation.
VerdictStands(p) ==
  /\ operations[p] = "succeeded" =>
       pc[winner[p]] = "succeeded" /\ Audited(winner[p], "success")
  /\ operations[p] = "failed" => Audited(winner[p], "failure")

\* Behind SuccessIsReal and VerdictsAgree.
OutcomesRecorded ==
  /\ \A c \in Calls : CallKnows(c)
  /\ \A p \in PreviewIds : VerdictStands(p)

-----------------------------------------------------------------------------
(* Liveness.                                                               *)

\* Every execution call ends, also when Sezzle never answers or storage throws.
CallsEnd == \A c \in Calls : (pc[c] # "idle") ~> (pc[c] \in Ended)

\* A reserved operation gets its verdict, unless a crash or a storage outage came
\* between: then it stays in progress for ever and blocks the preview.
ReservationsSettle ==
  \A p \in PreviewIds :
    (operations[p] = "in_progress")
      ~> (operations[p] # "in_progress" \/ faults > 0 \/ restarts > 0)

-----------------------------------------------------------------------------
(* The protocol implements ApprovedMutation.                               *)

phaseBar ==
  [p \in PreviewIds |->
     IF winner[p] # None THEN "spent"
     ELSE IF previews[p] # None THEN "open"
     ELSE IF stage[p] = "unused" THEN "absent" ELSE "void"]

verdictBar ==
  [p \in PreviewIds |->
     IF operations[p] \in {"succeeded", "failed"} THEN operations[p] ELSE "none"]

AM == INSTANCE ApprovedMutation
        WITH Volatile <- ~Durable, phase <- phaseBar, verdict <- verdictBar

\* Behind all calls, messages, retries, restarts and storage there is one mutation
\* per preview: opened, spent, carried out and settled at most once each.
ImplementsApprovedMutation == AM!Spec

-----------------------------------------------------------------------------
(* What the documentation says and the code does not do.                   *)

\* ARCHITECTURE.md:143: "Executed operations receive an audit ID whether they succeed
\* or fail."
ExecutedIsAudited ==
  \A c \in Calls :
    /\ pc[c] \in {"succeeded", "failed", "error"}
    /\ winner[PreviewOf(c)] = c
    /\ effects[PreviewOf(c)] > 0
    => \E e \in audits : e.by = c

=============================================================================
