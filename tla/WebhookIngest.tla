---------------------------- MODULE WebhookIngest ----------------------------
(***************************************************************************)
(* Ingestion of webhook deliveries: WebhookOperations.ingestEvent          *)
(* (src/src/services/webhook-operations.ts), EventStore.ingest             *)
(* (event-store.ts), WebhookVerifier and saveWebhookEvent of both stores.  *)
(*                                                                         *)
(* A delivery is verified, parsed and saved without interruption; the      *)
(* audit event that follows is a step of its own.  Sezzle delivers an      *)
(* event as often as it likes, in any order, and may send a body anew with *)
(* an id it used before.                                                   *)
(***************************************************************************)
EXTENDS Integers, FiniteSets, Sequences

CONSTANTS
  Deliveries,  \* ingestion calls, each at most once
  Payloads,    \* bodies Sezzle may sign: records with the fields of Payload
  Ids,         \* webhook uuids
  Types,       \* event names
  Entities,    \* orders, sessions, disputes, merchants, customers
  Durable,     \* TRUE for SqliteStore, FALSE for MemoryStore
  Horizon,     \* bound on the clock
  MaxFaults,   \* bound on storage outages
  MaxRestarts, \* bound on restarts of the process
  None         \* absence of a value

\* The ids an event is related to, in the order in which correlationKeyFor asks for
\* them: 1 order, 2 session, 3 dispute, 4 merchant, 5 customer.
Relation == 1..5

\* A created_at text: a local time, in minutes; the seconds, if they are written, and
\* then every digit of their fraction that is; and "Z", or a sign and an offset from UTC.
CreatedAt ==
  {text \in [minute : Nat, digits : Seq(0..59), zone : {"Z", "+", "-"}, offset : Nat] :
     text.zone = "Z" => text.offset = 0}

\* A body; equal bodies have equal payload hashes.
Payload ==
  [id : Ids, type : Types, related : [Relation -> Entities \cup {None}],
   created : CreatedAt]

Event == [payload : Payload, receivedAt : Nat, receipt : Nat, duplicateCount : Nat]

ASSUME IngestAssumption ==
  /\ Payloads \subseteq Payload
  /\ None \notin Event \cup Payloads \cup Entities \cup BOOLEAN
  /\ IsFiniteSet(Ids)
  /\ Durable \in BOOLEAN
  /\ Horizon \in Nat /\ MaxFaults \in Nat /\ MaxRestarts \in Nat

VARIABLES
  events,      \* webhook_events, by event id
  audits,      \* audit events of ingestion: <<delivery, result>>
  storageUp,   \* FALSE while storage calls throw
  invalid,     \* #invalidSignatureCount, kept in memory only
  pc,          \* per delivery: "idle", "saved", "refusing", or how it was answered
  body,        \* per delivery: what was delivered, None if forged or malformed
  answer,      \* per delivery: whether it is reported as a duplicate, None if not yet
  now,
  saves,       \* history: deliveries saved per event id
  faults, restarts  \* counters for the bounds

vars == <<events, audits, storageUp, invalid, pc, body, answer, now, saves,
          faults, restarts>>

Answered == {"accepted", "rejected", "error", "lost"}

TypeOK ==
  /\ events \in [Ids -> Event \cup {None}]
  /\ audits \subseteq Deliveries \X {"success", "rejected"}
  /\ storageUp \in BOOLEAN
  /\ invalid \in Nat
  /\ pc \in [Deliveries -> {"idle", "saved", "refusing"} \cup Answered]
  /\ body \in [Deliveries -> Payloads \cup {None}]
  /\ answer \in [Deliveries -> BOOLEAN \cup {None}]
  /\ now \in 0..Horizon
  /\ saves \in [Ids -> Nat]
  /\ faults \in 0..MaxFaults
  /\ restarts \in 0..MaxRestarts

Init ==
  /\ events = [id \in Ids |-> None]
  /\ audits = {}
  /\ storageUp = TRUE
  /\ invalid = 0
  /\ pc = [d \in Deliveries |-> "idle"]
  /\ body = [d \in Deliveries |-> None]
  /\ answer = [d \in Deliveries |-> None]
  /\ now = 0
  /\ saves = [id \in Ids |-> 0]
  /\ faults = 0 /\ restarts = 0

Stored == {id \in Ids : events[id] # None}

Goto(d, state) == pc' = [pc EXCEPT ![d] = state]

-----------------------------------------------------------------------------

\* Fault: an event is recognized by its payload hash only.
SameByHash(p, id) == events[id].payload = p

\* A stored event is the same as a new one if its id or its payload hash is.
Same(p, id) == id = p.id \/ events[id].payload = p

\* saveWebhookEvent, one transaction: count a duplicate, or insert the event.
SaveWebhookEvent(d, p) ==
  LET existing == {id \in Stored : Same(p, id)} IN
  \/ /\ existing # {}
     /\ \E id \in existing :
          events' = [events EXCEPT ![id].duplicateCount = @ + 1]
     /\ answer' = [answer EXCEPT ![d] = TRUE]
  \/ /\ existing = {}
     /\ events' = [events EXCEPT ![p.id] =
          [payload |-> p, receivedAt |-> now, receipt |-> Cardinality(Stored),
           duplicateCount |-> 0]]
     /\ answer' = [answer EXCEPT ![d] = FALSE]

\* A signed body that parses: it is saved, unless storage throws.
Ingest(d, p) ==
  /\ pc[d] = "idle"
  /\ body' = [body EXCEPT ![d] = p]
  /\ \/ /\ storageUp
        /\ SaveWebhookEvent(d, p)
        /\ saves' = [saves EXCEPT ![p.id] = @ + 1]
        /\ Goto(d, "saved")
     \/ /\ ~storageUp
        /\ Goto(d, "refusing")
        /\ UNCHANGED <<events, answer, saves>>
  /\ UNCHANGED <<audits, storageUp, invalid, now, faults, restarts>>

\* A signature that does not match the body: counted, in memory, and refused.
IngestForged(d) ==
  /\ pc[d] = "idle"
  /\ invalid' = invalid + 1
  /\ Goto(d, "refusing")
  /\ UNCHANGED <<events, audits, storageUp, body, answer, now, saves, faults, restarts>>

\* A signed body that is not a webhook payload, or no secret to verify it with.
IngestMalformed(d) ==
  /\ pc[d] = "idle"
  /\ Goto(d, "refusing")
  /\ UNCHANGED <<events, audits, storageUp, invalid, body, answer, now, saves, faults,
                 restarts>>

\* Fault: a success that cannot be audited is answered nevertheless.
RecordIngestedLeniently(d) ==
  /\ pc[d] = "saved"
  /\ Goto(d, "accepted")
  /\ audits' = IF storageUp THEN audits \cup {<<d, "success">>} ELSE audits
  /\ UNCHANGED <<events, storageUp, invalid, body, answer, now, saves, faults, restarts>>

\* The success is audited and answered; an audit that throws is caught as a refusal.
RecordIngested(d) ==
  /\ pc[d] = "saved"
  /\ \/ /\ storageUp
        /\ audits' = audits \cup {<<d, "success">>}
        /\ Goto(d, "accepted")
     \/ /\ ~storageUp
        /\ Goto(d, "refusing")
        /\ UNCHANGED audits
  /\ UNCHANGED <<events, storageUp, invalid, body, answer, now, saves, faults, restarts>>

\* The catch block audits the refusal and throws; if the audit throws, that is thrown.
RecordRefused(d) ==
  /\ pc[d] = "refusing"
  /\ \/ /\ storageUp
        /\ audits' = audits \cup {<<d, "rejected">>}
        /\ Goto(d, "rejected")
     \/ /\ ~storageUp
        /\ Goto(d, "error")
        /\ UNCHANGED audits
  /\ UNCHANGED <<events, storageUp, invalid, body, answer, now, saves, faults, restarts>>

-----------------------------------------------------------------------------
(* The environment.                                                        *)

Tick ==
  /\ now < Horizon
  /\ now' = now + 1
  /\ UNCHANGED <<events, audits, storageUp, invalid, pc, body, answer, saves, faults,
                 restarts>>

\* SqliteStore throws: closed by shutdown, locked or out of space.
StorageFails ==
  /\ Durable /\ storageUp
  /\ faults < MaxFaults
  /\ faults' = faults + 1
  /\ storageUp' = FALSE
  /\ UNCHANGED <<events, audits, invalid, pc, body, answer, now, saves, restarts>>

StorageRecovers ==
  /\ ~storageUp
  /\ storageUp' = TRUE
  /\ UNCHANGED <<events, audits, invalid, pc, body, answer, now, saves, faults, restarts>>

\* A new process: calls under way are lost, and so is what was kept in memory.
Restart ==
  /\ restarts < MaxRestarts
  /\ restarts' = restarts + 1
  /\ storageUp' = TRUE
  /\ invalid' = 0
  /\ pc' = [d \in Deliveries |-> IF pc[d] \in {"saved", "refusing"} THEN "lost" ELSE pc[d]]
  /\ \/ Durable /\ UNCHANGED <<events, audits, saves>>
     \/ /\ ~Durable
        /\ events' = [id \in Ids |-> None]
        /\ audits' = {}
        /\ saves' = [id \in Ids |-> 0]
  /\ UNCHANGED <<body, answer, now, faults>>

Next ==
  \/ \E d \in Deliveries, p \in Payloads : Ingest(d, p)
  \/ \E d \in Deliveries :
       IngestForged(d) \/ IngestMalformed(d) \/ RecordIngested(d) \/ RecordRefused(d)
  \/ Tick \/ StorageFails \/ StorageRecovers \/ Restart

Spec == Init /\ [][Next]_vars

-----------------------------------------------------------------------------

\* duplicateCount counts every delivery of an event but the first, of whatever body,
\* also those whose call failed, was lost or interrupted after the save
\* (sqlite-store.ts:350, memory-store.ts:94).
CountsDeliveries ==
  \A id \in Ids :
    saves[id] = IF events[id] = None THEN 0 ELSE events[id].duplicateCount + 1

\* Of all deliveries of one event at most one is answered as new, unless MemoryStore
\* forgot the event in between (event-store.ts:137).
NewOnce ==
  \A d, e \in Deliveries :
    /\ Durable \/ restarts = 0
    /\ d # e /\ body[d] # None /\ body[e] # None
    /\ answer[d] = FALSE /\ answer[e] = FALSE
    => body[d].id # body[e].id

\* An audited or answered success is a stored event.  A refused or failed ingestion
\* stored nothing, except when storage failed between the save and the audit: then
\* the event stays although its delivery is audited as rejected
\* (webhook-operations.ts:158-187).
AuditsMatchStore ==
  \A d \in Deliveries :
    /\ <<d, "success">> \in audits => body[d] # None /\ body[d].id \in Stored
    /\ pc[d] = "accepted" /\ (Durable \/ restarts = 0) => <<d, "success">> \in audits
    /\ pc[d] \in {"rejected", "error"} /\ faults = 0 => answer[d] = None

\* Events are stored under their own ids, so a body is never saved under another one.
StoredById == \A id \in Stored : events[id].payload.id = id

\* Receipts number the events in the order in which they came.
ReceiptsInOrder ==
  \A a, b \in Stored :
    /\ events[a].receivedAt <= now /\ events[a].receipt < Cardinality(Stored)
    /\ a # b => events[a].receipt # events[b].receipt
    /\ events[a].receipt < events[b].receipt => events[a].receivedAt <= events[b].receivedAt

\* What the ingestion calls know of the store, behind NewOnce and AuditsMatchStore.
AnswersStored ==
  /\ ~storageUp => faults > 0
  /\ \A d \in Deliveries :
       /\ pc[d] = "idle" => body[d] = None /\ answer[d] = None
       /\ answer[d] # None => body[d] # None
       /\ answer[d] # None /\ (Durable \/ restarts = 0) => body[d].id \in Stored
       /\ pc[d] = "saved" => answer[d] # None /\ body[d] # None /\ body[d].id \in Stored
       /\ pc[d] = "refusing" /\ faults = 0 => answer[d] = None

IngestInvariant ==
  /\ CountsDeliveries /\ NewOnce /\ AuditsMatchStore /\ StoredById /\ ReceiptsInOrder
  /\ AnswersStored

\* The first version of an event stands: a later delivery, even with another body,
\* changes its count and nothing else ("no newer derived state is overwritten").
FirstVersionStands ==
  [][\A id \in Stored :
       \/ events'[id] = events[id]
       \/ events'[id] = [events[id] EXCEPT !.duplicateCount = @ + 1]
       \/ ~Durable /\ events'[id] = None]_vars

=============================================================================
