------------------------- MODULE WebhookIngestProofs -------------------------
(***************************************************************************)
(* Proofs about WebhookIngest and what EventTimeline reports of its        *)
(* events, for any number of deliveries, bodies, ids, storage outages and  *)
(* restarts, with either store.                                            *)
(***************************************************************************)
EXTENDS EventTimeline, DataLemmas, SequenceTheorems

InductiveInvariant == TypeOK /\ IngestInvariant

LEMMA InitInvariant == Init => InductiveInvariant
<1> SUFFICES ASSUME Init PROVE InductiveInvariant
  OBVIOUS
<1>1. TypeOK
  <2>1. /\ events \in [Ids -> {None}] /\ pc \in [Deliveries -> {"idle"}]
        /\ body \in [Deliveries -> {None}] /\ answer \in [Deliveries -> {None}]
        /\ saves \in [Ids -> {0}] /\ now = 0 /\ faults = 0 /\ restarts = 0
        /\ audits = {} /\ storageUp = TRUE /\ invalid = 0
    BY DEF Init
  <2>2. 0 \in 0..Horizon /\ 0 \in 0..MaxFaults /\ 0 \in 0..MaxRestarts
    BY IngestAssumption
  <2> QED
    BY <2>1, <2>2 DEF TypeOK, Answered
<1>2. CountsDeliveries /\ StoredById
  BY DEF Init, CountsDeliveries, StoredById, Stored
<1>3. NewOnce /\ ReceiptsInOrder
  BY DEF Init, NewOnce, ReceiptsInOrder, Stored
<1>4. AuditsMatchStore
  BY DEF Init, AuditsMatchStore
<1>5. AnswersStored
  BY DEF Init, AnswersStored
<1> QED
  BY <1>1, <1>2, <1>3, <1>4, <1>5 DEF InductiveInvariant, IngestInvariant

\* A save counts the delivery, keeps every stored event under its id, and answers
\* "new" only for an id that was not stored.
LEMMA SaveFacts ==
  ASSUME TypeOK, CountsDeliveries, StoredById, ReceiptsInOrder,
         NEW d \in Deliveries, NEW p \in Payloads, SaveWebhookEvent(d, p),
         saves' = [saves EXCEPT ![p.id] = @ + 1], now' = now
  PROVE  /\ events' \in [Ids -> Event \cup {None}]
         /\ saves' \in [Ids -> Nat]
         /\ CountsDeliveries' /\ StoredById' /\ ReceiptsInOrder'
         /\ Stored \subseteq Stored' /\ p.id \in Stored'
         /\ \A id \in Stored : \/ events'[id] = events[id]
                               \/ events'[id] = [events[id] EXCEPT !.duplicateCount = @ + 1]
         /\ \E new \in BOOLEAN :
              answer' = [answer EXCEPT ![d] = ~new] /\ (new => p.id \notin Stored)
<1> DEFINE existing == {id \in Stored : Same(p, id)}
<1>1. p \in Payload /\ p.id \in Ids /\ None \notin Event
  BY IngestAssumption DEF Payload
<1>2. CASE existing # {}
  <2>1. PICK id \in existing : events' = [events EXCEPT ![id].duplicateCount = @ + 1]
    BY <1>2 DEF SaveWebhookEvent
  <2>2. answer' = [answer EXCEPT ![d] = TRUE]
    BY <1>2 DEF SaveWebhookEvent
  <2>3. id \in Ids /\ events[id] \in Event /\ id \in Stored
    BY <2>1 DEF Stored, TypeOK
  <2>4. id = p.id
    \* Equal bodies have equal ids, so only the event of that id is the same.
    BY <2>1, <2>3 DEF Same, StoredById
  <2> DEFINE counted == [events[id] EXCEPT !.duplicateCount = @ + 1]
  <2>5. /\ counted \in Event /\ counted.payload = events[id].payload
        /\ counted.duplicateCount = events[id].duplicateCount + 1
        /\ events[id].duplicateCount \in Nat
    BY <2>3 DEF Event
  <2>6. events' = [events EXCEPT ![id] = counted]
    BY <2>1
  <2> HIDE DEF counted
  <2>7. events' \in [Ids -> Event \cup {None}] /\ saves' \in [Ids -> Nat]
    BY <1>1, <2>3, <2>5, <2>6 DEF TypeOK
  <2>8. Stored' = Stored
    BY <1>1, <2>3, <2>5, <2>6 DEF Stored, TypeOK
  <2>9. CountsDeliveries'
    BY <1>1, <2>3, <2>4, <2>5, <2>6, <2>7 DEF CountsDeliveries, TypeOK, Stored
  <2>10. StoredById'
    BY <2>3, <2>5, <2>6, <2>7, <2>8 DEF StoredById, Stored, TypeOK
  <2>11. ReceiptsInOrder'
    <3>1. \A i \in Stored : /\ events'[i].receipt = events[i].receipt
                            /\ events'[i].receivedAt = events[i].receivedAt
      BY <2>3, <2>6 DEF Stored, TypeOK, Event, counted
    <3> QED
      BY <2>8, <3>1 DEF ReceiptsInOrder
  <2>12. \A i \in Stored : \/ events'[i] = events[i]
                           \/ events'[i] = [events[i] EXCEPT !.duplicateCount = @ + 1]
    BY <2>3, <2>6 DEF Stored, TypeOK, counted
  <2>13. \E new \in BOOLEAN :
           answer' = [answer EXCEPT ![d] = ~new] /\ (new => p.id \notin Stored)
    BY <2>2
  <2> QED
    BY <2>3, <2>4, <2>7, <2>8, <2>9, <2>10, <2>12, <2>13, <2>11
<1>3. CASE existing = {}
  <2> DEFINE inserted == [payload |-> p, receivedAt |-> now, receipt |-> Cardinality(Stored),
                          duplicateCount |-> 0]
  <2>1. events' = [events EXCEPT ![p.id] = inserted] /\ answer' = [answer EXCEPT ![d] = FALSE]
    BY <1>3 DEF SaveWebhookEvent
  <2>2. p.id \notin Stored /\ events[p.id] = None
    BY <1>1, <1>3 DEF Same, Stored
  <2>3. Cardinality(Stored) \in Nat /\ IsFiniteSet(Stored)
    <3>1. IsFiniteSet(Stored)
      BY IngestAssumption, FS_Subset DEF Stored
    <3> QED
      BY <3>1, FS_CardinalityType
  <2>4. /\ inserted \in Event /\ inserted.payload = p /\ inserted.duplicateCount = 0
        /\ inserted.receivedAt = now /\ inserted.receipt = Cardinality(Stored)
    BY <1>1, <2>3, IngestAssumption DEF Event, TypeOK
  <2> HIDE DEF inserted
  <2>5. events' \in [Ids -> Event \cup {None}] /\ saves' \in [Ids -> Nat]
    BY <1>1, <2>1, <2>4 DEF TypeOK
  <2>6. Stored' = Stored \cup {p.id}
    BY <1>1, <2>1, <2>4, <2>5 DEF Stored, TypeOK
  <2>7. CountsDeliveries'
    BY <1>1, <2>1, <2>2, <2>4, <2>5 DEF CountsDeliveries, TypeOK
  <2>8. StoredById'
    BY <1>1, <2>1, <2>2, <2>4, <2>5, <2>6 DEF StoredById, Stored, TypeOK
  <2>9. \A i \in Stored : events'[i] = events[i]
    BY <1>1, <2>1, <2>2 DEF Stored, TypeOK
  <2>10. \E new \in BOOLEAN :
           answer' = [answer EXCEPT ![d] = ~new] /\ (new => p.id \notin Stored)
    BY <2>1, <2>2
  <2>11. ReceiptsInOrder'
    <3>1. Cardinality(Stored') = Cardinality(Stored) + 1
      BY <2>2, <2>3, <2>6, FS_AddElement
    <3>2. /\ events'[p.id].receivedAt = now /\ events'[p.id].receipt = Cardinality(Stored)
          /\ now \in Nat
      BY <1>1, <2>1, <2>4, IngestAssumption DEF TypeOK
    <3>3. \A i \in Stored : /\ events[i].receivedAt \in Nat /\ events[i].receipt \in Nat
                            /\ events[i].receivedAt <= now
                            /\ events[i].receipt < Cardinality(Stored)
      BY DEF ReceiptsInOrder, Stored, TypeOK, Event
    <3> SUFFICES ASSUME NEW a \in Stored', NEW b \in Stored'
                 PROVE  /\ events'[a].receivedAt <= now
                        /\ events'[a].receipt < Cardinality(Stored')
                        /\ a # b => events'[a].receipt # events'[b].receipt
                        /\ events'[a].receipt < events'[b].receipt =>
                             events'[a].receivedAt <= events'[b].receivedAt
      BY DEF ReceiptsInOrder
    <3>4. CASE a \in Stored /\ b \in Stored
      BY <2>3, <2>9, <3>1, <3>3, <3>4 DEF ReceiptsInOrder
    <3>5. CASE a = p.id \/ b = p.id
      BY <2>2, <2>3, <2>6, <2>9, <3>1, <3>2, <3>3, <3>5
    <3> QED
      BY <2>6, <3>4, <3>5
  <2> QED
    BY <2>5, <2>6, <2>7, <2>8, <2>9, <2>10, <2>11
<1> QED
  BY <1>2, <1>3

\* A step of one delivery, other than a save, leaves the stored events alone and takes
\* the delivery to an answer or a refusal, with an audit of what it says.
LEMMA OtherDeliverySteps ==
  ASSUME InductiveInvariant, NEW d \in Deliveries,
         \/ IngestForged(d) \/ IngestMalformed(d) \/ RecordIngested(d) \/ RecordRefused(d)
  PROVE  InductiveInvariant'
<1> USE DEF InductiveInvariant, IngestInvariant
<1>1. UNCHANGED <<events, storageUp, body, answer, now, saves, faults, restarts>>
  BY DEF IngestForged, IngestMalformed, RecordIngested, RecordRefused
<1>2. \/ /\ pc[d] = "idle" /\ pc' = [pc EXCEPT ![d] = "refusing"] /\ audits' = audits
      \/ /\ pc[d] = "saved" /\ pc' = [pc EXCEPT ![d] = "accepted"]
         /\ audits' = audits \cup {<<d, "success">>}
      \/ /\ pc[d] = "saved" /\ pc' = [pc EXCEPT ![d] = "refusing"] /\ audits' = audits
         /\ ~storageUp
      \/ /\ pc[d] = "refusing" /\ pc' = [pc EXCEPT ![d] = "rejected"]
         /\ audits' = audits \cup {<<d, "rejected">>}
      \/ /\ pc[d] = "refusing" /\ pc' = [pc EXCEPT ![d] = "error"] /\ audits' = audits
  BY DEF IngestForged, IngestMalformed, RecordIngested, RecordRefused, Goto
<1>3. invalid' \in Nat
  BY DEF IngestForged, IngestMalformed, RecordIngested, RecordRefused, TypeOK
<1>4. TypeOK'
  BY <1>1, <1>2, <1>3 DEF TypeOK, Answered
<1>5. /\ CountsDeliveries' /\ NewOnce' /\ StoredById' /\ ReceiptsInOrder'
      /\ Stored' = Stored
  BY <1>1 DEF CountsDeliveries, NewOnce, StoredById, ReceiptsInOrder, Stored
<1>6. AuditsMatchStore'
  <2> SUFFICES ASSUME NEW e \in Deliveries
               PROVE  /\ <<e, "success">> \in audits' =>
                           body[e] # None /\ body[e].id \in Stored
                      /\ pc'[e] = "accepted" /\ (Durable \/ restarts = 0) =>
                           <<e, "success">> \in audits'
                      /\ pc'[e] \in {"rejected", "error"} /\ faults = 0 => answer[e] = None
    BY <1>1, <1>5 DEF AuditsMatchStore
  <2>1. pc' = [pc EXCEPT ![d] = pc'[d]]
    BY <1>2 DEF TypeOK
  <2>2. <<e, "success">> \in audits' => body[e] # None /\ body[e].id \in Stored
    BY <1>2 DEF AuditsMatchStore, AnswersStored
  <2>3. pc'[e] = "accepted" /\ (Durable \/ restarts = 0) => <<e, "success">> \in audits'
    BY <1>2, <2>1 DEF AuditsMatchStore, TypeOK
  <2>4. pc'[e] \in {"rejected", "error"} /\ faults = 0 => answer[e] = None
    BY <1>2, <2>1 DEF AuditsMatchStore, AnswersStored, TypeOK
  <2> QED
    BY <2>2, <2>3, <2>4
<1>7. AnswersStored'
  BY <1>1, <1>2, <1>5 DEF AnswersStored, TypeOK
<1> QED
  BY <1>4, <1>5, <1>6, <1>7

\* Ingesting a delivery keeps the invariant.
LEMMA IngestStep ==
  ASSUME InductiveInvariant, NEW d \in Deliveries, NEW p \in Payloads, Ingest(d, p)
  PROVE  InductiveInvariant'
<1> USE DEF InductiveInvariant, IngestInvariant
<1>1. /\ pc[d] = "idle" /\ body' = [body EXCEPT ![d] = p]
      /\ UNCHANGED <<audits, storageUp, invalid, now, faults, restarts>>
  BY DEF Ingest
<1>2. p \in Payload /\ p.id \in Ids /\ p # None /\ None \notin BOOLEAN
  BY IngestAssumption DEF Payload
<1>3. body[d] = None /\ answer[d] = None
  BY <1>1 DEF AnswersStored
<1>4. CASE ~storageUp
  <2>1. pc' = [pc EXCEPT ![d] = "refusing"] /\ UNCHANGED <<events, answer, saves>>
    BY <1>4 DEF Ingest, Goto
  <2>2. TypeOK'
    BY <1>1, <2>1 DEF TypeOK
  <2>3. CountsDeliveries' /\ StoredById' /\ ReceiptsInOrder' /\ Stored' = Stored
    BY <1>1, <2>1 DEF CountsDeliveries, StoredById, ReceiptsInOrder, Stored
  <2>4. NewOnce'
    BY <1>1, <1>2, <1>3, <2>1 DEF NewOnce, AnswersStored, TypeOK
  <2>5. AuditsMatchStore'
    BY <1>1, <1>3, <2>1, <2>3 DEF AuditsMatchStore, TypeOK
  <2>6. AnswersStored'
    BY <1>1, <1>2, <1>3, <2>1, <2>3 DEF AnswersStored, TypeOK
  <2> QED
    BY <2>2, <2>3, <2>4, <2>5, <2>6
<1>5. CASE storageUp
  <2>1. /\ SaveWebhookEvent(d, p) /\ saves' = [saves EXCEPT ![p.id] = @ + 1]
        /\ pc' = [pc EXCEPT ![d] = "saved"]
    BY <1>5 DEF Ingest, Goto
  <2>2. /\ events' \in [Ids -> Event \cup {None}]
        /\ saves' \in [Ids -> Nat]
        /\ CountsDeliveries' /\ StoredById' /\ ReceiptsInOrder'
        /\ Stored \subseteq Stored' /\ p.id \in Stored'
    BY <1>1, <2>1, SaveFacts
  <2>3. PICK new \in BOOLEAN :
          answer' = [answer EXCEPT ![d] = ~new] /\ (new => p.id \notin Stored)
    BY <1>1, <2>1, SaveFacts
  <2>4. TypeOK'
    BY <1>1, <2>1, <2>2, <2>3 DEF TypeOK
  <2>5. /\ answer'[d] = ~new /\ body'[d] = p
        /\ \A e \in Deliveries \ {d} : answer'[e] = answer[e] /\ body'[e] = body[e]
    BY <1>1, <2>3 DEF TypeOK
  <2>6. NewOnce'
    <3> SUFFICES ASSUME NEW a \in Deliveries, NEW b \in Deliveries,
                        Durable \/ restarts = 0, a # b, body'[a] # None, body'[b] # None,
                        answer'[a] = FALSE, answer'[b] = FALSE, body'[a].id = body'[b].id
                 PROVE  FALSE
      BY <1>1 DEF NewOnce
    <3>1. \A e \in Deliveries \ {d} : answer[e] = FALSE => body[e].id \in Stored
      BY <1>2 DEF AnswersStored
    <3>2. CASE a # d /\ b # d
      BY <2>5, <3>2 DEF NewOnce
    <3>3. CASE a = d
      BY <2>3, <2>5, <3>1, <3>3
    <3>4. CASE b = d
      BY <2>3, <2>5, <3>1, <3>4
    <3> QED
      BY <3>2, <3>3, <3>4
  <2>7. AuditsMatchStore'
    BY <1>1, <1>3, <2>1, <2>2, <2>5 DEF AuditsMatchStore, TypeOK
  <2>8. AnswersStored'
    BY <1>1, <1>2, <1>3, <2>1, <2>2, <2>5 DEF AnswersStored, TypeOK
  <2> QED
    BY <2>2, <2>4, <2>6, <2>7, <2>8
<1> QED
  BY <1>4, <1>5

\* A restart keeps the invariant.
LEMMA RestartStep ==
  ASSUME InductiveInvariant, Restart
  PROVE  InductiveInvariant'
<1> USE DEF InductiveInvariant, IngestInvariant
<1>1. /\ restarts' = restarts + 1 /\ restarts' \in 0..MaxRestarts /\ restarts' # 0
      /\ storageUp' = TRUE /\ invalid' = 0 /\ UNCHANGED <<body, answer, now, faults>>
      /\ pc' = [d \in Deliveries |->
                  IF pc[d] \in {"saved", "refusing"} THEN "lost" ELSE pc[d]]
  BY IngestAssumption DEF Restart, TypeOK
<1>2. CASE Durable
  <2>1. UNCHANGED <<events, audits, saves>>
    BY <1>2 DEF Restart
  <2>2. TypeOK'
    BY <1>1, <2>1 DEF TypeOK, Answered
  <2>3. CountsDeliveries' /\ StoredById' /\ ReceiptsInOrder' /\ Stored' = Stored
    BY <1>1, <2>1 DEF CountsDeliveries, StoredById, ReceiptsInOrder, Stored
  <2>4. NewOnce'
    BY <1>1, <1>2 DEF NewOnce
  <2>5. AuditsMatchStore'
    BY <1>1, <1>2, <2>1, <2>3 DEF AuditsMatchStore
  <2>6. AnswersStored'
    BY <1>1, <1>2, <2>3 DEF AnswersStored
  <2> QED
    BY <2>2, <2>3, <2>4, <2>5, <2>6
<1>3. CASE ~Durable
  <2>1. /\ events' = [id \in Ids |-> None] /\ audits' = {}
        /\ saves' = [id \in Ids |-> 0]
    BY <1>3 DEF Restart
  <2>2. TypeOK'
    BY <1>1, <2>1 DEF TypeOK, Answered
  <2>3. CountsDeliveries' /\ StoredById' /\ ReceiptsInOrder'
    BY <2>1 DEF CountsDeliveries, StoredById, ReceiptsInOrder, Stored
  <2>4. NewOnce'
    BY <1>1, <1>3 DEF NewOnce
  <2>5. AuditsMatchStore'
    BY <1>1, <1>3, <2>1 DEF AuditsMatchStore
  <2>6. AnswersStored'
    BY <1>1, <1>3 DEF AnswersStored
  <2> QED
    BY <2>2, <2>3, <2>4, <2>5, <2>6
<1> QED
  BY <1>2, <1>3

LEMMA InvariantStep == InductiveInvariant /\ [Next]_vars => InductiveInvariant'
<1> SUFFICES ASSUME InductiveInvariant, [Next]_vars
             PROVE  InductiveInvariant'
  OBVIOUS
<1>1. ASSUME NEW d \in Deliveries, NEW p \in Payloads, Ingest(d, p)
      PROVE  InductiveInvariant'
  BY <1>1, IngestStep
<1>2. ASSUME NEW d \in Deliveries,
             IngestForged(d) \/ IngestMalformed(d) \/ RecordIngested(d) \/ RecordRefused(d)
      PROVE  InductiveInvariant'
  BY <1>2, OtherDeliverySteps
<1>3. CASE Restart
  BY <1>3, RestartStep
<1>4. CASE Tick \/ StorageFails \/ StorageRecovers \/ UNCHANGED vars
  <2> USE DEF InductiveInvariant, IngestInvariant
  <2>1. UNCHANGED <<events, audits, invalid, pc, body, answer, saves, restarts>>
    BY <1>4 DEF Tick, StorageFails, StorageRecovers, vars
  <2>2. /\ now' \in 0..Horizon /\ storageUp' \in BOOLEAN /\ faults' \in 0..MaxFaults
        /\ ~storageUp' => faults' > 0
        /\ faults' = 0 => faults = 0
    <3>1. /\ now \in 0..Horizon /\ storageUp \in BOOLEAN /\ faults \in 0..MaxFaults
          /\ Horizon \in Nat /\ MaxFaults \in Nat /\ (~storageUp => faults > 0)
      BY IngestAssumption DEF TypeOK, AnswersStored
    <3>2. CASE Tick
      BY <3>1, <3>2 DEF Tick
    <3>3. CASE StorageFails
      <4>1. /\ now' = now /\ storageUp' = FALSE /\ faults' = faults + 1
            /\ faults < MaxFaults
        BY <3>3 DEF StorageFails
      <4>2. faults' \in 0..MaxFaults /\ faults' > 0 /\ faults' # 0
        BY <3>1, <4>1
      <4> QED
        BY <3>1, <4>1, <4>2
    <3>4. CASE StorageRecovers
      BY <3>1, <3>4 DEF StorageRecovers
    <3>5. CASE UNCHANGED vars
      BY <3>1, <3>5 DEF vars
    <3> QED
      BY <1>4, <3>2, <3>3, <3>4, <3>5
  <2>3. TypeOK'
    BY <2>1, <2>2 DEF TypeOK
  <2>4. CountsDeliveries' /\ StoredById' /\ Stored' = Stored
    BY <2>1 DEF CountsDeliveries, StoredById, Stored
  <2>5. ReceiptsInOrder'
    <3>1. now \in Nat /\ now' \in Nat /\ now <= now'
      BY <1>4, <2>2, IngestAssumption DEF TypeOK, Tick, StorageFails, StorageRecovers, vars
    <3>2. \A i \in Stored : events[i].receivedAt \in Nat
      BY DEF Stored, TypeOK, Event
    <3> QED
      BY <2>1, <2>4, <3>1, <3>2 DEF ReceiptsInOrder
  <2>6. NewOnce'
    BY <2>1 DEF NewOnce
  <2>7. AuditsMatchStore'
    BY <2>1, <2>2, <2>4 DEF AuditsMatchStore
  <2>8. AnswersStored'
    BY <2>1, <2>2, <2>4 DEF AnswersStored
  <2> QED
    BY <2>3, <2>4, <2>6, <2>7, <2>8, <2>5
<1> QED
  BY <1>1, <1>2, <1>3, <1>4 DEF Next

LEMMA InvariantHolds == Spec => []InductiveInvariant
BY InitInvariant, InvariantStep, PTL DEF Spec

-----------------------------------------------------------------------------

\* The invariants of the runs, in one: counts, answers, audits and the store agree.
THEOREM IngestInvariantCorrect == Spec => []IngestInvariant
<1>1. InductiveInvariant => IngestInvariant
  BY DEF InductiveInvariant
<1> QED
  BY <1>1, InvariantHolds, PTL

\* Every save of an event but the first is counted as a duplicate, none is lost.
THEOREM CountsDeliveriesCorrect == Spec => []CountsDeliveries
<1>1. InductiveInvariant => CountsDeliveries
  BY DEF InductiveInvariant, IngestInvariant
<1> QED
  BY <1>1, InvariantHolds, PTL

\* At most one delivery of an event is answered as new.
THEOREM NewOnceCorrect == Spec => []NewOnce
<1>1. InductiveInvariant => NewOnce
  BY DEF InductiveInvariant, IngestInvariant
<1> QED
  BY <1>1, InvariantHolds, PTL

\* The audits of ingestion and the stored events agree, outages apart.
THEOREM AuditsMatchStoreCorrect == Spec => []AuditsMatchStore
<1>1. InductiveInvariant => AuditsMatchStore
  BY DEF InductiveInvariant, IngestInvariant
<1> QED
  BY <1>1, InvariantHolds, PTL

\* No later delivery changes a stored event but for its count.
THEOREM FirstVersionStandsCorrect == Spec => FirstVersionStands
<1> DEFINE Stands ==
      \A id \in Stored :
        \/ events'[id] = events[id]
        \/ events'[id] = [events[id] EXCEPT !.duplicateCount = @ + 1]
        \/ ~Durable /\ events'[id] = None
<1>1. InductiveInvariant /\ [Next]_vars => [Stands]_vars
  <2> SUFFICES ASSUME InductiveInvariant, Next PROVE Stands
    OBVIOUS
  <2>1. ASSUME NEW d \in Deliveries, NEW p \in Payloads, Ingest(d, p)
        PROVE  Stands
    BY <2>1, SaveFacts DEF Ingest, InductiveInvariant, IngestInvariant
  <2>2. CASE events' = events
    BY <2>2
  <2>3. CASE Restart
    BY <2>3 DEF Restart, Stored
  <2> QED
    BY <2>1, <2>2, <2>3 DEF Next, IngestForged, IngestMalformed, RecordIngested,
      RecordRefused, Tick, StorageFails, StorageRecovers
<1> QED
  BY <1>1, InvariantHolds, PTL DEF Spec, FirstVersionStands

-----------------------------------------------------------------------------
(* Texts and instants.                                                     *)

\* Of one length, a sequence comes before another as their first difference says.
LEMMA PrecedesAt ==
  ASSUME NEW n \in Nat, NEW s \in [1..n -> Int], NEW t \in [1..n -> Int]
  PROVE  Precedes(s, t) <=>
           \E i \in 1..n : s[i] < t[i] /\ \A j \in 1..(i - 1) : s[j] = t[j]
<1>1. \A i \in 1..n : At(s, i) = s[i] /\ At(t, i) = t[i]
  BY DEF At
<1>2. DOMAIN s \cup DOMAIN t = 1..n
  OBVIOUS
<1>3. \A i \in 1..n : \A j \in 1..(i - 1) : j \in 1..n
  OBVIOUS
<1> QED BY <1>1, <1>2, <1>3 DEF Precedes

\* Two sequences of one length that differ have a first difference.
LEMMA FirstDifference ==
  ASSUME NEW n \in Nat, NEW s \in [1..n -> Int], NEW t \in [1..n -> Int], s # t
  PROVE  \E i \in 1..n : s[i] # t[i] /\ \A j \in 1..(i - 1) : s[j] = t[j]
<1> SUFFICES ASSUME \A i \in 1..n : (\A j \in 1..(i - 1) : s[j] = t[j]) => s[i] = t[i]
             PROVE  FALSE
  OBVIOUS
<1> DEFINE P == {k \in Nat : \A j \in 1..n : j <= k => s[j] = t[j]}
<1>1. 0 \in P
  OBVIOUS
<1>2. ASSUME NEW k \in Nat, k \in P PROVE k + 1 \in P
  <2> SUFFICES ASSUME NEW j \in 1..n, j = k + 1 PROVE s[j] = t[j]
    BY <1>2
  <2>1. \A i \in 1..(j - 1) : i \in 1..n /\ i <= k
    OBVIOUS
  <2> QED BY <1>2, <2>1
<1> HIDE DEF P
<1>3. n \in P
  BY <1>1, <1>2, Induction
<1> QED BY <1>3 DEF P

\* On sequences of one length, to precede is a strict total order.
LEMMA PrecedesOrders ==
  ASSUME NEW n \in Nat, NEW s \in [1..n -> Int], NEW t \in [1..n -> Int]
  PROVE  /\ ~(Precedes(s, t) /\ Precedes(t, s))
         /\ s = t <=> ~Precedes(s, t) /\ ~Precedes(t, s)
         /\ \A u \in [1..n -> Int] :
              /\ Precedes(s, t) /\ Precedes(t, u) => Precedes(s, u)
              /\ ~Precedes(t, s) /\ ~Precedes(u, t) => ~Precedes(u, s)
<1> DEFINE Less(p, q) == \E i \in 1..n : p[i] < q[i] /\ \A j \in 1..(i - 1) : p[j] = q[j]
<1>1. \A p, q \in [1..n -> Int] : Precedes(p, q) <=> Less(p, q)
  BY PrecedesAt
<1>2. ASSUME NEW p \in [1..n -> Int], NEW q \in [1..n -> Int], NEW u \in [1..n -> Int],
             Less(p, q), Less(q, u)
      PROVE  Less(p, u)
  <2>1. PICK i \in 1..n : p[i] < q[i] /\ \A k \in 1..(i - 1) : p[k] = q[k]
    BY <1>2
  <2>2. PICK j \in 1..n : q[j] < u[j] /\ \A k \in 1..(j - 1) : q[k] = u[k]
    BY <1>2
  <2>3. /\ \A k \in 1..n : p[k] \in Int /\ q[k] \in Int /\ u[k] \in Int
    OBVIOUS
  <2>4. CASE i <= j
    <3>1. \A k \in 1..(i - 1) : k \in 1..(j - 1)
      BY <2>4
    <3>2. q[i] <= u[i]
      BY <2>2, <2>3, <2>4
    <3>3. p[i] < u[i]
      BY <2>1, <2>3, <3>2
    <3>4. ASSUME NEW k \in 1..(i - 1) PROVE p[k] = u[k]
      BY <2>1, <2>2, <3>1
    <3> QED BY <3>3, <3>4
  <2>5. CASE j < i
    <3>1. j \in 1..(i - 1) /\ \A k \in 1..(j - 1) : k \in 1..(i - 1)
      BY <2>5
    <3> QED BY <2>1, <2>2, <2>3, <3>1
  <2> QED BY <2>4, <2>5
<1>3. \A p \in [1..n -> Int] : ~Less(p, p)
  OBVIOUS
<1>4. ASSUME NEW p \in [1..n -> Int], NEW q \in [1..n -> Int], p # q
      PROVE  Less(p, q) \/ Less(q, p)
  <2>1. PICK i \in 1..n : p[i] # q[i] /\ \A j \in 1..(i - 1) : p[j] = q[j]
    BY <1>4, FirstDifference
  <2>2. p[i] < q[i] \/ q[i] < p[i]
    BY <2>1
  <2> QED BY <2>1, <2>2
<1> HIDE DEF Less
<1> QED BY <1>1, <1>2, <1>3, <1>4

\* r is s followed by t, element by element.
Joins(r, s, t) ==
  /\ r \in Seq(Int) /\ Len(r) = Len(s) + Len(t)
  /\ r \in [1..(Len(s) + Len(t)) -> Int]
  /\ \A i \in 1..Len(s) : r[i] = s[i]
  /\ \A i \in 1..Len(t) : r[Len(s) + i] = t[i]

\* What a sequence of integers put together from two is.
LEMMA Joined ==
  ASSUME NEW s \in Seq(Int), NEW t \in Seq(Int), NEW r, r = s \o t
  PROVE  Joins(r, s, t)
<1>1. Len(s) \in Nat /\ Len(t) \in Nat
  OBVIOUS
<1>2. /\ r \in Seq(Int) /\ Len(r) = Len(s) + Len(t)
      /\ \A i \in 1..(Len(s) + Len(t)) : r[i] = IF i <= Len(s) THEN s[i] ELSE t[i - Len(s)]
  BY ConcatProperties
<1>3. r \in [1..(Len(s) + Len(t)) -> Int]
  BY <1>2, LenProperties
<1>4. ASSUME NEW i \in 1..Len(t) PROVE r[Len(s) + i] = t[i]
  <2>1. /\ Len(s) + i \in 1..(Len(s) + Len(t)) /\ ~(Len(s) + i <= Len(s))
        /\ (Len(s) + i) - Len(s) = i
    BY <1>1
  <2> QED BY <1>2, <2>1
<1>5. ASSUME NEW i \in 1..Len(s) PROVE r[i] = s[i]
  <2>1. i \in 1..(Len(s) + Len(t)) /\ i <= Len(s)
    BY <1>1
  <2> QED BY <1>2, <2>1
<1> QED BY <1>2, <1>3, <1>4, <1>5 DEF Joins

\* The digits of a text are integers.
LEMMA DigitFacts ==
  ASSUME NEW created \in CreatedAt
  PROVE  /\ created.digits \in Seq(Int) /\ Len(created.digits) \in Nat
         /\ created.minute \in Nat /\ created.offset \in Nat
         /\ created.zone \in {"Z", "+", "-"}
<1>1. /\ created.minute \in Nat /\ created.offset \in Nat /\ created.digits \in Seq(0..59)
      /\ created.zone \in {"Z", "+", "-"}
  BY DEF CreatedAt
<1>2. created.digits \in Seq(Int)
  <2>1. 0..59 \subseteq Int
    OBVIOUS
  <2> QED BY <1>1, <2>1, SeqMonotonic
<1> QED BY <1>1, <1>2, LenProperties

\* A sequence that starts with a number and digits, and one that ends with two numbers
\* after n digits.
StartsWith(text, minute, digits) ==
  /\ text[1] = minute
  /\ \A i \in 1..Len(digits) : text[i + 1] = digits[i]

EndsWith(text, n, rank, offset) == text[n + 2] = rank /\ text[n + 3] = offset

\* What is put together from a number and digits.
LEMMA Headed ==
  ASSUME NEW minute \in Int, NEW digits \in Seq(Int), NEW head, head = <<minute>> \o digits
  PROVE  /\ head \in Seq(Int) /\ Len(head) = Len(digits) + 1
         /\ head \in [1..(Len(digits) + 1) -> Int] /\ StartsWith(head, minute, digits)
<1> DEFINE n == Len(digits)
<1>1. <<minute>> \in Seq(Int) /\ Len(<<minute>>) = 1 /\ n \in Nat
  OBVIOUS
<1>2. Joins(head, <<minute>>, digits)
  BY <1>1, Joined
<1>3. head \in Seq(Int) /\ Len(head) = 1 + n /\ head \in [1..(1 + n) -> Int]
  BY <1>1, <1>2 DEF Joins
<1>4. \A i \in 1..1 : head[i] = <<minute>>[i]
  BY <1>1, <1>2 DEF Joins
<1>5. \A i \in 1..n : head[1 + i] = digits[i]
  BY <1>1, <1>2 DEF Joins
<1>6. head[1] = minute
  BY <1>4
<1>7. 1 + n = n + 1 /\ \A i \in 1..n : 1 + i = i + 1
  BY <1>1
<1> QED BY <1>3, <1>5, <1>6, <1>7 DEF StartsWith

\* The same with two more numbers.
LEMMA Assembled ==
  ASSUME NEW minute \in Int, NEW digits \in Seq(Int), NEW rank \in Int, NEW offset \in Int,
         NEW head, NEW text,
         head = <<minute>> \o digits, text = head \o <<rank, offset>>
  PROVE  /\ text \in [1..(Len(digits) + 3) -> Int] /\ StartsWith(text, minute, digits)
         /\ EndsWith(text, Len(digits), rank, offset)
<1> DEFINE n == Len(digits)
<1>1. n \in Nat /\ <<rank, offset>> \in Seq(Int) /\ Len(<<rank, offset>>) = 2
  OBVIOUS
<1>2. /\ head \in Seq(Int) /\ Len(head) = n + 1
      /\ head[1] = minute /\ \A i \in 1..n : head[i + 1] = digits[i]
  BY Headed DEF StartsWith
<1>3. Joins(text, head, <<rank, offset>>)
  BY <1>1, <1>2, Joined
<1>4. /\ text \in [1..((n + 1) + 2) -> Int]
      /\ \A i \in 1..(n + 1) : text[i] = head[i]
      /\ \A i \in 1..2 : text[(n + 1) + i] = <<rank, offset>>[i]
  BY <1>1, <1>2, <1>3 DEF Joins
<1>5. /\ (n + 1) + 2 = n + 3 /\ (n + 1) + 1 = n + 2 /\ 1 \in 1..(n + 1)
      /\ \A i \in 1..n : i + 1 \in 1..(n + 1)
  BY <1>1
<1>6. text[n + 2] = rank /\ text[n + 3] = offset
  BY <1>4, <1>5
<1>7. text[1] = minute /\ \A i \in 1..n : text[i + 1] = digits[i]
  BY <1>2, <1>4, <1>5
<1> QED BY <1>4, <1>5, <1>6, <1>7 DEF StartsWith, EndsWith

\* What a text consists of.
LEMMA TextFacts ==
  ASSUME NEW created \in CreatedAt, NEW minus \in Int, NEW plus \in Int
  PROVE  LET n == Len(created.digits)  text == Text(created, minus, plus) IN
         /\ text \in [1..(n + 3) -> Int]
         /\ StartsWith(text, created.minute, created.digits)
         /\ EndsWith(text, n, CASE created.zone = "-" -> minus [] created.zone = "+" -> plus
                                [] created.zone = "Z" -> 61, created.offset)
<1> DEFINE rank == CASE created.zone = "-" -> minus [] created.zone = "+" -> plus
                     [] created.zone = "Z" -> 61
<1>1. rank \in Int
  BY DigitFacts
<1>2. /\ created.minute \in Int /\ created.offset \in Int /\ created.digits \in Seq(Int)
  BY DigitFacts
<1>3. Text(created, minus, plus) =
        (<<created.minute>> \o created.digits) \o <<rank, created.offset>>
  BY DEF Text
<1> HIDE DEF rank
<1> DEFINE head == <<created.minute>> \o created.digits
           text == head \o <<rank, created.offset>>
<1>4. /\ text \in [1..(Len(created.digits) + 3) -> Int]
      /\ StartsWith(text, created.minute, created.digits)
      /\ EndsWith(text, Len(created.digits), rank, created.offset)
  BY <1>1, <1>2, Assembled, Zenon
<1> QED BY <1>3, <1>4 DEF rank

\* Texts of one format come in the order of the instants, whatever the ranks of "-" and "+".
LEMMA TextsAsInstants ==
  ASSUME NEW c \in CreatedAt, NEW d \in CreatedAt, NEW minus \in Int, NEW plus \in Int,
         Len(c.digits) = Len(d.digits), c.zone = d.zone, c.offset = d.offset,
         NEW n, n = Len(c.digits), NEW shift \in Int,
         NEW s \in [1..(n + 1) -> Int], StartsWith(s, c.minute + shift, c.digits),
         NEW t \in [1..(n + 1) -> Int], StartsWith(t, d.minute + shift, d.digits)
  PROVE  /\ Text(c, minus, plus) \in [1..(n + 3) -> Int]
         /\ Precedes(Text(c, minus, plus), Text(d, minus, plus)) <=> Precedes(s, t)
<1> DEFINE x == Text(c, minus, plus)
           y == Text(d, minus, plus)
<1>1. /\ n \in Nat /\ c.minute \in Int /\ d.minute \in Int
      /\ \A i \in 1..n : c.digits[i] \in Int /\ d.digits[i] \in Int
  BY DigitFacts
<1>2. /\ x \in [1..(n + 3) -> Int] /\ StartsWith(x, c.minute, c.digits)
      /\ y \in [1..(n + 3) -> Int] /\ StartsWith(y, d.minute, d.digits)
      /\ x[n + 2] = y[n + 2] /\ x[n + 3] = y[n + 3]
  <2>1. /\ x \in [1..(n + 3) -> Int] /\ StartsWith(x, c.minute, c.digits)
        /\ y \in [1..(n + 3) -> Int] /\ StartsWith(y, d.minute, d.digits)
    BY TextFacts
  <2> DEFINE rank == CASE c.zone = "-" -> minus [] c.zone = "+" -> plus [] c.zone = "Z" -> 61
  <2>2. EndsWith(x, n, rank, c.offset)
    BY TextFacts
  <2>3. EndsWith(y, n, rank, c.offset)
    BY TextFacts
  <2> HIDE DEF x, y, rank
  <2> QED BY <2>1, <2>2, <2>3 DEF EndsWith
<1> HIDE DEF x, y
<1>3. ASSUME NEW i \in 1..(n + 1)
      PROVE  (x[i] < y[i] <=> s[i] < t[i]) /\ (x[i] = y[i] <=> s[i] = t[i])
  <2>1. CASE i = 1
    BY <1>1, <1>2, <2>1 DEF StartsWith
  <2>2. CASE i # 1
    <3>1. i - 1 \in 1..n /\ i = (i - 1) + 1
      BY <1>1, <2>2
    <3>2. x[i] = c.digits[i - 1] /\ s[i] = c.digits[i - 1]
      BY <1>2, <3>1 DEF StartsWith
    <3>3. y[i] = d.digits[i - 1] /\ t[i] = d.digits[i - 1]
      BY <1>2, <3>1 DEF StartsWith
    <3> QED BY <3>2, <3>3
  <2> QED BY <2>1, <2>2
<1>4. \A i \in 1..(n + 3) : i \notin 1..(n + 1) => i = n + 2 \/ i = n + 3
  BY <1>1
<1>5. /\ n + 1 \in Nat /\ n + 3 \in Nat /\ \A i \in 1..(n + 1) : i \in 1..(n + 3)
      /\ \A i \in 1..(n + 1) : \A j \in 1..(i - 1) : j \in 1..(n + 1)
  BY <1>1
<1>6. Precedes(x, y) <=> \E i \in 1..(n + 3) : x[i] < y[i] /\ \A j \in 1..(i - 1) : x[j] = y[j]
  BY <1>2, <1>5, PrecedesAt
<1>7. Precedes(s, t) <=> \E i \in 1..(n + 1) : s[i] < t[i] /\ \A j \in 1..(i - 1) : s[j] = t[j]
  BY <1>5, PrecedesAt
<1>8. ASSUME NEW i \in 1..(n + 3), x[i] < y[i] PROVE i \in 1..(n + 1)
  <2>1. x \in [1..(n + 3) -> Int] /\ y \in [1..(n + 3) -> Int]
    BY <1>2
  <2>2. x[i] \in Int /\ y[i] \in Int
    BY <2>1
  <2>3. x[i] # y[i]
    BY <1>8, <2>2
  <2> QED BY <1>2, <1>4, <2>3
<1>9. Precedes(x, y) <=> Precedes(s, t)
  BY <1>3, <1>5, <1>6, <1>7, <1>8
<1> QED BY <1>2, <1>9 DEF x, y

-----------------------------------------------------------------------------
(* Timelines.                                                              *)

\* The times and the receipt of a stored event are of their types.
LEMMA StoredFacts ==
  ASSUME InductiveInvariant, NEW a \in Stored
  PROVE  /\ events[a] \in Event /\ Receipt(a) \in Nat /\ ReceivedAt(a) \in Nat
         /\ Created(a) \in CreatedAt
<1>1. events[a] \in Event
  BY DEF InductiveInvariant, TypeOK, Stored
<1> QED
  BY <1>1 DEF Event, Payload, Receipt, ReceivedAt, Created

\* A listing has every event once, newest first.
LEMMA ListingFacts ==
  ASSUME InductiveInvariant, NEW key, NEW listing \in Listings(EventsOf(key)),
         NEW size, size = Cardinality(EventsOf(key))
  PROVE  /\ size \in Nat /\ DOMAIN listing = 1..size /\ Len(listing) = size
         /\ \A i \in 1..size : listing[i] \in EventsOf(key) /\ listing[i] \in Stored
         /\ \A i, j \in 1..size : i # j => listing[i] # listing[j]
         /\ \A a \in EventsOf(key) : \E i \in 1..size : listing[i] = a
<1> DEFINE E == EventsOf(key)
<1>1. IsFiniteSet(E) /\ size \in Nat /\ E \subseteq Stored
  BY IngestAssumption, FS_Subset, FS_CardinalityType DEF EventsOf, Stored
<1>2. listing \in [1..size -> E] /\ \A i, j \in 1..size : i # j => listing[i] # listing[j]
  BY DEF Listings, SetToSeqs
<1>3. Len(listing) = size
  BY <1>1, <1>2
<1>4. listing \in Injection(1..size, E)
  BY <1>2 DEF Injection, IsInjective
<1>5. Cardinality(1..size) = Cardinality(E)
  BY <1>1, FS_Interval
<1>6. listing \in Surjection(1..size, E)
  BY <1>1, <1>4, <1>5, FS_Injection
<1> QED
  BY <1>1, <1>2, <1>3, <1>6 DEF Surjection

\* Of two events of a listing, the one that a stable sort by receipt time puts first
\* was received first.
LEMMA SortedByReceipt ==
  ASSUME InductiveInvariant, Untied, NEW key, NEW listing \in Listings(EventsOf(key)),
         NEW i \in DOMAIN listing, NEW j \in DOMAIN listing, i # j,
         \/ ReceivedAt(listing[i]) < ReceivedAt(listing[j])
         \/ ~(ReceivedAt(listing[j]) < ReceivedAt(listing[i])) /\ i < j
  PROVE  Receipt(listing[i]) < Receipt(listing[j])
<1> DEFINE a == listing[i]
           b == listing[j]
<1>1. a \in Stored /\ b \in Stored /\ a # b
  BY ListingFacts
<1>2. /\ Receipt(a) \in Nat /\ Receipt(b) \in Nat
      /\ ReceivedAt(a) \in Nat /\ ReceivedAt(b) \in Nat
  BY <1>1, StoredFacts
<1>3. /\ Receipt(a) # Receipt(b)
      /\ Receipt(b) < Receipt(a) => ReceivedAt(b) <= ReceivedAt(a)
  BY <1>1 DEF InductiveInvariant, IngestInvariant, ReceiptsInOrder, Receipt, ReceivedAt
<1>4. CASE ReceivedAt(a) < ReceivedAt(b)
  BY <1>2, <1>3, <1>4
<1>5. CASE ReceivedAt(a) = ReceivedAt(b) /\ i < j
  <2>1. ~Durable
    BY <1>1, <1>5 DEF Untied
  <2>2. \/ ReceivedAt(a) > ReceivedAt(b)
        \/ ReceivedAt(a) = ReceivedAt(b) /\ (Durable \/ Receipt(a) < Receipt(b))
    BY <1>5 DEF Listings, ReceivedAt, Receipt
  <2> QED BY <1>2, <1>5, <2>1, <2>2
<1> QED BY <1>2, <1>4, <1>5

\* A listing in another order has every event once as well.
LEMMA Reordered ==
  ASSUME InductiveInvariant, NEW key, NEW listing \in Listings(EventsOf(key)),
         NEW size, size = Cardinality(EventsOf(key)), NEW rank \in Bijection(1..size, 1..size),
         NEW line, line = [m \in 1..size |-> listing[rank[m]]]
  PROVE  /\ DOMAIN line = 1..size /\ Len(line) = size
         /\ \A m \in 1..size : line[m] = listing[rank[m]] /\ rank[m] \in 1..size
         /\ \A m, n \in 1..size : m # n => rank[m] # rank[n]
         /\ \A m \in 1..size : line[m] \in EventsOf(key) /\ line[m] \in Stored
         /\ \A a \in EventsOf(key) : \E m \in 1..size : line[m] = a
<1>1. /\ size \in Nat
      /\ \A i \in 1..size : listing[i] \in EventsOf(key) /\ listing[i] \in Stored
      /\ \A a \in EventsOf(key) : \E i \in 1..size : listing[i] = a
  BY ListingFacts
<1>2. /\ \A m \in 1..size : rank[m] \in 1..size
      /\ \A m, n \in 1..size : m # n => rank[m] # rank[n]
      /\ \A i \in 1..size : \E m \in 1..size : rank[m] = i
  BY DEF Bijection, Injection, Surjection, IsInjective
<1>3. DOMAIN line = 1..size /\ Len(line) = size
  BY <1>1
<1>4. \A m \in 1..size : line[m] = listing[rank[m]]
  OBVIOUS
<1>5. ASSUME NEW a \in EventsOf(key) PROVE \E m \in 1..size : line[m] = a
  <2>1. PICK i \in 1..size : listing[i] = a
    BY <1>1
  <2>2. PICK m \in 1..size : rank[m] = i
    BY <1>2
  <2> QED BY <1>4, <2>1, <2>2
<1> QED BY <1>1, <1>2, <1>3, <1>4, <1>5

\* A stable sort by receipt time lists the events as they were received.
LEMMA ReceivedSorted ==
  ASSUME InductiveInvariant, Untied, NEW key, NEW listing \in Listings(EventsOf(key)),
         NEW received, received = Received(listing),
         NEW size, size = Cardinality(EventsOf(key))
  PROVE  /\ DOMAIN received = 1..size /\ Len(received) = size
         /\ \A m \in 1..size : received[m] \in EventsOf(key) /\ received[m] \in Stored
         /\ \A a \in EventsOf(key) : \E m \in 1..size : received[m] = a
         /\ \A m, n \in 1..size : m < n => Receipt(received[m]) < Receipt(received[n])
<1> DEFINE D == 1..size
           First(i, j) == \/ ReceivedAt(listing[i]) < ReceivedAt(listing[j])
                          \/ ~(ReceivedAt(listing[j]) < ReceivedAt(listing[i])) /\ i < j
           R == {p \in D \X D : First(p[1], p[2])}
           Ranks(rank) == \A m, n \in D : m < n => First(rank[m], rank[n])
<1>1. size \in Nat /\ DOMAIN listing = D
  BY ListingFacts
<1>2. \A i \in D : ReceivedAt(listing[i]) \in Nat
  BY ListingFacts, StoredFacts
<1>3. \A i, j \in D : <<i, j>> \in R <=> First(i, j)
  OBVIOUS
<1>4. /\ \A i, j \in D : (i # j => First(i, j) \/ First(j, i)) /\ ~(First(i, j) /\ First(j, i))
      /\ \A i, j, k \in D : First(i, j) /\ First(j, k) => First(i, k)
  BY <1>2
<1>5. Orders(R, D)
  <2> HIDE DEF R, First
  <2> QED BY <1>3, <1>4 DEF Orders
<1>6. \E rank \in Bijection(D, D) : Ranks(rank)
  <2> HIDE DEF R, First
  <2>1. PICK rank \in Bijection(D, D) : \A m, n \in D : m < n => <<rank[m], rank[n]>> \in R
    BY <1>1, <1>5, RankExists
  <2>2. \A m \in D : rank[m] \in D
    BY <2>1 DEF Bijection, Injection
  <2> QED BY <1>3, <2>1, <2>2
<1> DEFINE rank == CHOOSE r \in Bijection(D, D) : Ranks(r)
<1>7. received = [m \in D |-> listing[rank[m]]]
  BY <1>1 DEF StableSort, Received
<1>8. rank \in Bijection(D, D) /\ Ranks(rank)
  <2> HIDE DEF Ranks
  <2> QED BY <1>6
<1> HIDE DEF rank
<1>9. /\ DOMAIN received = 1..size /\ Len(received) = size
      /\ \A m \in 1..size : received[m] = listing[rank[m]] /\ rank[m] \in 1..size
      /\ \A m, n \in 1..size : m # n => rank[m] # rank[n]
      /\ \A m \in 1..size : received[m] \in EventsOf(key) /\ received[m] \in Stored
      /\ \A a \in EventsOf(key) : \E m \in 1..size : received[m] = a
  BY <1>7, <1>8, Reordered
<1>10. ASSUME NEW m \in D, NEW n \in D, m < n
       PROVE  Receipt(received[m]) < Receipt(received[n])
  <2>1. First(rank[m], rank[n])
    BY <1>8, <1>10
  <2>2. rank[m] \in DOMAIN listing /\ rank[n] \in DOMAIN listing /\ rank[m] # rank[n]
    BY <1>1, <1>9, <1>10
  <2> QED BY <1>9, <2>1, <2>2, SortedByReceipt
<1> QED BY <1>9, <1>10

\* The events of a key of one format are ordered by text, of either comparison, as they
\* are by instant, and that strictly and totally up to equal texts.
LEMMA OneFormatOrders ==
  ASSUME InductiveInvariant, NEW key, OneFormat(key)
  PROVE  \E n \in Nat :
           /\ \A a \in EventsOf(key) : /\ Collated(a) \in [1..(n + 3) -> Int]
                                       /\ CodeUnits(a) \in [1..(n + 3) -> Int]
                                       /\ Instant(a) \in [1..(n + 1) -> Int]
           /\ \A a, b \in EventsOf(key) :
                /\ Precedes(Collated(a), Collated(b)) <=> Precedes(Instant(a), Instant(b))
                /\ Precedes(CodeUnits(a), CodeUnits(b)) <=> Precedes(Instant(a), Instant(b))
<1>1. \A a \in EventsOf(key) : a \in Stored /\ Created(a) \in CreatedAt
  BY StoredFacts DEF EventsOf
<1>2. PICK e \in CreatedAt : \A a \in EventsOf(key) :
        /\ Len(Created(a).digits) = Len(e.digits) /\ Created(a).zone = e.zone
        /\ Created(a).offset = e.offset
  <2>1. CASE EventsOf(key) = {}
    <3>1. [minute |-> 0, digits |-> <<>>, zone |-> "Z", offset |-> 0] \in CreatedAt
      BY DEF CreatedAt
    <3> QED BY <2>1, <3>1
  <2>2. CASE EventsOf(key) # {}
    BY <1>1, <2>2 DEF OneFormat
  <2> QED BY <2>1, <2>2
<1> DEFINE n == Len(e.digits)
           shift == IF e.zone = "-" THEN e.offset ELSE -e.offset
           plus == IF n < 2 THEN 60 ELSE -1
<1>3. /\ n \in Nat /\ shift \in Int /\ plus \in Int
  BY DigitFacts
<1>4. ASSUME NEW a \in EventsOf(key)
      PROVE  /\ Len(Created(a).digits) = n /\ Created(a).zone = e.zone
             /\ Created(a).offset = e.offset
  BY <1>2
<1>5. ASSUME NEW a \in EventsOf(key)
      PROVE  /\ Instant(a) \in [1..(n + 1) -> Int]
             /\ StartsWith(Instant(a), Created(a).minute + shift, Created(a).digits)
  <2> DEFINE digits == Created(a).digits
             minute == Created(a).minute + shift
  <2>1. minute \in Int /\ digits \in Seq(Int) /\ Len(digits) = n
    BY <1>1, <1>3, <1>4, <1>5, DigitFacts
  <2>2. Instant(a) = <<minute>> \o digits
    <3>1. minute = IF Created(a).zone = "-" THEN Created(a).minute + Created(a).offset
                                            ELSE Created(a).minute - Created(a).offset
      BY <1>1, <1>4, <1>5, DigitFacts
    <3> QED BY <3>1 DEF Instant
  <2> HIDE DEF minute, digits
  <2>3. <<minute>> \o digits \in [1..(Len(digits) + 1) -> Int]
        /\ StartsWith(<<minute>> \o digits, minute, digits)
    BY <2>1, Headed, Zenon
  <2> QED BY <2>1, <2>2, <2>3 DEF minute, digits
<1>6. ASSUME NEW a \in EventsOf(key), NEW b \in EventsOf(key)
      PROVE  /\ Collated(a) \in [1..(n + 3) -> Int] /\ CodeUnits(a) \in [1..(n + 3) -> Int]
             /\ Precedes(Collated(a), Collated(b)) <=> Precedes(Instant(a), Instant(b))
             /\ Precedes(CodeUnits(a), CodeUnits(b)) <=> Precedes(Instant(a), Instant(b))
  <2> DEFINE c == Created(a)
             d == Created(b)
  <2>1. /\ c \in CreatedAt /\ d \in CreatedAt /\ Len(c.digits) = n /\ Len(d.digits) = n
        /\ c.zone = d.zone /\ c.offset = d.offset
    BY <1>1, <1>4
  <2>2. /\ Instant(a) \in [1..(n + 1) -> Int] /\ StartsWith(Instant(a), c.minute + shift, c.digits)
        /\ Instant(b) \in [1..(n + 1) -> Int] /\ StartsWith(Instant(b), d.minute + shift, d.digits)
    BY <1>5
  <2>3. /\ Collated(a) = Text(c, -2, plus) /\ Collated(b) = Text(d, -2, plus)
        /\ CodeUnits(a) = Text(c, -1, -2) /\ CodeUnits(b) = Text(d, -1, -2)
    BY <2>1 DEF Collated, CodeUnits
  <2> HIDE DEF n, shift, plus, c, d
  <2>4. \A minus, rank \in Int :
          /\ Text(c, minus, rank) \in [1..(n + 3) -> Int]
          /\ Precedes(Text(c, minus, rank), Text(d, minus, rank))
               <=> Precedes(Instant(a), Instant(b))
    BY <1>3, <2>1, <2>2, TextsAsInstants
  <2>5. -2 \in Int /\ -1 \in Int
    OBVIOUS
  <2>6. /\ Collated(a) \in [1..(n + 3) -> Int]
        /\ Precedes(Collated(a), Collated(b)) <=> Precedes(Instant(a), Instant(b))
    BY <1>3, <2>3, <2>4, <2>5, Zenon
  <2>7. /\ CodeUnits(a) \in [1..(n + 3) -> Int]
        /\ Precedes(CodeUnits(a), CodeUnits(b)) <=> Precedes(Instant(a), Instant(b))
    BY <2>3, <2>4, <2>5, Zenon
  <2> QED BY <2>6, <2>7
<1> HIDE DEF n
<1> QED BY <1>3, <1>5, <1>6

\* A timeline of one format is in the order of occurrence and, within one time, of receipt.
LEMMA TimelineSorted ==
  ASSUME InductiveInvariant, Untied, NEW key, OneFormat(key),
         NEW listing \in Listings(EventsOf(key)),
         NEW line, line = Timeline(listing),
         NEW size, size = Cardinality(EventsOf(key))
  PROVE  /\ DOMAIN line = 1..size /\ Len(line) = size
         /\ \A m \in 1..size : line[m] \in EventsOf(key) /\ line[m] \in Stored
         /\ \A a \in EventsOf(key) : \E m \in 1..size : line[m] = a
         /\ \A m, n \in 1..size : m < n =>
              \/ Precedes(Instant(line[m]), Instant(line[n]))
              \/ /\ ~Precedes(Instant(line[n]), Instant(line[m]))
                 /\ Receipt(line[m]) < Receipt(line[n])
<1> DEFINE D == 1..size
           Before(a, b) == \/ Precedes(Collated(a), Collated(b))
                           \/ Collated(a) = Collated(b) /\ ReceivedAt(a) < ReceivedAt(b)
           Earlier(i, j) == Precedes(Collated(listing[i]), Collated(listing[j]))
           First(i, j) == \/ Before(listing[i], listing[j])
                          \/ ~Before(listing[j], listing[i]) /\ i < j
           R == {p \in D \X D : First(p[1], p[2])}
           Ranks(rank) == \A m, n \in D : m < n => First(rank[m], rank[n])
<1>1. size \in Nat /\ DOMAIN listing = D
  BY ListingFacts
<1>2. PICK k \in Nat :
        /\ \A a \in EventsOf(key) : Collated(a) \in [1..(k + 3) -> Int]
        /\ \A a, b \in EventsOf(key) :
             Precedes(Collated(a), Collated(b)) <=> Precedes(Instant(a), Instant(b))
  BY OneFormatOrders
<1>3. \A i \in D : /\ listing[i] \in EventsOf(key) /\ ReceivedAt(listing[i]) \in Nat
                   /\ Collated(listing[i]) \in [1..(k + 3) -> Int]
  BY <1>2, ListingFacts, StoredFacts
<1>4. /\ \A i, j \in D : /\ ~(Earlier(i, j) /\ Earlier(j, i))
                         /\ Collated(listing[i]) = Collated(listing[j])
                              <=> ~Earlier(i, j) /\ ~Earlier(j, i)
      /\ \A i, j, l \in D : Earlier(i, j) /\ Earlier(j, l) => Earlier(i, l)
  <2>1. \A s, t \in [1..(k + 3) -> Int] :
          /\ ~(Precedes(s, t) /\ Precedes(t, s))
          /\ s = t <=> ~Precedes(s, t) /\ ~Precedes(t, s)
          /\ \A u \in [1..(k + 3) -> Int] : Precedes(s, t) /\ Precedes(t, u) => Precedes(s, u)
    <3>1. k + 3 \in Nat
      BY <1>2
    <3> QED BY <3>1, PrecedesOrders
  <2> QED BY <1>3, <2>1
<1>5. \A i, j \in D : <<i, j>> \in R <=> First(i, j)
  OBVIOUS
<1>6. \A i, j \in D :
        First(i, j) <=> \/ Earlier(i, j)
                        \/ /\ Collated(listing[i]) = Collated(listing[j])
                           /\ \/ ReceivedAt(listing[i]) < ReceivedAt(listing[j])
                              \/ ~(ReceivedAt(listing[j]) < ReceivedAt(listing[i])) /\ i < j
  BY <1>3, <1>4
<1>7. /\ \A i, j \in D : (i # j => First(i, j) \/ First(j, i)) /\ ~(First(i, j) /\ First(j, i))
      /\ \A i, j, l \in D : First(i, j) /\ First(j, l) => First(i, l)
  <2> DEFINE T == [i \in D |-> Collated(listing[i])]
             A == [i \in D |-> ReceivedAt(listing[i])]
  <2>1. \A i, j \in D :
          First(i, j) <=> Earlier(i, j) \/ (T[i] = T[j] /\ (A[i] < A[j] \/ (~(A[j] < A[i]) /\ i < j)))
    BY <1>6
  <2>2. \A i, j \in D : /\ ~(Earlier(i, j) /\ Earlier(j, i))
                        /\ T[i] = T[j] <=> ~Earlier(i, j) /\ ~Earlier(j, i)
    BY <1>4
  <2>3. \A i \in D : A[i] \in Nat
    BY <1>3
  <2> HIDE DEF First, Earlier, T, A
  <2>4. \A i, j \in D : (i # j => First(i, j) \/ First(j, i)) /\ ~(First(i, j) /\ First(j, i))
    BY <2>1, <2>2, <2>3
  <2>5. ASSUME NEW i \in D, NEW j \in D, NEW l \in D, First(i, j), First(j, l)
        PROVE  First(i, l)
    <3>1. CASE Earlier(i, j) /\ Earlier(j, l)
      BY <1>4, <2>1, <3>1
    <3>2. CASE Earlier(i, j) /\ T[j] = T[l]
      <4>1. ~Earlier(l, i)
        BY <1>4, <2>2, <3>2
      <4>2. T[i] # T[l]
        BY <2>2, <3>2
      <4> QED BY <2>1, <2>2, <4>1, <4>2
    <3>3. CASE T[i] = T[j] /\ Earlier(j, l)
      <4>1. ~Earlier(l, i)
        BY <1>4, <2>2, <3>3
      <4>2. T[i] # T[l]
        BY <2>2, <3>3
      <4> QED BY <2>1, <2>2, <4>1, <4>2
    <3>4. CASE T[i] = T[j] /\ T[j] = T[l]
      <4>1. ~Earlier(i, j) /\ ~Earlier(j, l) /\ T[i] = T[l]
        BY <2>2, <3>4
      <4>2. A[i] < A[l] \/ (~(A[l] < A[i]) /\ i < l)
        BY <2>1, <2>3, <2>5, <4>1
      <4> QED BY <2>1, <4>1, <4>2
    <3> QED BY <2>1, <2>5, <3>1, <3>2, <3>3, <3>4
  <2> QED BY <2>4, <2>5
<1>8. Orders(R, D)
  <2> HIDE DEF R, First
  <2> QED BY <1>5, <1>7 DEF Orders
<1>9. \E rank \in Bijection(D, D) : Ranks(rank)
  <2> HIDE DEF R, First
  <2>1. PICK rank \in Bijection(D, D) : \A m, n \in D : m < n => <<rank[m], rank[n]>> \in R
    BY <1>1, <1>8, RankExists
  <2>2. \A m \in D : rank[m] \in D
    BY <2>1 DEF Bijection, Injection
  <2> QED BY <1>5, <2>1, <2>2
<1> DEFINE rank == CHOOSE r \in Bijection(D, D) : Ranks(r)
<1>10. line = [m \in D |-> listing[rank[m]]]
  BY <1>1 DEF StableSort, Timeline
<1>11. rank \in Bijection(D, D) /\ Ranks(rank)
  <2> HIDE DEF Ranks
  <2> QED BY <1>9
<1> HIDE DEF rank
<1>12. /\ DOMAIN line = 1..size /\ Len(line) = size
       /\ \A m \in 1..size : line[m] = listing[rank[m]] /\ rank[m] \in 1..size
       /\ \A m, n \in 1..size : m # n => rank[m] # rank[n]
       /\ \A m \in 1..size : line[m] \in EventsOf(key) /\ line[m] \in Stored
       /\ \A a \in EventsOf(key) : \E m \in 1..size : line[m] = a
  BY <1>10, <1>11, Reordered
<1>13. ASSUME NEW m \in D, NEW n \in D, m < n
       PROVE  \/ Precedes(Instant(line[m]), Instant(line[n]))
              \/ /\ ~Precedes(Instant(line[n]), Instant(line[m]))
                 /\ Receipt(line[m]) < Receipt(line[n])
  <2>1. First(rank[m], rank[n])
    BY <1>11, <1>13
  <2>2. rank[m] \in DOMAIN listing /\ rank[n] \in DOMAIN listing /\ rank[m] # rank[n]
    BY <1>1, <1>12, <1>13
  <2>3. PICK i \in D, j \in D : i = rank[m] /\ j = rank[n] /\ i # j
    BY <1>1, <2>2
  <2>4. \/ Earlier(i, j)
        \/ /\ ~Earlier(j, i)
           /\ \/ ReceivedAt(listing[i]) < ReceivedAt(listing[j])
              \/ ~(ReceivedAt(listing[j]) < ReceivedAt(listing[i])) /\ i < j
    <3> HIDE DEF First, Earlier
    <3> QED BY <1>4, <1>6, <2>1, <2>3
  <2>5. line[m] = listing[i] /\ line[n] = listing[j] /\ i \in DOMAIN listing /\ j \in DOMAIN listing
    BY <1>1, <1>12, <2>3
  <2>6. /\ Earlier(i, j) <=> Precedes(Instant(line[m]), Instant(line[n]))
        /\ Earlier(j, i) <=> Precedes(Instant(line[n]), Instant(line[m]))
    BY <1>2, <1>3, <2>5
  <2> HIDE DEF Earlier
  <2>7. CASE ~Earlier(i, j)
    <3>1. Receipt(listing[i]) < Receipt(listing[j])
      BY <2>3, <2>4, <2>5, <2>7, SortedByReceipt
    <3> QED BY <2>4, <2>5, <2>6, <2>7, <3>1
  <2> QED BY <2>6, <2>7
<1> QED BY <1>12, <1>13

\* Timelines of the events of the invariant are in order.
LEMMA TimelineHolds ==
  ASSUME InductiveInvariant PROVE TimelineInOrder
<1> SUFFICES ASSUME Untied, NEW key \in Keys, OneFormat(key),
                    NEW listing \in Listings(EventsOf(key)),
                    NEW line, line = Timeline(listing)
             PROVE  /\ ToSet(line) = EventsOf(key) /\ Len(line) = Cardinality(EventsOf(key))
                    /\ \A i, j \in DOMAIN line : i < j =>
                         \/ Precedes(Instant(line[i]), Instant(line[j]))
                         \/ /\ ~Precedes(Instant(line[j]), Instant(line[i]))
                            /\ Receipt(line[i]) < Receipt(line[j])
  BY DEF TimelineInOrder, SortedByOccurrence
<1> DEFINE size == Cardinality(EventsOf(key))
<1>1. /\ DOMAIN line = 1..size /\ Len(line) = size
      /\ \A m \in 1..size : line[m] \in EventsOf(key) /\ line[m] \in Stored
      /\ \A a \in EventsOf(key) : \E m \in 1..size : line[m] = a
      /\ \A m, n \in 1..size : m < n =>
           \/ Precedes(Instant(line[m]), Instant(line[n]))
           \/ /\ ~Precedes(Instant(line[n]), Instant(line[m]))
              /\ Receipt(line[m]) < Receipt(line[n])
  BY TimelineSorted
<1> HIDE DEF size
<1>2. ToSet(line) = EventsOf(key)
  BY <1>1 DEF ToSet
<1> QED BY <1>1, <1>2 DEF size

\* The timeline of a key of one format lists every event of the key, by the instant it
\* denotes and then by receipt.
THEOREM TimelineInOrderCorrect == Spec => []TimelineInOrder
<1>1. InductiveInvariant => TimelineInOrder
  BY TimelineHolds
<1> QED
  BY <1>1, InvariantHolds, PTL
-----------------------------------------------------------------------------
(* What is out of order and what is missing.                               *)

\* What never precedes its neighbour never precedes anything before it.
LEMMA NeighboursSuffice ==
  ASSUME NEW size \in Nat, NEW k \in Nat, NEW t, \A m \in 1..size : t[m] \in [1..k -> Int],
         \A m \in 2..size : ~Precedes(t[m], t[m - 1])
  PROVE  \A m, n \in 1..size : m < n => ~Precedes(t[n], t[m])
<1> DEFINE P == {d \in Nat : \A m, n \in 1..size : n = m + (d + 1) => ~Precedes(t[n], t[m])}
<1>1. 0 \in P
  <2> SUFFICES ASSUME NEW m \in 1..size, NEW n \in 1..size, n = m + (0 + 1)
               PROVE  ~Precedes(t[n], t[m])
    OBVIOUS
  <2>1. n \in 2..size /\ m = n - 1
    OBVIOUS
  <2> QED BY <2>1
<1>2. ASSUME NEW d \in Nat, d \in P PROVE d + 1 \in P
  <2> SUFFICES ASSUME NEW m \in 1..size, NEW n \in 1..size, n = m + ((d + 1) + 1)
               PROVE  ~Precedes(t[n], t[m])
    OBVIOUS
  <2>1. n - 1 \in 1..size /\ n \in 2..size /\ n - 1 = m + (d + 1)
    OBVIOUS
  <2>2. ~Precedes(t[n - 1], t[m])
    BY <1>2, <2>1
  <2>3. ~Precedes(t[n], t[n - 1])
    BY <2>1
  <2>4. t[m] \in [1..k -> Int] /\ t[n - 1] \in [1..k -> Int] /\ t[n] \in [1..k -> Int]
    BY <2>1
  <2>5. ~Precedes(t[n - 1], t[m]) /\ ~Precedes(t[n], t[n - 1]) => ~Precedes(t[n], t[m])
    <3>1. \A q, r, s \in [1..k -> Int] :
            ~Precedes(r, q) /\ ~Precedes(s, r) => ~Precedes(s, q)
      BY PrecedesOrders
    <3> QED BY <2>4, <3>1
  <2> QED BY <2>2, <2>3, <2>5
<1> HIDE DEF P
<1>3. Nat \subseteq P
  BY <1>1, <1>2, Induction
<1> SUFFICES ASSUME NEW m \in 1..size, NEW n \in 1..size, m < n PROVE ~Precedes(t[n], t[m])
  OBVIOUS
<1>4. n - m - 1 \in P /\ n = m + ((n - m - 1) + 1)
  BY <1>3
<1> QED BY <1>4 DEF P

\* Neighbours out of order are found exactly if some two events are.
LEMMA InversionsHold ==
  ASSUME InductiveInvariant PROVE InversionsFound
<1> SUFFICES ASSUME Untied, NEW key \in Keys, OneFormat(key),
                    NEW listing \in Listings(EventsOf(key)),
                    NEW received, received = Received(listing)
             PROVE  OutOfOrder(listing) # {} <=>
                      \E a, b \in EventsOf(key) :
                        Receipt(a) < Receipt(b) /\ Precedes(Instant(b), Instant(a))
  BY DEF InversionsFound
<1> DEFINE t == [m \in DOMAIN received |-> Instant(received[m])]
<1>1. PICK size \in Nat : size = Cardinality(EventsOf(key))
  BY ListingFacts
<1>2. /\ DOMAIN received = 1..size /\ Len(received) = size
      /\ \A m \in 1..size : received[m] \in EventsOf(key) /\ received[m] \in Stored
      /\ \A a \in EventsOf(key) : \E m \in 1..size : received[m] = a
      /\ \A m, n \in 1..size : m < n => Receipt(received[m]) < Receipt(received[n])
  BY <1>1, ReceivedSorted
<1>3. PICK k \in Nat :
        /\ \A a \in EventsOf(key) : Instant(a) \in [1..(k + 1) -> Int]
        /\ \A a, b \in EventsOf(key) :
             Precedes(CodeUnits(a), CodeUnits(b)) <=> Precedes(Instant(a), Instant(b))
  BY OneFormatOrders
<1>4. \A m \in 1..size : t[m] = Instant(received[m]) /\ Receipt(received[m]) \in Nat
  BY <1>2, StoredFacts
<1>5. OutOfOrder(listing) = {m \in 2..size : Precedes(t[m], t[m - 1])}
  <2>1. OutOfOrder(listing)
          = {m \in 2..size : Precedes(CodeUnits(received[m]), CodeUnits(received[m - 1]))}
    BY <1>2 DEF OutOfOrder
  <2>2. ASSUME NEW m \in 2..size
        PROVE  Precedes(CodeUnits(received[m]), CodeUnits(received[m - 1]))
                 <=> Precedes(t[m], t[m - 1])
    <3>1. m \in 1..size /\ m - 1 \in 1..size
      OBVIOUS
    <3>2. received[m] \in EventsOf(key) /\ received[m - 1] \in EventsOf(key)
      BY <1>2, <3>1
    <3>3. t[m] = Instant(received[m]) /\ t[m - 1] = Instant(received[m - 1])
      BY <1>4, <3>1
    <3> HIDE DEF t
    <3> QED BY <1>3, <3>2, <3>3
  <2> HIDE DEF t
  <2> QED BY <2>1, <2>2
<1> HIDE DEF t
<1>6. ASSUME NEW m \in 2..size, Precedes(t[m], t[m - 1])
      PROVE  \E a, b \in EventsOf(key) :
               Receipt(a) < Receipt(b) /\ Precedes(Instant(b), Instant(a))
  <2>1. m - 1 \in 1..size /\ m \in 1..size /\ m - 1 < m
    OBVIOUS
  <2>2. /\ received[m - 1] \in EventsOf(key) /\ received[m] \in EventsOf(key)
        /\ Receipt(received[m - 1]) < Receipt(received[m])
    BY <1>2, <2>1
  <2>3. Precedes(Instant(received[m]), Instant(received[m - 1]))
    BY <1>4, <1>6, <2>1
  <2> QED BY <2>2, <2>3
<1>7. ASSUME OutOfOrder(listing) = {}, NEW a \in EventsOf(key), NEW b \in EventsOf(key),
             Receipt(a) < Receipt(b)
      PROVE  ~Precedes(Instant(b), Instant(a))
  <2>1. PICK m \in 1..size : received[m] = a
    BY <1>2
  <2>2. PICK n \in 1..size : received[n] = b
    BY <1>2
  <2>3. m < n
    <3>1. Receipt(a) \in Nat /\ Receipt(b) \in Nat /\ m # n
      BY <1>4, <1>7, <2>1, <2>2
    <3>2. ~(n < m)
      BY <1>2, <1>7, <2>1, <2>2, <3>1
    <3> QED BY <3>1, <3>2
  <2>4. \A l \in 2..size : ~Precedes(t[l], t[l - 1])
    BY <1>5, <1>7
  <2>5. k + 1 \in Nat /\ \A l \in 1..size : t[l] \in [1..(k + 1) -> Int]
    <3>1. \A l \in 1..size : t[l] = Instant(received[l]) /\ received[l] \in EventsOf(key)
      BY <1>2, <1>4
    <3> QED BY <1>3, <3>1
  <2>6. ~Precedes(t[n], t[m])
    BY <2>3, <2>4, <2>5, NeighboursSuffice
  <2> QED BY <1>4, <2>1, <2>2, <2>6
<1> QED BY <1>5, <1>6, <1>7

\* The least of some related ids is one of them.
LEMMA SmallestIn ==
  ASSUME NEW given \in SUBSET Relation, given # {}
  PROVE  Min(given) \in given
<1>1. \E r \in given : \A other \in given : r <= other
  <2>1. CASE 1 \in given
    BY <2>1 DEF Relation
  <2>2. CASE 1 \notin given /\ 2 \in given
    BY <2>2 DEF Relation
  <2>3. CASE 1 \notin given /\ 2 \notin given /\ 3 \in given
    BY <2>3 DEF Relation
  <2>4. CASE 1 \notin given /\ 2 \notin given /\ 3 \notin given /\ 4 \in given
    BY <2>4 DEF Relation
  <2>5. CASE given = {5}
    BY <2>5
  <2>6. \A r \in given : r \in {1, 2, 3, 4, 5}
    BY DEF Relation
  <2>7. 1 \notin given /\ 2 \notin given /\ 3 \notin given /\ 4 \notin given => given = {5}
    BY <2>6
  <2> QED BY <2>1, <2>2, <2>3, <2>4, <2>5, <2>7
<1> QED BY <1>1 DEF Min

\* An event related to an order is kept under the order.
LEMMA SmallestFirst ==
  ASSUME NEW given \in SUBSET Relation, 1 \in given
  PROVE  Min(given) = 1
<1>1. \A r \in given : 1 <= r /\ r \in Nat
  BY DEF Relation
<1>2. \A r \in given : (\A other \in given : r <= other) <=> r = 1
  BY <1>1
<1>3. Min(given) = CHOOSE r \in given : \A other \in given : r <= other
  BY DEF Min
<1> QED BY <1>2, <1>3

\* Events are of an order's key exactly if they are related to the order.
LEMMA MissingHold ==
  ASSUME InductiveInvariant PROVE MissingIsAbsent
<1> SUFFICES ASSUME NEW o \in Entities
             PROVE  EventsOf(<<1, o>>) = {id \in Stored : events[id].payload.related[1] = o}
  BY DEF MissingIsAbsent, Missing
<1>1. o # None
  BY IngestAssumption
<1> SUFFICES ASSUME NEW id \in Stored
             PROVE  CorrelationKey(events[id].payload) = <<1, o>>
                      <=> events[id].payload.related[1] = o
  BY DEF EventsOf
<1> DEFINE related == events[id].payload.related
           given == {r \in Relation : related[r] # None}
<1>2. 1 \in Relation /\ given \in SUBSET Relation
  BY DEF Relation
<1>3. CorrelationKey(events[id].payload)
        = IF given = {} THEN <<6, events[id].payload.id>> ELSE <<Min(given), related[Min(given)]>>
  BY DEF CorrelationKey
<1>4. CASE related[1] # None
  <2>1. 1 \in given
    BY <1>2, <1>4
  <2> HIDE DEF given
  <2>2. Min(given) = 1
    BY <1>2, <2>1, SmallestFirst
  <2> QED BY <1>3, <2>1, <2>2
<1>5. CASE related[1] = None
  <2>1. related[1] # o
    BY <1>1, <1>5
  <2>2. CASE given = {}
    BY <1>3, <2>1, <2>2
  <2>3. CASE given # {}
    <3>1. \A r \in given : r # 1
      BY <1>5
    <3>2. Min(given) \in given
      BY <1>2, <2>3, SmallestIn
    <3> HIDE DEF given
    <3> QED BY <1>3, <2>1, <2>3, <3>1, <3>2
  <2> QED BY <2>2, <2>3
<1> QED BY <1>4, <1>5

\* For keys of one format some delivery is reported out of order exactly if one was; and
\* what is reported as missing is.
THEOREM HealthReportedCorrect == Spec => []HealthReported
<1>1. InductiveInvariant => HealthReported
  BY InversionsHold, MissingHold DEF HealthReported
<1> QED
  BY <1>1, InvariantHolds, PTL
=============================================================================
