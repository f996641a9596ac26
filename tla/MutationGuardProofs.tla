------------------------ MODULE MutationGuardProofs ------------------------
(***************************************************************************)
(* Proofs about MutationGuard, for any number of calls, previews, requests *)
(* and target states, any retry limit and any bounds.                      *)
(***************************************************************************)
EXTENDS MutationGuard, TLAPS

\* The initial states are well typed.
LEMMA TypeInit == Init => TypeOK
  BY GuardAssumption, StoreAssumption
  DEF Init, StoreInit, TypeOK, StoreTypeOK, OperationStatus, CallState, Reply

\* A preview record of the present context and target state is well typed.
LEMMA RecordType ==
  ASSUME TypeOK, NEW r \in Requests
  PROVE  [request |-> r, context |-> context, state |-> target[r.target],
          valid |-> Permits(r, target[r.target]),
          expiresAt |-> now + Ttl, consumed |-> FALSE] \in PreviewRecord
  BY GuardAssumption DEF TypeOK, PreviewRecord, Permits

\* The steps of a client preserve the types.
LEMMA TypeClient == TypeOK /\ Client => TypeOK'
<1> SUFFICES ASSUME TypeOK, Client PROVE TypeOK'
  OBVIOUS
<1> USE DEF TypeOK, StoreTypeOK, callVars, inputVars, httpVars, sezzleVars, clockVars,
            storeVars, Goto
<1>1. ASSUME NEW p \in PreviewIds, NEW r \in Requests, CreatePreview(p, r)
      PROVE  TypeOK'
  BY <1>1, RecordType DEF CreatePreview, SavePreview
<1>2. ASSUME NEW p \in PreviewIds, ReturnPreview(p)
      PROVE  TypeOK'
  BY <1>2 DEF ReturnPreview, AppendAudit, AuditEvent
<1>3. ASSUME NEW c \in Calls, NEW p \in PreviewIds, NEW r \in Requests,
             NEW confirm \in BOOLEAN, ReadTarget(c, p, r, confirm)
      PROVE  TypeOK'
  BY <1>3, GuardAssumption DEF ReadTarget, Argument, CallState
<1>4. ASSUME NEW c \in Calls, NEW p \in PreviewIds, NEW r \in Requests,
             NEW confirm \in BOOLEAN, ReadFails(c, p, r, confirm)
      PROVE  TypeOK'
  BY <1>4 DEF ReadFails, Argument, CallState, Ended
<1> QED
  BY <1>1, <1>2, <1>3, <1>4 DEF Client

\* A call that is past "idle" has a preview id and a request.
LEMMA Begun ==
  ASSUME TypeOK, ArgumentsGiven, NEW c \in Calls,
         pc[c] # "idle" \/ late[c] > 0 \/ reply[c] # "none"
  PROVE  /\ arg[c] \in Argument
         /\ PreviewOf(c) \in PreviewIds
         /\ arg[c].request \in Requests
         /\ arg[c].request.target \in Targets
  BY GuardAssumption DEF TypeOK, ArgumentsGiven, Argument, PreviewOf

\* The steps of an execution call preserve the types.
LEMMA TypeProgress ==
  ASSUME TypeOK, ArgumentsGiven, NEW c \in Calls, Progress(c)
  PROVE  TypeOK'
<1> USE DEF TypeOK, StoreTypeOK, callVars, inputVars, httpVars, sezzleVars, clockVars,
            storeVars, Goto, CallState, Ended
<1>1. ASSUME Reject(c)
      PROVE  /\ pc' \in [Calls -> CallState]
             /\ StoreTypeOK'
  BY <1>1 DEF Reject, AppendAudit, AuditEvent
<1>2. CASE BeginConfirm(c)
  <2>1. CASE ~Confirmable(c)
    BY <1>1, <1>2, <2>1 DEF BeginConfirm
  <2>2. CASE Confirmable(c)
    <3>1. previews[PreviewOf(c)] \in PreviewRecord \cup {None}
      BY <1>2, Begun DEF BeginConfirm
    <3>2. QED
      BY <1>2, <2>2, <3>1 DEF BeginConfirm
  <2>3. QED
    BY <2>1, <2>2
<1>3. CASE CheckAndReserve(c)
  <2>1. CASE ~Matches(c)
    BY <1>1, <1>3, <2>1 DEF CheckAndReserve
  <2>2. CASE Matches(c)
    BY <1>3, <2>2 DEF CheckAndReserve, ReserveOperation, OperationStatus
  <2>3. QED
    BY <2>1, <2>2
<1>4. CASE Consume(c)
  <2>1. PreviewOf(c) \in PreviewIds
    BY <1>4, Begun DEF Consume
  <2>2. CASE Consumable(PreviewOf(c)) /\ ConsumePreview(PreviewOf(c))
    <3>1. previews[PreviewOf(c)] \in PreviewRecord
      BY <2>1, <2>2 DEF Consumable
    <3>2. [previews[PreviewOf(c)] EXCEPT !.consumed = TRUE] \in PreviewRecord
      BY <3>1 DEF PreviewRecord
    <3>3. previews' \in [PreviewIds -> PreviewRecord \cup {None}]
      BY <2>1, <2>2, <3>2 DEF ConsumePreview
    <3>4. QED
      BY <1>4, <2>2, <3>3 DEF Consume, ConsumePreview
  <2>3. CASE UNCHANGED storeVars
    BY <1>4, <2>3 DEF Consume
  <2>4. QED
    BY <1>4, <2>2, <2>3 DEF Consume
<1>5. CASE RejectDuplicate(c)
  BY <1>1, <1>5 DEF RejectDuplicate
<1>6. CASE Send(c)
  BY <1>6 DEF Send, Reply
<1>7. CASE NoAnswer(c)
  <2>1. late' \in [Calls -> Nat]
    BY <1>7 DEF NoAnswer
  <2>2. QED
    BY <1>7, <2>1, GuardAssumption DEF NoAnswer, RetryOrFail, MayRetry, Reply
<1>8. CASE Receive(c)
  <2>1. /\ pc' \in [Calls -> CallState]
        /\ reply' \in [Calls -> Reply]
        /\ tries' \in [Calls -> 0..MaxRetries]
        /\ reauthed' \in [Calls -> BOOLEAN]
    <3>1. CASE RetryOrFail(c) /\ UNCHANGED reauthed
      BY <3>1, GuardAssumption DEF RetryOrFail, MayRetry, Reply
    <3>2. CASE ReplayOnce(c)
      <4>1. 0 \in 0..MaxRetries
        BY GuardAssumption
      <4>2. CASE reauthed' = [reauthed EXCEPT ![c] = TRUE]
        BY <3>2, <4>1, <4>2 DEF ReplayOnce, Reply
      <4>3. CASE UNCHANGED reauthed
        BY <3>2, <4>1, <4>3 DEF ReplayOnce, Reply
      <4>4. QED
        BY <3>2, <4>2, <4>3 DEF ReplayOnce
    <3>3. QED
      BY <1>8, <3>1, <3>2 DEF Receive, Reply
  <2>2. QED
    BY <1>8, <2>1 DEF Receive
<1>9. CASE RecordSuccess(c)
  BY <1>9 DEF RecordSuccess, AppendAudit, AuditEvent, Reply
<1>10. CASE CompleteSuccess(c)
  BY <1>10 DEF CompleteSuccess, CompleteOperation, OperationStatus
<1>11. CASE RecordFailure(c)
  BY <1>11 DEF RecordFailure, AppendAudit, AuditEvent
<1>12. CASE CompleteFailure(c)
  BY <1>12 DEF CompleteFailure, CompleteOperation, OperationStatus
<1> QED
  BY <1>2, <1>3, <1>4, <1>5, <1>6, <1>7, <1>8, <1>9, <1>10, <1>11, <1>12 DEF Progress

\* The steps of Sezzle preserve the types.
LEMMA TypeSezzle ==
  ASSUME TypeOK, ArgumentsGiven, NEW c \in Calls, Sezzle(c)
  PROVE  TypeOK'
<1> USE DEF TypeOK, StoreTypeOK, callVars, inputVars, httpVars, sezzleVars, clockVars,
            storeVars
<1>1. ASSUME CarryOut(c), arg[c].request.target \in Targets, PreviewOf(c) \in PreviewIds
      PROVE  /\ target' \in [Targets -> Snapshots]
             /\ keys' \subseteq PreviewIds
             /\ effects' \in [PreviewIds -> Nat]
  BY <1>1 DEF CarryOut
<1>2. CASE Answer(c)
  BY <1>1, <1>2, Begun DEF Answer, Reply
<1>3. CASE LateArrival(c)
  BY <1>1, <1>3, Begun DEF LateArrival
<1> QED
  BY <1>2, <1>3 DEF Sezzle

\* The steps of the environment preserve the types.
LEMMA TypeEnvironment == TypeOK /\ Environment => TypeOK'
<1> SUFFICES ASSUME TypeOK, Environment PROVE TypeOK'
  OBVIOUS
<1> USE DEF TypeOK, StoreTypeOK, callVars, inputVars, httpVars, sezzleVars, clockVars,
            storeVars
<1>1. CASE Tick
  BY <1>1, GuardAssumption DEF Tick
<1>2. ASSUME NEW t \in Targets, TargetChanges(t) PROVE TypeOK'
  <2>1. target' \in [Targets -> Snapshots]
    BY <1>2 DEF TargetChanges
  <2>2. changes' \in 0..MaxChanges
    BY <1>2, GuardAssumption DEF TargetChanges
  <2>3. QED
    BY <1>2, <2>1, <2>2 DEF TargetChanges
<1>3. CASE StorageFails
  <2>1. StoreTypeOK'
    BY <1>3 DEF StorageFails, SetStorageUp
  <2>2. faults' \in 0..MaxFaults
    BY <1>3, GuardAssumption DEF StorageFails
  <2>3. QED
    BY <1>3, <2>1, <2>2 DEF StorageFails
<1>4. CASE StorageRecovers
  <2>1. StoreTypeOK'
    BY <1>4 DEF StorageRecovers, SetStorageUp
  <2>2. QED
    BY <1>4, <2>1 DEF StorageRecovers
<1>5. ASSUME NEW ctx \in Contexts, Restart(ctx) PROVE TypeOK'
  <2>1. StoreTypeOK'
    BY <1>5 DEF Restart, Reopen, OperationStatus
  <2>2. QED
    BY <1>5, <2>1, GuardAssumption DEF Restart, CallState, Ended, Reply
<1> QED
  BY <1>1, <1>2, <1>3, <1>4, <1>5 DEF Environment

-----------------------------------------------------------------------------
(* The inductive invariant.  It holds initially, and the next lemmas show  *)
(* each kind of step to preserve it.                                       *)

\* Nothing has been reserved, sent or carried out initially.
LEMMA InvariantInit == Init => MutationInvariant
  BY DEF Init, StoreInit, MutationInvariant, ArgumentsGiven, CallsOnIssued, WinnersHold,
         LoadedIsStored, ReservationsStored, EffectsCounted, ReservedAsApproved,
         ReserverConsumes, Holding

\* The invariant does not depend on the clock, the targets, the audit trail or the
\* health of storage.
LEMMA Elsewhere ==
  ASSUME TypeOK, MutationInvariant,
         UNCHANGED <<previews, operations, stage, pc, arg, loaded, reply, late, keys,
                     effects, winner>>
  PROVE  MutationInvariant'
<1>1. ArgumentsGiven' /\ CallsOnIssued' /\ WinnersHold'
  BY DEF MutationInvariant, ArgumentsGiven, CallsOnIssued, WinnersHold, PreviewOf
<1>2. LoadedIsStored' /\ ReservationsStored' /\ ReserverConsumes'
  BY DEF MutationInvariant, LoadedIsStored, ReservationsStored, ReserverConsumes,
         PreviewOf
<1>3. EffectsCounted'
  BY DEF MutationInvariant, EffectsCounted, Copies
<1>4. ReservedAsApproved'
  BY DEF MutationInvariant, ReservedAsApproved, Consumable, Copies, PreviewOf
<1> QED
  BY <1>1, <1>2, <1>3, <1>4 DEF MutationInvariant

\* A call that gives up, or moves on after its request was answered, disturbs nothing,
\* provided that only a call that holds its reservation settles it.
LEMMA CallMovesOn ==
  ASSUME TypeOK, MutationInvariant, NEW c \in Calls,
         NEW s \in {"unreserved", "succeeding", "failing", "closing"} \cup Ended,
         pc[c] # "idle",
         s = "unreserved" => pc[c] = "looked",
         s \in Holding => pc[c] \in Holding,
         pc' = [pc EXCEPT ![c] = s],
         reply' = [reply EXCEPT ![c] = "none"],
         \/ operations' = operations
         \/ /\ pc[c] \in Holding
            /\ \E v \in {"succeeded", "failed"} :
                 operations' = [operations EXCEPT ![PreviewOf(c)] = v],
         UNCHANGED <<previews, stage, arg, loaded, late, keys, effects, winner>>
  PROVE  MutationInvariant'
<1> USE DEF MutationInvariant, PreviewOf, Ended, Holding
<1>1. ArgumentsGiven'
  BY DEF TypeOK, ArgumentsGiven
<1>2. CallsOnIssued'
  BY DEF TypeOK, CallsOnIssued
<1>3. WinnersHold'
  BY DEF TypeOK, WinnersHold
<1>4. LoadedIsStored'
  BY DEF TypeOK, LoadedIsStored
<1>5. ReservationsStored'
  BY StoreAssumption DEF TypeOK, StoreTypeOK, WinnersHold, ReservationsStored
<1>6. EffectsCounted'
  BY DEF TypeOK, EffectsCounted, WinnersHold, Copies
<1>7. ReservedAsApproved'
  BY DEF TypeOK, ReservedAsApproved, WinnersHold, Consumable, Copies
<1>8. ReserverConsumes'
  BY DEF TypeOK, ReserverConsumes
<1> QED
  BY <1>1, <1>2, <1>3, <1>4, <1>5, <1>6, <1>7, <1>8

\* A call that has spent its preview sends a request, again or for the first time.
LEMMA CallSends ==
  ASSUME TypeOK, MutationInvariant, NEW c \in Calls,
         pc[c] \in {"consumed", "awaiting"},
         Keyed(arg[c].request) \/ effects[PreviewOf(c)] + Copies(c) = 0,
         pc' = [pc EXCEPT ![c] = "awaiting"],
         reply' = [reply EXCEPT ![c] = "sent"],
         UNCHANGED <<previews, operations, stage, arg, loaded, late, keys, effects,
                     winner>>
  PROVE  MutationInvariant'
<1> USE DEF MutationInvariant, PreviewOf
<1>1. winner[PreviewOf(c)] = c
  BY DEF WinnersHold, Holding
<1>2. ArgumentsGiven' /\ CallsOnIssued'
  BY DEF TypeOK, ArgumentsGiven, CallsOnIssued, Holding
<1>3. WinnersHold'
  BY DEF TypeOK, WinnersHold, Holding
<1>4. LoadedIsStored' /\ ReservationsStored' /\ ReserverConsumes'
  BY DEF TypeOK, LoadedIsStored, ReservationsStored, ReserverConsumes
<1>5. EffectsCounted'
  BY <1>1 DEF TypeOK, EffectsCounted, WinnersHold, Copies, Keyed
<1>6. ReservedAsApproved'
  BY <1>1 DEF TypeOK, ReservedAsApproved, WinnersHold, Consumable, Copies
<1> QED
  BY <1>2, <1>3, <1>4, <1>5, <1>6

-----------------------------------------------------------------------------
(* Clients.                                                                *)

LEMMA CreatePreviewKeeps ==
  ASSUME TypeOK, MutationInvariant, NEW p \in PreviewIds, NEW r \in Requests,
         CreatePreview(p, r)
  PROVE  MutationInvariant'
<1> USE DEF MutationInvariant, CreatePreview, SavePreview, callVars, inputVars, httpVars,
            sezzleVars, PreviewOf
<1>1. winner[p] = None
  BY DEF CallsOnIssued, WinnersHold, ArgumentsGiven, TypeOK
<1>2. ArgumentsGiven' /\ WinnersHold'
  BY DEF ArgumentsGiven, WinnersHold
<1>3. CallsOnIssued'
  BY DEF CallsOnIssued, TypeOK
<1>4. LoadedIsStored'
  BY DEF LoadedIsStored, ReservationsStored, TypeOK, StoreTypeOK
<1>5. ReservationsStored'
  BY <1>1 DEF ReservationsStored, TypeOK, StoreTypeOK
<1>6. EffectsCounted'
  BY DEF EffectsCounted, Copies
<1>7. ReservedAsApproved'
  <2>1. ASSUME NEW c \in Calls, pc[c] \in {"reserved", "consumed", "awaiting"}
        PROVE  PreviewOf(c) # p
    BY <2>1 DEF ArgumentsGiven, CallsOnIssued
  <2>2. QED
    BY <1>1, <2>1 DEF ReservedAsApproved, Consumable, Copies, TypeOK, StoreTypeOK
<1>8. ReserverConsumes'
  BY DEF ReserverConsumes, TypeOK, StoreTypeOK
<1> QED
  BY <1>2, <1>3, <1>4, <1>5, <1>6, <1>7, <1>8

LEMMA ReturnPreviewKeeps ==
  ASSUME TypeOK, MutationInvariant, NEW p \in PreviewIds, ReturnPreview(p)
  PROVE  MutationInvariant'
<1> USE DEF MutationInvariant, ReturnPreview, AppendAudit, storeVars, callVars, inputVars,
            httpVars, sezzleVars, PreviewOf
<1>1. ArgumentsGiven' /\ WinnersHold' /\ LoadedIsStored' /\ ReserverConsumes'
  BY DEF ArgumentsGiven, WinnersHold, LoadedIsStored, ReserverConsumes
<1>2. CallsOnIssued'
  BY DEF CallsOnIssued, TypeOK, Argument
<1>3. ReservationsStored'
  BY DEF ReservationsStored, TypeOK
<1>4. EffectsCounted' /\ ReservedAsApproved'
  BY DEF EffectsCounted, ReservedAsApproved, Consumable, Copies
<1> QED
  BY <1>1, <1>2, <1>3, <1>4

\* A call begins: with its target read, or with an error.
LEMMA CallBegins ==
  ASSUME TypeOK, MutationInvariant, NEW c \in Calls, NEW p \in PreviewIds,
         NEW r \in Requests, NEW confirm \in BOOLEAN,
         ReadTarget(c, p, r, confirm) \/ ReadFails(c, p, r, confirm)
  PROVE  MutationInvariant'
<1> DEFINE a == [preview |-> p, request |-> r, confirm |-> confirm]
<1> USE DEF MutationInvariant, PreviewOf
<1>1. /\ pc[c] = "idle" /\ stage[p] = "issued"
      /\ arg' = [arg EXCEPT ![c] = a]
      /\ pc' = [pc EXCEPT ![c] = "read"] \/ pc' = [pc EXCEPT ![c] = "error"]
      /\ UNCHANGED <<previews, operations, stage, loaded, reply, late, keys, effects,
                     winner>>
  BY DEF ReadTarget, ReadFails, Goto, storeVars, httpVars, sezzleVars
<1>2. a \in Argument /\ a # None
  BY NoneIsNoArgument DEF Argument
<1>3. \A q \in PreviewIds : winner[q] # c
  BY <1>1, StoreAssumption DEF WinnersHold
<1> HIDE DEF a
<1>4. ArgumentsGiven'
  BY <1>1, <1>2 DEF ArgumentsGiven, TypeOK
<1>5. CallsOnIssued'
  BY <1>1, <1>2 DEF CallsOnIssued, Holding, TypeOK, a
<1>6. late[c] = 0
  BY <1>1, <1>3 DEF WinnersHold, ArgumentsGiven, TypeOK, Argument
<1>7. WinnersHold'
  BY <1>1, <1>3, <1>6 DEF WinnersHold, Holding, TypeOK
<1>8. LoadedIsStored' /\ ReservationsStored' /\ ReserverConsumes'
  BY <1>1 DEF LoadedIsStored, ReservationsStored, ReserverConsumes, TypeOK
<1>9. EffectsCounted'
  BY <1>1, <1>3 DEF EffectsCounted, Copies, TypeOK
<1>10. ReservedAsApproved'
  BY <1>1, <1>3 DEF ReservedAsApproved, Consumable, Copies, TypeOK
<1> QED
  BY <1>4, <1>5, <1>7, <1>8, <1>9, <1>10

-----------------------------------------------------------------------------
(* Execution calls.                                                        *)

\* A call is refused, by an audited rejection or by the failing audit.
LEMMA RejectMoves ==
  ASSUME NEW c \in Calls, Reject(c)
  PROVE  /\ \E s \in {"rejected", "error"} : pc' = [pc EXCEPT ![c] = s]
         /\ UNCHANGED <<previews, operations>>
  BY DEF Reject, AppendAudit, Goto, storeVars

LEMMA BeginConfirmKeeps ==
  ASSUME TypeOK, MutationInvariant, NEW c \in Calls, BeginConfirm(c)
  PROVE  MutationInvariant'
<1> USE DEF BeginConfirm, storeVars, httpVars, sezzleVars, Goto
<1>1. CASE /\ UNCHANGED loaded
           /\ Reject(c) \/ (Goto(c, "error") /\ UNCHANGED storeVars)
  <2>1. /\ \E s \in {"rejected", "error"} : pc' = [pc EXCEPT ![c] = s]
        /\ UNCHANGED <<previews, operations>>
    BY RejectMoves, <1>1
  <2>2. reply' = [reply EXCEPT ![c] = "none"]
    BY DEF MutationInvariant, CallsOnIssued, TypeOK
  <2>3. QED
    BY <1>1, <2>1, <2>2, CallMovesOn DEF Ended, Holding
<1>2. CASE /\ Confirmable(c)
           /\ loaded' = [loaded EXCEPT ![c] = previews[PreviewOf(c)]]
           /\ pc' = [pc EXCEPT ![c] = "looked"]
           /\ UNCHANGED storeVars
  <2> USE <1>2 DEF MutationInvariant, PreviewOf
  <2>1. ArgumentsGiven' /\ CallsOnIssued'
    BY DEF ArgumentsGiven, CallsOnIssued, Confirmable, Holding, TypeOK
  <2>2. WinnersHold'
    BY DEF WinnersHold, Holding, TypeOK
  <2>3. LoadedIsStored'
    <3>1. previews[PreviewOf(c)] \in PreviewRecord \cup {None}
      BY Begun DEF TypeOK, StoreTypeOK
    <3>2. QED
      BY <3>1 DEF LoadedIsStored, PreviewRecord, TypeOK
  <2>4. ReservationsStored' /\ ReserverConsumes'
    BY DEF ReservationsStored, ReserverConsumes, TypeOK
  <2>5. EffectsCounted' /\ ReservedAsApproved'
    BY DEF EffectsCounted, ReservedAsApproved, Copies, Consumable, WinnersHold, TypeOK
  <2>6. QED
    BY <2>1, <2>2, <2>3, <2>4, <2>5
<1>3. CASE ~Confirmable(c)
  BY <1>1, <1>3
<1>4. CASE Confirmable(c) /\ storageUp
  BY <1>2, <1>4
<1>5. CASE Confirmable(c) /\ ~storageUp
  BY <1>1, <1>5
<1> QED
  BY <1>3, <1>4, <1>5

\* The preview that a call reserves is stored, unspent and was never reserved.
LEMMA ReservableIsOpen ==
  ASSUME TypeOK, MutationInvariant, NEW c \in Calls,
         pc[c] = "looked", Matches(c), Reservable(PreviewOf(c))
  PROVE  /\ PreviewOf(c) \in PreviewIds
         /\ winner[PreviewOf(c)] = None
         /\ previews[PreviewOf(c)] # None
         /\ Consumable(PreviewOf(c))
         /\ previews[PreviewOf(c)] = loaded[c]
<1> USE DEF MutationInvariant, Matches
<1>1. PreviewOf(c) \in PreviewIds
  BY Begun
<1>2. previews[PreviewOf(c)] # None
  BY DEF LoadedIsStored
<1>3. winner[PreviewOf(c)] = None
  BY <1>1, <1>2 DEF ReservationsStored, Reservable
<1>4. ~previews[PreviewOf(c)].consumed
  BY <1>1, <1>2, <1>3 DEF ReserverConsumes
<1>5. previews[PreviewOf(c)] = loaded[c]
  <2>1. previews[PreviewOf(c)] \in PreviewRecord
    BY <1>1, <1>2 DEF TypeOK, StoreTypeOK
  <2>2. loaded[c] \in PreviewRecord
    BY DEF TypeOK
  <2>3. QED
    BY <1>4, <2>1, <2>2 DEF LoadedIsStored, PreviewRecord
<1> QED
  BY <1>1, <1>2, <1>3, <1>4, <1>5 DEF Consumable

LEMMA CheckAndReserveKeeps ==
  ASSUME TypeOK, MutationInvariant, NEW c \in Calls, CheckAndReserve(c)
  PROVE  MutationInvariant'
<1> USE DEF CheckAndReserve, storeVars, inputVars, httpVars, sezzleVars, Goto
<1>1. CASE UNCHANGED winner
  <2>1. /\ \E s \in {"rejected", "error", "unreserved"} : pc' = [pc EXCEPT ![c] = s]
        /\ UNCHANGED <<previews, operations>>
    <3>1. CASE Reject(c)
      BY <3>1, RejectMoves
    <3>2. CASE ~Reject(c)
      BY <3>2, <1>1, ReservableIsOpen, StoreAssumption DEF TypeOK
    <3>3. QED
      BY <3>1, <3>2
  <2>2. reply' = [reply EXCEPT ![c] = "none"]
    BY DEF MutationInvariant, CallsOnIssued, TypeOK
  <2>3. QED
    BY <1>1, <2>1, <2>2, CallMovesOn DEF Ended, Holding
<1>2. CASE /\ Matches(c) /\ Reservable(PreviewOf(c))
           /\ ReserveOperation(PreviewOf(c))
           /\ winner' = [winner EXCEPT ![PreviewOf(c)] = c]
           /\ pc' = [pc EXCEPT ![c] = "reserved"]
  <2> DEFINE q == PreviewOf(c)
  <2>1. /\ q \in PreviewIds /\ winner[q] = None /\ Consumable(q)
        /\ previews[q] # None /\ previews[q] = loaded[c]
    BY <1>2, ReservableIsOpen
  <2>2. arg[c] # None /\ arg[c].confirm
    BY DEF MutationInvariant, ArgumentsGiven, CallsOnIssued
  <2>3. late[c] = 0 /\ reply[c] = "none" /\ effects[q] = 0 /\ q \notin keys
    BY <2>1, StoreAssumption
    DEF MutationInvariant, CallsOnIssued, WinnersHold, EffectsCounted, TypeOK
  <2> USE <1>2, <2>1, <2>2, <2>3 DEF ReserveOperation, MutationInvariant
  <2>4. ArgumentsGiven' /\ CallsOnIssued'
    BY DEF ArgumentsGiven, CallsOnIssued, Holding, PreviewOf, TypeOK
  <2>5. WinnersHold'
    <3>1. \A d \in Calls \ {c} : pc[d] \in Holding \/ late[d] > 0 => PreviewOf(d) # q
      BY StoreAssumption DEF WinnersHold
    <3>2. \A p \in PreviewIds \ {q} : winner[p] # c
      BY StoreAssumption DEF WinnersHold
    <3>3. QED
      BY <3>1, <3>2 DEF WinnersHold, Holding, PreviewOf, TypeOK
  <2>6. LoadedIsStored'
    BY DEF LoadedIsStored, PreviewOf, TypeOK
  <2>7. ReservationsStored' /\ ReserverConsumes'
    BY StoreAssumption DEF ReservationsStored, ReserverConsumes, TypeOK, StoreTypeOK
  <2>8. EffectsCounted'
    BY DEF EffectsCounted, Copies, WinnersHold, TypeOK
  <2>9. ReservedAsApproved'
    BY DEF ReservedAsApproved, Matches, Consumable, Copies, PreviewOf, WinnersHold, TypeOK
  <2>10. QED
    BY <2>4, <2>5, <2>6, <2>7, <2>8, <2>9
<1> QED
  BY <1>1, <1>2

LEMMA ConsumeKeeps ==
  ASSUME TypeOK, MutationInvariant, NEW c \in Calls, Consume(c)
  PROVE  MutationInvariant'
<1> USE DEF Consume, storeVars, inputVars, httpVars, sezzleVars, Goto
<1> DEFINE q == PreviewOf(c)
<1>1. q \in PreviewIds /\ winner[q] = c /\ Consumable(q)
  BY Begun DEF MutationInvariant, WinnersHold, Holding, ReservedAsApproved
<1>2. CASE UNCHANGED storeVars /\ pc' = [pc EXCEPT ![c] = "error"]
  <2>1. reply' = [reply EXCEPT ![c] = "none"]
    BY DEF MutationInvariant, CallsOnIssued, TypeOK
  <2>2. QED
    BY <1>2, <2>1, CallMovesOn DEF Ended, Holding
<1>3. CASE ConsumePreview(q) /\ pc' = [pc EXCEPT ![c] = "consumed"]
  <2>1. previews[q] \in PreviewRecord
    BY <1>1 DEF Consumable, TypeOK, StoreTypeOK
  <2>2. /\ previews' = [previews EXCEPT ![q] = [previews[q] EXCEPT !.consumed = TRUE]]
        /\ UNCHANGED <<operations, stage, arg, loaded, reply, late, keys, effects, winner>>
    BY <1>3 DEF ConsumePreview
  <2>3. /\ [previews[q] EXCEPT !.consumed = TRUE] \in PreviewRecord
        /\ [previews[q] EXCEPT !.consumed = TRUE].consumed
        /\ [previews[q] EXCEPT !.consumed = TRUE].request = previews[q].request
        /\ [previews[q] EXCEPT !.consumed = TRUE].valid = previews[q].valid
        /\ [previews[q] EXCEPT !.consumed = TRUE] # None
    BY <2>1, StoreAssumption DEF PreviewRecord
  <2> DEFINE spent == [previews[q] EXCEPT !.consumed = TRUE]
  <2>4. \A b : [spent EXCEPT !.consumed = b] = [previews[q] EXCEPT !.consumed = b]
    BY <2>1 DEF PreviewRecord
  <2> HIDE DEF spent
  <2> USE <1>1, <1>3, <2>2 DEF MutationInvariant
  <2>5. previews' = [previews EXCEPT ![q] = spent] /\ spent.consumed /\ spent # None
        /\ spent.request = previews[q].request /\ spent.valid = previews[q].valid
    BY <2>2, <2>3 DEF spent
  <2>6. ArgumentsGiven' /\ CallsOnIssued'
    BY DEF ArgumentsGiven, CallsOnIssued, Holding, PreviewOf, TypeOK
  <2>7. WinnersHold'
    BY DEF WinnersHold, Holding, PreviewOf, TypeOK
  <2>8. LoadedIsStored'
    <3>1. ASSUME NEW d \in Calls, pc[d] = "looked", loaded[d] # None, PreviewOf(d) = q
          PROVE  loaded[d] = [spent EXCEPT !.consumed = loaded[d].consumed]
      <4>1. loaded[d] = [previews[q] EXCEPT !.consumed = loaded[d].consumed]
        BY <3>1 DEF LoadedIsStored
      <4>2. QED
        BY <2>4, <4>1, Zenon
    <3>2. \A d \in Calls : pc'[d] = "looked" => pc[d] = "looked"
      BY DEF TypeOK
    <3>3. /\ UNCHANGED <<loaded, arg>>
          /\ \A d \in Calls : PreviewOf(d)' = PreviewOf(d)
          /\ previews'[q] = spent
          /\ \A p : p # q => previews'[p] = previews[p]
      BY <2>5 DEF PreviewOf, TypeOK, StoreTypeOK
    <3>4. SUFFICES ASSUME NEW d \in Calls, pc[d] = "looked", loaded[d] # None
          PROVE  /\ previews'[PreviewOf(d)] # None
                 /\ loaded[d] = [previews'[PreviewOf(d)] EXCEPT !.consumed = loaded[d].consumed]
                 /\ loaded[d].consumed => previews'[PreviewOf(d)].consumed
      BY <3>2, <3>3 DEF LoadedIsStored
    <3>5. CASE PreviewOf(d) = q
      BY <2>5, <3>1, <3>3, <3>4, <3>5
    <3>6. CASE PreviewOf(d) # q
      BY <3>3, <3>4, <3>6 DEF LoadedIsStored
    <3>7. QED
      BY <3>5, <3>6
  <2>9. ReservationsStored'
    BY <2>5 DEF ReservationsStored, Consumable, TypeOK, StoreTypeOK
  <2>10. ReserverConsumes'
    BY <2>5, StoreAssumption DEF ReserverConsumes, TypeOK, StoreTypeOK
  <2>11. EffectsCounted'
    BY DEF EffectsCounted, Copies, TypeOK
  <2>12. ReservedAsApproved'
    <3>1. previews'[q] = spent /\ \A p \in PreviewIds \ {q} : previews'[p] = previews[p]
      BY <2>5 DEF TypeOK, StoreTypeOK
    <3>2. \A d \in Calls : pc[d] = "reserved" /\ d # c => PreviewOf(d) # q
      BY DEF WinnersHold, Holding
    <3>3. QED
      BY <2>5, <3>1, <3>2, Begun
      DEF ReservedAsApproved, Consumable, Copies, PreviewOf, TypeOK, StoreTypeOK
  <2>13. QED
    BY <2>6, <2>7, <2>8, <2>9, <2>10, <2>11, <2>12
<1> QED
  BY <1>1, <1>2, <1>3

LEMMA RejectDuplicateKeeps ==
  ASSUME TypeOK, MutationInvariant, NEW c \in Calls, RejectDuplicate(c)
  PROVE  MutationInvariant'
<1>1. /\ \E s \in {"rejected", "error"} : pc' = [pc EXCEPT ![c] = s]
      /\ UNCHANGED <<previews, operations>>
  BY RejectMoves DEF RejectDuplicate
<1>2. /\ pc[c] \in {"unreserved", "unconsumed"}
      /\ UNCHANGED <<stage, arg, loaded, reply, late, keys, effects, winner>>
  BY DEF RejectDuplicate, inputVars, httpVars, sezzleVars
<1>3. reply' = [reply EXCEPT ![c] = "none"]
  BY <1>2 DEF MutationInvariant, CallsOnIssued, TypeOK
<1> QED
  BY <1>1, <1>2, <1>3, CallMovesOn DEF Ended, Holding

LEMMA SendKeeps ==
  ASSUME TypeOK, MutationInvariant, NEW c \in Calls, Send(c)
  PROVE  MutationInvariant'
<1> USE DEF Send, storeVars, inputVars, sezzleVars, Goto
<1>1. CASE pc' = [pc EXCEPT ![c] = "failing"]
  <2>1. reply' = [reply EXCEPT ![c] = "none"]
    BY <1>1 DEF MutationInvariant, CallsOnIssued, TypeOK
  <2>2. QED
    BY <1>1, <2>1, CallMovesOn DEF Holding
<1>2. CASE pc' = [pc EXCEPT ![c] = "awaiting"] /\ reply' = [reply EXCEPT ![c] = "sent"]
  <2>1. winner[PreviewOf(c)] = c
    BY DEF MutationInvariant, WinnersHold, Holding
  <2>2. effects[PreviewOf(c)] + Copies(c) = 0
    BY <2>1, Begun, StoreAssumption DEF MutationInvariant, EffectsCounted
  <2>3. QED
    BY <1>2, <2>2, CallSends
<1> QED
  BY <1>1, <1>2

\* The request is given up on, retried or not: it may be carried out later.
LEMMA NoAnswerKeeps ==
  ASSUME TypeOK, MutationInvariant, NEW c \in Calls, NoAnswer(c)
  PROVE  MutationInvariant'
<1> USE DEF MutationInvariant, PreviewOf
<1>1. /\ pc[c] = "awaiting"
      /\ late' = [late EXCEPT ![c] = IF reply[c] = "sent" THEN @ + 1 ELSE @]
      /\ \/ /\ Keyed(arg[c].request)
            /\ reply' = [reply EXCEPT ![c] = "sent"]
            /\ UNCHANGED pc
         \/ /\ pc' = [pc EXCEPT ![c] = "failing"]
            /\ reply' = [reply EXCEPT ![c] = "none"]
      /\ UNCHANGED <<previews, operations, stage, arg, loaded, keys, effects, winner>>
  BY DEF NoAnswer, RetryOrFail, MayRetry, Goto, storeVars, inputVars, sezzleVars
<1>2. winner[PreviewOf(c)] = c /\ PreviewOf(c) \in PreviewIds
  BY <1>1, Begun DEF WinnersHold, Holding
<1>3. ArgumentsGiven' /\ CallsOnIssued'
  BY <1>1 DEF ArgumentsGiven, CallsOnIssued, Holding, TypeOK
<1>4. WinnersHold'
  BY <1>1, <1>2 DEF WinnersHold, Holding, TypeOK
<1>5. LoadedIsStored' /\ ReservationsStored' /\ ReserverConsumes'
  BY <1>1 DEF LoadedIsStored, ReservationsStored, ReserverConsumes, TypeOK
<1>6. \/ Keyed(arg[c].request)
      \/ Copies(c)' = Copies(c)
  BY <1>1 DEF Copies, TypeOK
<1>7. \A d \in Calls \ {c} : Copies(d)' = Copies(d) /\ reply'[d] = reply[d]
                            /\ pc'[d] = pc[d]
  BY <1>1 DEF Copies, TypeOK
<1>8. pc'[c] \in {"awaiting", "failing"} /\ reply'[c] \in {"sent", "none"}
  BY <1>1 DEF TypeOK
<1>9. EffectsCounted'
  <2>1. ASSUME NEW p \in PreviewIds, winner[p] = None
        PROVE  effects'[p] = 0 /\ p \notin keys'
    BY <1>1, <2>1 DEF EffectsCounted
  <2>2. ASSUME NEW p \in PreviewIds, NEW d \in Calls, winner[p] = d
        PROVE  /\ Keyed(arg[d].request) => effects[p] = (IF p \in keys THEN 1 ELSE 0)
               /\ ~Keyed(arg[d].request) => effects[p] + Copies(d)' <= 1
               /\ \/ pc'[d] \in {"reserved", "unconsumed", "consumed"}
                  \/ ~Keyed(arg[d].request) /\ reply'[d] = "unauthorized"
                  => effects[p] + Copies(d)' = 0
    BY <1>6, <1>7, <1>8, <2>2, StoreAssumption DEF EffectsCounted
  <2>3. QED
    BY <1>1, <2>1, <2>2 DEF EffectsCounted, Copies, Keyed, TypeOK
<1>10. ReservedAsApproved'
  <2>1. previews[PreviewOf(c)] # None => previews[PreviewOf(c)].consumed
    BY <1>1 DEF ReservedAsApproved, Consumable
  <2>2. \A p \in PreviewIds : winner[p] = c => p = PreviewOf(c)
    BY StoreAssumption DEF WinnersHold
  <2>3. \A p \in PreviewIds : winner[p] # None /\ previews[p] # None =>
          /\ previews[p].request = arg[winner[p]].request
          /\ previews[p].valid
          /\ previews[p].consumed \/ effects[p] + Copies(winner[p])' = 0
    BY <1>1, <1>7, <2>1, <2>2 DEF ReservedAsApproved, TypeOK
  <2>4. QED
    BY <1>1, <2>3 DEF ReservedAsApproved, Consumable, TypeOK
<1> QED
  BY <1>3, <1>4, <1>5, <1>9, <1>10

LEMMA ReceiveKeeps ==
  ASSUME TypeOK, MutationInvariant, NEW c \in Calls, Receive(c)
  PROVE  MutationInvariant'
<1> USE DEF Receive, storeVars, inputVars, sezzleVars, Goto
<1>1. CASE pc' = [pc EXCEPT ![c] = "failing"] /\ reply' = [reply EXCEPT ![c] = "none"]
  BY <1>1, CallMovesOn DEF Holding
<1>2. CASE /\ UNCHANGED pc /\ reply' = [reply EXCEPT ![c] = "sent"]
           /\ Keyed(arg[c].request) \/ reply[c] = "unauthorized"
  <2>1. winner[PreviewOf(c)] = c
    BY DEF MutationInvariant, WinnersHold, Holding
  <2>2. Keyed(arg[c].request) \/ effects[PreviewOf(c)] + Copies(c) = 0
    BY <1>2, <2>1, Begun, StoreAssumption DEF MutationInvariant, EffectsCounted
  <2>3. pc' = [pc EXCEPT ![c] = "awaiting"]
    BY <1>2 DEF TypeOK
  <2>4. QED
    BY <1>2, <2>2, <2>3, CallSends
<1> QED
  BY <1>1, <1>2 DEF RetryOrFail, MayRetry, ReplayOnce

\* Recording the outcome only moves a call that holds its reservation on.
LEMMA RecordingKeeps ==
  ASSUME TypeOK, MutationInvariant, NEW c \in Calls,
         RecordSuccess(c) \/ CompleteSuccess(c) \/ RecordFailure(c) \/ CompleteFailure(c)
  PROVE  MutationInvariant'
<1> USE DEF storeVars, inputVars, httpVars, sezzleVars, Goto
<1>1. /\ pc[c] \in {"awaiting", "succeeding", "failing", "closing"}
      /\ \E s \in {"succeeding", "failing", "closing", "succeeded", "failed", "error"} :
           pc' = [pc EXCEPT ![c] = s]
      /\ UNCHANGED <<previews, stage, arg, loaded, late, keys, effects, winner>>
  BY DEF RecordSuccess, CompleteSuccess, RecordFailure, CompleteFailure, AppendAudit,
         CompleteOperation
<1>2. \/ operations' = operations
      \/ \E v \in {"succeeded", "failed"} :
           operations' = [operations EXCEPT ![PreviewOf(c)] = v]
  BY DEF RecordSuccess, CompleteSuccess, RecordFailure, CompleteFailure, AppendAudit,
         CompleteOperation
<1>3. reply' = [reply EXCEPT ![c] = "none"]
  BY DEF RecordSuccess, CompleteSuccess, RecordFailure, CompleteFailure,
         MutationInvariant, CallsOnIssued, TypeOK
<1> QED
  BY <1>1, <1>2, <1>3, CallMovesOn DEF Ended, Holding

-----------------------------------------------------------------------------
(* Sezzle and the environment.                                             *)

\* A request that is under way or was given up on is carried out or refused: there is
\* one copy of it less, and at most one effect more.
LEMMA CopyIsSpent ==
  ASSUME TypeOK, MutationInvariant, NEW c \in Calls,
         CarryOut(c) \/ UNCHANGED sezzleVars,
         NEW x \in Reply, x # "sent",
         \/ /\ reply[c] = "sent"
            /\ reply' = [reply EXCEPT ![c] = x]
            /\ x = "unauthorized" => UNCHANGED sezzleVars
            /\ UNCHANGED late
         \/ /\ late[c] > 0
            /\ late' = [late EXCEPT ![c] = @ - 1]
            /\ UNCHANGED reply,
         UNCHANGED <<previews, operations, stage, pc, arg, loaded, winner>>
  PROVE  MutationInvariant'
<1> DEFINE q == PreviewOf(c)
<1> USE DEF MutationInvariant, sezzleVars
<1>1. pc[c] = "awaiting" \/ reply[c] = "none"
  BY DEF CallsOnIssued
<1>2. q \in PreviewIds /\ winner[q] = c /\ arg[c] # None
  BY <1>1, Begun DEF WinnersHold, Holding, ArgumentsGiven, TypeOK
<1>3. /\ Copies(c) \in Nat /\ Copies(c)' \in Nat /\ Copies(c)' = Copies(c) - 1
      /\ \A d \in Calls \ {c} : Copies(d)' = Copies(d)
  BY DEF Copies, TypeOK
<1>4. ArgumentsGiven' /\ CallsOnIssued' /\ WinnersHold'
  BY <1>2, <1>1 DEF ArgumentsGiven, CallsOnIssued, WinnersHold, PreviewOf, TypeOK
<1>5. LoadedIsStored' /\ ReservationsStored' /\ ReserverConsumes'
  BY DEF LoadedIsStored, ReservationsStored, ReserverConsumes, PreviewOf
<1>6. \A p \in PreviewIds \ {q} : winner[p] # c /\ effects'[p] = effects[p]
                                /\ (p \in keys' <=> p \in keys)
  BY <1>2, StoreAssumption DEF CarryOut, WinnersHold, TypeOK
<1>7. \/ /\ effects'[q] = effects[q] /\ (q \in keys' <=> q \in keys)
         /\ Keyed(arg[c].request) => UNCHANGED keys
      \/ /\ effects'[q] = effects[q] + 1 /\ Keyed(arg[c].request)
         /\ q \notin keys /\ q \in keys'
      \/ /\ effects'[q] = effects[q] + 1 /\ ~Keyed(arg[c].request)
         /\ ~UNCHANGED sezzleVars
  BY <1>2 DEF CarryOut, TypeOK
<1>8. effects[q] \in Nat /\ effects'[q] \in Nat
  BY <1>2, <1>7 DEF TypeOK
<1>9. /\ Keyed(arg[c].request) => effects'[q] = (IF q \in keys' THEN 1 ELSE 0)
      /\ ~Keyed(arg[c].request) => effects'[q] + Copies(c)' <= 1
      /\ \/ pc[c] \in {"reserved", "unconsumed", "consumed"}
         \/ ~Keyed(arg[c].request) /\ reply'[c] = "unauthorized"
         => effects'[q] + Copies(c)' = 0
  <2>1. c # None
    BY StoreAssumption
  <2>2. /\ Keyed(arg[c].request) => effects[q] = (IF q \in keys THEN 1 ELSE 0)
        /\ ~Keyed(arg[c].request) => effects[q] + Copies(c) <= 1
        /\ pc[c] \notin {"reserved", "unconsumed", "consumed"}
        /\ ~(~Keyed(arg[c].request) /\ reply[c] = "unauthorized")
    BY <1>2, <1>3, <1>8, <2>1 DEF EffectsCounted
  <2>3. reply'[c] = "unauthorized" => reply[c] = "unauthorized" \/ UNCHANGED sezzleVars
    BY DEF TypeOK
  <2>4. QED
    BY <1>3, <1>7, <1>8, <2>2, <2>3
<1>10. EffectsCounted'
  <2>1. \A d \in Calls \ {c} : reply'[d] = reply[d]
    BY DEF TypeOK
  <2>2. ASSUME NEW p \in PreviewIds, winner[p] = None
        PROVE  effects'[p] = 0 /\ p \notin keys'
    BY <1>2, <1>6, <2>2, StoreAssumption DEF EffectsCounted
  <2>3. ASSUME NEW p \in PreviewIds, NEW d \in Calls, winner[p] = d
        PROVE  /\ Keyed(arg[d].request) => effects'[p] = (IF p \in keys' THEN 1 ELSE 0)
               /\ ~Keyed(arg[d].request) => effects'[p] + Copies(d)' <= 1
               /\ \/ pc[d] \in {"reserved", "unconsumed", "consumed"}
                  \/ ~Keyed(arg[d].request) /\ reply'[d] = "unauthorized"
                  => effects'[p] + Copies(d)' = 0
    <3>1. CASE d = c
      BY <1>6, <1>9, <2>3, <3>1
    <3>2. CASE d # c
      <4>1. p # q /\ Copies(d)' = Copies(d) /\ reply'[d] = reply[d]
        BY <1>2, <1>3, <2>1, <2>3, <3>2
      <4>2. QED
        BY <1>6, <2>3, <4>1, StoreAssumption DEF EffectsCounted
    <3>3. QED
      BY <3>1, <3>2
  <2>4. QED
    BY <2>2, <2>3 DEF EffectsCounted, Copies, Keyed, TypeOK
<1>11. ReservedAsApproved'
  <2>1. previews[q] # None => previews[q].consumed
    BY <1>2, <1>3, <1>8, StoreAssumption DEF ReservedAsApproved
  <2>2. ASSUME NEW p \in PreviewIds, winner[p] # None, previews[p] # None
        PROVE  /\ previews[p].request = arg[winner[p]].request
               /\ previews[p].valid
               /\ previews[p].consumed \/ effects'[p] + Copies(winner[p])' = 0
    BY <1>3, <1>6, <2>1, <2>2 DEF ReservedAsApproved, TypeOK
  <2>3. QED
    BY <2>2 DEF ReservedAsApproved, Consumable, PreviewOf
<1> QED
  BY <1>4, <1>5, <1>10, <1>11

LEMMA SezzleKeeps ==
  ASSUME TypeOK, MutationInvariant, NEW c \in Calls, Sezzle(c)
  PROVE  MutationInvariant'
<1>1. CASE Answer(c)
  BY <1>1, CopyIsSpent DEF Answer, Reply, storeVars, inputVars
<1>2. CASE LateArrival(c)
  <2>1. "none" \in Reply
    BY DEF Reply
  <2>2. QED
    BY <1>2, <2>1, CopyIsSpent DEF LateArrival, storeVars, inputVars
<1> QED
  BY <1>1, <1>2 DEF Sezzle

\* A restart loses calls, and the records of a store in memory, but no copy of a request.
LEMMA RestartKeeps ==
  ASSUME TypeOK, MutationInvariant, NEW ctx \in Contexts, Restart(ctx)
  PROVE  MutationInvariant'
<1> USE DEF MutationInvariant
<1>1. /\ \/ UNCHANGED <<previews, operations>>
         \/ /\ previews' = [p \in PreviewIds |-> None]
            /\ operations' = [p \in PreviewIds |-> "none"]
      /\ stage' = [p \in PreviewIds |-> IF stage[p] = "saved" THEN "dropped" ELSE stage[p]]
      /\ pc' = [c \in Calls |-> IF pc[c] \in Ended \cup {"idle"} THEN pc[c] ELSE "lost"]
      /\ late' = [c \in Calls |-> IF reply[c] = "sent" THEN late[c] + 1 ELSE late[c]]
      /\ reply' = [c \in Calls |-> "none"]
      /\ UNCHANGED <<arg, loaded, keys, effects, winner>>
  BY DEF Restart, Reopen, inputVars, sezzleVars
<1>2. ArgumentsGiven'
  BY <1>1 DEF ArgumentsGiven
<1>3. CallsOnIssued'
  BY <1>1 DEF CallsOnIssued, Holding, Ended, PreviewOf, TypeOK, Argument
<1>4. WinnersHold'
  BY <1>1 DEF CallsOnIssued, WinnersHold, Holding, Ended, PreviewOf, TypeOK
<1>5. LoadedIsStored' /\ ReservationsStored'
  BY <1>1 DEF LoadedIsStored, ReservationsStored, Ended, TypeOK
<1>6. \A c \in Calls : Copies(c)' = Copies(c)
  BY <1>1 DEF Copies, TypeOK
<1>7. EffectsCounted'
  BY <1>1, <1>6 DEF EffectsCounted, Ended, TypeOK
<1>8. ReservedAsApproved' /\ ReserverConsumes'
  BY <1>1, <1>6 DEF ReservedAsApproved, ReserverConsumes, Consumable, Ended, TypeOK
<1> QED
  BY <1>2, <1>3, <1>4, <1>5, <1>7, <1>8

-----------------------------------------------------------------------------
(* The invariant and what follows from it.                                 *)

InductiveInvariant == TypeOK /\ MutationInvariant

LEMMA InvariantStep == InductiveInvariant /\ [Next]_vars => InductiveInvariant'
<1> SUFFICES ASSUME TypeOK, MutationInvariant, [Next]_vars
             PROVE  TypeOK' /\ MutationInvariant'
  BY DEF InductiveInvariant
<1>1. TypeOK'
  BY TypeClient, TypeProgress, TypeSezzle, TypeEnvironment
  DEF Next, MutationInvariant, TypeOK, StoreTypeOK, vars, storeVars, callVars, inputVars,
      httpVars, sezzleVars, clockVars
<1>2. CASE Client
  <2>1. CASE \E p \in PreviewIds, r \in Requests : CreatePreview(p, r)
    BY <1>1, <2>1, CreatePreviewKeeps
  <2>2. CASE \E p \in PreviewIds : ReturnPreview(p)
    BY <1>1, <2>2, ReturnPreviewKeeps
  <2>3. CASE \E c \in Calls, p \in PreviewIds, r \in Requests, confirm \in BOOLEAN :
               ReadTarget(c, p, r, confirm) \/ ReadFails(c, p, r, confirm)
    BY <1>1, <2>3, CallBegins
  <2>4. QED
    BY <1>2, <2>1, <2>2, <2>3 DEF Client
<1>3. ASSUME NEW c \in Calls, Progress(c) \/ Sezzle(c)
      PROVE  MutationInvariant'
  BY <1>3, BeginConfirmKeeps, CheckAndReserveKeeps, ConsumeKeeps, RejectDuplicateKeeps,
     SendKeeps, NoAnswerKeeps, ReceiveKeeps, RecordingKeeps, SezzleKeeps DEF Progress
<1>4. CASE Tick \/ StorageFails \/ StorageRecovers \/ UNCHANGED vars
  <2>1. UNCHANGED <<previews, operations, stage, pc, arg, loaded, reply, late, keys,
                    effects, winner>>
    BY <1>4 DEF Tick, StorageFails, StorageRecovers, SetStorageUp, vars, storeVars,
                callVars, inputVars, httpVars, sezzleVars
  <2>2. QED
    BY <1>1, <2>1, Elsewhere
<1>5. ASSUME NEW t \in Targets, TargetChanges(t)
      PROVE  MutationInvariant'
  BY <1>5, Elsewhere DEF TargetChanges, storeVars, callVars, inputVars, httpVars
<1> QED
  BY <1>1, <1>2, <1>3, <1>4, <1>5, RestartKeeps DEF Next, Environment

LEMMA InvariantHolds == Spec => []InductiveInvariant
  BY TypeInit, InvariantInit, InvariantStep, PTL DEF Spec, InductiveInvariant

\* Every variable keeps its type in every behaviour of the protocol.
THEOREM TypeCorrect == Spec => []TypeOK
  BY InvariantHolds, PTL DEF InductiveInvariant

\* The conjuncts of MutationInvariant hold together in every reachable state.
THEOREM InvariantCorrect == Spec => []MutationInvariant
  BY InvariantHolds, PTL DEF InductiveInvariant

\* No preview's mutation is carried out twice: a request with a key is counted by
\* Sezzle, and of a request without one there is a single copy in all.
THEOREM AtMostOnceCorrect == Spec => []AtMostOnce
<1>1. ASSUME InductiveInvariant, NEW p \in PreviewIds
      PROVE  effects[p] <= 1
  <2> USE <1>1 DEF InductiveInvariant, MutationInvariant, TypeOK
  <2>1. CASE winner[p] = None
    BY <2>1 DEF EffectsCounted
  <2>2. CASE winner[p] # None
    <3>1. effects[p] \in Nat /\ winner[p] \in Calls /\ Copies(winner[p]) \in Nat
      BY <2>2 DEF Copies
    <3>2. effects[p] = 0 \/ effects[p] = 1 \/ effects[p] + Copies(winner[p]) <= 1
      BY <2>2 DEF EffectsCounted
    <3>3. QED
      BY <3>1, <3>2
  <2>3. QED
    BY <2>1, <2>2
<1>2. InductiveInvariant => AtMostOnce
  BY <1>1 DEF AtMostOnce
<1> QED
  BY <1>2, InvariantHolds, PTL

\* The reservation decides every race: the call that has it consumes the preview.
THEOREM ReserverConsumesCorrect == Spec => []ReserverConsumes
<1>1. InductiveInvariant => ReserverConsumes
  BY DEF InductiveInvariant, MutationInvariant
<1> QED
  BY <1>1, InvariantHolds, PTL

\* Whatever reaches Sezzle was previewed, found valid, confirmed and reserved.
THEOREM OnlyApprovedEffectsCorrect == Spec => []OnlyApprovedEffects
<1>1. ASSUME InductiveInvariant PROVE OnlyApprovedEffects
  <2> USE <1>1 DEF InductiveInvariant, MutationInvariant
  <2>1. ASSUME NEW p \in PreviewIds, winner[p] # None,
               effects[p] + Copies(winner[p]) # 0
        PROVE  Approved(p)
    BY <2>1 DEF Approved, WinnersHold, ReservedAsApproved
  <2>2. ASSUME NEW p \in PreviewIds, effects[p] > 0
        PROVE  Approved(p)
    <3>1. winner[p] # None /\ effects[p] + Copies(winner[p]) # 0
      BY <2>2 DEF EffectsCounted, TypeOK, Copies
    <3>2. QED
      BY <2>1, <3>1
  <2>3. ASSUME NEW c \in Calls, Underway(c)
        PROVE  winner[PreviewOf(c)] = c /\ Approved(PreviewOf(c))
    <3>1. pc[c] = "awaiting" \/ late[c] > 0
      BY <2>3 DEF Underway, CallsOnIssued
    <3>2. PreviewOf(c) \in PreviewIds /\ winner[PreviewOf(c)] = c
      BY <3>1, Begun DEF WinnersHold, Holding
    <3>3. effects[PreviewOf(c)] + Copies(c) # 0
      BY <2>3, <3>2 DEF Underway, Copies, TypeOK
    <3>4. QED
      BY <2>1, <3>2, <3>3, StoreAssumption
  <2>4. QED
    BY <2>2, <2>3 DEF OnlyApprovedEffects
<1> QED
  BY <1>1, InvariantHolds, PTL

\* The checks made on a record read before an await still hold when it is reserved.
THEOREM ReservedWhileOpenCorrect == Spec => ReservedWhileOpen
<1> DEFINE Open == \A p \in PreviewIds : winner'[p] # winner[p] =>
                     /\ winner[p] = None
                     /\ previews[p] # None
                     /\ ~previews[p].consumed
                     /\ now < previews[p].expiresAt
                     /\ previews[p].context = context
<1>1. ASSUME InductiveInvariant, Next PROVE Open
  <2> USE <1>1 DEF InductiveInvariant
  <2>1. ASSUME NEW c \in Calls, CheckAndReserve(c), ~UNCHANGED winner
        PROVE  Open
    <3>1. /\ pc[c] = "looked" /\ Matches(c) /\ Reservable(PreviewOf(c))
          /\ winner' = [winner EXCEPT ![PreviewOf(c)] = c]
      BY <2>1 DEF CheckAndReserve
    <3>2. \A p \in PreviewIds : p # PreviewOf(c) => winner'[p] = winner[p]
      BY <3>1 DEF TypeOK
    <3>3. QED
      BY <3>1, <3>2, ReservableIsOpen DEF Matches, Consumable
  <2>2. UNCHANGED winner \/ \E c \in Calls : CheckAndReserve(c)
    BY <1>1
    DEF Next, Client, CreatePreview, ReturnPreview, ReadTarget, ReadFails, Progress,
        BeginConfirm, Consume, RejectDuplicate, Send, NoAnswer, Receive, RecordSuccess,
        CompleteSuccess, RecordFailure, CompleteFailure, Sezzle, Answer, LateArrival,
        Environment, Tick, TargetChanges, StorageFails, StorageRecovers, Restart
  <2>3. QED
    BY <2>1, <2>2
<1>2. InductiveInvariant /\ [Next]_vars => [Open]_vars
  BY <1>1
<1> QED
  BY <1>2, InvariantHolds, PTL DEF Spec, ReservedWhileOpen


-----------------------------------------------------------------------------
(* Outcomes.  A step is the step of one call, or of none: the calls and    *)
(* the verdicts that do not take part keep what is known of them.          *)

LEMMA OutcomesInit == Init => OutcomesRecorded
  BY DEF Init, StoreInit, OutcomesRecorded, CallKnows, VerdictStands, Undecided, Audited

\* A call that has begun, and one with a verdict, are calls with a preview.
LEMMA VerdictHasWinner ==
  ASSUME TypeOK, MutationInvariant, NEW p \in PreviewIds, operations[p] # "none"
  PROVE  /\ winner[p] \in Calls /\ winner[p] # None
         /\ PreviewOf(winner[p]) = p
  BY DEF TypeOK, MutationInvariant, ReservationsStored, WinnersHold

\* A bystander keeps what it knows: effects are never taken back.
LEMMA Bystander ==
  ASSUME TypeOK, TypeOK', MutationInvariant, OutcomesRecorded, NEW d \in Calls,
         pc'[d] = pc[d], arg'[d] = arg[d],
         reply'[d] = "ok" => reply[d] = "ok",
         [by |-> d, result |-> "success"] \in audits' <=> [by |-> d, result |-> "success"] \in audits,
         [by |-> d, result |-> "failure"] \in audits' <=> [by |-> d, result |-> "failure"] \in audits,
         pc[d] \in Undecided => operations'[PreviewOf(d)] = operations[PreviewOf(d)],
         \A p \in PreviewIds : effects'[p] >= effects[p]
  PROVE  CallKnows(d)'
<1>1. CallKnows(d)
  BY DEF OutcomesRecorded
<1>2. pc[d] # "idle" => PreviewOf(d) \in PreviewIds
  BY Begun DEF MutationInvariant
<1>3. PreviewOf(d)' = PreviewOf(d)
  BY DEF PreviewOf
<1>4. pc[d] # "idle" /\ effects[PreviewOf(d)] > 0 => effects'[PreviewOf(d)] > 0
  BY <1>2 DEF TypeOK
<1> QED
  BY <1>1, <1>2, <1>3, <1>4 DEF CallKnows, Audited, Undecided

\* A verdict stands as long as its call has succeeded and its events are kept.
LEMMA VerdictKept ==
  ASSUME TypeOK, MutationInvariant, OutcomesRecorded, NEW p \in PreviewIds,
         operations'[p] = operations[p], winner'[p] = winner[p],
         operations[p] # "none" =>
           /\ pc[winner[p]] = "succeeded" => pc'[winner[p]] = "succeeded"
           /\ \A result \in {"success", "failure"} :
                [by |-> winner[p], result |-> result] \in audits
                  => [by |-> winner[p], result |-> result] \in audits'
  PROVE  VerdictStands(p)'
  BY DEF OutcomesRecorded, VerdictStands, Audited

\* A step that changes neither calls nor records and takes back no effect.
LEMMA OutcomesElsewhere ==
  ASSUME TypeOK, TypeOK', MutationInvariant, OutcomesRecorded,
         UNCHANGED <<operations, pc, arg, winner>>,
         \A c \in Calls : reply'[c] = "ok" => reply[c] = "ok",
         \/ UNCHANGED audits
         \/ \E p \in PreviewIds : audits' = audits \cup {[by |-> p, result |-> "preview"]},
         \A p \in PreviewIds : effects'[p] >= effects[p]
  PROVE  OutcomesRecorded'
<1>1. \A c \in Calls, result \in {"success", "failure"} :
        [by |-> c, result |-> result] \in audits' <=> [by |-> c, result |-> result] \in audits
  OBVIOUS
<1>2. ASSUME NEW d \in Calls PROVE CallKnows(d)'
  BY <1>1, Bystander
<1>3. ASSUME NEW p \in PreviewIds PROVE VerdictStands(p)'
  BY <1>1, VerdictKept, VerdictHasWinner
<1> QED
  BY <1>2, <1>3 DEF OutcomesRecorded

\* A call begins.
LEMMA OutcomesBegin ==
  ASSUME TypeOK, TypeOK', MutationInvariant, OutcomesRecorded,
         NEW c \in Calls, NEW p \in PreviewIds, NEW r \in Requests, NEW confirm \in BOOLEAN,
         ReadTarget(c, p, r, confirm) \/ ReadFails(c, p, r, confirm)
  PROVE  OutcomesRecorded'
<1>1. /\ pc[c] = "idle" /\ reply[c] = "none"
      /\ pc'[c] \in {"read", "error"}
      /\ \A d \in Calls \ {c} : pc'[d] = pc[d] /\ arg'[d] = arg[d]
      /\ UNCHANGED <<operations, audits, reply, effects, winner>>
  BY DEF ReadTarget, ReadFails, Goto, storeVars, httpVars, sezzleVars, TypeOK,
         MutationInvariant, CallsOnIssued
<1>2. \A q \in PreviewIds : effects'[q] >= effects[q]
  BY <1>1 DEF TypeOK
<1>3. ASSUME NEW d \in Calls PROVE CallKnows(d)'
  <2>1. CASE d # c
    BY <1>1, <1>2, <2>1, Bystander
  <2>2. CASE d = c
    <3>1. CallKnows(c)
      BY DEF OutcomesRecorded
    <3>2. QED
      BY <1>1, <2>2, <3>1 DEF CallKnows, Audited, Undecided
  <2>3. QED
    BY <2>1, <2>2
<1>4. ASSUME NEW q \in PreviewIds PROVE VerdictStands(q)'
  BY <1>1, VerdictKept, VerdictHasWinner
<1> QED
  BY <1>3, <1>4 DEF OutcomesRecorded

\* A call goes on to a state without a verdict, and records nothing but a rejection.
LEMMA OutcomesMove ==
  ASSUME TypeOK, TypeOK', MutationInvariant, OutcomesRecorded,
         NEW c \in Calls,
         NEW s \in {"looked", "unreserved", "consumed", "unconsumed", "awaiting", "failing",
                    "rejected", "error"},
         pc[c] \notin {"idle", "succeeded"},
         s \in Undecided => pc[c] \in Undecided,
         s # "error" => pc[c] # "closing" /\ pc[c] \notin Ended,
         pc' = [pc EXCEPT ![c] = s],
         \A d \in Calls : reply'[d] = "ok" => reply[d] = "ok",
         \/ UNCHANGED audits
         \/ audits' = audits \cup {[by |-> c, result |-> "rejected"]},
         UNCHANGED <<operations, arg, effects, winner>>
  PROVE  OutcomesRecorded'
<1>1. /\ pc'[c] = s
      /\ \A d \in Calls \ {c} : pc'[d] = pc[d]
  BY DEF TypeOK
<1>2. \A d \in Calls, result \in {"success", "failure"} :
        [by |-> d, result |-> result] \in audits' <=> [by |-> d, result |-> result] \in audits
  OBVIOUS
<1>3. \A q \in PreviewIds : effects'[q] >= effects[q]
  BY DEF TypeOK
<1>4. ASSUME NEW d \in Calls PROVE CallKnows(d)'
  <2>1. CASE d # c
    BY <1>1, <1>2, <1>3, <2>1, Bystander
  <2>2. CASE d = c
    <3>1. CallKnows(c) /\ PreviewOf(c)' = PreviewOf(c)
      BY DEF OutcomesRecorded, PreviewOf
    <3>2. QED
      BY <1>1, <1>2, <2>2, <3>1 DEF CallKnows, Audited, Undecided, Ended
  <2>3. QED
    BY <2>1, <2>2
<1>5. ASSUME NEW q \in PreviewIds PROVE VerdictStands(q)'
  BY <1>1, <1>2, VerdictKept, VerdictHasWinner
<1> QED
  BY <1>4, <1>5 DEF OutcomesRecorded

\* A call reserves its operation.
LEMMA OutcomesReserve ==
  ASSUME TypeOK, TypeOK', MutationInvariant, OutcomesRecorded, NEW c \in Calls,
         pc[c] = "looked", Matches(c), Reservable(PreviewOf(c)),
         ReserveOperation(PreviewOf(c)),
         winner' = [winner EXCEPT ![PreviewOf(c)] = c],
         pc' = [pc EXCEPT ![c] = "reserved"],
         UNCHANGED <<arg, reply, effects>>
  PROVE  OutcomesRecorded'
<1>1. PreviewOf(c) \in PreviewIds /\ operations[PreviewOf(c)] = "none"
  BY Begun DEF Reservable, MutationInvariant
<1>2. /\ operations'[PreviewOf(c)] = "in_progress"
      /\ \A p \in PreviewIds \ {PreviewOf(c)} :
           operations'[p] = operations[p] /\ winner'[p] = winner[p]
      /\ pc'[c] = "reserved"
      /\ \A d \in Calls \ {c} : pc'[d] = pc[d]
      /\ UNCHANGED audits
  BY <1>1 DEF ReserveOperation, TypeOK, StoreTypeOK
<1>3. \A p \in PreviewIds : effects'[p] >= effects[p]
  BY DEF TypeOK
<1>4. ASSUME NEW d \in Calls PROVE CallKnows(d)'
  <2>1. CallKnows(d) /\ PreviewOf(d)' = PreviewOf(d)
    BY DEF OutcomesRecorded, PreviewOf
  <2>2. CASE d # c
    <3>1. pc[d] \in Undecided => operations'[PreviewOf(d)] = operations[PreviewOf(d)]
      <4>1. SUFFICES ASSUME pc[d] \in Undecided
                     PROVE  operations'[PreviewOf(d)] = operations[PreviewOf(d)]
        OBVIOUS
      <4>2. PreviewOf(d) \in PreviewIds /\ operations[PreviewOf(d)] = "in_progress"
        BY <2>1, <4>1, Begun DEF CallKnows, Undecided, MutationInvariant
      <4>3. QED
        BY <1>1, <1>2, <4>2
    <3>2. QED
      BY <1>2, <1>3, <2>2, <3>1, Bystander
  <2>3. CASE d = c
    BY <1>1, <1>2, <2>1, <2>3 DEF CallKnows, Audited, Undecided
  <2>4. QED
    BY <2>2, <2>3
<1>5. ASSUME NEW p \in PreviewIds PROVE VerdictStands(p)'
  <2>1. CASE p = PreviewOf(c)
    BY <1>2, <2>1 DEF VerdictStands
  <2>2. CASE p # PreviewOf(c)
    BY <1>2, <2>2, VerdictKept, VerdictHasWinner
  <2>3. QED
    BY <2>1, <2>2
<1> QED
  BY <1>4, <1>5 DEF OutcomesRecorded

\* A call records a verdict: it is the only one that may.
LEMMA OutcomesComplete ==
  ASSUME TypeOK, TypeOK', MutationInvariant, OutcomesRecorded, NEW c \in Calls,
         NEW v \in {"succeeded", "failed"},
         pc[c] = IF v = "succeeded" THEN "succeeding" ELSE "closing",
         CompleteOperation(PreviewOf(c), v),
         pc' = [pc EXCEPT ![c] = v],
         UNCHANGED <<arg, reply, effects, winner>>
  PROVE  OutcomesRecorded'
<1>1. PreviewOf(c) \in PreviewIds /\ winner[PreviewOf(c)] = c
  BY Begun DEF MutationInvariant, WinnersHold, Holding
<1>2. /\ operations'[PreviewOf(c)] = v
      /\ \A p \in PreviewIds \ {PreviewOf(c)} : operations'[p] = operations[p]
      /\ pc'[c] = v
      /\ \A d \in Calls \ {c} : pc'[d] = pc[d]
      /\ UNCHANGED audits
  BY <1>1 DEF CompleteOperation, TypeOK, StoreTypeOK
<1>3. \A p \in PreviewIds : effects'[p] >= effects[p]
  BY DEF TypeOK
<1>4. CallKnows(c) /\ PreviewOf(c)' = PreviewOf(c)
  BY DEF OutcomesRecorded, PreviewOf
<1>5. ASSUME NEW d \in Calls PROVE CallKnows(d)'
  <2>1. CASE d # c
    <3>1. pc[d] \in Undecided =>
            PreviewOf(d) \in PreviewIds /\ winner[PreviewOf(d)] = d
      BY Begun DEF MutationInvariant, WinnersHold, Holding, Undecided
    <3>2. QED
      BY <1>1, <1>2, <1>3, <2>1, <3>1, Bystander
  <2>2. CASE d = c
    BY <1>2, <1>4, <2>2 DEF CallKnows, Audited, Undecided
  <2>3. QED
    BY <2>1, <2>2
<1>6. ASSUME NEW p \in PreviewIds PROVE VerdictStands(p)'
  <2>1. CASE p = PreviewOf(c)
    BY <1>1, <1>2, <1>4, <2>1 DEF VerdictStands, CallKnows, Audited
  <2>2. CASE p # PreviewOf(c)
    <3>1. operations[p] # "none" => winner[p] \in Calls \ {c}
      BY <2>2, VerdictHasWinner
    <3>2. QED
      BY <1>2, <2>2, <3>1, VerdictKept
  <2>3. QED
    BY <2>1, <2>2
<1> QED
  BY <1>5, <1>6 DEF OutcomesRecorded

\* A call audits what it knows: a success it was told of, or any failure.
LEMMA OutcomesAudit ==
  ASSUME TypeOK, TypeOK', MutationInvariant, OutcomesRecorded, NEW c \in Calls,
         NEW result \in {"success", "failure"},
         pc[c] = IF result = "success" THEN "awaiting" ELSE "failing",
         result = "success" => reply[c] = "ok",
         AppendAudit(c, result),
         pc' = [pc EXCEPT ![c] = IF result = "success" THEN "succeeding" ELSE "closing"],
         \A d \in Calls : reply'[d] = "ok" => reply[d] = "ok",
         UNCHANGED <<arg, effects, winner>>
  PROVE  OutcomesRecorded'
<1>1. /\ pc'[c] = IF result = "success" THEN "succeeding" ELSE "closing"
      /\ \A d \in Calls \ {c} : pc'[d] = pc[d]
      /\ UNCHANGED operations
  BY DEF AppendAudit, TypeOK
<1>2. \A p \in PreviewIds : effects'[p] >= effects[p]
  BY DEF TypeOK
<1>3. \A d \in Calls, outcome \in {"success", "failure"} :
        [by |-> d, result |-> outcome] \in audits'
          <=> [by |-> d, result |-> outcome] \in audits \/ (d = c /\ outcome = result)
  BY DEF AppendAudit
<1>4. CallKnows(c) /\ PreviewOf(c)' = PreviewOf(c)
  BY DEF OutcomesRecorded, PreviewOf
<1>5. ASSUME NEW d \in Calls PROVE CallKnows(d)'
  <2>1. CASE d # c
    BY <1>1, <1>2, <1>3, <2>1, Bystander
  <2>2. CASE d = c
    <3>1. CASE result = "success"
      BY <1>1, <1>3, <1>4, <2>2, <3>1 DEF CallKnows, Audited, Undecided
    <3>2. CASE result = "failure"
      BY <1>1, <1>3, <1>4, <2>2, <3>2 DEF CallKnows, Audited, Undecided
    <3>3. QED
      BY <3>1, <3>2
  <2>3. QED
    BY <2>1, <2>2
<1>6. ASSUME NEW p \in PreviewIds PROVE VerdictStands(p)'
  BY <1>1, <1>3, VerdictKept, VerdictHasWinner
<1> QED
  BY <1>5, <1>6 DEF OutcomesRecorded

-----------------------------------------------------------------------------
(* Each step of the protocol.                                              *)

LEMMA OutcomesProgress ==
  ASSUME TypeOK, TypeOK', MutationInvariant, OutcomesRecorded, NEW c \in Calls, Progress(c)
  PROVE  OutcomesRecorded'
<1> USE DEF storeVars, inputVars, httpVars, sezzleVars, Goto, Undecided, Ended
<1>1. ASSUME Reject(c), UNCHANGED <<arg, reply, effects, winner>>,
             pc[c] \in {"read", "looked", "unreserved", "unconsumed"}
      PROVE  OutcomesRecorded'
  BY <1>1, OutcomesMove DEF Reject, AppendAudit
<1>2. CASE BeginConfirm(c)
  <2>1. CASE ~Confirmable(c)
    BY <1>1, <1>2, <2>1 DEF BeginConfirm
  <2>2. CASE Confirmable(c)
    BY <1>2, <2>2, OutcomesMove DEF BeginConfirm
  <2>3. QED
    BY <2>1, <2>2
<1>3. CASE CheckAndReserve(c)
  <2>1. CASE ~Matches(c)
    BY <1>1, <1>3, <2>1 DEF CheckAndReserve
  <2>2. CASE Matches(c) /\ storageUp /\ Reservable(PreviewOf(c))
    BY <1>3, <2>2, OutcomesReserve DEF CheckAndReserve
  <2>3. CASE Matches(c) /\ ~(storageUp /\ Reservable(PreviewOf(c)))
    BY <1>3, <2>3, OutcomesMove DEF CheckAndReserve
  <2>4. QED
    BY <2>1, <2>2, <2>3
<1>4. CASE Consume(c)
  BY <1>4, OutcomesMove DEF Consume, ConsumePreview
<1>5. CASE RejectDuplicate(c)
  BY <1>1, <1>5 DEF RejectDuplicate
<1>6. CASE Send(c)
  BY <1>6, OutcomesMove DEF Send, TypeOK
<1>7. ASSUME RetryOrFail(c) \/ ReplayOnce(c), pc[c] = "awaiting",
             UNCHANGED <<operations, audits, arg, effects, winner>>
      PROVE  OutcomesRecorded'
  <2>1. \A d \in Calls : reply'[d] = "ok" => reply[d] = "ok"
    BY <1>7 DEF RetryOrFail, ReplayOnce, TypeOK
  <2>2. \E s \in {"awaiting", "failing"} : pc' = [pc EXCEPT ![c] = s]
    BY <1>7 DEF RetryOrFail, ReplayOnce, TypeOK
  <2>3. QED
    BY <1>7, <2>1, <2>2, OutcomesMove
<1>8. CASE NoAnswer(c)
  BY <1>7, <1>8 DEF NoAnswer
<1>9. CASE Receive(c)
  <2>1. CASE RetryOrFail(c) \/ ReplayOnce(c)
    BY <1>7, <1>9, <2>1 DEF Receive
  <2>2. CASE Goto(c, "failing") /\ reply' = [reply EXCEPT ![c] = "none"]
    <3>1. \A d \in Calls : reply'[d] = "ok" => reply[d] = "ok"
      BY <2>2 DEF TypeOK
    <3>2. QED
      BY <1>9, <2>2, <3>1, OutcomesMove DEF Receive
  <2>3. QED
    BY <1>9, <2>1, <2>2 DEF Receive
<1>10. CASE RecordSuccess(c)
  <2>1. /\ pc[c] = "awaiting" /\ reply[c] = "ok"
        /\ \A d \in Calls : reply'[d] = "ok" => reply[d] = "ok"
    BY <1>10 DEF RecordSuccess, TypeOK
  <2>2. CASE AppendAudit(c, "success") /\ Goto(c, "succeeding")
    BY <1>10, <2>1, <2>2, OutcomesAudit DEF RecordSuccess
  <2>3. CASE Goto(c, "failing") /\ UNCHANGED storeVars
    BY <1>10, <2>1, <2>3, OutcomesMove DEF RecordSuccess
  <2>4. QED
    BY <1>10, <2>2, <2>3 DEF RecordSuccess
<1>11. CASE CompleteSuccess(c)
  <2>1. CASE CompleteOperation(PreviewOf(c), "succeeded") /\ Goto(c, "succeeded")
    BY <1>11, <2>1, OutcomesComplete DEF CompleteSuccess
  <2>2. CASE Goto(c, "failing") /\ UNCHANGED storeVars
    BY <1>11, <2>2, OutcomesMove DEF CompleteSuccess
  <2>3. QED
    BY <1>11, <2>1, <2>2 DEF CompleteSuccess
<1>12. CASE RecordFailure(c)
  <2>1. CASE AppendAudit(c, "failure") /\ Goto(c, "closing")
    BY <1>12, <2>1, OutcomesAudit DEF RecordFailure
  <2>2. CASE Goto(c, "error") /\ UNCHANGED storeVars
    BY <1>12, <2>2, OutcomesMove DEF RecordFailure
  <2>3. QED
    BY <1>12, <2>1, <2>2 DEF RecordFailure
<1>13. CASE CompleteFailure(c)
  <2>1. CASE CompleteOperation(PreviewOf(c), "failed") /\ Goto(c, "failed")
    BY <1>13, <2>1, OutcomesComplete DEF CompleteFailure
  <2>2. CASE Goto(c, "error") /\ UNCHANGED storeVars
    BY <1>13, <2>2, OutcomesMove DEF CompleteFailure
  <2>3. QED
    BY <1>13, <2>1, <2>2 DEF CompleteFailure
<1> QED
  BY <1>2, <1>3, <1>4, <1>5, <1>6, <1>8, <1>9, <1>10, <1>11, <1>12, <1>13 DEF Progress

\* After Sezzle has treated a request of a call, its mutation has taken effect: now, or
\* before, when the key was known already.
LEMMA CarriedOut ==
  ASSUME TypeOK, MutationInvariant, NEW c \in Calls, CarryOut(c),
         pc[c] = "awaiting" \/ late[c] > 0
  PROVE  /\ effects'[PreviewOf(c)] > 0
         /\ \A p \in PreviewIds : effects'[p] >= effects[p]
<1>1. /\ PreviewOf(c) \in PreviewIds
      /\ winner[PreviewOf(c)] = c /\ c # None
  BY Begun, StoreAssumption DEF MutationInvariant, WinnersHold, Holding
<1>2. CASE Keyed(arg[c].request) /\ PreviewOf(c) \in keys
  BY <1>1, <1>2 DEF CarryOut, sezzleVars, MutationInvariant, EffectsCounted, TypeOK
<1>3. CASE ~(Keyed(arg[c].request) /\ PreviewOf(c) \in keys)
  <2>1. effects' = [effects EXCEPT ![PreviewOf(c)] = @ + 1]
    BY <1>3 DEF CarryOut
  <2>2. QED
    BY <1>1, <2>1 DEF TypeOK
<1> QED
  BY <1>2, <1>3

LEMMA OutcomesSezzle ==
  ASSUME TypeOK, TypeOK', MutationInvariant, OutcomesRecorded, NEW c \in Calls, Sezzle(c)
  PROVE  OutcomesRecorded'
<1> USE DEF storeVars, inputVars
<1>1. CASE LateArrival(c)
  BY <1>1, CarriedOut, OutcomesElsewhere DEF LateArrival
<1>2. CASE Answer(c)
  <2>1. /\ pc[c] = "awaiting"
        /\ \A d \in Calls \ {c} : reply'[d] = reply[d]
        /\ UNCHANGED <<operations, audits, pc, arg, winner>>
    BY <1>2 DEF Answer, TypeOK
  <2>2. /\ \A p \in PreviewIds : effects'[p] >= effects[p]
        /\ reply'[c] = "ok" => effects'[PreviewOf(c)] > 0
    <3>1. CASE CarryOut(c)
      BY <2>1, <3>1, CarriedOut
    <3>2. CASE UNCHANGED sezzleVars /\ reply'[c] # "ok"
      BY <3>2 DEF sezzleVars, TypeOK
    <3>3. QED
      BY <1>2, <3>1, <3>2 DEF Answer, TypeOK
  <2>3. ASSUME NEW d \in Calls PROVE CallKnows(d)'
    <3>1. CASE d # c
      BY <2>1, <2>2, <3>1, Bystander
    <3>2. CASE d = c
      <4>1. CallKnows(c) /\ PreviewOf(c)' = PreviewOf(c)
        BY <2>1 DEF OutcomesRecorded, PreviewOf
      <4>2. PreviewOf(c) \in PreviewIds
        BY <2>1, Begun DEF MutationInvariant
      <4>3. effects[PreviewOf(c)] > 0 => effects'[PreviewOf(c)] > 0
        BY <2>2, <4>2 DEF TypeOK
      <4>4. QED
        BY <2>1, <2>2, <3>2, <4>1, <4>3 DEF CallKnows, Audited
    <3>3. QED
      BY <3>1, <3>2
  <2>4. ASSUME NEW p \in PreviewIds PROVE VerdictStands(p)'
    BY <2>1, VerdictKept
  <2>5. QED
    BY <2>3, <2>4 DEF OutcomesRecorded
<1> QED
  BY <1>1, <1>2 DEF Sezzle

\* A restart interrupts every call, and takes from MemoryStore verdicts and audits alike.
LEMMA OutcomesRestart ==
  ASSUME TypeOK, TypeOK', MutationInvariant, OutcomesRecorded, NEW ctx \in Contexts,
         Restart(ctx)
  PROVE  OutcomesRecorded'
<1>1. /\ \A c \in Calls : pc'[c] = IF pc[c] \in Ended \cup {"idle"} THEN pc[c] ELSE "lost"
      /\ \A c \in Calls : reply'[c] = "none"
      /\ UNCHANGED <<arg, effects, winner>>
      /\ \/ UNCHANGED <<operations, audits>>
         \/ audits' = {} /\ \A p \in PreviewIds : operations'[p] = "none"
  BY DEF Restart, Reopen, inputVars, sezzleVars
<1>2. ASSUME NEW c \in Calls PROVE CallKnows(c)'
  <2>1. CallKnows(c) /\ PreviewOf(c)' = PreviewOf(c)
    BY <1>1 DEF OutcomesRecorded, PreviewOf
  <2>2. QED
    BY <1>1, <2>1 DEF CallKnows, Audited, Undecided, Ended
<1>3. ASSUME NEW p \in PreviewIds PROVE VerdictStands(p)'
  <2>1. CASE UNCHANGED <<operations, audits>>
    BY <1>1, <2>1, VerdictKept, VerdictHasWinner DEF Ended
  <2>2. CASE operations'[p] = "none"
    BY <2>2 DEF VerdictStands
  <2>3. QED
    BY <1>1, <2>1, <2>2
<1> QED
  BY <1>2, <1>3 DEF OutcomesRecorded

LEMMA OutcomesStep ==
  ASSUME TypeOK, TypeOK', MutationInvariant, OutcomesRecorded, [Next]_vars
  PROVE  OutcomesRecorded'
<1> USE DEF storeVars, callVars, inputVars, httpVars, sezzleVars, clockVars, SetStorageUp
<1>1. \A p \in PreviewIds : effects[p] >= effects[p]
  BY DEF TypeOK
<1>2. ASSUME NEW p \in PreviewIds, NEW r \in Requests, CreatePreview(p, r)
      PROVE  OutcomesRecorded'
  BY <1>1, <1>2, OutcomesElsewhere DEF CreatePreview, SavePreview
<1>3. ASSUME NEW p \in PreviewIds, ReturnPreview(p)
      PROVE  OutcomesRecorded'
  BY <1>1, <1>3, OutcomesElsewhere DEF ReturnPreview, AppendAudit
<1>4. CASE Tick \/ StorageFails \/ StorageRecovers \/ UNCHANGED vars
  <2>1. UNCHANGED <<operations, pc, arg, winner, reply, audits, effects>>
    BY <1>4 DEF Tick, StorageFails, StorageRecovers, vars
  <2>2. QED
    BY <1>1, <2>1, OutcomesElsewhere
<1>5. ASSUME NEW t \in Targets, TargetChanges(t)
      PROVE  OutcomesRecorded'
  BY <1>1, <1>5, OutcomesElsewhere DEF TargetChanges
<1>6. CASE Client
  BY <1>2, <1>3, <1>6, OutcomesBegin DEF Client
<1>7. CASE Environment
  BY <1>4, <1>5, <1>7, OutcomesRestart DEF Environment
<1> QED
  BY <1>4, <1>6, <1>7, OutcomesProgress, OutcomesSezzle DEF Next

LEMMA OutcomesHold == Spec => [](InductiveInvariant /\ OutcomesRecorded)
<1>1. Init => OutcomesRecorded
  BY OutcomesInit
<1>2. /\ InductiveInvariant /\ InductiveInvariant' /\ OutcomesRecorded
      /\ [Next]_vars
      => OutcomesRecorded'
  BY OutcomesStep DEF InductiveInvariant
<1> QED
  BY <1>1, <1>2, InvariantHolds, PTL DEF Spec

\* A success that is recorded, reported or audited follows an answer of Sezzle's.
THEOREM SuccessIsRealCorrect == Spec => []SuccessIsReal
<1>1. ASSUME InductiveInvariant, OutcomesRecorded PROVE SuccessIsReal
  <2> USE <1>1 DEF InductiveInvariant
  <2>1. ASSUME NEW p \in PreviewIds, operations[p] = "succeeded" PROVE effects[p] > 0
    <3>1. winner[p] \in Calls /\ PreviewOf(winner[p]) = p
      BY <2>1, VerdictHasWinner
    <3>2. QED
      BY <2>1, <3>1 DEF OutcomesRecorded, VerdictStands, CallKnows
  <2>2. QED
    BY <2>1 DEF SuccessIsReal, OutcomesRecorded, CallKnows, Audited
<1> QED
  BY <1>1, OutcomesHold, PTL

\* What is recorded of an operation and what is audited of its call say the same.
THEOREM VerdictsAgreeCorrect == Spec => []VerdictsAgree
<1>1. ASSUME InductiveInvariant, OutcomesRecorded PROVE VerdictsAgree
  <2> USE <1>1 DEF InductiveInvariant
  <2>1. ASSUME NEW p \in PreviewIds, operations[p] = "succeeded"
        PROVE  ~Audited(winner[p], "failure")
    <3>1. winner[p] \in Calls
      BY <2>1, VerdictHasWinner
    <3>2. QED
      BY <2>1, <3>1 DEF OutcomesRecorded, VerdictStands, CallKnows
  <2>2. QED
    BY <2>1 DEF VerdictsAgree, OutcomesRecorded, VerdictStands
<1> QED
  BY <1>1, OutcomesHold, PTL

-----------------------------------------------------------------------------
(* What steps do to the records.                                           *)

\* The steps that touch neither previews, operations, winners nor effects.
RecordsKept == UNCHANGED <<previews, operations, winner, effects>>

\* Every step leaves the records alone or is one of these.
LEMMA RecordSteps ==
  ASSUME TypeOK, [Next]_vars
  PROVE  \/ RecordsKept /\ \A p \in PreviewIds : stage'[p] = "unused" <=> stage[p] = "unused"
         \/ \E p \in PreviewIds, r \in Requests : CreatePreview(p, r)
         \/ \E c \in Calls : CheckAndReserve(c) /\ ~RecordsKept
         \/ \E c \in Calls : Consume(c) /\ ~RecordsKept
         \/ \E c \in Calls :
              (CompleteSuccess(c) \/ CompleteFailure(c)) /\ ~RecordsKept
         \/ \E c \in Calls : Sezzle(c) /\ CarryOut(c)
         \/ \E ctx \in Contexts : Restart(ctx)
<1> USE DEF RecordsKept, storeVars, callVars, inputVars, httpVars, sezzleVars, clockVars
<1>1. ASSUME NEW p \in PreviewIds, ReturnPreview(p)
      PROVE  RecordsKept /\ \A q \in PreviewIds : stage'[q] = "unused" <=> stage[q] = "unused"
  BY <1>1 DEF ReturnPreview, AppendAudit, TypeOK
<1>2. CASE Client
  BY <1>1, <1>2 DEF Client, ReadTarget, ReadFails
<1>3. ASSUME NEW c \in Calls, Progress(c)
      PROVE  \/ RecordsKept /\ UNCHANGED stage
             \/ CheckAndReserve(c) /\ ~RecordsKept
             \/ Consume(c) /\ ~RecordsKept
             \/ (CompleteSuccess(c) \/ CompleteFailure(c)) /\ ~RecordsKept
  <2>1. CASE CheckAndReserve(c)
    BY <2>1 DEF CheckAndReserve, Reject, AppendAudit, ReserveOperation
  <2>2. CASE Consume(c)
    BY <2>2 DEF Consume, ConsumePreview
  <2>3. CASE CompleteSuccess(c) \/ CompleteFailure(c)
    BY <2>3 DEF CompleteSuccess, CompleteFailure, CompleteOperation
  <2>4. CASE BeginConfirm(c) \/ RejectDuplicate(c) \/ Send(c)
    BY <2>4 DEF BeginConfirm, RejectDuplicate, Send, Reject, AppendAudit
  <2>5. CASE NoAnswer(c) \/ Receive(c) \/ RecordSuccess(c) \/ RecordFailure(c)
    BY <2>5 DEF NoAnswer, Receive, RecordSuccess, RecordFailure, AppendAudit
  <2>6. QED
    BY <1>3, <2>1, <2>2, <2>3, <2>4, <2>5 DEF Progress
<1>4. ASSUME NEW c \in Calls, Sezzle(c)
      PROVE  (RecordsKept /\ UNCHANGED stage) \/ CarryOut(c)
  BY <1>4 DEF Sezzle, Answer, LateArrival
<1>5. CASE Environment
  BY <1>5 DEF Environment, Tick, TargetChanges, StorageFails, StorageRecovers, SetStorageUp
<1>6. CASE UNCHANGED vars
  BY <1>6 DEF vars
<1> QED
  BY <1>2, <1>3, <1>4, <1>5, <1>6 DEF Next

\* Only a call without a verdict records one.
LEMMA CompletesOpen ==
  ASSUME TypeOK, MutationInvariant, OutcomesRecorded, NEW c \in Calls,
         CompleteSuccess(c) \/ CompleteFailure(c), ~RecordsKept
  PROVE  /\ PreviewOf(c) \in PreviewIds /\ winner[PreviewOf(c)] = c
         /\ operations[PreviewOf(c)] = "in_progress"
         /\ UNCHANGED <<previews, winner, effects, stage>>
         /\ \E v \in {"succeeded", "failed"} :
              /\ operations' = [operations EXCEPT ![PreviewOf(c)] = v]
              /\ v = "succeeded" => effects[PreviewOf(c)] > 0
<1>1. pc[c] \in {"succeeding", "closing"}
  BY DEF CompleteSuccess, CompleteFailure
<1>2. PreviewOf(c) \in PreviewIds /\ winner[PreviewOf(c)] = c
  BY <1>1, Begun DEF MutationInvariant, WinnersHold, Holding
<1>3. /\ operations[PreviewOf(c)] = "in_progress"
      /\ pc[c] = "succeeding" => effects[PreviewOf(c)] > 0
  BY <1>1 DEF OutcomesRecorded, CallKnows, Undecided
<1> QED
  BY <1>2, <1>3
  DEF CompleteSuccess, CompleteFailure, CompleteOperation, RecordsKept, sezzleVars, storeVars

\* What durable storage keeps of a preview in a step.
Final(p) ==
  /\ operations[p] \in {"succeeded", "failed"} => operations'[p] = operations[p]
  /\ operations[p] # "none" => operations'[p] # "none"
  /\ previews[p] # None /\ previews[p].consumed => previews'[p] = previews[p]

LEMMA FinalStep ==
  ASSUME InductiveInvariant, OutcomesRecorded, [Next]_vars, Durable, NEW p \in PreviewIds
  PROVE  Final(p)
<1> USE DEF InductiveInvariant, Final
<1>1. ASSUME NEW q \in PreviewIds, NEW r \in Requests, CreatePreview(q, r)
      PROVE  Final(p)
  <2>1. previews[q] = None /\ operations' = operations
    BY <1>1 DEF CreatePreview, SavePreview, MutationInvariant, ReservationsStored
  <2>2. QED
    BY <1>1, <2>1 DEF CreatePreview, SavePreview, TypeOK, StoreTypeOK
<1>2. ASSUME NEW c \in Calls, CheckAndReserve(c), ~RecordsKept
      PROVE  Final(p)
  <2>1. /\ operations[PreviewOf(c)] = "none" /\ previews' = previews
        /\ operations' = [operations EXCEPT ![PreviewOf(c)] = "in_progress"]
    BY <1>2 DEF CheckAndReserve, Reservable, ReserveOperation, RecordsKept, Reject,
                AppendAudit, sezzleVars, storeVars
  <2>2. QED
    BY <2>1 DEF TypeOK, StoreTypeOK
<1>3. ASSUME NEW c \in Calls, Consume(c), ~RecordsKept
      PROVE  Final(p)
  <2>1. /\ ~previews[PreviewOf(c)].consumed /\ operations' = operations
        /\ previews' = [previews EXCEPT ![PreviewOf(c)].consumed = TRUE]
    BY <1>3 DEF Consume, Consumable, ConsumePreview, storeVars, sezzleVars, RecordsKept
  <2>2. QED
    BY <2>1 DEF TypeOK, StoreTypeOK
<1>4. ASSUME NEW c \in Calls, CompleteSuccess(c) \/ CompleteFailure(c),
             ~RecordsKept
      PROVE  Final(p)
  BY <1>4, CompletesOpen DEF TypeOK, StoreTypeOK
<1>5. ASSUME NEW ctx \in Contexts, Restart(ctx)
      PROVE  Final(p)
  BY <1>5 DEF Restart, Reopen
<1>6. ASSUME NEW c \in Calls, Sezzle(c)
      PROVE  Final(p)
  BY <1>6 DEF Sezzle, Answer, LateArrival, storeVars
<1>7. QED
  BY <1>1, <1>2, <1>3, <1>4, <1>5, <1>6, RecordSteps DEF RecordsKept

\* With durable storage no step changes a verdict, frees a key or revives a preview.
THEOREM VerdictsAreFinalCorrect == Spec => VerdictsAreFinal
<1> DEFINE AllFinal == \A p \in PreviewIds : Durable => Final(p)
<1>1. InductiveInvariant /\ OutcomesRecorded /\ [Next]_vars => [AllFinal]_vars
  BY FinalStep
<1>2. VerdictsAreFinal <=> [][AllFinal]_vars
  BY DEF VerdictsAreFinal, Final
<1> QED
  BY <1>1, <1>2, OutcomesHold, PTL DEF Spec

-----------------------------------------------------------------------------
(* The refinement.                                                         *)

\* A preview nobody was told of has no winner.
LEMMA UnusedHasNoWinner ==
  ASSUME TypeOK, MutationInvariant, NEW p \in PreviewIds, stage[p] = "unused"
  PROVE  winner[p] = None /\ previews[p] = None
  BY DEF MutationInvariant, CallsOnIssued, WinnersHold, ArgumentsGiven, ReservationsStored,
         TypeOK

\* A new record opens the preview.
LEMMA CreateOpens ==
  ASSUME TypeOK, TypeOK', MutationInvariant, NEW p \in PreviewIds, NEW r \in Requests,
         CreatePreview(p, r)
  PROVE  AM!Open(p)
<1>1. winner[p] = None /\ previews[p] = None /\ stage[p] = "unused"
  BY UnusedHasNoWinner DEF CreatePreview
<1>2. previews'[p] # None
  BY RecordType, StoreAssumption DEF CreatePreview, SavePreview, TypeOK, StoreTypeOK
<1>3. \A q \in PreviewIds \ {p} : previews'[q] = previews[q] /\ stage'[q] = stage[q]
  BY DEF CreatePreview, SavePreview, TypeOK, StoreTypeOK
<1>4. UNCHANGED <<winner, operations, effects>>
  BY DEF CreatePreview, SavePreview, sezzleVars
<1>5. phaseBar[p] = "absent" /\ phaseBar' = [phaseBar EXCEPT ![p] = "open"]
  BY <1>1, <1>2, <1>3, <1>4 DEF phaseBar
<1>6. UNCHANGED verdictBar
  BY <1>4 DEF verdictBar
<1> QED
  BY <1>4, <1>5, <1>6 DEF AM!Open

\* A reservation spends the preview.
LEMMA ReserveSpends ==
  ASSUME TypeOK, MutationInvariant, NEW c \in Calls, CheckAndReserve(c), ~RecordsKept
  PROVE  AM!Spend(PreviewOf(c))
<1>1. /\ pc[c] = "looked" /\ Matches(c) /\ Reservable(PreviewOf(c))
      /\ winner' = [winner EXCEPT ![PreviewOf(c)] = c]
      /\ operations' = [operations EXCEPT ![PreviewOf(c)] = "in_progress"]
      /\ UNCHANGED <<previews, stage, effects>>
  BY DEF CheckAndReserve, ReserveOperation, RecordsKept, Reject, AppendAudit, sezzleVars,
         storeVars
<1>2. /\ PreviewOf(c) \in PreviewIds
      /\ winner[PreviewOf(c)] = None /\ previews[PreviewOf(c)] # None
      /\ operations[PreviewOf(c)] = "none"
  BY <1>1, ReservableIsOpen DEF Reservable
<1>3. /\ phaseBar[PreviewOf(c)] = "open"
      /\ phaseBar' = [phaseBar EXCEPT ![PreviewOf(c)] = "spent"]
  BY <1>1, <1>2, StoreAssumption DEF phaseBar, TypeOK
<1>4. UNCHANGED verdictBar
  BY <1>1, <1>2 DEF verdictBar, TypeOK, StoreTypeOK
<1> QED
  BY <1>1, <1>3, <1>4 DEF AM!Spend

\* Consuming the preview changes nothing that was promised: it is spent already.
LEMMA ConsumeStutters ==
  ASSUME TypeOK, MutationInvariant, NEW c \in Calls, Consume(c), ~RecordsKept
  PROVE  UNCHANGED <<phaseBar, effects, verdictBar>>
<1>1. /\ previews' = [previews EXCEPT ![PreviewOf(c)].consumed = TRUE]
      /\ UNCHANGED <<operations, stage, winner, effects>>
  BY DEF Consume, ConsumePreview, RecordsKept, storeVars, sezzleVars
<1>2. PreviewOf(c) \in PreviewIds /\ winner[PreviewOf(c)] = c
  BY Begun DEF Consume, MutationInvariant, WinnersHold, Holding
<1>3. UNCHANGED phaseBar
  BY <1>1, <1>2, StoreAssumption DEF phaseBar, TypeOK, StoreTypeOK
<1>4. UNCHANGED verdictBar
  BY <1>1 DEF verdictBar
<1> QED
  BY <1>1, <1>3, <1>4

\* A recorded verdict settles the preview.
LEMMA CompleteSettles ==
  ASSUME InductiveInvariant, OutcomesRecorded, AtMostOnce, NEW c \in Calls,
         CompleteSuccess(c) \/ CompleteFailure(c), ~RecordsKept
  PROVE  \E v \in {"succeeded", "failed"} : AM!Settle(PreviewOf(c), v)
<1> USE DEF InductiveInvariant
<1>1. PICK v \in {"succeeded", "failed"} :
        /\ operations' = [operations EXCEPT ![PreviewOf(c)] = v]
        /\ v = "succeeded" => effects[PreviewOf(c)] > 0
  BY CompletesOpen
<1>2. /\ PreviewOf(c) \in PreviewIds /\ winner[PreviewOf(c)] = c
      /\ operations[PreviewOf(c)] = "in_progress"
      /\ UNCHANGED <<previews, winner, effects, stage>>
  BY CompletesOpen
<1>3. v = "succeeded" => effects[PreviewOf(c)] = 1
  BY <1>1, <1>2 DEF AtMostOnce, TypeOK
<1>4. phaseBar[PreviewOf(c)] = "spent" /\ UNCHANGED phaseBar
  BY <1>2, StoreAssumption DEF phaseBar
<1>5. /\ verdictBar[PreviewOf(c)] = "none"
      /\ verdictBar' = [verdictBar EXCEPT ![PreviewOf(c)] = v]
  BY <1>1, <1>2 DEF verdictBar, TypeOK, StoreTypeOK
<1> QED
  BY <1>2, <1>3, <1>4, <1>5 DEF AM!Settle

\* A request that Sezzle carries out takes effect: the first one of its preview.
LEMMA CarryOutTakesEffect ==
  ASSUME TypeOK, MutationInvariant, NEW c \in Calls, Sezzle(c), CarryOut(c)
  PROVE  \/ AM!TakeEffect(PreviewOf(c))
         \/ UNCHANGED <<phaseBar, effects, verdictBar>>
<1>1. /\ UNCHANGED <<previews, operations, stage, winner>>
      /\ Copies(c) > 0
      /\ pc[c] = "awaiting" \/ late[c] > 0
  BY DEF Sezzle, Answer, LateArrival, storeVars, Copies, TypeOK
<1>2. UNCHANGED <<phaseBar, verdictBar>>
  BY <1>1 DEF phaseBar, verdictBar
<1>3. CASE Keyed(arg[c].request) /\ PreviewOf(c) \in keys
  BY <1>2, <1>3 DEF CarryOut, sezzleVars
<1>4. CASE ~(Keyed(arg[c].request) /\ PreviewOf(c) \in keys)
  <2>1. /\ PreviewOf(c) \in PreviewIds
        /\ winner[PreviewOf(c)] = c /\ c # None
    BY <1>1, Begun, StoreAssumption DEF MutationInvariant, WinnersHold, Holding
  <2>2. effects[PreviewOf(c)] = 0
    <3>1. /\ Keyed(arg[c].request) =>
               effects[PreviewOf(c)] = (IF PreviewOf(c) \in keys THEN 1 ELSE 0)
          /\ ~Keyed(arg[c].request) => effects[PreviewOf(c)] + Copies(c) <= 1
      BY <2>1 DEF MutationInvariant, EffectsCounted
    <3>2. effects[PreviewOf(c)] \in Nat /\ Copies(c) \in Nat
      BY <2>1 DEF Copies, TypeOK
    <3>3. QED
      BY <1>1, <1>4, <3>1, <3>2
  <2>3. effects' = [effects EXCEPT ![PreviewOf(c)] = 1]
    BY <1>4, <2>2 DEF CarryOut
  <2>4. phaseBar[PreviewOf(c)] = "spent"
    BY <2>1 DEF phaseBar
  <2>5. QED
    BY <1>2, <2>2, <2>3, <2>4 DEF AM!TakeEffect
<1> QED
  BY <1>3, <1>4

\* A restart changes nothing that was promised, or loses what was kept in memory.
LEMMA RestartForgets ==
  ASSUME TypeOK, MutationInvariant, NEW ctx \in Contexts, Restart(ctx)
  PROVE  AM!Forget \/ UNCHANGED <<phaseBar, effects, verdictBar>>
<1>1. /\ \A p \in PreviewIds : stage'[p] = "unused" <=> stage[p] = "unused"
      /\ UNCHANGED <<winner, effects>>
  BY DEF Restart, sezzleVars
<1>2. CASE Durable
  BY <1>1, <1>2 DEF Restart, Reopen, phaseBar, verdictBar
<1>3. CASE ~Durable
  <2>1. /\ \A p \in PreviewIds : previews'[p] = None
        /\ \A p \in PreviewIds : operations'[p] = "none"
    BY <1>3 DEF Restart, Reopen
  <2>2. phaseBar' = [p \in PreviewIds |->
                       IF phaseBar[p] = "open" THEN "void" ELSE phaseBar[p]]
    BY <1>1, <2>1 DEF phaseBar, MutationInvariant, ReservationsStored
  <2>3. verdictBar' = [p \in PreviewIds |-> "none"]
    BY <2>1 DEF verdictBar
  <2>4. QED
    BY <1>1, <1>3, <2>2, <2>3 DEF AM!Forget
<1> QED
  BY <1>2, <1>3

\* Whatever calls race, answers are lost, requests are repeated and processes restart:
\* what the protocol does is a behaviour of ApprovedMutation.
THEOREM ImplementsApprovedMutationCorrect == Spec => ImplementsApprovedMutation
<1>1. Init => AM!Init
  BY DEF Init, StoreInit, AM!Init, phaseBar, verdictBar
<1>2. ASSUME InductiveInvariant, InductiveInvariant', OutcomesRecorded, AtMostOnce,
             [Next]_vars
      PROVE  [AM!Next]_(AM!absVars)
  <2> USE <1>2 DEF InductiveInvariant, AM!absVars
  <2>1. CASE RecordsKept /\ \A p \in PreviewIds : stage'[p] = "unused" <=> stage[p] = "unused"
    BY <2>1 DEF RecordsKept, phaseBar, verdictBar
  <2>2. ASSUME NEW p \in PreviewIds, NEW r \in Requests, CreatePreview(p, r)
        PROVE  AM!Next
    BY <2>2, CreateOpens DEF AM!Next
  <2>3. ASSUME NEW c \in Calls, CheckAndReserve(c), ~RecordsKept
        PROVE  AM!Next
    <3>1. PreviewOf(c) \in PreviewIds
      BY <2>3, Begun DEF CheckAndReserve, MutationInvariant
    <3>2. QED
      BY <2>3, <3>1, ReserveSpends DEF AM!Next
  <2>4. ASSUME NEW c \in Calls, Consume(c), ~RecordsKept
        PROVE  UNCHANGED AM!absVars
    BY <2>4, ConsumeStutters
  <2>5. ASSUME NEW c \in Calls, CompleteSuccess(c) \/ CompleteFailure(c), ~RecordsKept
        PROVE  AM!Next
    BY <2>5, CompleteSettles, CompletesOpen DEF AM!Next
  <2>6. ASSUME NEW c \in Calls, Sezzle(c), CarryOut(c)
        PROVE  [AM!Next]_(AM!absVars)
    <3>1. PreviewOf(c) \in PreviewIds
      BY <2>6, Begun DEF Sezzle, Answer, LateArrival, MutationInvariant
    <3>2. QED
      BY <2>6, <3>1, CarryOutTakesEffect DEF AM!Next
  <2>7. ASSUME NEW ctx \in Contexts, Restart(ctx)
        PROVE  [AM!Next]_(AM!absVars)
    BY <2>7, RestartForgets DEF AM!Next
  <2>8. QED
    BY <2>1, <2>2, <2>3, <2>4, <2>5, <2>6, <2>7, RecordSteps
<1> QED
  BY <1>1, <1>2, OutcomesHold, AtMostOnceCorrect, PTL
  DEF Spec, AM!Spec, ImplementsApprovedMutation

=============================================================================
