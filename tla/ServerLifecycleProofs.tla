----------------------- MODULE ServerLifecycleProofs -----------------------
(***************************************************************************)
(* Proofs about ServerLifecycle: it implements the mutation protocol, and  *)
(* its shutdown keeps the store until nobody can be answered any more.     *)
(***************************************************************************)
EXTENDS ServerLifecycle, MutationGuardProofs

-----------------------------------------------------------------------------
(* The server implements the protocol.                                     *)

LEMMA ServerStepIsStep == [ServerNext]_lifecycleVars => [Next]_vars
<1> SUFFICES ASSUME [ServerNext]_lifecycleVars PROVE [Next]_vars
  OBVIOUS
<1>1. CASE UNCHANGED lifecycleVars
  BY <1>1 DEF lifecycleVars
<1>2. CASE Prepare
  BY <1>2 DEF Prepare, Next, Client
<1>3. ASSUME NEW c \in Calls, Accept(c) \/ Serve(c) \/ Disconnect(c)
      PROVE  [Next]_vars
  <2>1. CASE Handle(c)
    BY <2>1 DEF Handle, Next, Client
  <2>2. CASE Progress(c)
    BY <2>2 DEF Next
  <2>3. CASE UNCHANGED vars
    BY <2>3
  <2>4. QED
    BY <1>3, <2>1, <2>2, <2>3 DEF Accept, Serve, Respond, Disconnect
<1>4. CASE Signal \/ SignalAgain \/ Shutdown
  BY <1>4 DEF Signal, SignalAgain, Shutdown, StopListening, CloseStore, Next, Environment
<1>5. CASE Outside
  BY <1>5 DEF Outside, Next, Environment
<1>6. ASSUME NEW ctx \in Contexts, StartAgain(ctx)
      PROVE  [Next]_vars
  BY <1>6 DEF StartAgain, Next, Environment
<1> QED
  BY <1>1, <1>2, <1>3, <1>4, <1>5, <1>6 DEF ServerNext

\* The server adds connections and a shutdown to the protocol and takes nothing away.
THEOREM ImplementsProtocolCorrect == ServerSpec => ImplementsProtocol
<1>1. ServerInit => Init
  BY DEF ServerInit
<1> QED
  BY <1>1, ServerStepIsStep, PTL DEF ServerSpec, Spec, ImplementsProtocol

\* So whatever the server does, and however it stops, a mutation happens at most once.
THEOREM ServerAtMostOnce == ServerSpec => []AtMostOnce
  BY ImplementsProtocolCorrect, AtMostOnceCorrect, PTL DEF ImplementsProtocol

\* What is known of the protocol holds in every step of the server.
LEMMA ProtocolHolds == ServerSpec => [](InductiveInvariant /\ OutcomesRecorded)
  BY ImplementsProtocolCorrect, OutcomesHold, PTL DEF ImplementsProtocol

-----------------------------------------------------------------------------
(* The shutdown.                                                           *)

LEMMA ServerInvariantInit == ServerInit => ServerInvariant
  BY LifecycleAssumption
  DEF ServerInit, Init, StoreInit, ServerInvariant, ServerTypeOK, ClosedLast, Active,
      ResponseFollows, SpentStored, Holding

\* Steps of the protocol leave the store as open or closed as it is, or are a storage
\* fault, a recovery or a restart.
LEMMA StorageKept ==
  ASSUME NEW c \in Calls, Progress(c) \/ Sezzle(c)
  PROVE  storageUp' = storageUp
  BY DEF Progress, Sezzle, BeginConfirm, CheckAndReserve, Consume, RejectDuplicate, Reject,
         Send, NoAnswer, Receive, RecordSuccess, CompleteSuccess, RecordFailure,
         CompleteFailure, Answer, LateArrival, AppendAudit, ReserveOperation,
         ConsumePreview, CompleteOperation, storeVars

LEMMA ClosedLastStep ==
  ASSUME ServerTypeOK, ClosedLast, [ServerNext]_lifecycleVars
  PROVE  ServerTypeOK' /\ ClosedLast'
<1> USE LifecycleAssumption DEF ServerTypeOK, ClosedLast, Active, serverVars
<1>1. CASE UNCHANGED <<storageUp, phase, response>>
  BY <1>1
<1>2. CASE UNCHANGED lifecycleVars
  BY <1>1, <1>2 DEF lifecycleVars, vars, storeVars
<1>3. CASE Prepare
  BY <1>1, <1>3
  DEF Prepare, CreatePreview, ReturnPreview, SavePreview, AppendAudit, storeVars
<1>4. ASSUME NEW c \in Calls, Accept(c) \/ Respond(c) \/ Disconnect(c)
      PROVE  ServerTypeOK' /\ ClosedLast'
  BY <1>4 DEF Accept, Reachable, Respond, Disconnect, vars, storeVars
<1>5. ASSUME NEW c \in Calls, Handle(c)
      PROVE  ServerTypeOK' /\ ClosedLast'
  BY <1>1, <1>5 DEF Handle, ReadTarget, ReadFails, storeVars
<1>6. ASSUME NEW c \in Calls, Progress(c) /\ UNCHANGED serverVars
      PROVE  ServerTypeOK' /\ ClosedLast'
  BY <1>1, <1>6, StorageKept
<1>7. CASE Signal \/ SignalAgain
  BY <1>7 DEF Signal, SignalAgain, CloseTransports, vars, storeVars
<1>8. CASE StopListening
  BY <1>8 DEF StopListening, vars, storeVars
<1>9. CASE CloseStore
  BY <1>9 DEF CloseStore, StorageFails, SetStorageUp
<1>10. CASE Outside
  BY <1>1, <1>10, StorageKept DEF Outside, Tick, TargetChanges, storeVars
<1>11. ASSUME NEW ctx \in Contexts, StartAgain(ctx)
      PROVE  ServerTypeOK' /\ ClosedLast'
  BY <1>11 DEF StartAgain, Restart, Reopen
<1> QED
  BY <1>2, <1>3, <1>4, <1>5, <1>6, <1>7, <1>8, <1>9, <1>10, <1>11
  DEF ServerNext, Serve, Shutdown

-----------------------------------------------------------------------------
(* Answers.                                                                *)

\* In a step of the protocol a call rests, begins, moves on or is interrupted.
LEMMA CallSteps ==
  ASSUME TypeOK, [Next]_vars, NEW c \in Calls
  PROVE  \/ pc'[c] = pc[c] /\ arg'[c] = arg[c]
         \/ \E p \in PreviewIds, r \in Requests, confirm \in BOOLEAN :
              ReadTarget(c, p, r, confirm) \/ ReadFails(c, p, r, confirm)
         \/ Progress(c)
         \/ \E ctx \in Contexts : Restart(ctx)
<1> USE DEF callVars, inputVars
<1>1. CASE \E d \in Calls, p \in PreviewIds, r \in Requests, confirm \in BOOLEAN :
             ReadTarget(d, p, r, confirm) \/ ReadFails(d, p, r, confirm)
  BY <1>1 DEF ReadTarget, ReadFails, Goto, TypeOK
<1>2. CASE Client
  BY <1>1, <1>2 DEF Client, CreatePreview, ReturnPreview
<1>3. ASSUME NEW d \in Calls, Progress(d), d # c
      PROVE  pc'[c] = pc[c] /\ arg'[c] = arg[c]
  BY <1>3
  DEF Progress, BeginConfirm, CheckAndReserve, Consume, RejectDuplicate, Reject, Send,
      NoAnswer, Receive, RetryOrFail, ReplayOnce, RecordSuccess, CompleteSuccess,
      RecordFailure, CompleteFailure, Goto, TypeOK
<1>4. ASSUME NEW d \in Calls, Sezzle(d)
      PROVE  pc'[c] = pc[c] /\ arg'[c] = arg[c]
  BY <1>4 DEF Sezzle, Answer, LateArrival
<1>5. CASE Environment
  BY <1>5 DEF Environment, Tick, TargetChanges, StorageFails, StorageRecovers
<1>6. CASE UNCHANGED vars
  BY <1>6 DEF vars
<1> QED
  BY <1>2, <1>3, <1>4, <1>5, <1>6 DEF Next

\* A call that moves on finds the preview it has spent, and leaves its verdict.
LEMMA SpentByProgress ==
  ASSUME InductiveInvariant, InductiveInvariant', OutcomesRecorded, NEW c \in Calls,
         SpentStored(c), Progress(c), Final(PreviewOf(c))
  PROVE  SpentStored(c)'
<1> USE DEF InductiveInvariant, Goto
<1>1. PreviewOf(c)' = PreviewOf(c) /\ arg' = arg
  BY DEF Progress, BeginConfirm, CheckAndReserve, Consume, RejectDuplicate, Send, NoAnswer,
         Receive, RecordSuccess, CompleteSuccess, RecordFailure, CompleteFailure, inputVars,
         PreviewOf
<1>2. PreviewOf(c) \in PreviewIds
  BY Begun DEF Progress, BeginConfirm, CheckAndReserve, Consume, RejectDuplicate, Send,
         NoAnswer, Receive, RecordSuccess, CompleteSuccess, RecordFailure, CompleteFailure,
         MutationInvariant
<1>3. ASSUME pc[c] \in Holding \ {"reserved", "unconsumed"},
             pc'[c] \notin {"succeeded", "failed"}
      PROVE  SpentStored(c)'
  BY <1>1, <1>2, <1>3 DEF SpentStored, Final
<1>4. ASSUME pc'[c] \notin Holding \ {"reserved", "unconsumed"}
      PROVE  SpentStored(c)'
  BY <1>4 DEF SpentStored, Holding
<1>5. CASE BeginConfirm(c) \/ CheckAndReserve(c) \/ RejectDuplicate(c)
  <2>1. pc'[c] \in {"looked", "reserved", "unreserved", "rejected", "error"}
    BY <1>5 DEF BeginConfirm, CheckAndReserve, RejectDuplicate, Reject, TypeOK
  <2>2. QED
    BY <1>4, <2>1 DEF Holding
<1>6. CASE Consume(c)
  <2>1. CASE Consumable(PreviewOf(c)) /\ ConsumePreview(PreviewOf(c)) /\ Goto(c, "consumed")
    <3>1. previews[PreviewOf(c)] \in PreviewRecord
      BY <1>2, <2>1 DEF Consumable, TypeOK, StoreTypeOK
    <3>2. previews'[PreviewOf(c)] = [previews[PreviewOf(c)] EXCEPT !.consumed = TRUE]
      BY <1>2, <2>1 DEF ConsumePreview, TypeOK, StoreTypeOK
    <3>3. previews'[PreviewOf(c)] # None /\ previews'[PreviewOf(c)].consumed
      BY <3>1, <3>2, StoreAssumption DEF PreviewRecord
    <3>4. QED
      BY <1>1, <2>1, <3>3 DEF SpentStored, TypeOK
  <2>2. CASE pc' = [pc EXCEPT ![c] = "unconsumed"] \/ pc' = [pc EXCEPT ![c] = "error"]
    BY <1>4, <2>2 DEF Holding, TypeOK
  <2>3. QED
    BY <1>6, <2>1, <2>2 DEF Consume
<1>7. CASE Send(c) \/ NoAnswer(c) \/ Receive(c) \/ RecordSuccess(c) \/ RecordFailure(c)
  <2>1. /\ pc[c] \in {"consumed", "awaiting", "failing"}
        /\ pc'[c] \in {"awaiting", "failing", "succeeding", "closing", "error"}
    BY <1>7 DEF Send, NoAnswer, Receive, RecordSuccess, RecordFailure, RetryOrFail,
                ReplayOnce, TypeOK
  <2>2. QED
    BY <1>3, <2>1 DEF Holding
<1>8. CASE CompleteSuccess(c) \/ CompleteFailure(c)
  <2>1. pc[c] \in {"succeeding", "closing"}
    BY <1>8 DEF CompleteSuccess, CompleteFailure
  <2>2. CASE pc'[c] \in {"failing", "error"}
    BY <1>3, <2>1, <2>2 DEF Holding
  <2>3. CASE \E v \in {"succeeded", "failed"} :
               pc' = [pc EXCEPT ![c] = v] /\ CompleteOperation(PreviewOf(c), v)
    <3>1. operations'[PreviewOf(c)] = pc'[c]
      BY <1>2, <2>3 DEF CompleteOperation, TypeOK, StoreTypeOK
    <3>2. previews'[PreviewOf(c)] # None /\ previews'[PreviewOf(c)].consumed
      BY <2>1 DEF SpentStored, Final, Holding
    <3>3. QED
      BY <1>1, <3>1, <3>2 DEF SpentStored
  <2>4. QED
    BY <1>8, <2>2, <2>3 DEF CompleteSuccess, CompleteFailure, TypeOK
<1> QED
  BY <1>5, <1>6, <1>7, <1>8 DEF Progress

LEMMA SpentStep ==
  ASSUME InductiveInvariant, InductiveInvariant', OutcomesRecorded, [Next]_vars,
         NEW c \in Calls, SpentStored(c)
  PROVE  SpentStored(c)'
<1> USE LifecycleAssumption DEF InductiveInvariant
<1>1. pc[c] # "idle" => PreviewOf(c) \in PreviewIds /\ Final(PreviewOf(c))
  BY Begun, FinalStep DEF MutationInvariant
<1>2. CASE pc'[c] = pc[c] /\ arg'[c] = arg[c]
  BY <1>1, <1>2 DEF SpentStored, Final, Holding, PreviewOf
<1>3. CASE \E p \in PreviewIds, r \in Requests, confirm \in BOOLEAN :
             ReadTarget(c, p, r, confirm) \/ ReadFails(c, p, r, confirm)
  BY <1>3 DEF ReadTarget, ReadFails, Goto, TypeOK, SpentStored, Holding
<1>4. CASE Progress(c)
  <2>1. pc[c] # "idle"
    BY <1>4 DEF Progress, BeginConfirm, CheckAndReserve, Consume, RejectDuplicate, Send,
                NoAnswer, Receive, RecordSuccess, CompleteSuccess, RecordFailure,
                CompleteFailure
  <2>2. QED
    BY <1>1, <1>4, <2>1, SpentByProgress
<1>5. ASSUME NEW ctx \in Contexts, Restart(ctx)
      PROVE  SpentStored(c)'
  BY <1>1, <1>5 DEF Restart, inputVars, SpentStored, Final, Holding, Ended, PreviewOf
<1> QED
  BY <1>2, <1>3, <1>4, <1>5, CallSteps

\* A call that holds its reservation, while the store is open, gives it up only with a
\* verdict.
LEMMA HolderGoesOn ==
  ASSUME InductiveInvariant, InductiveInvariant', OutcomesRecorded, storageUp,
         NEW c \in Calls, Progress(c),
         winner[PreviewOf(c)] = c => pc[c] \in Holding \ {"unconsumed"},
         winner'[PreviewOf(c)] = c
  PROVE  pc'[c] \in Holding \ {"unconsumed"}
<1> USE DEF InductiveInvariant, Goto, Holding
<1>1. CASE BeginConfirm(c) \/ RejectDuplicate(c)
  <2>1. /\ winner' = winner
        /\ pc[c] \in {"read", "unreserved", "unconsumed"}
    BY <1>1 DEF BeginConfirm, RejectDuplicate
  <2>2. QED
    BY <2>1
<1>2. CASE CheckAndReserve(c)
  <2>1. pc[c] = "looked"
    BY <1>2 DEF CheckAndReserve
  <2>2. pc' = [pc EXCEPT ![c] = "reserved"] \/ winner' = winner
    BY <1>2 DEF CheckAndReserve
  <2>3. QED
    BY <2>1, <2>2 DEF TypeOK
<1>3. CASE Consume(c)
  <2>1. Consumable(PreviewOf(c))
    BY <1>3 DEF Consume, MutationInvariant, ReservedAsApproved
  <2>2. QED
    BY <1>3, <2>1 DEF Consume, TypeOK
<1>4. CASE Send(c) \/ NoAnswer(c) \/ Receive(c) \/ RecordSuccess(c)
  BY <1>4 DEF Send, NoAnswer, Receive, RecordSuccess, RetryOrFail, ReplayOnce, TypeOK
<1>5. CASE CompleteSuccess(c) \/ RecordFailure(c)
  BY <1>5 DEF CompleteSuccess, RecordFailure, TypeOK
<1>6. CASE CompleteFailure(c)
  <2>1. operations[PreviewOf(c)] = "in_progress"
    BY <1>6 DEF CompleteFailure, OutcomesRecorded, CallKnows, Undecided
  <2>2. QED
    BY <1>6, <2>1 DEF CompleteFailure, Completable, TypeOK
<1> QED
  BY <1>1, <1>2, <1>3, <1>4, <1>5, <1>6 DEF Progress

\* Nobody but the call itself makes it a winner.
LEMMA OthersWin ==
  ASSUME InductiveInvariant, InductiveInvariant', NEW c \in Calls, [Next]_vars,
         pc'[c] = pc[c], arg'[c] = arg[c], pc[c] # "idle",
         winner'[PreviewOf(c)] = c
  PROVE  winner[PreviewOf(c)] = c
<1> USE DEF InductiveInvariant
<1>1. PreviewOf(c) \in PreviewIds
  BY Begun DEF MutationInvariant
<1>2. CASE \E d \in Calls : CheckAndReserve(d) /\ ~RecordsKept
  <2>1. PICK d \in Calls : CheckAndReserve(d) /\ ~RecordsKept
    BY <1>2
  <2>2. /\ winner' = [winner EXCEPT ![PreviewOf(d)] = d]
        /\ pc[d] = "looked" /\ pc' = [pc EXCEPT ![d] = "reserved"]
    BY <2>1 DEF CheckAndReserve, RecordsKept, Reject, AppendAudit, storeVars, sezzleVars,
                Goto
  <2>3. QED
    BY <1>1, <2>2 DEF TypeOK
<1>3. CASE UNCHANGED winner
  BY <1>3
<1> QED
  BY <1>2, <1>3, RecordSteps
  DEF RecordsKept, CreatePreview, Consume, CompleteSuccess, CompleteFailure, Sezzle, Answer,
      LateArrival, Restart

\* A step in which the call itself takes no part keeps its response true to it.
LEMMA FollowsAtRest ==
  ASSUME InductiveInvariant, InductiveInvariant', [Next]_vars, NEW c \in Calls,
         ResponseFollows(c), pc'[c] = pc[c], arg'[c] = arg[c],
         \/ response'[c] = response[c]
         \/ response'[c] \in {"cut", "gone"} /\ response[c] # "none"
         \/ response[c] = "none" /\ response'[c] = "open"
         \/ response[c] = "open" /\ response'[c] = "answered" /\ pc[c] \in Ended \ {"lost"}
  PROVE  ResponseFollows(c)'
<1>1. PreviewOf(c)' = PreviewOf(c)
  BY DEF PreviewOf
<1>2. pc[c] # "idle" /\ winner'[PreviewOf(c)] = c => winner[PreviewOf(c)] = c
  BY OthersWin
<1> QED
  BY <1>1, <1>2 DEF ResponseFollows, Holding, Ended

LEMMA ResponseStep ==
  ASSUME InductiveInvariant, InductiveInvariant', OutcomesRecorded, ServerInvariant,
         [ServerNext]_lifecycleVars, NEW c \in Calls
  PROVE  ResponseFollows(c)'
<1> USE DEF ServerInvariant, ServerTypeOK
<1>1. [Next]_vars
  BY ServerStepIsStep
<1>2. ASSUME NEW d \in Calls, Handle(d)
      PROVE  ResponseFollows(c)'
  <2>1. CASE d # c
    <3>1. pc'[c] = pc[c] /\ arg'[c] = arg[c] /\ response' = response
      BY <1>2, <2>1 DEF Handle, ReadTarget, ReadFails, Goto, InductiveInvariant, TypeOK,
                        serverVars
    <3>2. QED
      BY <1>1, <3>1, FollowsAtRest
  <2>2. CASE d = c
    <3>1. /\ pc[c] = "idle" /\ response[c] # "none" /\ response' = response
          /\ winner' = winner /\ pc'[c] \in {"read", "error"}
      BY <1>2, <2>2 DEF Handle, ReadTarget, ReadFails, Goto, InductiveInvariant, TypeOK,
                        serverVars
    <3>2. PreviewOf(c)' \in PreviewIds
      BY <3>1, Begun DEF InductiveInvariant, MutationInvariant, TypeOK, ArgumentsGiven,
                         Argument, PreviewOf
    <3>3. winner[PreviewOf(c)'] # c
      BY <3>1, <3>2, StoreAssumption DEF InductiveInvariant, MutationInvariant, WinnersHold
    <3>4. QED
      BY <3>1, <3>3 DEF ResponseFollows, Ended
  <2>3. QED
    BY <2>1, <2>2
<1>3. ASSUME NEW d \in Calls, Progress(d), UNCHANGED serverVars
      PROVE  ResponseFollows(c)'
  <2>1. response' = response
    BY <1>3 DEF serverVars
  <2>2. CASE Progress(c)
    <3>1. pc[c] \notin Ended \cup {"idle"} /\ arg' = arg
      BY <2>2 DEF Progress, BeginConfirm, CheckAndReserve, Consume, RejectDuplicate, Send,
                  NoAnswer, Receive, RecordSuccess, CompleteSuccess, RecordFailure,
                  CompleteFailure, inputVars, Ended
    <3>2. response[c] = "open" => storageUp
      BY LifecycleAssumption DEF ClosedLast, Active
    <3>3. response[c] \notin {"none", "answered"}
      BY <3>1 DEF ResponseFollows
    <3>4. response[c] = "open" /\ winner'[PreviewOf(c)] = c =>
            pc'[c] \in Holding \ {"unconsumed"}
      BY <2>2, <3>1, <3>2, HolderGoesOn DEF ResponseFollows
    <3>5. PreviewOf(c)' = PreviewOf(c)
      BY <3>1 DEF PreviewOf
    <3>6. QED
      BY <2>1, <3>3, <3>4, <3>5 DEF ResponseFollows
  <2>3. CASE pc'[c] = pc[c] /\ arg'[c] = arg[c]
    BY <1>1, <2>1, <2>3, FollowsAtRest
  <2>4. CASE ~Progress(c)
    <3>1. d # c
      BY <1>3, <2>4
    <3>2. pc'[c] = pc[c] /\ arg'[c] = arg[c]
      BY <1>3, <3>1
      DEF Progress, BeginConfirm, CheckAndReserve, Consume, RejectDuplicate, Reject, Send,
          NoAnswer, Receive, RetryOrFail, ReplayOnce, RecordSuccess, CompleteSuccess,
          RecordFailure, CompleteFailure, Goto, InductiveInvariant, TypeOK, inputVars
    <3>3. QED
      BY <2>3, <3>2
  <2>5. QED
    BY <2>2, <2>4
<1>4. ASSUME NEW ctx \in Contexts, StartAgain(ctx)
      PROVE  ResponseFollows(c)'
  <2>1. /\ pc'[c] = IF pc[c] \in Ended \cup {"idle"} THEN pc[c] ELSE "lost"
        /\ winner' = winner /\ arg' = arg
        /\ response'[c] \in {response[c], "gone"} /\ response'[c] # "open"
        /\ response'[c] # "none" \/ response[c] = "none"
    BY <1>4 DEF StartAgain, Restart, Active, inputVars
  <2>2. PreviewOf(c)' = PreviewOf(c)
    BY <2>1 DEF PreviewOf
  <2>3. QED
    BY <2>1, <2>2 DEF ResponseFollows
<1>5. CASE UNCHANGED vars \/ StorageFails
  <2>1. pc' = pc /\ arg' = arg
    BY <1>5 DEF StorageFails, vars, callVars, inputVars
  <2>2. CASE response'[c] = response[c]
    BY <1>1, <2>1, <2>2, FollowsAtRest
  <2>3. CASE response'[c] # response[c]
    <3>1. ~UNCHANGED lifecycleVars
      BY <2>3 DEF lifecycleVars, serverVars
    <3>2. /\ ~Prepare /\ ~Outside /\ ~StopListening /\ ~CloseStore
          /\ \A d \in Calls : ~Handle(d) /\ ~(Progress(d) /\ UNCHANGED serverVars)
      BY <2>3 DEF Prepare, Outside, StopListening, CloseStore, Handle, serverVars
    <3>3. CASE \E ctx \in Contexts : StartAgain(ctx)
      BY <1>4, <3>3
    <3>4. CASE \E d \in Calls : Accept(d) \/ Respond(d) \/ Disconnect(d)
      <4>1. \/ response[c] = "none" /\ response'[c] = "open"
            \/ response[c] = "open" /\ response'[c] = "answered" /\ pc[c] \in Ended \ {"lost"}
            \/ response[c] # "none" /\ response'[c] = "gone"
        BY <2>3, <3>4 DEF Accept, Respond, Disconnect, Active
      <4>2. QED
        BY <1>1, <2>1, <4>1, FollowsAtRest
    <3>5. CASE Signal \/ SignalAgain
      <4>1. response[c] # "none" /\ response'[c] \in {"cut", "gone"}
        BY <2>3, <3>5 DEF Signal, SignalAgain, CloseTransports, Active
      <4>2. QED
        BY <1>1, <2>1, <4>1, FollowsAtRest
    <3>6. QED
      BY <3>1, <3>2, <3>3, <3>4, <3>5 DEF ServerNext, Serve, Shutdown
  <2>4. QED
    BY <2>2, <2>3
<1>6. CASE Prepare \/ Outside
  <2>1. pc' = pc /\ arg' = arg /\ response' = response
    BY <1>6 DEF Prepare, Outside, CreatePreview, ReturnPreview, Sezzle, Answer, LateArrival,
                Tick, TargetChanges, callVars, inputVars, serverVars
  <2>2. QED
    BY <1>1, <2>1, FollowsAtRest
<1> QED
  BY <1>2, <1>3, <1>4, <1>5, <1>6
  DEF ServerNext, Serve, Shutdown, Accept, Respond, Disconnect, Signal, SignalAgain,
      StopListening, CloseStore, lifecycleVars

-----------------------------------------------------------------------------
(* The invariant and what follows from it.                                 *)

LEMMA ServerInvariantHolds ==
  ServerSpec => [](InductiveInvariant /\ OutcomesRecorded /\ ServerInvariant)
<1>1. /\ InductiveInvariant /\ InductiveInvariant' /\ OutcomesRecorded /\ ServerInvariant
      /\ [ServerNext]_lifecycleVars
      => ServerInvariant'
  BY ClosedLastStep, ResponseStep, SpentStep, ServerStepIsStep DEF ServerInvariant
<1> QED
  BY <1>1, ServerInvariantInit, ProtocolHolds, PTL DEF ServerSpec

\* The transport is closed before the store, so that no call which can still be
\* answered ever meets a closed store.
THEOREM StoreOutlivesResponsesCorrect == ServerSpec => []StoreOutlivesResponses
<1>1. ServerInvariant => StoreOutlivesResponses
  BY LifecycleAssumption DEF ServerInvariant, ClosedLast, StoreOutlivesResponses, Active
<1> QED
  BY <1>1, ServerInvariantHolds, PTL

\* A client that is answered about its mutation is told what is on record.
THEOREM AnswerIsOnRecordCorrect == ServerSpec => []AnswerIsOnRecord
<1>1. ASSUME InductiveInvariant, OutcomesRecorded, ServerInvariant, NEW c \in Calls,
             response[c] = "answered", winner[PreviewOf(c)] = c
      PROVE  /\ pc[c] \in {"succeeded", "failed"}
             /\ previews[PreviewOf(c)].consumed
             /\ operations[PreviewOf(c)] = pc[c]
             /\ [by |-> c, result |-> IF pc[c] = "succeeded" THEN "success" ELSE "failure"]
                  \in audits
  <2> USE <1>1 DEF InductiveInvariant
  <2>1. pc[c] \in {"succeeded", "failed"}
    BY DEF ServerInvariant, ResponseFollows
  <2>2. PreviewOf(c) \in PreviewIds
    BY <2>1, Begun DEF MutationInvariant
  <2>3. previews[PreviewOf(c)].consumed /\ operations[PreviewOf(c)] = pc[c]
    BY <2>1 DEF ServerInvariant, SpentStored, Holding
  <2>4. QED
    BY <2>1, <2>2, <2>3 DEF OutcomesRecorded, VerdictStands, Audited
<1>2. InductiveInvariant /\ OutcomesRecorded /\ ServerInvariant => AnswerIsOnRecord
  BY <1>1 DEF AnswerIsOnRecord
<1> QED
  BY <1>2, ServerInvariantHolds, PTL

=============================================================================
