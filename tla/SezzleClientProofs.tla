------------------------- MODULE SezzleClientProofs -------------------------
(***************************************************************************)
(* Proofs about SezzleClient, for any number of operations, tokens and     *)
(* retries, and any concurrency.                                           *)
(***************************************************************************)
EXTENDS SezzleClient, SequenceTheorems, TLAPS

-----------------------------------------------------------------------------
(* Types.                                                                  *)

\* The initial states are well typed.
LEMMA TypeInit == Init => TypeOK
<1> SUFFICES ASSUME Init PROVE TypeOK
  OBVIOUS
<1>1. 0 \in Token /\ 0 \in 0..MaxRetries
  BY ClientAssumption DEF Token
<1>2. queue \in Seq(Operations)
  BY EmptySeq DEF Init
<1> QED
  BY <1>1, <1>2 DEF Init, TypeOK, InHttp, Status, Result

\* The parts of the type invariant that the HTTP requests of operations change.
RequestsOK ==
  /\ pc \in [Operations -> {"idle", "joined", "authenticated", "done"} \cup InHttp]
  /\ login \in [Operations -> BOOLEAN]
  /\ result \in [Operations -> Result]
  /\ inFlight \in Operations \cup {None}

\* An HTTP request that fails, or is repeated, keeps the types.
LEMMA TypeRetryOrFail ==
  ASSUME TypeOK, NEW o \in Operations, NEW outcome \in Result \ {"none"},
         RetryOrFail(o, outcome) \/ Fail(o, outcome)
  PROVE  RequestsOK'
<1> USE DEF TypeOK, RequestsOK, Goto
<1>1. "done" \in {"idle", "joined", "authenticated", "done"} \cup InHttp
  OBVIOUS
<1>2. ASSUME Fail(o, outcome) PROVE RequestsOK'
  <2>1. CASE AuthenticationFails(o)
    <3>1. "unauthenticated" \in Result
      BY DEF Result
    <3>2. QED
      BY <1>1, <2>1, <3>1 DEF AuthenticationFails
  <2>2. CASE Finish(o, outcome)
    BY <1>1, <2>2 DEF Finish
  <2>3. QED
    BY <1>2, <2>1, <2>2 DEF Fail
<1>3. CASE Goto(o, "sleeping") /\ UNCHANGED <<login, result, inFlight>>
  BY <1>3 DEF InHttp
<1> QED
  BY <1>2, <1>3 DEF RetryOrFail

\* A new attempt keeps the types.
LEMMA TypeEnqueue ==
  ASSUME TypeOK, NEW o \in Operations, NEW n \in 0..MaxRetries, Enqueue(o, n)
  PROVE  /\ pc' \in [Operations -> {"idle", "joined", "authenticated", "done"} \cup InHttp]
         /\ queue' \in Seq(Operations)
         /\ attempt' \in [Operations -> 0..MaxRetries]
         /\ aborted' \in [Operations -> BOOLEAN]
         /\ status' \in [Operations -> Status]
  BY DEF TypeOK, Enqueue, Goto, InHttp, Status

\* So does a call of authenticate.
LEMMA TypeAuthenticate ==
  ASSUME TypeOK, NEW o \in Operations, NEW force, Authenticate(o, force)
  PROVE  /\ pc' \in [Operations -> {"idle", "joined", "authenticated", "done"} \cup InHttp]
         /\ login' \in [Operations -> BOOLEAN]
         /\ inFlight' \in Operations \cup {None}
         /\ queue' \in Seq(Operations)
         /\ attempt' \in [Operations -> 0..MaxRetries]
         /\ aborted' \in [Operations -> BOOLEAN]
         /\ status' \in [Operations -> Status]
<1>1. 0 \in 0..MaxRetries
  BY ClientAssumption
<1>2. CASE Enqueue(o, 0) /\ inFlight' = o /\ login' = [login EXCEPT ![o] = TRUE]
  BY <1>1, <1>2, TypeEnqueue DEF TypeOK
<1>3. CASE Goto(o, "authenticated") /\ UNCHANGED <<login, http, queue, inFlight>>
  BY <1>3 DEF TypeOK, Goto, http
<1>4. CASE Goto(o, "joined") /\ UNCHANGED <<login, http, queue, inFlight>>
  BY <1>4 DEF TypeOK, Goto, http
<1> QED
  BY <1>2, <1>3, <1>4 DEF Authenticate

\* The steps of the operations keep the types.
LEMMA TypeProgress ==
  ASSUME TypeOK, Stages, NEW o \in Operations, Begin(o) \/ Progress(o) \/ ReadBody(o)
  PROVE  TypeOK'
<1> USE DEF http, cache, sezzle
<1>1. CASE Begin(o)
  <2>1. PICK force : Authenticate(o, force)
    BY <1>1 DEF Begin
  <2>2. QED
    BY <1>1, <2>1, TypeAuthenticate DEF Begin, TypeOK
<1>2. CASE TakeToken(o)
  <2>1. 0 \in 0..MaxRetries
    BY ClientAssumption
  <2>2. CASE \E outcome \in {"ok", "unauthenticated"} :
               Finish(o, outcome) /\ UNCHANGED <<http, token, queue>>
    BY <1>2, <2>2 DEF TakeToken, TypeOK, Finish, Goto, Result
  <2>3. CASE /\ token' = [token EXCEPT ![o] = current]
             /\ Enqueue(o, 0) /\ UNCHANGED <<login, result, inFlight>>
    BY <1>2, <2>1, <2>3, TypeEnqueue DEF TakeToken, TypeOK
  <2>4. QED
    BY <1>2, <2>2, <2>3 DEF TakeToken
<1>3. CASE TimeoutQueued(o)
  BY <1>3 DEF TimeoutQueued, TypeOK
<1>4. CASE NoAnswer(o)
  <2>1. "unreached" \in Result \ {"none"}
    BY DEF Result
  <2>2. late' \subseteq Writes
    BY <1>4 DEF NoAnswer, TypeOK
  <2>3. QED
    BY <1>4, <2>1, <2>2, TypeRetryOrFail DEF NoAnswer, TypeOK, RequestsOK
<1>5. CASE ReadError(o)
  <2>1. CASE /\ RetryOrFail(o, "unavailable") \/ Fail(o, status[o])
             /\ status[o] # "none"
             /\ UNCHANGED <<http, refused, queue>>
    <3>1. "unavailable" \in Result \ {"none"} /\ status[o] \in Result \ {"none"}
      BY <2>1 DEF Result, Status, TypeOK
    <3>2. RequestsOK'
      BY <2>1, <3>1, TypeRetryOrFail
    <3>3. QED
      BY <1>5, <2>1, <3>2 DEF ReadError, TypeOK, RequestsOK
  <2>2. CASE /\ refused' = [refused EXCEPT ![o] = token[o]]
             /\ Authenticate(o, TRUE) /\ UNCHANGED result
    BY <1>5, <2>2, TypeAuthenticate DEF ReadError, TypeOK
  <2>3. QED
    BY <1>5, <2>1, <2>2 DEF ReadError
<1>6. CASE WakeUp(o)
  <2>1. attempt[o] + 1 \in 0..MaxRetries
    BY <1>6, ClientAssumption DEF WakeUp, TypeOK, Stages
  <2>2. QED
    BY <1>6, <2>1, TypeEnqueue DEF WakeUp, TypeOK
<1>7. CASE ReadBody(o)
  <2>1. CASE Fail(o, "garbled") /\ UNCHANGED <<current, fresh>>
    <3>1. "garbled" \in Result \ {"none"}
      BY DEF Result
    <3>2. QED
      BY <1>7, <2>1, <3>1, TypeRetryOrFail DEF ReadBody, TypeOK, RequestsOK
  <2>2. CASE StoreToken(o)
    <3>1. AuthenticationFails(o) => RequestsOK'
      <4>1. "unauthenticated" \in Result
        BY DEF Result
      <4>2. QED
        BY <4>1 DEF AuthenticationFails, RequestsOK, TypeOK
    <3>2. 0 \in Token
      BY ClientAssumption DEF Token
    <3>3. /\ RequestsOK'
          /\ current' \in Token /\ fresh' \in BOOLEAN
      <4>1. CASE ~(token[o] \in foreign /\ Configured)
        <5>1. /\ current' = token[o] /\ fresh' = TRUE /\ UNCHANGED result
              /\ pc' = [p \in Operations |->
                          IF p \in Waiting(o) THEN "authenticated" ELSE pc[p]]
              /\ login' = [login EXCEPT ![o] = FALSE] /\ inFlight' = None
          BY <2>2, <4>1, Zenon DEF StoreToken
        <5>2. QED
          BY <5>1 DEF TypeOK, RequestsOK
      <4>2. CASE token[o] \in foreign /\ Configured
        BY <2>2, <3>1, <3>2, <4>2 DEF StoreToken
      <4>3. QED
        BY <4>1, <4>2
    <3>4. QED
      BY <1>7, <3>3 DEF ReadBody, TypeOK, RequestsOK
  <2>3. CASE Finish(o, "ok") /\ UNCHANGED <<current, fresh>>
    BY <1>7, <2>3 DEF ReadBody, Finish, Goto, TypeOK, Result
  <2>4. QED
    BY <1>7, <2>1, <2>2, <2>3 DEF ReadBody
<1> QED
  BY <1>1, <1>2, <1>3, <1>4, <1>5, <1>6, <1>7 DEF Progress

\* The steps of Sezzle and of the clock keep the types.
LEMMA TypeEnvironment ==
  ASSUME TypeOK,
         (\E o \in Operations : Environment(o)) \/ Dequeue \/ Age \/ Revoke
  PROVE  TypeOK'
<1> USE DEF http, cache, sezzle
<1>1. ASSUME NEW o \in Operations, CarryOut(o)
      PROVE  applied' \in [Operations -> Nat]
  BY <1>1 DEF CarryOut, TypeOK
<1>2. ASSUME NEW o \in Operations, Grant(o) PROVE TypeOK'
  <2>1. issued' = issued + 1 /\ issued' \in Token /\ issued < MaxTokens
    BY <1>2, ClientAssumption DEF Grant, TypeOK, Token
  <2>2. valid' \subseteq 1..issued' /\ foreign' \subseteq 1..issued'
    BY <1>2, <2>1 DEF Grant, TypeOK, Token
  <2>3. token' \in [Operations -> Token]
    BY <1>2, <2>1 DEF Grant, TypeOK
  <2>4. pc' \in [Operations -> {"idle", "joined", "authenticated", "done"} \cup InHttp]
    BY <1>2 DEF Grant, TypeOK, Goto, InHttp
  <2>5. QED
    BY <1>2, <2>1, <2>2, <2>3, <2>4 DEF Grant, TypeOK
<1>3. ASSUME NEW o \in Operations, Serve(o) PROVE TypeOK'
  BY <1>1, <1>3 DEF Serve, TypeOK, Goto, InHttp
<1>4. ASSUME NEW o \in Operations, Refuse(o) PROVE TypeOK'
  <2>1. applied' \in [Operations -> Nat]
    BY <1>1, <1>4 DEF Refuse, TypeOK
  <2>2. status' \in [Operations -> Status]
    BY <1>4 DEF Refuse, TypeOK
  <2>3. QED
    BY <1>4, <2>1, <2>2 DEF Refuse, TypeOK, Goto, InHttp
<1>5. ASSUME NEW o \in Operations, LateArrival(o) PROVE TypeOK'
  BY <1>1, <1>5 DEF LateArrival, TypeOK
<1>6. CASE Dequeue
  <2>1. queue' \in Seq(Operations) /\ Head(queue) \in Operations
    BY <1>6, HeadTailProperties DEF Dequeue, TypeOK
  <2>2. RequestsOK'
    <3>1. CASE RetryOrFail(Head(queue), "unreached")
      BY <2>1, <3>1, TypeRetryOrFail DEF Result
    <3>2. CASE Goto(Head(queue), "flight") /\ UNCHANGED <<login, result, inFlight>>
      BY <3>2 DEF TypeOK, RequestsOK, Goto, InHttp
    <3>3. QED
      BY <1>6, <3>1, <3>2 DEF Dequeue
  <2>3. QED
    BY <1>6, <2>1, <2>2 DEF Dequeue, TypeOK, RequestsOK
<1>7. CASE Age
  BY <1>7 DEF Age, TypeOK
<1>8. CASE Revoke
  BY <1>8 DEF Revoke, TypeOK
<1> QED
  BY <1>2, <1>3, <1>4, <1>5, <1>6, <1>7, <1>8 DEF Environment

LEMMA TypeStep == TypeOK /\ Stages /\ [Next]_vars => TypeOK'
  BY TypeProgress, TypeEnvironment DEF Next, vars, TypeOK, http, cache, sezzle

-----------------------------------------------------------------------------
(* The acquisition under way and the queue of the limiter.                 *)

\* Appending a new element, and taking the first one off, of a sequence without
\* repetitions.
NoRepeats(s) == \A i, j \in DOMAIN s : i # j => s[i] # s[j]

Elements(s) == {s[i] : i \in DOMAIN s}

LEMMA AppendNew ==
  ASSUME NEW S, NEW s \in Seq(S), NEW e \in S, e \notin Elements(s), NoRepeats(s)
  PROVE  NoRepeats(Append(s, e)) /\ Elements(Append(s, e)) = Elements(s) \cup {e}
<1>1. /\ Append(s, e) \in Seq(S)
      /\ Len(s) \in Nat /\ DOMAIN s = 1..Len(s)
      /\ DOMAIN Append(s, e) = 1..(Len(s) + 1)
      /\ \A i \in 1..Len(s) : Append(s, e)[i] = s[i]
      /\ Append(s, e)[Len(s) + 1] = e
  BY AppendProperties, LenProperties
<1>2. \A i \in 1..(Len(s) + 1) : i \in 1..Len(s) \/ i = Len(s) + 1
  BY <1>1
<1>3. NoRepeats(Append(s, e))
  BY <1>1, <1>2 DEF NoRepeats, Elements
<1>4. Len(s) + 1 \in 1..(Len(s) + 1) /\ 1..Len(s) \subseteq 1..(Len(s) + 1)
  BY <1>1
<1>5. Elements(Append(s, e)) = Elements(s) \cup {e}
  BY <1>1, <1>2, <1>4 DEF Elements
<1> QED
  BY <1>3, <1>5

LEMMA TailOff ==
  ASSUME NEW S, NEW s \in Seq(S), s # <<>>, NoRepeats(s)
  PROVE  /\ NoRepeats(Tail(s)) /\ Elements(Tail(s)) = Elements(s) \ {Head(s)}
         /\ Head(s) \in Elements(s)
<1>1. /\ Tail(s) \in Seq(S)
      /\ Len(s) \in Nat /\ DOMAIN s = 1..Len(s) /\ Len(s) >= 1
      /\ DOMAIN Tail(s) = 1..(Len(s) - 1)
      /\ \A i \in 1..(Len(s) - 1) : Tail(s)[i] = s[i + 1]
      /\ Head(s) = s[1]
  BY HeadTailProperties, LenProperties, EmptySeq
<1>2. NoRepeats(Tail(s))
  <2>1. ASSUME NEW i \in 1..(Len(s) - 1), NEW j \in 1..(Len(s) - 1), i # j
        PROVE  Tail(s)[i] # Tail(s)[j]
    BY <1>1, <2>1 DEF NoRepeats
  <2>2. QED
    BY <1>1, <2>1 DEF NoRepeats
<1>3. ASSUME NEW x PROVE x \in Elements(Tail(s)) <=> x \in Elements(s) \ {Head(s)}
  <2>1. ASSUME x \in Elements(Tail(s)) PROVE x \in Elements(s) \ {Head(s)}
    <3>1. PICK i \in 1..(Len(s) - 1) : x = s[i + 1]
      BY <1>1, <2>1 DEF Elements
    <3>2. i + 1 \in 1..Len(s) /\ i + 1 # 1
      BY <1>1
    <3>3. QED
      BY <1>1, <3>1, <3>2 DEF Elements, NoRepeats
  <2>2. ASSUME x \in Elements(s), x # Head(s) PROVE x \in Elements(Tail(s))
    <3>1. PICK i \in 1..Len(s) : x = s[i]
      BY <1>1, <2>2 DEF Elements
    <3>2. i - 1 \in 1..(Len(s) - 1) /\ x = s[(i - 1) + 1]
      BY <1>1, <2>2, <3>1
    <3>3. QED
      BY <1>1, <3>2 DEF Elements
  <2>3. QED
    BY <2>1, <2>2
<1>4. Head(s) \in Elements(s)
  BY <1>1 DEF Elements
<1> QED
  BY <1>2, <1>3, <1>4

\* What the end of an HTTP request does, operation by operation: that of an acquisition
\* moves all that joined it.
Moved(o, p) == p = o \/ (login[o] /\ pc[p] = "joined")

Ends(o, state) ==
  /\ \A p \in Operations : pc'[p] = IF Moved(o, p) THEN state ELSE pc[p]
  /\ \A p \in Operations : login'[p] = (login[p] /\ p # o)
  /\ inFlight' = IF login[o] THEN None ELSE inFlight

Fails(o, outcome) ==
  /\ Ends(o, "done")
  /\ \A p \in Operations : result'[p] =
       IF ~Moved(o, p) THEN result[p] ELSE IF login[o] THEN "unauthenticated" ELSE outcome

LEMMA FinishShape ==
  ASSUME TypeOK, NEW o \in Operations, NEW outcome, ~login[o], Finish(o, outcome)
  PROVE  Fails(o, outcome)
  BY DEF Finish, Goto, Fails, Ends, Moved, TypeOK

LEMMA AuthenticationFailsShape ==
  ASSUME TypeOK, NEW o \in Operations, NEW outcome, login[o], AuthenticationFails(o)
  PROVE  Fails(o, outcome)
  BY DEF AuthenticationFails, Waiting, Fails, Ends, Moved, TypeOK

LEMMA FailShape ==
  ASSUME TypeOK, NEW o \in Operations, NEW outcome, Fail(o, outcome)
  PROVE  Fails(o, outcome)
  BY FinishShape, AuthenticationFailsShape DEF Fail

LEMMA StoreTokenShape ==
  ASSUME TypeOK, NEW o \in Operations, login[o], StoreToken(o)
  PROVE  \/ /\ Configured /\ current' = 0
            /\ Fails(o, "none")
         \/ /\ Configured => token[o] \notin foreign
            /\ current' = token[o]
            /\ Ends(o, "authenticated") /\ UNCHANGED result
<1>1. CASE token[o] \in foreign /\ Configured
  BY <1>1, AuthenticationFailsShape DEF StoreToken
<1>2. CASE ~(token[o] \in foreign /\ Configured)
  <2>1. /\ current' = token[o] /\ UNCHANGED result
        /\ pc' = [p \in Operations |-> IF p \in Waiting(o) THEN "authenticated" ELSE pc[p]]
        /\ login' = [login EXCEPT ![o] = FALSE] /\ inFlight' = None
    BY <1>2, Zenon DEF StoreToken
  <2>2. Ends(o, "authenticated")
    BY <2>1 DEF Waiting, Ends, Moved, TypeOK
  <2>3. QED
    BY <1>2, <2>1, <2>2
<1> QED
  BY <1>1, <1>2

\* What authenticate does.
Starts(o) ==
  /\ \A p \in Operations : pc'[p] = IF p = o THEN "queued" ELSE pc[p]
  /\ \A p \in Operations : login'[p] = (login[p] \/ p = o)
  /\ inFlight = None /\ inFlight' = o
  /\ Enqueue(o, 0)

LEMMA AuthenticateShape ==
  ASSUME TypeOK, NEW o \in Operations, NEW force, Authenticate(o, force)
  PROVE  \/ Starts(o)
         \/ /\ \/ Goto(o, "authenticated") /\ ~force
               \/ Goto(o, "joined") /\ inFlight # None
            /\ UNCHANGED <<login, http, queue, inFlight>>
<1>1. CASE Enqueue(o, 0) /\ inFlight = None /\ inFlight' = o
           /\ login' = [login EXCEPT ![o] = TRUE]
  BY <1>1 DEF Enqueue, Goto, Starts, TypeOK
<1> QED
  BY <1>1 DEF Authenticate

\* An acquisition that ends leaves nobody behind that joined it.
LEMMA EndsKeepsAcquirer ==
  ASSUME TypeOK, JoinedHaveAcquirer, NEW o \in Operations,
         NEW state \in {"done", "authenticated"}, Ends(o, state)
  PROVE  JoinedHaveAcquirer'
  BY ClientAssumption DEF JoinedHaveAcquirer, Ends, Moved, TypeOK

LEMMA StartsKeepsAcquirer ==
  ASSUME TypeOK, JoinedHaveAcquirer, NEW o \in Operations, Starts(o)
  PROVE  JoinedHaveAcquirer'
  BY ClientAssumption DEF JoinedHaveAcquirer, Starts, TypeOK, InHttp

\* A step within the requests of an operation leaves the acquisition alone.
LEMMA MovesKeepsAcquirer ==
  ASSUME TypeOK, JoinedHaveAcquirer, NEW o \in Operations, NEW state,
         Goto(o, state), UNCHANGED <<login, inFlight>>,
         login[o] => state \in InHttp, state = "joined" => inFlight # None
  PROVE  JoinedHaveAcquirer'
  BY DEF JoinedHaveAcquirer, Goto, TypeOK

LEMMA AcquirerStep ==
  ASSUME TypeOK, Stages, JoinedHaveAcquirer, Next
  PROVE  JoinedHaveAcquirer'
<1> USE DEF InHttp
<1>0. \A o \in Operations : login[o] => pc[o] \in InHttp
  BY DEF JoinedHaveAcquirer
<1>1. ASSUME NEW o \in Operations, NEW force, Authenticate(o, force),
             ~login[o]
      PROVE  JoinedHaveAcquirer'
  <2>1. CASE Starts(o)
    BY <2>1, StartsKeepsAcquirer
  <2>2. CASE /\ \/ Goto(o, "authenticated")
                \/ Goto(o, "joined") /\ inFlight # None
             /\ UNCHANGED <<login, http, queue, inFlight>>
    BY <1>1, <2>2, MovesKeepsAcquirer
  <2>3. QED
    BY <1>1, <2>1, <2>2, AuthenticateShape
<1>2. ASSUME NEW o \in Operations, NEW outcome, Fail(o, outcome)
      PROVE  JoinedHaveAcquirer'
  BY <1>2, FailShape, EndsKeepsAcquirer DEF Fails
<1>3. ASSUME NEW o \in Operations, NEW outcome, RetryOrFail(o, outcome)
      PROVE  JoinedHaveAcquirer'
  BY <1>2, <1>3, MovesKeepsAcquirer DEF RetryOrFail
<1>4. ASSUME NEW o \in Operations, Begin(o) PROVE JoinedHaveAcquirer'
  BY <1>0, <1>1, <1>4 DEF Begin
<1>5. ASSUME NEW o \in Operations, TakeToken(o) PROVE JoinedHaveAcquirer'
  <2>1. ~login[o]
    BY <1>0, <1>5 DEF TakeToken
  <2>2. ASSUME NEW outcome, Finish(o, outcome) PROVE JoinedHaveAcquirer'
    BY <2>1, <2>2, FinishShape, EndsKeepsAcquirer DEF Fails
  <2>3. CASE Enqueue(o, 0) /\ UNCHANGED <<login, result, inFlight>>
    BY <2>1, <2>3, MovesKeepsAcquirer DEF Enqueue
  <2>4. QED
    BY <1>5, <2>2, <2>3 DEF TakeToken
<1>6. ASSUME NEW o \in Operations, NoAnswer(o) PROVE JoinedHaveAcquirer'
  BY <1>3, <1>6 DEF NoAnswer
<1>7. ASSUME NEW o \in Operations, ReadError(o) PROVE JoinedHaveAcquirer'
  BY <1>1, <1>2, <1>3, <1>7 DEF ReadError, Stages
<1>8. ASSUME NEW o \in Operations, WakeUp(o) PROVE JoinedHaveAcquirer'
  BY <1>8, MovesKeepsAcquirer DEF WakeUp, Enqueue, cache
<1>9. ASSUME NEW o \in Operations, ReadBody(o) PROVE JoinedHaveAcquirer'
  <2>1. ASSUME Finish(o, "ok"), ~login[o] PROVE JoinedHaveAcquirer'
    BY <2>1, FinishShape, EndsKeepsAcquirer DEF Fails
  <2>2. ASSUME StoreToken(o), login[o] PROVE JoinedHaveAcquirer'
    BY <2>2, StoreTokenShape, EndsKeepsAcquirer DEF Fails
  <2>3. QED
    BY <1>2, <1>9, <2>1, <2>2 DEF ReadBody
<1>10. ASSUME NEW o \in Operations, Grant(o) \/ Serve(o) \/ Refuse(o)
       PROVE  JoinedHaveAcquirer'
  BY <1>10, MovesKeepsAcquirer DEF Grant, Serve, Refuse, cache
<1>11. CASE Dequeue
  <2>1. Head(queue) \in Operations
    BY <1>11, HeadTailProperties DEF Dequeue, TypeOK
  <2>2. QED
    BY <1>3, <1>11, <2>1, MovesKeepsAcquirer DEF Dequeue
<1>12. ASSUME UNCHANGED <<pc, login, inFlight>> PROVE JoinedHaveAcquirer'
  BY <1>12 DEF JoinedHaveAcquirer
<1> QED
  BY <1>4, <1>5, <1>6, <1>7, <1>8, <1>9, <1>10, <1>11, <1>12
  DEF Next, Progress, Environment, TimeoutQueued, LateArrival, Age, Revoke, cache

LEMMA QueueForm ==
  QueueMatchesWaiting <=>
    Elements(queue) = {o \in Operations : pc[o] = "queued"} /\ NoRepeats(queue)
  BY DEF QueueMatchesWaiting, Elements, NoRepeats

LEMMA EnqueueKeepsQueue ==
  ASSUME TypeOK, QueueMatchesWaiting, NEW o \in Operations, NEW n, pc[o] # "queued",
         Enqueue(o, n)
  PROVE  QueueMatchesWaiting'
<1>1. /\ Elements(queue) = {p \in Operations : pc[p] = "queued"} /\ NoRepeats(queue)
      /\ queue \in Seq(Operations) /\ queue' = Append(queue, o)
  BY QueueForm DEF Enqueue, TypeOK
<1>2. NoRepeats(queue') /\ Elements(queue') = Elements(queue) \cup {o}
  BY <1>1, AppendNew
<1>3. Elements(queue') = {p \in Operations : pc'[p] = "queued"}
  BY <1>1, <1>2 DEF Enqueue, Goto, TypeOK
<1> QED
  BY <1>2, <1>3 DEF QueueMatchesWaiting, Elements, NoRepeats

\* Steps of operations that are not in the queue and do not enter it.
LEMMA QueueUntouched ==
  ASSUME QueueMatchesWaiting, UNCHANGED queue,
         \A p \in Operations : pc'[p] = "queued" <=> pc[p] = "queued"
  PROVE  QueueMatchesWaiting'
  BY DEF QueueMatchesWaiting

LEMMA FailKeepsQueue ==
  ASSUME TypeOK, QueueMatchesWaiting, UNCHANGED queue,
         NEW o \in Operations, pc[o] # "queued", NEW outcome,
         RetryOrFail(o, outcome) \/ Fail(o, outcome)
  PROVE  QueueMatchesWaiting'
<1>1. ASSUME Fail(o, outcome) PROVE QueueMatchesWaiting'
  BY <1>1, FailShape, QueueUntouched DEF Fails, Ends, Moved
<1>2. ASSUME Goto(o, "sleeping") PROVE QueueMatchesWaiting'
  BY <1>2, QueueUntouched DEF Goto, TypeOK
<1> QED
  BY <1>1, <1>2 DEF RetryOrFail

LEMMA QueueStep ==
  ASSUME TypeOK, JoinedHaveAcquirer, QueueMatchesWaiting, Next
  PROVE  QueueMatchesWaiting'
<1> USE DEF http, cache, sezzle
<1>1. ASSUME NEW o \in Operations, NEW force, Authenticate(o, force), pc[o] # "queued"
      PROVE  QueueMatchesWaiting'
  <2>1. CASE Enqueue(o, 0)
    BY <1>1, <2>1, EnqueueKeepsQueue
  <2>2. CASE (Goto(o, "authenticated") \/ Goto(o, "joined")) /\ UNCHANGED queue
    BY <1>1, <2>2, QueueUntouched DEF Goto, TypeOK
  <2>3. QED
    BY <1>1, <2>1, <2>2 DEF Authenticate
<1>2. ASSUME NEW o \in Operations, pc[o] # "queued", Ends(o, "authenticated"),
             UNCHANGED queue
      PROVE  QueueMatchesWaiting'
  BY <1>2, QueueUntouched DEF Ends, Moved
<1>3. ASSUME NEW o \in Operations, NEW outcome, Fails(o, outcome), pc[o] # "queued",
             UNCHANGED queue
      PROVE  QueueMatchesWaiting'
  BY <1>3, QueueUntouched DEF Fails, Ends, Moved
<1>4. ASSUME NEW o \in Operations, Begin(o) PROVE QueueMatchesWaiting'
  BY <1>1, <1>4 DEF Begin
<1>5. ASSUME NEW o \in Operations, TakeToken(o) PROVE QueueMatchesWaiting'
  <2>1. pc[o] # "queued" /\ ~login[o]
    BY <1>5 DEF TakeToken, JoinedHaveAcquirer, InHttp
  <2>2. QED
    BY <1>3, <1>5, <2>1, FinishShape, EnqueueKeepsQueue DEF TakeToken
<1>6. ASSUME NEW o \in Operations, NoAnswer(o) PROVE QueueMatchesWaiting'
  BY <1>6, FailKeepsQueue DEF NoAnswer
<1>7. ASSUME NEW o \in Operations, ReadError(o) PROVE QueueMatchesWaiting'
  <2>1. pc[o] # "queued"
    BY <1>7 DEF ReadError
  <2>2. QED
    BY <1>1, <1>7, <2>1, FailKeepsQueue DEF ReadError
<1>8. ASSUME NEW o \in Operations, WakeUp(o) PROVE QueueMatchesWaiting'
  BY <1>8, EnqueueKeepsQueue DEF WakeUp
<1>9. ASSUME NEW o \in Operations, ReadBody(o) PROVE QueueMatchesWaiting'
  <2>1. pc[o] # "queued" /\ UNCHANGED queue
    BY <1>9 DEF ReadBody
  <2>2. ASSUME StoreToken(o), login[o] PROVE QueueMatchesWaiting'
    BY <1>2, <1>3, <2>1, <2>2, StoreTokenShape
  <2>3. ASSUME Finish(o, "ok"), ~login[o] PROVE QueueMatchesWaiting'
    BY <1>3, <2>1, <2>3, FinishShape
  <2>4. QED
    BY <1>9, <2>1, <2>2, <2>3, FailKeepsQueue DEF ReadBody
<1>10. ASSUME NEW o \in Operations, Grant(o) \/ Serve(o) \/ Refuse(o)
       PROVE  QueueMatchesWaiting'
  <2>1. pc[o] = "flight" /\ UNCHANGED queue /\ (Goto(o, "reading") \/ Goto(o, "erring"))
    BY <1>10 DEF Grant, Serve, Refuse
  <2>2. QED
    BY <2>1, QueueUntouched DEF Goto, TypeOK
<1>11. CASE Dequeue
  <2> DEFINE o == Head(queue)
  <2>1. /\ Elements(queue) = {p \in Operations : pc[p] = "queued"} /\ NoRepeats(queue)
        /\ queue \in Seq(Operations) /\ queue # <<>> /\ queue' = Tail(queue)
    BY <1>11, QueueForm DEF Dequeue, TypeOK
  <2>2. /\ NoRepeats(queue') /\ Elements(queue') = Elements(queue) \ {o}
        /\ o \in Operations /\ pc[o] = "queued"
    BY <2>1, TailOff
  <2>3. \A p \in Operations : pc'[p] = "queued" <=> pc[p] = "queued" /\ p # o
    <3>1. CASE \E state \in {"flight", "sleeping"} : Goto(o, state)
      BY <3>1 DEF Goto, TypeOK
    <3>2. CASE Fail(o, "unreached")
      BY <2>2, <3>2, FailShape DEF Fails, Ends, Moved
    <3>3. QED
      BY <1>11, <3>1, <3>2 DEF Dequeue, RetryOrFail
  <2>4. QED
    BY <2>1, <2>2, <2>3 DEF QueueMatchesWaiting, Elements, NoRepeats
<1>12. ASSUME UNCHANGED <<pc, queue>> PROVE QueueMatchesWaiting'
  BY <1>12 DEF QueueMatchesWaiting
<1> QED
  BY <1>4, <1>5, <1>6, <1>7, <1>8, <1>9, <1>10, <1>11, <1>12
  DEF Next, Progress, Environment, TimeoutQueued, LateArrival, Age, Revoke

-----------------------------------------------------------------------------
(* Where operations are.                                                   *)

LEMMA FailsKeepsStages ==
  ASSUME TypeOK, Stages, NEW o \in Operations, NEW outcome,
         Fails(o, outcome), UNCHANGED <<refused, status, attempt>>
  PROVE  Stages'
  BY DEF Stages, Fails, Ends, Moved, Repeatable

LEMMA RetryOrFailKeepsStages ==
  ASSUME TypeOK, Stages, NEW o \in Operations, NEW outcome,
         RetryOrFail(o, outcome) \/ Fail(o, outcome),
         UNCHANGED <<refused, status, attempt>>, pc[o] # "done"
  PROVE  Stages'
<1>1. CASE /\ Repeatable(o) /\ attempt[o] < MaxRetries
           /\ Goto(o, "sleeping") /\ UNCHANGED <<login, result>>
  BY <1>1 DEF Stages, Goto, Repeatable, TypeOK
<1> QED
  BY <1>1, FailShape, FailsKeepsStages DEF RetryOrFail

LEMMA EnqueueKeepsStages ==
  ASSUME TypeOK, Stages, NEW o \in Operations, NEW n, pc[o] # "done",
         Enqueue(o, n), UNCHANGED <<refused, result>>,
         \A p \in Operations \ {o} : login'[p] = login[p]
  PROVE  Stages'
  BY DEF Stages, Enqueue, Goto, Repeatable, TypeOK

LEMMA StagesStep ==
  ASSUME TypeOK, JoinedHaveAcquirer, QueueMatchesWaiting, Stages, Next
  PROVE  Stages'
<1> USE DEF http, cache, sezzle
<1>1. ASSUME NEW o \in Operations, NEW force, Authenticate(o, force), pc[o] # "done",
             UNCHANGED result,
             \A p \in Operations \ {o} : refused'[p] = refused[p]
      PROVE  Stages'
  <2>1. CASE Starts(o)
    BY <1>1, <2>1 DEF Starts, Enqueue, Stages, Repeatable, TypeOK
  <2>2. CASE /\ Goto(o, "authenticated") \/ Goto(o, "joined")
             /\ UNCHANGED <<login, http, queue, inFlight>>
    BY <1>1, <2>2 DEF Goto, Stages, Repeatable, TypeOK
  <2>3. QED
    BY <1>1, <2>1, <2>2, AuthenticateShape
<1>2. ASSUME NEW o \in Operations, Begin(o) PROVE Stages'
  BY <1>1, <1>2 DEF Begin
<1>3. ASSUME NEW o \in Operations, TakeToken(o) PROVE Stages'
  <2>1. ~login[o] /\ pc[o] # "done" /\ UNCHANGED refused
    BY <1>3 DEF TakeToken, JoinedHaveAcquirer, InHttp
  <2>2. CASE Enqueue(o, 0) /\ UNCHANGED <<login, result>>
    BY <2>1, <2>2, EnqueueKeepsStages
  <2>3. CASE \E outcome : Finish(o, outcome) /\ UNCHANGED <<http, token, queue>>
    BY <2>1, <2>3, FinishShape, FailsKeepsStages
  <2>4. QED
    BY <1>3, <2>2, <2>3 DEF TakeToken
<1>4. ASSUME NEW o \in Operations, NoAnswer(o) PROVE Stages'
  BY <1>4, RetryOrFailKeepsStages DEF NoAnswer
<1>5. ASSUME NEW o \in Operations, ReadError(o) PROVE Stages'
  <2>1. CASE (RetryOrFail(o, "unavailable") \/ Fail(o, status[o])) /\ UNCHANGED <<http, refused>>
    BY <1>5, <2>1, RetryOrFailKeepsStages DEF ReadError
  <2>2. CASE /\ refused' = [refused EXCEPT ![o] = token[o]]
             /\ Authenticate(o, TRUE) /\ UNCHANGED result
    <3>1. pc[o] # "done" /\ \A p \in Operations \ {o} : refused'[p] = refused[p]
      BY <1>5, <2>2 DEF ReadError, TypeOK
    <3>2. QED
      BY <1>1, <2>2, <3>1
  <2>3. QED
    BY <1>5, <2>1, <2>2 DEF ReadError
<1>6. ASSUME NEW o \in Operations, WakeUp(o) PROVE Stages'
  BY <1>6, EnqueueKeepsStages DEF WakeUp
<1>7. ASSUME NEW o \in Operations, ReadBody(o) PROVE Stages'
  <2>1. UNCHANGED <<refused, status, attempt>> /\ pc[o] # "done"
    BY <1>7 DEF ReadBody
  <2>2. ASSUME StoreToken(o), login[o] PROVE Stages'
    <3>1. CASE Fails(o, "none")
      BY <2>1, <3>1, FailsKeepsStages
    <3>2. CASE Ends(o, "authenticated") /\ UNCHANGED result
      BY <2>1, <3>2 DEF Stages, Ends, Moved, Repeatable
    <3>3. QED
      BY <2>2, <3>1, <3>2, StoreTokenShape
  <2>3. ASSUME Finish(o, "ok"), ~login[o] PROVE Stages'
    BY <2>1, <2>3, FinishShape, FailsKeepsStages
  <2>4. QED
    BY <1>7, <2>1, <2>2, <2>3, RetryOrFailKeepsStages DEF ReadBody
<1>8. ASSUME NEW o \in Operations, Grant(o) \/ Serve(o) \/ Refuse(o)
      PROVE  Stages'
  <2>1. /\ pc[o] = "flight" /\ (Goto(o, "reading") \/ Goto(o, "erring"))
        /\ UNCHANGED <<login, attempt, refused, result>>
    BY <1>8 DEF Grant, Serve, Refuse
  <2>2. \A p \in Operations : status'[p] = "unauthorized" /\ login[p] =>
          status[p] = "unauthorized"
    BY <1>8 DEF Grant, Serve, Refuse, TypeOK
  <2>3. QED
    BY <2>1, <2>2 DEF Stages, Goto, Repeatable, TypeOK
<1>9. CASE Dequeue
  <2>1. Head(queue) \in Operations /\ pc[Head(queue)] = "queued"
    BY <1>9, TailOff, QueueForm DEF Dequeue, TypeOK
  <2>2. CASE Goto(Head(queue), "flight") /\ UNCHANGED <<login, result, inFlight>>
    BY <1>9, <2>1, <2>2 DEF Dequeue, Stages, Goto, Repeatable, TypeOK
  <2>3. QED
    BY <1>9, <2>1, <2>2, RetryOrFailKeepsStages DEF Dequeue
<1>10. ASSUME UNCHANGED <<pc, login, attempt, status, refused, result>> PROVE Stages'
  BY <1>10 DEF Stages, Repeatable
<1> QED
  BY <1>2, <1>3, <1>4, <1>5, <1>6, <1>7, <1>8, <1>9, <1>10
  DEF Next, Progress, Environment, TimeoutQueued, LateArrival, Age, Revoke

-----------------------------------------------------------------------------
(* Tokens.                                                                 *)

TokenInvariant ==
  TokensInOrder /\ RefreshIsNewer /\ ReplayWithNewToken /\ OwnMerchantOnly

\* Steps that neither change tokens nor bring an operation to where its token matters.
LEMMA TokensUntouched ==
  ASSUME TokenInvariant, UNCHANGED <<current, issued, foreign, token, refused>>,
         \A p \in Operations :
           /\ login'[p] /\ pc'[p] = "reading" => login[p] /\ pc[p] = "reading"
           /\ pc'[p] = "authenticated" => pc[p] = "authenticated" \/ refused[p] = 0
           /\ pc'[p] \in InHttp /\ ~login'[p] => pc[p] \in InHttp /\ ~login[p]
  PROVE  TokenInvariant'
  BY DEF TokenInvariant, TokensInOrder, RefreshIsNewer, ReplayWithNewToken, OwnMerchantOnly

LEMMA FailsKeepsTokens ==
  ASSUME TokenInvariant, UNCHANGED <<current, issued, foreign, token, refused>>,
         NEW o \in Operations, NEW outcome, Fails(o, outcome)
  PROVE  TokenInvariant'
<1>1. "done" # "reading" /\ "done" # "authenticated" /\ "done" \notin InHttp
  BY DEF InHttp
<1>2. \A p \in Operations :
        pc'[p] = "done" \/ (pc'[p] = pc[p] /\ (login'[p] <=> login[p]))
  BY DEF Fails, Ends, Moved
<1> QED
  BY <1>1, <1>2, TokensUntouched

LEMMA RetryOrFailKeepsTokens ==
  ASSUME TypeOK, TokenInvariant, UNCHANGED <<current, issued, foreign, token, refused>>,
         NEW o \in Operations, NEW outcome, pc[o] \in InHttp,
         RetryOrFail(o, outcome) \/ Fail(o, outcome)
  PROVE  TokenInvariant'
<1>1. CASE Goto(o, "sleeping") /\ UNCHANGED login
  BY <1>1, TokensUntouched DEF Goto, TypeOK
<1> QED
  BY <1>1, FailShape, FailsKeepsTokens DEF RetryOrFail

\* An operation goes on within the same HTTP request.
LEMMA MovesKeepsTokens ==
  ASSUME TypeOK, TokenInvariant, UNCHANGED <<current, issued, foreign, token, refused, login>>,
         NEW o \in Operations, NEW state, Goto(o, state),
         pc[o] \in InHttp, state \in InHttp, state = "reading" => ~login[o]
  PROVE  TokenInvariant'
  BY TokensUntouched DEF Goto, TypeOK, InHttp

\* A token is cached that is newer than all others, or is not cached.
LEMMA StoreTokenKeepsTokens ==
  ASSUME TypeOK, JoinedHaveAcquirer, TokenInvariant,
         UNCHANGED <<issued, foreign, token, refused>>,
         NEW o \in Operations, login[o], pc[o] = "reading", StoreToken(o)
  PROVE  TokenInvariant'
<1> USE DEF TokenInvariant
<1>1. /\ token[o] = issued /\ issued \in Nat
      /\ \A p \in Operations : refused[p] < issued
      /\ \A a \in Operations : login[a] => a = o
  BY ClientAssumption DEF TokensInOrder, JoinedHaveAcquirer, TypeOK, Token
<1>2. CASE Configured /\ current' = 0 /\ Fails(o, "none")
  <2>1. \A p \in Operations :
          /\ ~login'[p]
          /\ pc'[p] = "done" \/ (pc'[p] = pc[p] /\ (login'[p] <=> login[p]))
    BY <1>1, <1>2 DEF Fails, Ends, Moved
  <2>2. "done" # "authenticated" /\ "done" \notin InHttp /\ 0 \notin foreign
    BY DEF InHttp, TypeOK, Token
  <2>3. QED
    BY <1>1, <1>2, <2>1, <2>2
    DEF TokensInOrder, RefreshIsNewer, ReplayWithNewToken, OwnMerchantOnly
<1>3. CASE /\ Configured => token[o] \notin foreign
           /\ current' = token[o] /\ Ends(o, "authenticated")
  <2>1. \A p \in Operations :
          /\ ~login'[p]
          /\ \/ pc'[p] = "authenticated"
             \/ pc'[p] = pc[p] /\ (login'[p] <=> login[p])
    BY <1>1, <1>3 DEF Ends, Moved
  <2>2. "authenticated" \notin InHttp
    BY DEF InHttp
  <2>3. QED
    BY <1>1, <1>3, <2>1, <2>2
    DEF TokensInOrder, RefreshIsNewer, ReplayWithNewToken, OwnMerchantOnly
<1> QED
  BY <1>2, <1>3, StoreTokenShape

LEMMA TokensStep ==
  ASSUME TypeOK, JoinedHaveAcquirer, QueueMatchesWaiting, Stages, TokenInvariant, Next
  PROVE  TokenInvariant'
<1> USE DEF http, cache, sezzle
<1>1. ASSUME NEW o \in Operations, Begin(o) PROVE TokenInvariant'
  <2>1. PICK force : Authenticate(o, force)
    BY <1>1 DEF Begin
  <2>2. /\ refused[o] = 0 /\ UNCHANGED <<current, issued, foreign, token, refused>>
        /\ pc[o] = "idle"
    BY <1>1 DEF Begin, Stages
  <2>3. CASE Starts(o)
    BY <2>2, <2>3, TokensUntouched DEF Starts
  <2>4. CASE /\ Goto(o, "authenticated") \/ Goto(o, "joined")
             /\ UNCHANGED login
    BY <2>2, <2>4, TokensUntouched DEF Goto, TypeOK, InHttp
  <2>5. QED
    BY <2>1, <2>3, <2>4, AuthenticateShape
<1>2. ASSUME NEW o \in Operations, TakeToken(o) PROVE TokenInvariant'
  <2>1. ~login[o] /\ pc[o] = "authenticated"
        /\ UNCHANGED <<current, issued, foreign, refused>>
    BY <1>2 DEF TakeToken, JoinedHaveAcquirer, InHttp
  <2>2. CASE \E outcome : Finish(o, outcome) /\ UNCHANGED <<http, token, queue>>
    BY <2>1, <2>2, FinishShape, FailsKeepsTokens
  <2>3. CASE /\ current # 0 /\ token' = [token EXCEPT ![o] = current]
             /\ Enqueue(o, 0) /\ UNCHANGED login
    <3>1. /\ \A p \in Operations : token'[p] = IF p = o THEN current ELSE token[p]
          /\ \A p \in Operations : pc'[p] = IF p = o THEN "queued" ELSE pc[p]
      BY <2>3 DEF Enqueue, Goto, TypeOK
    <3>2. TokensInOrder'
      BY <2>1, <2>3, <3>1 DEF TokenInvariant, TokensInOrder
    <3>3. RefreshIsNewer' /\ ReplayWithNewToken' /\ OwnMerchantOnly'
      BY <2>1, <2>3, <3>1
      DEF TokenInvariant, RefreshIsNewer, ReplayWithNewToken, OwnMerchantOnly
    <3>4. QED
      BY <3>2, <3>3 DEF TokenInvariant
  <2>4. QED
    BY <1>2, <2>2, <2>3 DEF TakeToken
<1>3. ASSUME NEW o \in Operations, NoAnswer(o) PROVE TokenInvariant'
  BY <1>3, RetryOrFailKeepsTokens DEF NoAnswer, InHttp
<1>4. ASSUME NEW o \in Operations, ReadError(o) PROVE TokenInvariant'
  <2>1. pc[o] = "erring" /\ pc[o] \in InHttp /\ UNCHANGED <<current, issued, foreign, token>>
    BY <1>4 DEF ReadError, InHttp
  <2>2. CASE (RetryOrFail(o, "unavailable") \/ Fail(o, status[o])) /\ UNCHANGED refused
    BY <2>1, <2>2, RetryOrFailKeepsTokens
  <2>3. CASE /\ status[o] = "unauthorized"
             /\ refused' = [refused EXCEPT ![o] = token[o]]
             /\ Authenticate(o, TRUE)
    <3>1. ~login[o]
      BY <2>3 DEF Stages
    <3>2. \A p \in Operations : refused'[p] = IF p = o THEN token[o] ELSE refused[p]
      BY <2>3 DEF TypeOK
    <3>3. /\ \A p \in Operations \ {o} : pc'[p] = pc[p] /\ (login'[p] <=> login[p])
          /\ pc'[o] = "joined" \/ (pc'[o] = "queued" /\ login'[o])
      BY <2>3, AuthenticateShape DEF Starts, Goto, TypeOK
    <3>4. TokensInOrder'
      BY <2>1, <3>1, <3>2, <3>3 DEF TokenInvariant, TokensInOrder
    <3>5. RefreshIsNewer' /\ ReplayWithNewToken' /\ OwnMerchantOnly'
      <4>1. "joined" \notin InHttp
        BY DEF InHttp
      <4>2. QED
        BY <2>1, <3>2, <3>3, <4>1
        DEF TokenInvariant, RefreshIsNewer, ReplayWithNewToken, OwnMerchantOnly
    <3>6. QED
      BY <3>4, <3>5 DEF TokenInvariant
  <2>4. QED
    BY <1>4, <2>2, <2>3 DEF ReadError
<1>5. ASSUME NEW o \in Operations, WakeUp(o) PROVE TokenInvariant'
  BY <1>5, MovesKeepsTokens DEF WakeUp, Enqueue, InHttp
<1>6. ASSUME NEW o \in Operations, ReadBody(o) PROVE TokenInvariant'
  <2>1. /\ pc[o] = "reading" /\ pc[o] \in InHttp
        /\ UNCHANGED <<issued, foreign, token, refused>>
    BY <1>6 DEF ReadBody, InHttp
  <2>2. ASSUME StoreToken(o), login[o] PROVE TokenInvariant'
    BY <2>1, <2>2, StoreTokenKeepsTokens
  <2>3. ASSUME Finish(o, "ok"), ~login[o], UNCHANGED current PROVE TokenInvariant'
    BY <2>1, <2>3, FinishShape, FailsKeepsTokens
  <2>4. QED
    BY <1>6, <2>1, <2>2, <2>3, RetryOrFailKeepsTokens DEF ReadBody
<1>7. ASSUME NEW o \in Operations, Serve(o) \/ Refuse(o) PROVE TokenInvariant'
  BY <1>7, MovesKeepsTokens DEF Serve, Refuse, InHttp
<1>8. ASSUME NEW o \in Operations, Grant(o) PROVE TokenInvariant'
  <2>1. /\ issued' = issued + 1 /\ issued \in Nat /\ login[o]
        /\ foreign' \subseteq foreign \cup {issued + 1}
        /\ UNCHANGED <<current, refused, login>>
    BY <1>8, ClientAssumption DEF Grant, TypeOK, Token
  <2>2. /\ \A p \in Operations : token'[p] = IF p = o THEN issued + 1 ELSE token[p]
        /\ \A p \in Operations : pc'[p] = IF p = o THEN "reading" ELSE pc[p]
    BY <1>8 DEF Grant, Goto, TypeOK
  <2>3. /\ current \in Nat
        /\ \A p \in Operations : token[p] \in Nat /\ refused[p] \in Nat
        /\ \A a \in Operations : login[a] => a = o
    BY <2>1, ClientAssumption DEF TypeOK, Token, JoinedHaveAcquirer
  <2>4. TokensInOrder'
    BY <2>1, <2>2, <2>3 DEF TokenInvariant, TokensInOrder
  <2>5. OwnMerchantOnly'
    BY <2>1, <2>2, <2>3 DEF TokenInvariant, TokensInOrder, OwnMerchantOnly
  <2>6. RefreshIsNewer' /\ ReplayWithNewToken'
    BY <2>1, <2>2 DEF TokenInvariant, RefreshIsNewer, ReplayWithNewToken
  <2>7. QED
    BY <2>4, <2>5, <2>6 DEF TokenInvariant
<1>9. CASE Dequeue
  <2>1. Head(queue) \in Operations /\ pc[Head(queue)] = "queued"
    BY <1>9, TailOff, QueueForm DEF Dequeue, TypeOK
  <2>2. "queued" \in InHttp /\ "flight" \in InHttp /\ "flight" # "reading"
    BY DEF InHttp
  <2>3. CASE Goto(Head(queue), "flight") /\ UNCHANGED <<login, result, inFlight>>
    BY <1>9, <2>1, <2>2, <2>3, MovesKeepsTokens DEF Dequeue
  <2>4. QED
    BY <1>9, <2>1, <2>2, <2>3, RetryOrFailKeepsTokens DEF Dequeue
<1>10. ASSUME UNCHANGED <<pc, login, current, issued, foreign, token, refused>>
       PROVE  TokenInvariant'
  BY <1>10, TokensUntouched
<1> QED
  BY <1>1, <1>2, <1>3, <1>4, <1>5, <1>6, <1>7, <1>8, <1>9, <1>10
  DEF Next, Progress, Environment, TimeoutQueued, LateArrival, Age, Revoke

-----------------------------------------------------------------------------
(* Writes.                                                                 *)

WriteInvariant == WritesAccounted /\ WritesOnce

\* The outcomes of a failed request that agree with what Sezzle did.
Truthful(o, outcome) ==
  o \in Writes /\ ~login[o] =>
    /\ outcome \in {"ok", "garbled"} => applied[o] = 1
    /\ outcome \in {"declined", "unauthorized", "unauthenticated"} => applied[o] = 0

LEMMA FailsKeepsWrites ==
  ASSUME TypeOK, JoinedHaveAcquirer, WriteInvariant, UNCHANGED <<applied, late, status>>,
         NEW o \in Operations, NEW outcome, pc[o] # "done",
         Truthful(o, outcome), Fails(o, outcome)
  PROVE  WriteInvariant'
<1> USE DEF WriteInvariant
<1>1. ASSUME NEW w \in Writes, Moved(o, w)
      PROVE  /\ pc'[w] = "done" /\ w \notin late
             /\ applied[w] + (IF w \in late THEN 1 ELSE 0) <= 1
             /\ result'[w] \in {"ok", "garbled"} => applied[w] = 1
             /\ result'[w] \in {"declined", "unauthorized", "unauthenticated"} =>
                  applied[w] = 0
  <2>1. w \in Operations /\ w \notin late
    BY <1>1 DEF Writes, WritesAccounted, Moved
  <2>2. login[o] => applied[w] = 0
    BY <1>1, <2>1 DEF WritesAccounted, JoinedHaveAcquirer, Moved
  <2>3. QED
    BY <1>1, <2>1, <2>2 DEF Fails, Ends, WritesOnce, Truthful, Moved
<1>2. \A w \in Writes : ~Moved(o, w) =>
        /\ pc'[w] = pc[w] /\ result'[w] = result[w]
        /\ login'[w] <=> login[w]
  BY DEF Writes, Fails, Ends, Moved
<1>3. WritesAccounted'
  BY <1>1, <1>2 DEF WritesAccounted, InHttp
<1>4. WritesOnce'
  BY <1>1, <1>2 DEF WritesOnce
<1> QED
  BY <1>3, <1>4

LEMMA RetryOrFailKeepsWrites ==
  ASSUME TypeOK, JoinedHaveAcquirer, WriteInvariant, UNCHANGED <<applied, late, status>>,
         NEW o \in Operations, NEW outcome, pc[o] \in InHttp, Truthful(o, outcome),
         RetryOrFail(o, outcome) \/ Fail(o, outcome)
  PROVE  WriteInvariant'
<1>1. CASE Repeatable(o) /\ Goto(o, "sleeping") /\ UNCHANGED <<login, result>>
  BY <1>1
  DEF WriteInvariant, WritesAccounted, WritesOnce, Goto, Repeatable, Writes, InHttp, TypeOK
<1>2. pc[o] # "done"
  BY DEF InHttp
<1> QED
  BY <1>1, <1>2, FailShape, FailsKeepsWrites DEF RetryOrFail

\* Before its own request is sent an operation may go anywhere before its sending.
LEMMA UnsentKeepsWrites ==
  ASSUME TypeOK, WriteInvariant, UNCHANGED <<applied, late, result>>,
         NEW o \in Operations, NEW state,
         state \in {"joined", "authenticated", "queued", "flight"},
         Goto(o, state), \A p \in Operations \ {o} : status'[p] = status[p],
         \A p \in Operations \ {o} : login'[p] = login[p],
         o \in Writes => applied[o] = 0 /\ o \notin late
  PROVE  WriteInvariant'
  BY DEF WriteInvariant, WritesAccounted, WritesOnce, Goto, Writes, TypeOK

LEMMA AuthenticateKeepsWrites ==
  ASSUME TypeOK, WriteInvariant, UNCHANGED <<applied, late, result>>,
         NEW o \in Operations, NEW force, Authenticate(o, force),
         o \in Writes => applied[o] = 0 /\ o \notin late
  PROVE  WriteInvariant'
<1>1. CASE Starts(o)
  <2>1. /\ Goto(o, "queued")
        /\ \A p \in Operations \ {o} : status'[p] = status[p]
        /\ \A p \in Operations \ {o} : login'[p] = login[p]
    BY <1>1 DEF Starts, Enqueue, TypeOK
  <2>2. QED
    BY <2>1, UnsentKeepsWrites
<1>2. CASE (Goto(o, "authenticated") \/ Goto(o, "joined")) /\ UNCHANGED <<login, http>>
  BY <1>2, UnsentKeepsWrites DEF http
<1> QED
  BY <1>1, <1>2, AuthenticateShape

LEMMA WritesStep ==
  ASSUME TypeOK, JoinedHaveAcquirer, QueueMatchesWaiting, Stages, WriteInvariant, Next
  PROVE  WriteInvariant'
<1> USE DEF http, cache, sezzle
<1>1. ASSUME NEW o \in Operations, Begin(o) PROVE WriteInvariant'
  <2>1. o \in Writes => applied[o] = 0 /\ o \notin late
    BY <1>1 DEF Begin, WriteInvariant, WritesAccounted
  <2>2. QED
    BY <1>1, <2>1, AuthenticateKeepsWrites DEF Begin
<1>2. ASSUME NEW o \in Operations, TakeToken(o) PROVE WriteInvariant'
  <2>1. /\ ~login[o] /\ pc[o] = "authenticated" /\ UNCHANGED <<applied, late>>
        /\ o \in Writes => applied[o] = 0 /\ o \notin late
    BY <1>2 DEF TakeToken, JoinedHaveAcquirer, InHttp, WriteInvariant, WritesAccounted
  <2>2. CASE o \in Logins /\ Finish(o, "ok") /\ UNCHANGED status
    BY <2>1, <2>2, FinishShape, FailsKeepsWrites DEF Truthful, Writes
  <2>3. CASE Finish(o, "unauthenticated") /\ UNCHANGED status
    BY <2>1, <2>3, FinishShape, FailsKeepsWrites DEF Truthful
  <2>4. CASE Enqueue(o, 0) /\ UNCHANGED <<login, result>>
    <3>1. Goto(o, "queued") /\ \A p \in Operations \ {o} : status'[p] = status[p]
      BY <2>4 DEF Enqueue, TypeOK
    <3>2. QED
      BY <2>1, <2>4, <3>1, UnsentKeepsWrites
  <2>5. QED
    BY <1>2, <2>2, <2>3, <2>4 DEF TakeToken
<1>3. ASSUME NEW o \in Operations, NoAnswer(o) PROVE WriteInvariant'
  <2>1. /\ pc[o] \in {"flight", "erring"} /\ pc[o] \in InHttp
        /\ UNCHANGED <<applied, status>> /\ Truthful(o, "unreached")
        /\ RetryOrFail(o, "unreached")
    BY <1>3 DEF NoAnswer, InHttp, Truthful
  <2>2. CASE UNCHANGED late
    BY <2>1, <2>2, RetryOrFailKeepsWrites
  <2>3. CASE pc[o] = "flight" /\ ~login[o] /\ o \in Writes /\ late' = late \cup {o}
    <3>1. Fails(o, "unreached")
      BY <2>1, <2>3, FailShape DEF RetryOrFail, Repeatable, Writes
    <3>2. \A p \in Operations :
            /\ pc'[p] = IF p = o THEN "done" ELSE pc[p]
            /\ result'[p] = IF p = o THEN "unreached" ELSE result[p]
            /\ login'[p] <=> login[p]
      BY <2>3, <3>1 DEF Fails, Ends, Moved
    <3>3. applied[o] = 0 /\ o \notin late /\ \A w \in Writes : w \in Operations
      BY <2>3 DEF WriteInvariant, WritesAccounted, Writes
    <3>4. WritesAccounted' /\ WritesOnce'
      BY <2>1, <2>3, <3>2, <3>3 DEF WriteInvariant, WritesAccounted, WritesOnce, InHttp
    <3>5. QED
      BY <3>4 DEF WriteInvariant
  <2>4. QED
    BY <1>3, <2>2, <2>3 DEF NoAnswer
<1>4. ASSUME NEW o \in Operations, ReadError(o) PROVE WriteInvariant'
  <2>1. /\ pc[o] = "erring" /\ pc[o] \in InHttp /\ UNCHANGED <<applied, late>>
        /\ Truthful(o, "unavailable")
    BY <1>4 DEF ReadError, InHttp, Truthful
  <2>2. CASE RetryOrFail(o, "unavailable") /\ UNCHANGED status
    BY <2>1, <2>2, RetryOrFailKeepsWrites
  <2>3. CASE /\ status[o] \in {"declined", "unauthorized"}
             /\ Fail(o, status[o]) /\ UNCHANGED status
    <3>1. Truthful(o, status[o])
      BY <2>1, <2>3 DEF Truthful, WriteInvariant, WritesAccounted
    <3>2. QED
      BY <2>1, <2>3, <3>1, RetryOrFailKeepsWrites
  <2>4. CASE /\ status[o] = "unauthorized" /\ Authenticate(o, TRUE) /\ UNCHANGED result
    <3>1. o \in Writes => applied[o] = 0 /\ o \notin late
      BY <2>1, <2>4 DEF WriteInvariant, WritesAccounted
    <3>2. QED
      BY <2>1, <2>4, <3>1, AuthenticateKeepsWrites
  <2>5. QED
    BY <1>4, <2>2, <2>3, <2>4 DEF ReadError
<1>5. ASSUME NEW o \in Operations, WakeUp(o) PROVE WriteInvariant'
  <2>1. o \in Writes => applied[o] = 0 /\ o \notin late
    BY <1>5 DEF WakeUp, WriteInvariant, WritesAccounted
  <2>2. /\ Goto(o, "queued") /\ \A p \in Operations \ {o} : status'[p] = status[p]
        /\ UNCHANGED <<applied, late, result, login>>
    BY <1>5 DEF WakeUp, Enqueue, TypeOK
  <2>3. QED
    BY <2>1, <2>2, UnsentKeepsWrites
<1>6. ASSUME NEW o \in Operations, ReadBody(o) PROVE WriteInvariant'
  <2>1. /\ pc[o] = "reading" /\ pc[o] \in InHttp /\ pc[o] # "done"
        /\ UNCHANGED <<applied, late, status>>
        /\ Truthful(o, "garbled") /\ Truthful(o, "ok")
    BY <1>6 DEF ReadBody, InHttp, Truthful, WriteInvariant, WritesAccounted
  <2>2. ASSUME StoreToken(o), login[o] PROVE WriteInvariant'
    <3>1. CASE Fails(o, "none")
      BY <2>1, <2>2, <3>1, FailsKeepsWrites DEF Truthful
    <3>2. CASE Ends(o, "authenticated") /\ UNCHANGED result
      <4>1. ASSUME NEW w \in Writes, Moved(o, w)
            PROVE  applied[w] = 0 /\ w \notin late /\ pc'[w] = "authenticated"
        BY <2>1, <2>2, <3>2, <4>1
        DEF WriteInvariant, WritesAccounted, Moved, Ends, Writes
      <4>2. \A w \in Writes : ~Moved(o, w) => pc'[w] = pc[w] /\ (login'[w] <=> login[w])
        BY <3>2 DEF Ends, Moved, Writes
      <4>3. WritesAccounted'
        BY <2>1, <3>2, <4>1, <4>2 DEF WriteInvariant, WritesAccounted, InHttp
      <4>4. WritesOnce'
        BY <2>1, <3>2 DEF WriteInvariant, WritesOnce
      <4>5. QED
        BY <4>3, <4>4 DEF WriteInvariant
    <3>3. QED
      BY <2>2, <3>1, <3>2, StoreTokenShape
  <2>3. ASSUME Finish(o, "ok"), ~login[o] PROVE WriteInvariant'
    BY <2>1, <2>3, FinishShape, FailsKeepsWrites
  <2>4. QED
    BY <1>6, <2>1, <2>2, <2>3, RetryOrFailKeepsWrites DEF ReadBody
<1>7. ASSUME NEW o \in Operations, Grant(o) \/ Serve(o) \/ Refuse(o)
      PROVE  WriteInvariant'
  <2>1. /\ pc[o] = "flight" /\ UNCHANGED <<login, result, late>>
        /\ \A p \in Operations \ {o} :
             pc'[p] = pc[p] /\ status'[p] = status[p] /\ applied'[p] = applied[p]
    BY <1>7 DEF Grant, Serve, Refuse, Goto, CarryOut, TypeOK
  <2>2. o \in Writes => applied[o] = 0 /\ o \notin late /\ result[o] = "none"
    BY <2>1 DEF WriteInvariant, WritesAccounted, Stages
  <2>3. ASSUME o \in Writes
        PROVE  \/ pc'[o] = "reading" /\ (IF login[o] THEN applied'[o] = 0 ELSE applied'[o] = 1)
               \/ /\ pc'[o] = "erring" /\ status'[o] \in Status \ {"none"}
                  /\ applied'[o] = 0 \/ (applied'[o] = 1 /\ status'[o] = "unavailable" /\ ~login[o])
    BY <1>7, <2>1, <2>2, <2>3 DEF Grant, Serve, Refuse, Goto, CarryOut, TypeOK
  <2>4. \A w \in Writes : w \in Operations
    BY DEF Writes
  <2>5. WritesAccounted'
    BY <2>1, <2>2, <2>3, <2>4 DEF WriteInvariant, WritesAccounted, Status, InHttp
  <2>6. WritesOnce'
    BY <2>1, <2>2, <2>3, <2>4 DEF WriteInvariant, WritesOnce
  <2>7. QED
    BY <2>5, <2>6 DEF WriteInvariant
<1>8. ASSUME NEW o \in Operations, LateArrival(o) PROVE WriteInvariant'
  <2>1. /\ o \in Writes /\ o \in late /\ applied[o] = 0 /\ result[o] = "unreached"
        /\ pc[o] = "done"
    BY <1>8 DEF LateArrival, WriteInvariant, WritesAccounted, TypeOK
  <2>2. /\ \A w \in Writes : applied'[w] = IF w = o THEN 1 ELSE applied[w]
        /\ late' = late \ {o} /\ UNCHANGED <<pc, login, status, result>>
    BY <1>8, <2>1 DEF LateArrival, CarryOut, TypeOK, Writes
  <2>3. WritesAccounted' /\ WritesOnce'
    BY <2>1, <2>2 DEF WriteInvariant, WritesAccounted, WritesOnce, InHttp
  <2>4. QED
    BY <2>3 DEF WriteInvariant
<1>9. CASE Dequeue
  <2> DEFINE o == Head(queue)
  <2>1. o \in Operations /\ pc[o] = "queued" /\ UNCHANGED <<applied, late, status>>
    BY <1>9, TailOff, QueueForm DEF Dequeue, TypeOK
  <2>2. CASE Goto(o, "flight") /\ UNCHANGED <<login, result, inFlight>>
    <3>1. o \in Writes => applied[o] = 0 /\ o \notin late
      BY <2>1 DEF WriteInvariant, WritesAccounted
    <3>2. QED
      BY <2>1, <2>2, <3>1, UnsentKeepsWrites
  <2>3. CASE RetryOrFail(o, "unreached")
    <3>1. pc[o] \in InHttp /\ Truthful(o, "unreached")
      BY <2>1 DEF InHttp, Truthful
    <3>2. QED
      BY <2>1, <2>3, <3>1, RetryOrFailKeepsWrites
  <2>4. QED
    BY <1>9, <2>2, <2>3 DEF Dequeue
<1>10. ASSUME UNCHANGED <<pc, login, status, result, applied, late>> PROVE WriteInvariant'
  BY <1>10 DEF WriteInvariant, WritesAccounted, WritesOnce
<1> QED
  BY <1>1, <1>2, <1>3, <1>4, <1>5, <1>6, <1>7, <1>8, <1>9, <1>10
  DEF Next, Progress, Environment, TimeoutQueued, Age, Revoke

-----------------------------------------------------------------------------
(* The invariant and what follows from it.                                 *)

InductiveInvariant == TypeOK /\ ClientInvariant

LEMMA InvariantInit == Init => InductiveInvariant
<1> SUFFICES ASSUME Init PROVE InductiveInvariant
  OBVIOUS
<1>1. JoinedHaveAcquirer /\ Stages /\ RefreshIsNewer /\ ReplayWithNewToken
  BY ClientAssumption
  DEF Init, JoinedHaveAcquirer, Stages, RefreshIsNewer, ReplayWithNewToken
<1>2. TokensInOrder /\ OwnMerchantOnly
  BY DEF Init, TokensInOrder, OwnMerchantOnly, InHttp
<1>3. WritesAccounted /\ WritesOnce
  BY DEF Init, WritesAccounted, WritesOnce, Writes
<1>4. QueueMatchesWaiting
  BY EmptySeq DEF Init, QueueMatchesWaiting
<1> QED
  BY <1>1, <1>2, <1>3, <1>4, TypeInit DEF InductiveInvariant, ClientInvariant

LEMMA InvariantStep == InductiveInvariant /\ [Next]_vars => InductiveInvariant'
<1> SUFFICES ASSUME TypeOK, ClientInvariant, [Next]_vars
             PROVE  TypeOK' /\ ClientInvariant'
  BY DEF InductiveInvariant
<1>1. TypeOK'
  BY TypeStep DEF ClientInvariant
<1>2. CASE Next
  <2>1. JoinedHaveAcquirer' /\ QueueMatchesWaiting' /\ Stages'
    BY <1>2, AcquirerStep, QueueStep, StagesStep DEF ClientInvariant
  <2>2. TokenInvariant'
    BY <1>2, TokensStep DEF ClientInvariant, TokenInvariant
  <2>3. WriteInvariant'
    BY <1>2, WritesStep DEF ClientInvariant, WriteInvariant
  <2>4. QED
    BY <1>1, <2>1, <2>2, <2>3 DEF ClientInvariant, TokenInvariant, WriteInvariant
<1>3. CASE UNCHANGED vars
  <2>1. UNCHANGED <<pc, login, attempt, aborted, status, token, refused, result, queue,
                    current, fresh, inFlight, issued, valid, foreign, applied, late>>
    BY <1>3 DEF vars, http, cache, sezzle
  <2>2. JoinedHaveAcquirer' /\ QueueMatchesWaiting' /\ Stages'
    BY <2>1
    DEF ClientInvariant, JoinedHaveAcquirer, QueueMatchesWaiting, Stages, Repeatable
  <2>3. TokensInOrder' /\ RefreshIsNewer' /\ ReplayWithNewToken' /\ OwnMerchantOnly'
    BY <2>1
    DEF ClientInvariant, TokensInOrder, RefreshIsNewer, ReplayWithNewToken, OwnMerchantOnly
  <2>4. WritesAccounted' /\ WritesOnce'
    BY <2>1 DEF ClientInvariant, WritesAccounted, WritesOnce
  <2>5. QED
    BY <1>1, <2>2, <2>3, <2>4 DEF ClientInvariant
<1> QED
  BY <1>1, <1>2, <1>3

LEMMA InvariantHolds == Spec => []InductiveInvariant
  BY InvariantInit, InvariantStep, PTL DEF Spec

\* The conjuncts of ClientInvariant hold together in every reachable state.
THEOREM ClientInvariantCorrect == Spec => []ClientInvariant
  BY InvariantHolds, PTL DEF InductiveInvariant

\* A write is carried out at most once, and its outcome says whether it was.
THEOREM WritesOnceCorrect == Spec => []WritesOnce
<1>1. InductiveInvariant => WritesOnce
  BY DEF InductiveInvariant, ClientInvariant
<1> QED
  BY <1>1, InvariantHolds, PTL

\* A replay carries a newer token than the one refused, whoever acquired it.
THEOREM ReplayWithNewTokenCorrect == Spec => []ReplayWithNewToken
<1>1. InductiveInvariant => ReplayWithNewToken
  BY DEF InductiveInvariant, ClientInvariant
<1> QED
  BY <1>1, InvariantHolds, PTL

\* The limiter's queue is exactly the requests that wait, at any concurrency.
THEOREM QueueMatchesWaitingCorrect == Spec => []QueueMatchesWaiting
<1>1. InductiveInvariant => QueueMatchesWaiting
  BY DEF InductiveInvariant, ClientInvariant
<1> QED
  BY <1>1, InvariantHolds, PTL

\* Whoever joined an acquisition has one under way to wait for.
THEOREM JoinedHaveAcquirerCorrect == Spec => []JoinedHaveAcquirer
<1>1. InductiveInvariant => JoinedHaveAcquirer
  BY DEF InductiveInvariant, ClientInvariant
<1> QED
  BY <1>1, InvariantHolds, PTL

\* No request carries another merchant's token.
THEOREM OwnMerchantOnlyCorrect == Spec => []OwnMerchantOnly
<1>1. InductiveInvariant => OwnMerchantOnly
  BY DEF InductiveInvariant, ClientInvariant
<1> QED
  BY <1>1, InvariantHolds, PTL

\* The cache only ever changes to the newest token, or to none.
THEOREM CacheTakesNewestCorrect == Spec => CacheTakesNewest
<1>1. ASSUME InductiveInvariant, Next, current' # current
      PROVE  current' \in {0, issued}
  <2>1. PICK o \in Operations : ReadBody(o)
    BY <1>1
    DEF Next, Begin, Progress, TakeToken, TimeoutQueued, NoAnswer, ReadError, WakeUp,
        Environment, Grant, Serve, Refuse, LateArrival, Dequeue, Age, Revoke, cache
  <2>2. login[o] /\ StoreToken(o) /\ pc[o] = "reading"
    BY <1>1, <2>1 DEF ReadBody
  <2>3. current' = 0 \/ current' = token[o]
    BY <2>2, StoreTokenShape, <1>1 DEF InductiveInvariant
  <2>4. token[o] = issued
    BY <1>1, <2>2 DEF InductiveInvariant, ClientInvariant, TokensInOrder
  <2>5. QED
    BY <2>3, <2>4
<1>2. InductiveInvariant /\ [Next]_vars
        => [current' # current => current' \in {0, issued}]_vars
  BY <1>1
<1> QED
  BY <1>2, InvariantHolds, PTL DEF Spec, CacheTakesNewest

=============================================================================
