-------------------------- MODULE ServerLifecycle --------------------------
(***************************************************************************)
(* The process around the execution calls of MutationGuard: the HTTP       *)
(* transport (src/src/server/transports/http.ts), the stdio transport and  *)
(* the ordered shutdown of index.ts, which closes the transport first and  *)
(* the store last.                                                         *)
(*                                                                         *)
(* Every execution call is carried by a POST of its own.  Closing a        *)
(* response, from either end, does not stop the handler behind it.         *)
(***************************************************************************)
EXTENDS MutationGuard

CONSTANT Transport  \* MCP_TRANSPORT

\* A process closes its store once, and nothing else disturbs it here.
ASSUME LifecycleAssumption ==
  /\ Transport \in {"http", "stdio"}
  /\ Durable
  /\ MaxFaults > MaxRestarts

VARIABLES
  phase,     \* "listening", "closing" the transports of the snapshot, "draining" (the
             \* HTTP server takes no new connection), "stopped": the store is closed
  response   \* per call: not begun, "open", "cut" (its transport is closed, the client
             \* still waits), "answered" with the result, "gone" without it

serverVars == <<phase, response>>
lifecycleVars == <<vars, serverVars>>

ServerTypeOK ==
  /\ phase \in {"listening", "closing", "draining", "stopped"}
  /\ response \in [Calls -> {"none", "open", "cut", "answered", "gone"}]

ServerInit ==
  /\ Init
  /\ phase = "listening"
  /\ response = [c \in Calls |-> "none"]

\* active: the connections whose response has not closed.
Active == {c \in Calls : response[c] \in {"open", "cut"}}

-----------------------------------------------------------------------------
(* Connections.                                                            *)

\* Requests still come in.  The HTTP server accepts connections while the transports of
\* the snapshot are being closed, and then reads on from those it waits for; a closed
\* stdio transport reads no more.
Reachable ==
  \/ phase = "listening"
  \/ Transport = "http" /\ phase = "closing"
  \/ Transport = "http" /\ phase = "draining" /\ Active # {}

\* A client that holds a preview id calls.
Accept(c) ==
  /\ \E p \in PreviewIds : stage[p] = "issued"
  /\ Reachable
  /\ response[c] = "none"
  /\ response' = [response EXCEPT ![c] = "open"]
  /\ UNCHANGED <<vars, phase>>

\* The handler of an accepted call makes its first reads; nobody can stop it.
Handle(c) ==
  /\ response[c] # "none"
  /\ \E p \in PreviewIds, r \in Requests, confirm \in BOOLEAN :
       ReadTarget(c, p, r, confirm) \/ ReadFails(c, p, r, confirm)
  /\ UNCHANGED serverVars

\* Fault: the handler of a call that threw leaves the response open.
RespondUnlessError(c) ==
  /\ pc[c] \in Ended \ {"lost", "error"}
  /\ response[c] = "open"
  /\ response' = [response EXCEPT ![c] = "answered"]
  /\ UNCHANGED <<vars, phase>>

\* The result, or the error, is written; the response closes and is cleaned up.
Respond(c) ==
  /\ pc[c] \in Ended \ {"lost"}
  /\ response[c] = "open"
  /\ response' = [response EXCEPT ![c] = "answered"]
  /\ UNCHANGED <<vars, phase>>

\* The client hangs up: clean-up closes transport and server, the handler goes on.
Disconnect(c) ==
  /\ Transport = "http"
  /\ c \in Active
  /\ response' = [response EXCEPT ![c] = "gone"]
  /\ UNCHANGED <<vars, phase>>

-----------------------------------------------------------------------------
(* Shutdown.                                                               *)

\* close() closes the transport of every active connection.  Whether that ends
\* the response or leaves its client waiting is the transport library's choice.
CloseTransports ==
  \E ended \in SUBSET Active :
    response' = [c \in Calls |-> IF c \notin Active THEN response[c]
                                 ELSE IF c \in ended THEN "gone" ELSE "cut"]

\* SIGINT or SIGTERM arrives.
Signal ==
  /\ phase = "listening"
  /\ phase' = "closing"
  /\ CloseTransports
  /\ UNCHANGED vars

\* The other signal arrives as well and begins a second shutdown: a new snapshot.
\* Its close() rejects when the server has closed, and the process dies.
SignalAgain ==
  /\ phase \in {"closing", "draining"}
  /\ Transport = "http"
  /\ CloseTransports
  /\ UNCHANGED <<vars, phase>>

\* httpServer.close(): no new connections; it waits for those there are.
StopListening ==
  /\ phase = "closing"
  /\ phase' = "draining"
  /\ UNCHANGED <<vars, response>>

\* Fault: the store is closed before the transport.
CloseStoreFirst ==
  /\ phase = "listening"
  /\ StorageFails
  /\ phase' = "stopped"
  /\ UNCHANGED response

\* Fault: only the connections of the snapshot are waited for.
CloseStoreAfterSnapshot ==
  /\ phase = "draining"
  /\ \A c \in Active : response[c] = "open"
  /\ StorageFails
  /\ phase' = "stopped"
  /\ UNCHANGED response

\* Fault: operations that nobody waits for are settled as failed on the way out.
CloseStoreSettling ==
  /\ phase = "draining"
  /\ Active = {}
  /\ faults < MaxFaults /\ faults' = faults + 1
  /\ storageUp' = FALSE
  /\ operations' = [p \in PreviewIds |-> IF operations[p] = "in_progress"
                                         THEN "failed" ELSE operations[p]]
  /\ phase' = "stopped"
  /\ UNCHANGED <<previews, audits, stage, callVars, sezzleVars, winner, now, context,
                 changes, restarts, response>>

\* storage.close(), after every response has closed (stdio has none to wait for).
CloseStore ==
  /\ phase = "draining"
  /\ Transport = "http" => Active = {}
  /\ StorageFails
  /\ phase' = "stopped"
  /\ UNCHANGED response

\* The process ends, in whatever way and wherever its calls are, and is started again.
StartAgain(ctx) ==
  /\ Restart(ctx)
  /\ phase' = "listening"
  /\ response' = [c \in Calls |-> IF c \in Active THEN "gone" ELSE response[c]]

-----------------------------------------------------------------------------

\* What the event loop does for a call once it is accepted.
Serve(c) == Handle(c) \/ (Progress(c) /\ UNCHANGED serverVars) \/ Respond(c)

Shutdown == StopListening \/ CloseStore

\* Preview calls have no connection of their own here; they need a server to answer.
Prepare ==
  /\ Reachable
  /\ \/ \E p \in PreviewIds, r \in Requests : CreatePreview(p, r)
     \/ \E p \in PreviewIds : ReturnPreview(p)
  /\ UNCHANGED serverVars

Outside ==
  /\ \/ \E c \in Calls : Sezzle(c)
     \/ Tick
     \/ \E t \in Targets : TargetChanges(t)
  /\ UNCHANGED serverVars

ServerNext ==
  \/ Prepare
  \/ \E c \in Calls : Accept(c) \/ Serve(c) \/ Disconnect(c)
  \/ Signal \/ SignalAgain \/ Shutdown
  \/ Outside
  \/ \E ctx \in Contexts : StartAgain(ctx)

ServerSpec == ServerInit /\ [][ServerNext]_lifecycleVars

\* The event loop resumes settled awaits and the request timer settles the wait for
\* Sezzle.  Nothing makes clients call or hang up, or a process start again.
FairServerSpec ==
  /\ ServerSpec
  /\ \A c \in Calls : WF_lifecycleVars(Serve(c))
  /\ WF_lifecycleVars(Shutdown)

-----------------------------------------------------------------------------
(* Properties.                                                             *)

\* The store outlives every response a client still waits for, so a call that can be
\* answered never meets a closed store (index.ts:31-35, http.ts:166-181).
StoreOutlivesResponses ==
  \A c \in Calls :
    response[c] = "open" \/ (response[c] = "cut" /\ Transport = "http") => storageUp

\* A client that is answered about a mutation it reserved is told what the record and
\* the audit trail say of it, whether it was accepted before or during the shutdown:
\* only calls whose response was cut or abandoned can miss their record.
AnswerIsOnRecord ==
  \A c \in Calls :
    response[c] = "answered" /\ winner[PreviewOf(c)] = c =>
      /\ pc[c] \in {"succeeded", "failed"}
      /\ previews[PreviewOf(c)].consumed
      /\ operations[PreviewOf(c)] = pc[c]
      /\ [by |-> c, result |-> IF pc[c] = "succeeded" THEN "success" ELSE "failure"]
           \in audits

\* Through every shutdown, cut response and second signal the calls do nothing the
\* mutation protocol does not allow, so all that is proved of it holds of the server.
ImplementsProtocol == Spec

\* A shutdown comes to its end, unless a client keeps waiting for a response that was
\* cut (http.ts:175: the server closes when its last connection has).
ShutdownEnds ==
  phase # "listening"
    ~> phase \in {"stopped", "listening"} \/ \E c \in Calls : response[c] = "cut"

-----------------------------------------------------------------------------
(* The inductive invariant behind StoreOutlivesResponses and               *)
(* AnswerIsOnRecord.                                                       *)

\* The store is closed last: over HTTP after every connection, and over stdio the
\* signal has cut every response before.
ClosedLast ==
  /\ storageUp <=> phase # "stopped"
  /\ Transport = "http" /\ phase = "stopped" => Active = {}
  /\ Transport = "stdio" /\ phase # "listening" => \A c \in Calls : response[c] # "open"

\* A call with an open response still holds what it reserved, and one that was
\* answered has ended with what it reserved settled.
ResponseFollows(c) ==
  /\ response[c] = "none" => pc[c] = "idle"
  /\ response[c] = "open" /\ pc[c] # "idle" /\ winner[PreviewOf(c)] = c =>
       pc[c] \in Holding \ {"unconsumed"}
  /\ response[c] = "answered" =>
       /\ pc[c] \in Ended
       /\ winner[PreviewOf(c)] = c => pc[c] \in {"succeeded", "failed"}

\* What a call that is past the reservation left in durable storage.
SpentStored(c) ==
  /\ pc[c] \in Holding \ {"reserved", "unconsumed"} =>
       previews[PreviewOf(c)] # None /\ previews[PreviewOf(c)].consumed
  /\ pc[c] \in {"succeeded", "failed"} => operations[PreviewOf(c)] = pc[c]

ServerInvariant ==
  /\ ServerTypeOK
  /\ ClosedLast
  /\ \A c \in Calls : ResponseFollows(c) /\ SpentStored(c)

=============================================================================
