--------------------------- MODULE MutationStore ---------------------------
(***************************************************************************)
(* The storage behind the mutation protocol: the previews, the operation   *)
(* reservations and the audit events that MemoryStore and SqliteStore keep *)
(* (src/src/storage).  Every storage method runs to completion before it   *)
(* returns its promise, so each one is a single step here.                 *)
(*                                                                         *)
(* A preview is created with a fresh random id and a fresh random          *)
(* idempotency key, one of each, so the preview id stands for both and     *)
(* operations are indexed by it.                                           *)
(***************************************************************************)
EXTENDS Naturals

CONSTANTS
  PreviewIds,  \* ids the preview id factory may hand out
  Calls,       \* execution calls a client may make, each at most once
  Requests,    \* normalized mutation requests: records with fields tool, target
  Snapshots,   \* what a read of a target may return
  Contexts,    \* merchant and environment the process is configured for
  Durable,     \* TRUE for SqliteStore, FALSE for MemoryStore
  None         \* absence of a value

PreviewRecord ==
  [request : Requests, context : Contexts, state : Snapshots,
   valid : BOOLEAN, expiresAt : Nat, consumed : BOOLEAN]

OperationStatus == {"none", "in_progress", "succeeded", "failed"}

AuditEvent ==
  [by : Calls \cup PreviewIds, result : {"preview", "success", "failure", "rejected"}]

ASSUME StoreAssumption ==
  /\ Durable \in BOOLEAN
  /\ None \notin Calls
  /\ None \notin PreviewRecord

VARIABLES
  previews,    \* mutation_previews, by preview id
  operations,  \* status column of operations, by the preview that owns the key
  audits,      \* audit_events
  storageUp    \* FALSE while storage calls throw: closed by shutdown, locked, full

storeVars == <<previews, operations, audits, storageUp>>

StoreTypeOK ==
  /\ previews \in [PreviewIds -> PreviewRecord \cup {None}]
  /\ operations \in [PreviewIds -> OperationStatus]
  /\ audits \subseteq AuditEvent
  /\ storageUp \in BOOLEAN

StoreInit ==
  /\ previews = [p \in PreviewIds |-> None]
  /\ operations = [p \in PreviewIds |-> "none"]
  /\ audits = {}
  /\ storageUp = TRUE

SavePreview(p, record) ==
  /\ previews' = [previews EXCEPT ![p] = record]
  /\ UNCHANGED <<operations, audits, storageUp>>

\* consumePreview finds an unconsumed row to update.
Consumable(p) == previews[p] # None /\ ~previews[p].consumed

ConsumePreview(p) ==
  /\ previews' = [previews EXCEPT ![p].consumed = TRUE]
  /\ UNCHANGED <<operations, audits, storageUp>>

\* Fault: the insert replaces a row that is there.
ReservableAlways(p) == TRUE

\* reserveOperation inserts a row: no operation holds the key yet.
Reservable(p) == operations[p] = "none"

ReserveOperation(p) ==
  /\ operations' = [operations EXCEPT ![p] = "in_progress"]
  /\ UNCHANGED <<previews, audits, storageUp>>

\* SqliteStore completes only an operation in progress; MemoryStore any reserved one.
Completable(p) ==
  IF Durable THEN operations[p] = "in_progress" ELSE operations[p] # "none"

CompleteOperation(p, status) ==
  /\ operations' = [operations EXCEPT ![p] = status]
  /\ UNCHANGED <<previews, audits, storageUp>>

AppendAudit(by, result) ==
  /\ audits' = audits \cup {[by |-> by, result |-> result]}
  /\ UNCHANGED <<previews, operations, storageUp>>

\* Storage calls start to throw, or work again.  MemoryStore never throws.
SetStorageUp(up) ==
  /\ Durable
  /\ storageUp' = up
  /\ UNCHANGED <<previews, operations, audits>>

\* Fault: opening the store clears operations that did not succeed.
ReopenClearing ==
  /\ storageUp' = TRUE
  /\ operations' = [p \in PreviewIds |->
                      IF operations[p] = "succeeded" THEN operations[p] ELSE "none"]
  /\ UNCHANGED <<previews, audits>>

\* A new process opens the store: the SQLite file is as it was left, a Map is empty.
Reopen ==
  /\ storageUp' = TRUE
  /\ IF Durable
     THEN UNCHANGED <<previews, operations, audits>>
     ELSE /\ previews' = [p \in PreviewIds |-> None]
          /\ operations' = [p \in PreviewIds |-> "none"]
          /\ audits' = {}

=============================================================================
