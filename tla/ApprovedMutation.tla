------------------------- MODULE ApprovedMutation -------------------------
(***************************************************************************)
(* What the preview and confirm protocol promises, with nothing said about *)
(* calls, storage, messages or retries: a preview is opened once, an       *)
(* execution spends it at most once, only a spent preview may move funds,  *)
(* it does so at most once, and success is recorded only after it did.     *)
(* A "failed" record promises nothing: the effect may still arrive, since  *)
(* a timed out request can be processed later.                             *)
(***************************************************************************)
EXTENDS Naturals

CONSTANTS
  PreviewIds,
  Volatile     \* TRUE when records do not survive a restart

VARIABLES
  phase,       \* "absent", "open", "spent", or "void": lost before it was spent
  effects,     \* how often Sezzle carried the mutation out
  verdict      \* what the operation record says of it

absVars == <<phase, effects, verdict>>

Init ==
  /\ phase = [p \in PreviewIds |-> "absent"]
  /\ effects = [p \in PreviewIds |-> 0]
  /\ verdict = [p \in PreviewIds |-> "none"]

Open(p) ==
  /\ phase[p] = "absent"
  /\ phase' = [phase EXCEPT ![p] = "open"]
  /\ UNCHANGED <<effects, verdict>>

Spend(p) ==
  /\ phase[p] = "open"
  /\ phase' = [phase EXCEPT ![p] = "spent"]
  /\ UNCHANGED <<effects, verdict>>

TakeEffect(p) ==
  /\ phase[p] = "spent"
  /\ effects[p] = 0
  /\ effects' = [effects EXCEPT ![p] = 1]
  /\ UNCHANGED <<phase, verdict>>

Settle(p, v) ==
  /\ phase[p] = "spent"
  /\ verdict[p] = "none"
  /\ v = "succeeded" => effects[p] = 1
  /\ verdict' = [verdict EXCEPT ![p] = v]
  /\ UNCHANGED <<phase, effects>>

Forget ==
  /\ Volatile
  /\ phase' = [p \in PreviewIds |-> IF phase[p] = "open" THEN "void" ELSE phase[p]]
  /\ verdict' = [p \in PreviewIds |-> "none"]
  /\ UNCHANGED effects

Next ==
  \/ \E p \in PreviewIds : Open(p) \/ Spend(p) \/ TakeEffect(p)
  \/ \E p \in PreviewIds, v \in {"succeeded", "failed"} : Settle(p, v)
  \/ Forget

Spec == Init /\ [][Next]_absVars

=============================================================================
