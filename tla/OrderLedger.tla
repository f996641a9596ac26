---------------------------- MODULE OrderLedger ----------------------------
(***************************************************************************)
(* One order at Sezzle and the financial executions that are validated     *)
(* against it: each call previews an operation, reads the order again when *)
(* it is executed, and posts the operation a moment later                  *)
(* (src/src/services/merchant-operations.ts, #previewFinancial and         *)
(* #executeFinancial).  Confirmation, reservation and retries are the      *)
(* subject of MutationGuard; here is what happens to the amounts.          *)
(***************************************************************************)
EXTENDS OrderFinance

CONSTANTS
  Calls,         \* operations a client previews and executes, each at most once
  Requests,      \* money inputs clients ask for
  Orders,        \* authorizations the order may start with
  Horizon        \* bound on the clock

Argument == [operation : Operations, amount : MoneyInput]

Preview == [state : Authorization, valid : BOOLEAN, remainingAfter : Int]

ASSUME LedgerAssumption ==
  /\ Requests \subseteq MoneyInput
  /\ Orders \subseteq Authorization \cup {Nothing}
  /\ Nothing \notin Authorization \cup Argument \cup Preview
  /\ Horizon \in Nat

VARIABLES
  order,       \* the order's authorization, as getOrder returns it
  now,
  pc,          \* per call: "idle", "previewed", "sent", "done", "refused", "error"
  asked,       \* per call: the operation and the amount
  shown,       \* per call: the preview: state, validity, remainingAfter
  seen,        \* per call: the order its execution read
  overlapped   \* history: an operation was carried out on another state than it read

callVars == <<pc, asked, shown, seen>>
vars == <<order, now, callVars, overlapped>>

TypeOK ==
  /\ order \in Authorization \cup {Nothing}
  /\ now \in 0..Horizon
  /\ pc \in [Calls -> {"idle", "previewed", "sent", "done", "refused", "error"}]
  /\ asked \in [Calls -> Argument \cup {Nothing}]
  /\ shown \in [Calls -> Preview \cup {Nothing}]
  /\ seen \in [Calls -> Authorization \cup {Nothing}]
  /\ overlapped \in BOOLEAN

Init ==
  /\ order \in Orders
  /\ now = 0
  /\ pc = [c \in Calls |-> "idle"]
  /\ asked = [c \in Calls |-> Nothing]
  /\ shown = [c \in Calls |-> Nothing]
  /\ seen = [c \in Calls |-> Nothing]
  /\ overlapped = FALSE

\* A preview is stored whether valid or not, unless the validation throws.
PreviewFinancial(c, op, money) ==
  LET verdict == Verdict(op, order, money, now) IN
  /\ pc[c] = "idle"
  /\ asked' = [asked EXCEPT ![c] = [operation |-> op, amount |-> money]]
  /\ \/ /\ verdict \in Thrown
        /\ pc' = [pc EXCEPT ![c] = "error"]
        /\ UNCHANGED shown
     \/ /\ verdict \notin Thrown
        /\ pc' = [pc EXCEPT ![c] = "previewed"]
        /\ shown' = [shown EXCEPT ![c] =
             [state |-> order,
              valid |-> verdict = "VALID",
              remainingAfter |-> RemainingAfter(op, order, money)]]
  /\ UNCHANGED <<order, now, seen, overlapped>>

CallVerdict(c) == Verdict(asked[c].operation, order, asked[c].amount, now)

\* Fault: the state of the order is not compared with the previewed one.
ConfirmedUncompared(c) == CallVerdict(c) = "VALID" /\ shown[c].valid

\* The order, read again, still permits the operation and is as it was previewed.
Confirmed(c) == CallVerdict(c) = "VALID" /\ shown[c].valid /\ shown[c].state = order

ExecuteFinancial(c) ==
  /\ pc[c] = "previewed"
  /\ \/ /\ Confirmed(c)
        /\ pc' = [pc EXCEPT ![c] = "sent"]
        /\ seen' = [seen EXCEPT ![c] = order]
     \/ /\ ~Confirmed(c)
        /\ pc' = [pc EXCEPT ![c] = IF CallVerdict(c) \in Thrown THEN "error" ELSE "refused"]
        /\ UNCHANGED seen
  /\ UNCHANGED <<order, now, asked, shown, overlapped>>

\* The order once an operation on it was carried out.  A reauthorization makes an
\* order of its own and leaves this one as it is.
Carried(op, a, money) ==
  CASE op = "capture" ->
         [a EXCEPT !.captures = AddTransaction(@, money, a.amount.currency)]
    [] op = "refund" ->
         [a EXCEPT !.refunds = AddTransaction(@, money, a.amount.currency)]
    [] op = "release" ->
         [a EXCEPT !.releases = AddTransaction(@, money, a.amount.currency)]
    [] OTHER -> a

\* Sezzle carries a posted operation out on the order as it is by then, or refuses;
\* it is not relied on to check the amount.
CarryOut(c) ==
  /\ pc[c] = "sent"
  /\ \/ /\ order' = Carried(asked[c].operation, order, asked[c].amount)
        /\ pc' = [pc EXCEPT ![c] = "done"]
        /\ overlapped' = (overlapped \/ seen[c] # order)
     \/ /\ pc' = [pc EXCEPT ![c] = "refused"]
        /\ UNCHANGED <<order, overlapped>>
  /\ UNCHANGED <<now, asked, shown, seen>>

\* The merchant dashboard operates on the same order, by Sezzle's rules.
Dashboard(op, money) ==
  /\ Verdict(op, order, money, now) = "VALID"
  /\ order' = Carried(op, order, money)
  /\ UNCHANGED <<now, callVars, overlapped>>

Tick ==
  /\ now < Horizon
  /\ now' = now + 1
  /\ UNCHANGED <<order, callVars, overlapped>>

Next ==
  \/ \E c \in Calls, op \in Operations, money \in Requests : PreviewFinancial(c, op, money)
  \/ \E c \in Calls : ExecuteFinancial(c) \/ CarryOut(c)
  \/ \E op \in Operations \ {"reauthorize"}, money \in Requests : Dashboard(op, money)
  \/ Tick

Spec == Init /\ [][Next]_vars

-----------------------------------------------------------------------------

\* No order, however overdrawn, has a financial state outside the safe integers: the
\* subtractions refuse it first, so moneyToJson never throws for a stored order
\* (order.ts:78-97, money.ts:94).
NeverOutOfRange == StateError(order) # "MONEY_OUT_OF_RANGE"

\* An operation is posted only on an order whose financial state could be computed
\* and with an amount that the order it read has left (order.ts:116-240).
SentWithinMeans ==
  \A c \in Calls : pc[c] = "sent" =>
    /\ Readable(seen[c])
    /\ asked[c].amount.currency = seen[c].amount.currency
    /\ 0 < asked[c].amount.amount
    /\ asked[c].amount.amount <= Available(asked[c].operation, seen[c])

\* A preview is of the operation that was asked for, on the order it shows, and an
\* execution has read that very order, which is still there (mutation-guard.ts:156).
PreviewsKept ==
  \A c \in Calls :
    /\ pc[c] # "idle" => asked[c] # Nothing
    /\ pc[c] \in {"previewed", "sent"} =>
         /\ shown[c] # Nothing
         /\ shown[c].remainingAfter =
              RemainingAfter(asked[c].operation, shown[c].state, asked[c].amount)
    /\ pc[c] = "sent" => order # Nothing /\ seen[c] # Nothing /\ shown[c].state = seen[c]

LedgerInvariant == PreviewsKept /\ SentWithinMeans

\* Operations that pass the checks one after the other never overdraw an order, even
\* if Sezzle did not check: an order becomes unreadable, and every further operation
\* on it impossible, only when it changed between the read of an execution and its POST
\* (merchant-operations.ts:487-507).
OverdrawnOnlyByOverlap ==
  [][Readable(order) /\ ~Readable(order') => overlapped']_vars

\* What the preview told the client would remain does remain, if nothing else
\* happened to the order meanwhile (remainingAfter, order.ts:133).
RemainingAsPreviewed ==
  [][\A c \in Calls :
       pc[c] = "sent" /\ pc'[c] = "done" /\ seen[c] = order
         /\ asked[c].operation # "reauthorize"
         => Available(asked[c].operation, order') = shown[c].remainingAfter]_vars

=============================================================================
