------------------------- MODULE OrderLedgerProofs -------------------------
(***************************************************************************)
(* Proofs about OrderFinance and OrderLedger, for every set of calls,      *)
(* amounts, currencies and starting orders, and every MaxSafe; and about   *)
(* what OrderDiagnosis reports of such an order.                           *)
(***************************************************************************)
EXTENDS OrderDiagnosis, TLAPS

-----------------------------------------------------------------------------
(* The financial state of one order.                                       *)

\* What a readable order has left is a safe integer, and what was captured, refunded
\* and released adds up to no more than what it draws on.
LEMMA ReadableInRange ==
  ASSUME NEW a \in Authorization, ~Overdrawn(a)
  PROVE  /\ RemainingCapturable(a) \in 0..MaxSafe
         /\ RemainingRefundable(a) \in 0..MaxSafe
         /\ ~OutOfRange(a)
BY MoneyAssumption DEF Authorization, MoneyInput, SafeInteger, Transactions, Overdrawn,
  OutOfRange, RemainingCapturable, RemainingRefundable

\* An order that cannot be read never fails because an amount is too large.
LEMMA StateErrorInRange ==
  ASSUME NEW a \in Authorization \cup {Nothing}
  PROVE  StateError(a) # "MONEY_OUT_OF_RANGE"
<1>1. CASE a = Nothing
  BY <1>1 DEF StateError
<1>2. CASE a \in Authorization /\ Overdrawn(a)
  BY <1>2 DEF StateError, Authorization, Transactions
<1>3. CASE a \in Authorization /\ ~Overdrawn(a)
  <2>1. ~OutOfRange(a)
    BY <1>3, ReadableInRange
  <2> QED
    BY <1>3, <2>1 DEF StateError, Authorization, Transactions
<1> QED
  BY <1>1, <1>2, <1>3

\* A readable order exists, is not overdrawn and has no flawed transaction.
LEMMA ReadableOrder ==
  ASSUME NEW a, Readable(a)
  PROVE  /\ a # Nothing
         /\ Positive(a.amount)
         /\ a.captures.flaw = "none" /\ a.refunds.flaw = "none"
         /\ a.releases.flaw = "none"
         /\ ~Overdrawn(a) /\ ~OutOfRange(a)
BY DEF Readable, StateError

\* A valid verdict is about a readable order and a positive amount it has left.
LEMMA ValidVerdict ==
  ASSUME NEW op, NEW a, NEW money, NEW time, Verdict(op, a, money, time) = "VALID",
         a \in Authorization \cup {Nothing}
  PROVE  /\ Readable(a)
         /\ Positive(money)
         /\ money.currency = a.amount.currency
         /\ ~(money.amount > Available(op, a))
<1>1. Readable(a)
  <2>1. StateError(a) # "VALID"
    BY DEF StateError, Authorization, Transactions
  <2> QED
    BY <2>1 DEF Verdict
<1>2. Precluded(op, a, time) = "none"
  BY <1>1 DEF Verdict, Precluded
<1>3. AmountVerdict(op, a, money) = "VALID"
  BY <1>1, <1>2 DEF Verdict
<1> QED
  BY <1>1, <1>3 DEF AmountVerdict

\* An operation within the means of a readable order leaves the order readable, with
\* as much of the amount it drew on as the preview says.
LEMMA CarriedReadable ==
  ASSUME NEW op \in Operations, NEW a \in Authorization, NEW money \in MoneyInput,
         Readable(a), 0 < money.amount, money.currency = a.amount.currency,
         money.amount <= Available(op, a)
  PROVE  /\ Carried(op, a, money) \in Authorization
         /\ Readable(Carried(op, a, money))
         /\ op # "reauthorize" =>
              Available(op, Carried(op, a, money)) = RemainingAfter(op, a, money)
<1> DEFINE b == Carried(op, a, money)
<1>0. /\ a.captures \in Transactions /\ a.refunds \in Transactions
      /\ a.releases \in Transactions /\ a.amount \in MoneyInput
      /\ a.amount.amount \in Int /\ money.amount \in Int
  BY DEF Authorization, MoneyInput, SafeInteger
<1>1. /\ Positive(a.amount) /\ ~Overdrawn(a)
      /\ a.captures.flaw = "none" /\ a.refunds.flaw = "none" /\ a.releases.flaw = "none"
  BY ReadableOrder
<1>2. ASSUME NEW list \in Transactions, list.flaw = "none"
      PROVE  /\ AddTransaction(list, money, a.amount.currency) \in Transactions
             /\ AddTransaction(list, money, a.amount.currency).flaw = "none"
             /\ AddTransaction(list, money, a.amount.currency).total
                  = list.total + money.amount
  BY <1>0, <1>2 DEF AddTransaction, Transactions, Positive
<1>3. /\ b \in Authorization /\ b.amount = a.amount
      /\ b.captures.flaw = "none" /\ b.refunds.flaw = "none" /\ b.releases.flaw = "none"
      /\ ~Overdrawn(b)
      /\ op # "reauthorize" => Available(op, b) = Available(op, a) - money.amount
  <2>1. CASE op = "capture"
    <3>1. b = [a EXCEPT !.captures = AddTransaction(@, money, a.amount.currency)]
      BY <2>1 DEF Carried
    <3> QED
      BY <2>1, <3>1, <1>0, <1>1, <1>2 DEF Authorization, Transactions, Overdrawn, Available,
        RemainingCapturable, RemainingRefundable
  <2>2. CASE op = "refund"
    <3>1. b = [a EXCEPT !.refunds = AddTransaction(@, money, a.amount.currency)]
      BY <2>2 DEF Carried
    <3> QED
      BY <2>2, <3>1, <1>0, <1>1, <1>2 DEF Authorization, Transactions, Overdrawn, Available,
        RemainingCapturable, RemainingRefundable
  <2>3. CASE op = "release"
    <3>1. b = [a EXCEPT !.releases = AddTransaction(@, money, a.amount.currency)]
      BY <2>3 DEF Carried
    <3> QED
      BY <2>3, <3>1, <1>0, <1>1, <1>2 DEF Authorization, Transactions, Overdrawn, Available,
        RemainingCapturable, RemainingRefundable
  <2>4. CASE op = "reauthorize"
    BY <2>4, <1>1 DEF Carried
  <2> QED
    BY <2>1, <2>2, <2>3, <2>4 DEF Operations
<1>4. Readable(b)
  <2>1. ~OutOfRange(b)
    BY <1>3, ReadableInRange
  <2>2. b # Nothing
    BY <1>3, LedgerAssumption
  <2> QED
    BY <1>1, <1>3, <2>1, <2>2 DEF Readable, StateError
<1> QED
  BY <1>3, <1>4 DEF RemainingAfter

\* Any transaction keeps an order an order, whatever its state.
LEMMA CarriedType ==
  ASSUME NEW op \in Operations, NEW a \in Authorization, NEW money \in MoneyInput,
         0 < money.amount
  PROVE  Carried(op, a, money) \in Authorization
<1>1. ASSUME NEW list \in Transactions
      PROVE  AddTransaction(list, money, a.amount.currency) \in Transactions
  <2>1. money.amount \in Int
    BY DEF MoneyInput, SafeInteger
  <2> QED
    BY <2>1 DEF AddTransaction, Transactions, Positive
<1> QED
  BY <1>1 DEF Carried, Operations, Authorization

-----------------------------------------------------------------------------
(* The order and the executions on it.                                     *)

InductiveInvariant == TypeOK /\ LedgerInvariant

LEMMA InitInvariant == Init => InductiveInvariant
<1> SUFFICES ASSUME Init PROVE InductiveInvariant
  OBVIOUS
<1>1. TypeOK
  <2>1. order \in Authorization \cup {Nothing} /\ now \in 0..Horizon
    BY LedgerAssumption DEF Init
  <2>2. /\ pc \in [Calls -> {"idle"}] /\ asked \in [Calls -> {Nothing}]
        /\ shown \in [Calls -> {Nothing}] /\ seen \in [Calls -> {Nothing}]
    BY DEF Init
  <2> QED
    BY <2>1, <2>2 DEF Init, TypeOK
<1>2. \A c \in Calls : pc[c] = "idle"
  BY DEF Init
<1>3. PreviewsKept /\ SentWithinMeans
  BY <1>2 DEF PreviewsKept, SentWithinMeans
<1> QED
  BY <1>1, <1>3 DEF InductiveInvariant, LedgerInvariant

\* Sezzle carries out what was within the means of the order the execution read.
LEMMA SentFacts ==
  ASSUME InductiveInvariant, NEW c \in Calls, pc[c] = "sent"
  PROVE  /\ asked[c] \in Argument /\ asked[c].operation \in Operations
         /\ asked[c].amount \in MoneyInput /\ 0 < asked[c].amount.amount
         /\ seen[c] \in Authorization /\ shown[c] \in Preview
BY DEF InductiveInvariant, TypeOK, LedgerInvariant, PreviewsKept, SentWithinMeans, Argument

\* The operations of the dashboard are valid by the same rules.
LEMMA DashboardFacts ==
  ASSUME TypeOK, NEW op \in Operations \ {"reauthorize"}, NEW money \in Requests,
         Dashboard(op, money)
  PROVE  /\ order \in Authorization /\ Readable(order) /\ money \in MoneyInput
         /\ 0 < money.amount /\ money.currency = order.amount.currency
         /\ money.amount <= Available(op, order)
         /\ order' = Carried(op, order, money)
<1>1. /\ Readable(order) /\ Positive(money) /\ money.currency = order.amount.currency
      /\ ~(money.amount > Available(op, order))
  BY ValidVerdict DEF Dashboard, TypeOK
<1>2. order \in Authorization
  BY <1>1, ReadableOrder DEF TypeOK
<1>3. money \in MoneyInput
  BY LedgerAssumption
<1> QED
  BY <1>1, <1>2, <1>3 DEF Dashboard, Positive, MoneyInput, SafeInteger, Available,
    RemainingCapturable, RemainingRefundable, Authorization, Transactions

\* A preview that is not an error was computed for an order.
LEMMA PreviewType ==
  ASSUME NEW op \in Operations, NEW a \in Authorization \cup {Nothing}, NEW money \in MoneyInput,
         NEW time, Verdict(op, a, money, time) \notin Thrown
  PROVE  a \in Authorization /\ RemainingAfter(op, a, money) \in Int
<1>1. a # Nothing
  BY DEF Verdict, Readable, StateError, Thrown
<1> QED
  BY <1>1 DEF RemainingAfter, Available, RemainingCapturable, RemainingRefundable,
    Authorization, MoneyInput, SafeInteger, Transactions

\* Every step of the specification keeps the inductive invariant.
LEMMA InvariantStep == InductiveInvariant /\ [Next]_vars => InductiveInvariant'
<1> SUFFICES ASSUME InductiveInvariant, [Next]_vars
             PROVE  InductiveInvariant'
  OBVIOUS
<1> USE DEF InductiveInvariant, LedgerInvariant
<1>1. ASSUME NEW c \in Calls, NEW op \in Operations, NEW money \in Requests,
             PreviewFinancial(c, op, money)
      PROVE  InductiveInvariant'
  <2>1. money \in MoneyInput
    BY LedgerAssumption
  <2>2. asked' = [asked EXCEPT ![c] = [operation |-> op, amount |-> money]]
        /\ [operation |-> op, amount |-> money] \in Argument
        /\ UNCHANGED <<order, now, seen, overlapped>>
    BY <1>1, <2>1 DEF PreviewFinancial, Argument
  <2>3. Nothing \notin Argument /\ Nothing \notin Preview
    BY LedgerAssumption
  <2>4. CASE Verdict(op, order, money, now) \in Thrown
    <3>1. pc' = [pc EXCEPT ![c] = "error"] /\ UNCHANGED shown
      BY <1>1, <2>4 DEF PreviewFinancial
    <3>2. TypeOK'
      BY <2>2, <3>1 DEF TypeOK
    <3>3. PreviewsKept'
      BY <2>2, <2>3, <3>1 DEF TypeOK, PreviewsKept
    <3>4. SentWithinMeans'
      BY <2>2, <3>1 DEF TypeOK, SentWithinMeans
    <3> QED
      BY <3>2, <3>3, <3>4
  <2>5. CASE Verdict(op, order, money, now) \notin Thrown
    <3> DEFINE record == [state |-> order,
                          valid |-> Verdict(op, order, money, now) = "VALID",
                          remainingAfter |-> RemainingAfter(op, order, money)]
    <3>1. pc' = [pc EXCEPT ![c] = "previewed"] /\ shown' = [shown EXCEPT ![c] = record]
      BY <1>1, <2>5 DEF PreviewFinancial
    <3>2. record \in Preview
      BY <2>1, <2>5, PreviewType DEF TypeOK, Preview
    <3> HIDE DEF record
    <3>3. TypeOK'
      BY <2>2, <3>1, <3>2 DEF TypeOK
    <3>4. record.state = order /\ record.remainingAfter = RemainingAfter(op, order, money)
      BY DEF record
    <3>5. PreviewsKept'
      BY <2>2, <2>3, <3>1, <3>2, <3>4 DEF TypeOK, PreviewsKept
    <3>6. SentWithinMeans'
      BY <2>2, <3>1 DEF TypeOK, SentWithinMeans
    <3> QED
      BY <3>3, <3>5, <3>6
  <2> QED
    BY <2>4, <2>5
<1>2. ASSUME NEW c \in Calls, ExecuteFinancial(c)
      PROVE  InductiveInvariant'
  <2>1. UNCHANGED <<order, now, asked, shown, overlapped>> /\ pc[c] = "previewed"
    BY <1>2 DEF ExecuteFinancial
  <2>2. /\ asked[c] \in Argument /\ shown[c] \in Preview
        /\ asked[c].operation \in Operations /\ asked[c].amount \in MoneyInput
    BY <2>1 DEF TypeOK, PreviewsKept, Argument
  <2>3. CASE Confirmed(c)
    <3>1. pc' = [pc EXCEPT ![c] = "sent"] /\ seen' = [seen EXCEPT ![c] = order]
      BY <1>2, <2>3 DEF ExecuteFinancial
    <3>2. Verdict(asked[c].operation, order, asked[c].amount, now) = "VALID"
          /\ shown[c].state = order
      BY <2>3 DEF Confirmed, CallVerdict
    <3>3. /\ Readable(order) /\ Positive(asked[c].amount)
          /\ asked[c].amount.currency = order.amount.currency
          /\ ~(asked[c].amount.amount > Available(asked[c].operation, order))
      BY <3>2, ValidVerdict DEF TypeOK
    <3>4. order \in Authorization /\ order # Nothing
      BY <3>3, ReadableOrder DEF TypeOK
    <3>5. /\ 0 < asked[c].amount.amount
          /\ asked[c].amount.amount <= Available(asked[c].operation, order)
      BY <2>2, <3>3, <3>4 DEF Positive, MoneyInput, SafeInteger, Available,
        RemainingCapturable, RemainingRefundable, Authorization, Transactions
    <3>6. TypeOK'
      BY <2>1, <3>1 DEF TypeOK
    <3>7. PreviewsKept'
      BY <2>1, <3>1, <3>2, <3>4 DEF TypeOK, PreviewsKept
    <3>8. SentWithinMeans'
      BY <2>1, <3>1, <3>3, <3>5 DEF TypeOK, SentWithinMeans
    <3> QED
      BY <3>6, <3>7, <3>8
  <2>4. CASE ~Confirmed(c)
    <3>1. UNCHANGED seen /\ \E end \in {"error", "refused"} : pc' = [pc EXCEPT ![c] = end]
      BY <1>2, <2>4 DEF ExecuteFinancial
    <3>2. TypeOK'
      BY <2>1, <3>1 DEF TypeOK
    <3>3. PreviewsKept'
      BY <2>1, <3>1 DEF TypeOK, PreviewsKept
    <3>4. SentWithinMeans'
      BY <2>1, <3>1 DEF TypeOK, SentWithinMeans
    <3> QED
      BY <3>2, <3>3, <3>4
  <2> QED
    BY <2>3, <2>4
<1>3. ASSUME NEW c \in Calls, CarryOut(c)
      PROVE  InductiveInvariant'
  <2>1. /\ UNCHANGED <<now, asked, shown, seen>>
        /\ \E end \in {"done", "refused"} : pc' = [pc EXCEPT ![c] = end]
        /\ overlapped' \in BOOLEAN
    BY <1>3 DEF CarryOut, TypeOK
  <2>2. order' \in Authorization
    <3>1. /\ asked[c].operation \in Operations /\ asked[c].amount \in MoneyInput
          /\ 0 < asked[c].amount.amount
      BY <1>3, SentFacts DEF CarryOut
    <3>2. order \in Authorization
      BY <1>3 DEF CarryOut, TypeOK, PreviewsKept
    <3>3. order' = order \/ order' = Carried(asked[c].operation, order, asked[c].amount)
      BY <1>3 DEF CarryOut
    <3> QED
      BY <3>1, <3>2, <3>3, CarriedType
  <2>3. TypeOK'
    BY <2>1, <2>2 DEF TypeOK
  <2>4. PreviewsKept'
    <3>1. order' # Nothing
      BY <2>2, LedgerAssumption
    <3>2. \A d \in Calls : pc'[d] = pc[d] \/ pc'[d] \in {"done", "refused"}
      BY <2>1 DEF TypeOK
    <3>3. pc[c] = "sent"
      BY <1>3 DEF CarryOut
    <3> QED
      BY <2>1, <3>1, <3>2, <3>3 DEF PreviewsKept
  <2>5. SentWithinMeans'
    BY <2>1, <2>2 DEF TypeOK, SentWithinMeans
  <2> QED
    BY <2>3, <2>4, <2>5
<1>4. ASSUME NEW op \in Operations \ {"reauthorize"}, NEW money \in Requests,
             Dashboard(op, money)
      PROVE  InductiveInvariant'
  <2>1. UNCHANGED <<now, callVars, overlapped>>
    BY <1>4 DEF Dashboard
  <2>2. order' \in Authorization
    BY <1>4, DashboardFacts, CarriedType
  <2> QED
    BY <2>1, <2>2, LedgerAssumption DEF callVars, TypeOK, PreviewsKept, SentWithinMeans
<1>5. CASE Tick
  BY <1>5, LedgerAssumption DEF Tick, callVars, TypeOK, PreviewsKept, SentWithinMeans
<1>6. CASE UNCHANGED vars
  BY <1>6 DEF vars, callVars, TypeOK, PreviewsKept, SentWithinMeans
<1> QED
  BY <1>1, <1>2, <1>3, <1>4, <1>5, <1>6 DEF Next

LEMMA InvariantHolds == Spec => []InductiveInvariant
<1> QED
  BY InitInvariant, InvariantStep, PTL DEF Spec

-----------------------------------------------------------------------------

\* Amounts stay integers and transactions natural numbers, whatever is carried out.
THEOREM LedgerTypeCorrect == Spec => []TypeOK
<1>1. InductiveInvariant => TypeOK
  BY DEF InductiveInvariant
<1> QED
  BY <1>1, InvariantHolds, PTL

\* No order, however overdrawn, makes moneyToJson throw.
THEOREM NeverOutOfRangeCorrect == Spec => []NeverOutOfRange
<1>1. InductiveInvariant => NeverOutOfRange
  BY StateErrorInRange DEF InductiveInvariant, TypeOK, NeverOutOfRange
<1> QED
  BY <1>1, InvariantHolds, PTL

\* Operations are posted for readable orders and amounts they have left.
THEOREM SentWithinMeansCorrect == Spec => []SentWithinMeans
<1>1. InductiveInvariant => SentWithinMeans
  BY DEF InductiveInvariant, LedgerInvariant
<1> QED
  BY <1>1, InvariantHolds, PTL

\* An order is overdrawn only by an operation on a state it did not read, for all
\* amounts and any number of calls, without any help from Sezzle.
THEOREM OverdrawnOnlyByOverlapCorrect == Spec => OverdrawnOnlyByOverlap
<1> DEFINE Safe == Readable(order) /\ ~Readable(order') => overlapped'
<1>1. InductiveInvariant /\ [Next]_vars => [Safe]_vars
  <2> SUFFICES ASSUME InductiveInvariant, Next, Readable(order), ~Readable(order')
               PROVE  overlapped'
    OBVIOUS
  <2>1. order' # order
    OBVIOUS
  <2>2. ASSUME NEW c \in Calls, CarryOut(c)
        PROVE  overlapped'
    <3>1. /\ order' = Carried(asked[c].operation, order, asked[c].amount)
          /\ overlapped' = (overlapped \/ seen[c] # order)
      BY <2>1, <2>2 DEF CarryOut
    <3>2. CASE seen[c] = order
      <4>1. /\ asked[c].operation \in Operations /\ asked[c].amount \in MoneyInput
            /\ order \in Authorization
        BY <2>2, <3>2, SentFacts DEF CarryOut
      <4>2. /\ 0 < asked[c].amount.amount
            /\ asked[c].amount.currency = order.amount.currency
            /\ asked[c].amount.amount <= Available(asked[c].operation, order)
        BY <2>2, <3>2 DEF CarryOut, InductiveInvariant, LedgerInvariant, SentWithinMeans
      <4> QED
        BY <3>1, <4>1, <4>2, CarriedReadable
    <3>3. CASE seen[c] # order
      BY <3>1, <3>3
    <3> QED
      BY <3>2, <3>3
  <2>3. ASSUME NEW op \in Operations \ {"reauthorize"}, NEW money \in Requests,
               Dashboard(op, money)
        PROVE  FALSE
    BY <2>3, DashboardFacts, CarriedReadable DEF InductiveInvariant
  <2>4. ASSUME NEW c \in Calls, NEW op \in Operations, NEW money \in Requests,
               PreviewFinancial(c, op, money)
        PROVE  FALSE
    BY <2>1, <2>4 DEF PreviewFinancial
  <2>5. ASSUME NEW c \in Calls, ExecuteFinancial(c)
        PROVE  FALSE
    BY <2>1, <2>5 DEF ExecuteFinancial
  <2>6. ~Tick
    BY <2>1 DEF Tick
  <2> QED
    BY <2>2, <2>3, <2>4, <2>5, <2>6 DEF Next
<1>2. [Safe]_vars => [Readable(order) /\ ~Readable(order') => overlapped']_vars
  OBVIOUS
<1> QED
  BY <1>1, <1>2, InvariantHolds, PTL DEF Spec, OverdrawnOnlyByOverlap

\* The remaining amount a preview announced is what remains, if nothing came between.
THEOREM RemainingAsPreviewedCorrect == Spec => RemainingAsPreviewed
<1> DEFINE Kept ==
      \A c \in Calls :
        pc[c] = "sent" /\ pc'[c] = "done" /\ seen[c] = order
          /\ asked[c].operation # "reauthorize"
          => Available(asked[c].operation, order') = shown[c].remainingAfter
<1>1. InductiveInvariant /\ [Next]_vars => [Kept]_vars
  <2> SUFFICES ASSUME InductiveInvariant, Next, NEW c \in Calls,
                      pc[c] = "sent", pc'[c] = "done", seen[c] = order,
                      asked[c].operation # "reauthorize"
               PROVE  Available(asked[c].operation, order') = shown[c].remainingAfter
    OBVIOUS
  <2>1. CarryOut(c)
    BY DEF Next, InductiveInvariant, TypeOK, PreviewFinancial, ExecuteFinancial, CarryOut,
      Dashboard, Tick, callVars
  <2>2. order' = Carried(asked[c].operation, order, asked[c].amount)
    BY <2>1 DEF CarryOut, InductiveInvariant, TypeOK
  <2>3. /\ asked[c].operation \in Operations /\ asked[c].amount \in MoneyInput
        /\ order \in Authorization
    BY SentFacts
  <2>4. /\ Readable(order) /\ 0 < asked[c].amount.amount
        /\ asked[c].amount.currency = order.amount.currency
        /\ asked[c].amount.amount <= Available(asked[c].operation, order)
    BY DEF InductiveInvariant, LedgerInvariant, SentWithinMeans
  <2>5. Available(asked[c].operation, order')
          = RemainingAfter(asked[c].operation, order, asked[c].amount)
    BY <2>2, <2>3, <2>4, CarriedReadable
  <2> QED
    BY <2>5 DEF InductiveInvariant, LedgerInvariant, PreviewsKept
<1> QED
  BY <1>1, InvariantHolds, PTL DEF Spec, RemainingAsPreviewed

-----------------------------------------------------------------------------
(* The Integration Doctor's findings on an order, and what the operations  *)
(* of OrderFinance accept: for any amounts, currencies and expiry, and     *)
(* however the order came about.                                           *)

\* What the doctor sees of an order.
LEMMA EvidenceFields ==
  ASSUME NEW a
  PROVE  LET e == Evidence("order", a) IN
         /\ e.id = "order" /\ e.approved = a.approved
         /\ e.authorized = a.amount.amount
         /\ e.captured = a.captures.total /\ e.refunded = a.refunds.total
         /\ e.expiresAt = a.expiration
  BY DEF Evidence, NoOrder

\* The findings the properties speak of, and when they are made.
LEMMA FindingsMade ==
  ASSUME order \in Authorization
  PROVE  /\ \A severity : Reports("UNCAPTURED_AUTHORIZATION", severity) <=>
              /\ order.approved
              /\ order.captures.total < order.amount.amount
              /\ severity = IF order.expiration <= now THEN "critical" ELSE "high"
         /\ Reports("REFUND_BEFORE_CAPTURE", "critical") <=>
              order.refunds.total > order.captures.total /\ order.captures.total = 0
         /\ Reports("REFUND_EXCEEDS_REFUNDABLE_AMOUNT", "critical") <=>
              order.refunds.total > order.captures.total /\ order.captures.total # 0
<1> DEFINE e == Evidence("order", order)
<1>1. /\ e.id = "order" /\ e.approved = order.approved
      /\ e.authorized = order.amount.amount
      /\ e.captured = order.captures.total /\ e.refunded = order.refunds.total
      /\ e.expiresAt = order.expiration
  BY EvidenceFields
<1>2. order.expiration # Nothing
  BY InstantAssumption DEF Authorization
<1> HIDE DEF e
<1>3. Elements(<<e>>) = {e}
  BY DEF Elements
<1>4. \A f : f \in MissingReferences(<<e>>) => f.code = "MISSING_ORDER_REFERENCE"
  BY DEF MissingReferences, Finding
<1>5. \A f : f \in InconsistentCurrencies(<<e>>) => f.code = "CURRENCY_INCONSISTENCY"
  BY DEF InconsistentCurrencies, Finding
<1>6. \A f : f \in DuplicateReferences(<<e>>) => f.code = "DUPLICATE_ORDER_REFERENCE"
  BY DEF DuplicateReferences, Finding
<1>7. \A f : f \in DetectUncapturedOrders(<<e>>, now) <=>
        /\ order.approved /\ order.captures.total < order.amount.amount
        /\ f = Finding("UNCAPTURED_AUTHORIZATION",
                       IF order.expiration <= now THEN "critical" ELSE "high", "order")
  BY <1>1, <1>2, <1>3 DEF DetectUncapturedOrders, Uncaptured, Past
<1>8. \A f : f \in InvalidRefunds(<<e>>) <=>
        /\ order.refunds.total > order.captures.total
        /\ f = Finding(IF order.captures.total = 0 THEN "REFUND_BEFORE_CAPTURE"
                       ELSE "REFUND_EXCEEDS_REFUNDABLE_AMOUNT", "critical", "order")
  BY <1>1, <1>3 DEF InvalidRefunds
<1>9. \A code, severity : Finding(code, severity, "order").code = code
  BY DEF Finding
<1>10. \A code, severity :
         code \in {"UNCAPTURED_AUTHORIZATION", "REFUND_BEFORE_CAPTURE",
                   "REFUND_EXCEEDS_REFUNDABLE_AMOUNT"} =>
         (Reports(code, severity) <=>
            \/ Finding(code, severity, "order") \in DetectUncapturedOrders(<<e>>, now)
            \/ Finding(code, severity, "order") \in InvalidRefunds(<<e>>))
  BY <1>4, <1>5, <1>6, <1>9 DEF Reports, Reported, AuditAuthCaptureFlow, e
<1>11. \A code, severity, code2, severity2 :
         Finding(code, severity, "order") = Finding(code2, severity2, "order")
           <=> code = code2 /\ severity = severity2
  BY DEF Finding
<1> QED
  BY <1>7, <1>8, <1>10, <1>11

\* An operation is possible if it is not precluded and something is left for it.
LEMMA PossibleIf ==
  ASSUME order \in Authorization, Readable(order), NEW operation \in Operations
  PROVE  Possible(operation) <=>
           /\ Precluded(operation, order, now) = "none"
           /\ Available(operation, order) > 0
<1>1. order.amount.currency \in Currencies /\ Available(operation, order) \in Int
  BY DEF Authorization, MoneyInput, Transactions, SafeInteger, Available,
         RemainingCapturable, RemainingRefundable
<1>2. ASSUME Precluded(operation, order, now) = "none", Available(operation, order) > 0
      PROVE  Possible(operation)
  <2> DEFINE money == [amount |-> 1, currency |-> order.amount.currency]
  <2>1. money \in MoneyInput
    BY <1>1, MoneyAssumption DEF MoneyInput, SafeInteger
  <2>2. AmountVerdict(operation, order, money) = "VALID"
    BY <1>1, <1>2 DEF AmountVerdict, Positive
  <2>3. QED
    BY <1>2, <2>1, <2>2 DEF Possible, Verdict
<1>3. ASSUME Possible(operation)
      PROVE  Precluded(operation, order, now) = "none" /\ Available(operation, order) > 0
  <2>1. PICK money \in MoneyInput : Verdict(operation, order, money, now) = "VALID"
    BY <1>3 DEF Possible
  <2>2. Precluded(operation, order, now) = "none" /\ AmountVerdict(operation, order, money) = "VALID"
    BY <2>1 DEF Verdict, Precluded
  <2>3. money.amount > 0 /\ ~(money.amount > Available(operation, order))
    BY <2>2 DEF AmountVerdict, Positive
  <2>4. money.amount \in Int
    BY DEF MoneyInput, SafeInteger
  <2>5. QED
    BY <1>1, <2>2, <2>3, <2>4
<1> QED
  BY <1>2, <1>3

\* The doctor and the operations draw the line at the same instant and the same cent.
THEOREM DoctorFindsCapturableCorrect == Spec => []DoctorFindsCapturable
<1>1. ASSUME TypeOK, Evident, order.approved, Readable(order)
      PROVE  /\ Possible("capture") => Reports("UNCAPTURED_AUTHORIZATION", "high")
             /\ Possible("reauthorize") => Reports("UNCAPTURED_AUTHORIZATION", "critical")
             /\ order.releases.total = 0 =>
                  /\ Reports("UNCAPTURED_AUTHORIZATION", "high") => Possible("capture")
                  /\ Reports("UNCAPTURED_AUTHORIZATION", "critical") => Possible("reauthorize")
  <2> USE <1>1
  <2>1. order \in Authorization /\ now \in Nat
    BY LedgerAssumption DEF TypeOK, Evident
  <2>2. /\ order.amount.amount \in Int /\ order.captures.total \in Nat
        /\ order.releases.total \in Nat /\ order.expiration \in Nat
    BY <2>1 DEF Authorization, MoneyInput, Transactions, SafeInteger
  <2>3. /\ Possible("capture") <=> ~(order.expiration <= now) /\ RemainingCapturable(order) > 0
        /\ Possible("reauthorize") <=> order.expiration <= now /\ RemainingCapturable(order) > 0
    BY <2>1, <2>2, PossibleIf DEF Operations, Precluded, Available
  <2>4. RemainingCapturable(order) > 0 => order.captures.total < order.amount.amount
    BY <2>2 DEF RemainingCapturable
  <2>5. order.releases.total = 0 /\ order.captures.total < order.amount.amount
          => RemainingCapturable(order) > 0
    BY <2>2 DEF RemainingCapturable
  <2>6. QED
    BY <2>1, <2>3, <2>4, <2>5, FindingsMade
<1>2. TypeOK => DoctorFindsCapturable
  BY <1>1 DEF DoctorFindsCapturable
<1> QED
  BY <1>2, LedgerTypeCorrect, PTL

\* A refund beyond the captures is reported, and stops every operation.
THEOREM DoctorFindsOverRefundCorrect == Spec => []DoctorFindsOverRefund
<1>1. ASSUME TypeOK, Evident PROVE DoctorFindsOverRefund
  <2> USE <1>1
  <2>1. order \in Authorization
    BY DEF TypeOK, Evident
  <2>2. order.captures.total \in Nat /\ order.refunds.total \in Nat
    BY <2>1 DEF Authorization, Transactions
  <2>3. (\/ Reports("REFUND_BEFORE_CAPTURE", "critical")
         \/ Reports("REFUND_EXCEEDS_REFUNDABLE_AMOUNT", "critical"))
        <=> RemainingRefundable(order) < 0
    BY <2>1, <2>2, FindingsMade DEF RemainingRefundable
  <2>4. ASSUME RemainingRefundable(order) < 0, NEW operation \in Operations
        PROVE  ~Possible(operation)
    <3>1. ~Readable(order)
      BY <2>1, <2>4 DEF Readable, StateError, Overdrawn, Authorization, Transactions
    <3>2. ASSUME NEW money PROVE Verdict(operation, order, money, now) # "VALID"
      BY <2>1, <3>1 DEF Verdict, Readable, StateError, Authorization, Transactions
    <3>3. QED
      BY <3>2 DEF Possible
  <2>5. QED
    BY <2>3, <2>4 DEF DoctorFindsOverRefund
<1>2. TypeOK => DoctorFindsOverRefund
  BY <1>1 DEF DoctorFindsOverRefund
<1> QED
  BY <1>2, LedgerTypeCorrect, PTL

=============================================================================
