---------------------------- MODULE OrderFinance ----------------------------
(***************************************************************************)
(* Money (src/src/domain/money.ts) and the financial state of an order     *)
(* (src/src/domain/order.ts): what is left to capture, release and refund, *)
(* and whether a requested amount is allowed.  Pure functions; the errors  *)
(* they throw are modelled by their codes.                                 *)
(*                                                                         *)
(* The code adds up lists of transactions.  A list is kept here as its sum *)
(* and the first error its entries raise, which is all the code draws from *)
(* it.  Sums are bigints, so they do not wrap; amounts that come in or go  *)
(* out are safe integers.                                                  *)
(***************************************************************************)
EXTENDS Integers

CONSTANTS
  Currencies,
  MaxSafe,     \* Number.MAX_SAFE_INTEGER
  Nothing      \* absence of a value

ASSUME MoneyAssumption == MaxSafe \in Nat \ {0}

SafeInteger == -MaxSafe..MaxSafe

\* moneyInputSchema admits a safe integer of either sign and a known currency.
MoneyInput == [amount : SafeInteger, currency : Currencies]

\* moneyFromInput accepts positive amounts, and zero where the caller allows it.
Positive(money) == money.amount > 0

\* One of the captures, refunds or releases of an order.
Transactions ==
  [total : Nat, flaw : {"none", "INVALID_MONEY_AMOUNT", "ORDER_STATE_INVALID"}]

Operations == {"capture", "refund", "release", "reauthorize"}

Authorization ==
  [amount : MoneyInput, approved : BOOLEAN, expiration : Nat,
   captures : Transactions, refunds : Transactions, releases : Transactions]

\* eventMoney and sumMoney with one more entry, as long as the list has no flaw.
AddTransaction(list, money, currency) ==
  [total |-> list.total + money.amount,
   flaw |-> IF list.flaw # "none" THEN list.flaw
            ELSE IF ~Positive(money) THEN "INVALID_MONEY_AMOUNT"
            ELSE IF money.currency # currency THEN "ORDER_STATE_INVALID"
            ELSE "none"]

RemainingCapturable(a) == a.amount.amount - a.captures.total - a.releases.total
RemainingRefundable(a) == a.captures.total - a.refunds.total

\* subtractMoney underflows: transactions exceed what they draw on.
Overdrawn(a) == RemainingCapturable(a) < 0 \/ RemainingRefundable(a) < 0

\* moneyToJson of every amount of the financial state.
OutOfRange(a) ==
  \/ a.captures.total > MaxSafe \/ a.refunds.total > MaxSafe \/ a.releases.total > MaxSafe
  \/ RemainingCapturable(a) > MaxSafe \/ RemainingRefundable(a) > MaxSafe

\* Fault: amounts are converted before they are subtracted.
StateErrorConvertingFirst(a) ==
  IF a = Nothing THEN "ORDER_STATE_INVALID"
  ELSE IF ~Positive(a.amount) THEN "INVALID_MONEY_AMOUNT"
  ELSE IF a.captures.flaw # "none" THEN a.captures.flaw
  ELSE IF a.refunds.flaw # "none" THEN a.refunds.flaw
  ELSE IF a.releases.flaw # "none" THEN a.releases.flaw
  ELSE IF OutOfRange(a) THEN "MONEY_OUT_OF_RANGE"
  ELSE IF Overdrawn(a) THEN "ORDER_STATE_INVALID"
  ELSE "none"

\* The error calculateOrderFinancialState throws for an order, if any.
StateError(a) ==
  IF a = Nothing THEN "ORDER_STATE_INVALID"
  ELSE IF ~Positive(a.amount) THEN "INVALID_MONEY_AMOUNT"
  ELSE IF a.captures.flaw # "none" THEN a.captures.flaw
  ELSE IF a.refunds.flaw # "none" THEN a.refunds.flaw
  ELSE IF a.releases.flaw # "none" THEN a.releases.flaw
  ELSE IF Overdrawn(a) THEN "ORDER_STATE_INVALID"
  ELSE IF OutOfRange(a) THEN "MONEY_OUT_OF_RANGE"
  ELSE "none"

Readable(a) == StateError(a) = "none"

\* Fault: a release draws on what was captured.
AvailableSwapped(operation, a) ==
  IF operation \in {"refund", "release"} THEN RemainingRefundable(a)
  ELSE RemainingCapturable(a)

\* The remaining amount that an operation draws on.
Available(operation, a) ==
  IF operation = "refund" THEN RemainingRefundable(a) ELSE RemainingCapturable(a)

\* What a preview of an operation establishes before it looks at the amount.
Precluded(operation, a, time) ==
  IF operation = "capture" /\ ~a.approved THEN "AUTHORIZATION_NOT_APPROVED"
  ELSE IF operation = "capture" /\ a.expiration <= time THEN "AUTHORIZATION_EXPIRED"
  ELSE IF operation = "reauthorize" /\ a.expiration > time THEN "AUTHORIZATION_NOT_EXPIRED"
  ELSE "none"

\* Fault: the limit is off by one.
AmountVerdictOffByOne(operation, a, requested) ==
  IF ~Positive(requested) THEN "INVALID_MONEY_AMOUNT"
  ELSE IF requested.currency # a.amount.currency THEN "CURRENCY_MISMATCH"
  ELSE IF requested.amount > Available(operation, a) + 1 THEN "EXCEEDS_AVAILABLE_AMOUNT"
  ELSE "VALID"

\* previewAgainstAvailable: the amount itself, against what is available.
\* EXCEEDS_AVAILABLE_AMOUNT stands for the code of each operation that says so.
AmountVerdict(operation, a, requested) ==
  IF ~Positive(requested) THEN "INVALID_MONEY_AMOUNT"
  ELSE IF requested.currency # a.amount.currency THEN "CURRENCY_MISMATCH"
  ELSE IF requested.amount > Available(operation, a) THEN "EXCEEDS_AVAILABLE_AMOUNT"
  ELSE "VALID"

\* previewCapture, previewRefund, previewRelease, previewReauthorization: "VALID", or
\* the code of the validation failure or of the error thrown.
Verdict(operation, a, requested, time) ==
  IF ~Readable(a) THEN StateError(a)
  ELSE IF Precluded(operation, a, time) # "none" THEN Precluded(operation, a, time)
  ELSE AmountVerdict(operation, a, requested)

\* The codes that leave a preview function as an exception, not as its result.
Thrown == {"ORDER_STATE_INVALID", "INVALID_MONEY_AMOUNT", "MONEY_OUT_OF_RANGE"}

\* remainingAfter of a valid preview.
RemainingAfter(operation, a, requested) == Available(operation, a) - requested.amount

=============================================================================
