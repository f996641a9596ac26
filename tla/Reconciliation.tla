---------------------------- MODULE Reconciliation ----------------------------
(***************************************************************************)
(* ReconciliationEngine (src/src/domain/reconciliation.ts): which rows of  *)
(* Sezzle's settlement count, which orders of the merchant they match, and *)
(* the payout that follows from them.                                      *)
(*                                                                         *)
(* The engine reads its input once, row by row.  Every prefix of the rows  *)
(* is an input of its own, so the model adds one row per step.             *)
(***************************************************************************)
EXTENDS Integers, Sequences, FiniteSets, Functions

CONSTANTS
  None,          \* an absent optional field
  Books,         \* the lists of orders a merchant may supply
  Rows,          \* the rows Sezzle may report
  FeeTolerance,  \* fee_tolerance_in_cents
  MaxRows        \* bound on the length of a report

VARIABLES
  merchants,  \* merchant_orders, a sequence
  records     \* sezzle_records, a sequence

vars == <<merchants, records>>

\* What a row of a type means for the payout.
Costs == {"REFUND", "FEE", "CHARGEBACK", "MONTHLY_FEE"}
Returns == {"RETURNED_FEE", "CHARGEBACK_REVERSAL", "MONTHLY_FEE_REFUND"}
Transfers == {"CORRECTION", "INTEREST_TRANSFER", "REFERRAL_REVENUE_TRANSFER",
              "BANK_ACCOUNT_WITHDRAWAL", "BANK_ACCOUNT_WITHDRAWAL_REVERSAL"}
RecordTypes == Costs \cup Returns \cup Transfers \cup {"ORDER", "CAPTURE"}

OptionalInt == Int \cup {None}

RecordFields == {"id", "type", "uuid", "ref", "amount", "ordered", "date"}
SezzleRecord(r) ==
  /\ DOMAIN r = RecordFields
  /\ r.type \in RecordTypes /\ {r.amount, r.ordered} \subseteq OptionalInt

MerchantOrder(m) ==
  /\ DOMAIN m = {"ref", "uuid", "ordered", "captured", "refunded", "fee"}
  /\ m.ref # None
  /\ {m.ordered, m.captured, m.refunded} \subseteq Nat
  /\ m.fee \in Nat \cup {None}

ASSUME InputAssumption ==
  /\ \A r \in Rows : SezzleRecord(r) /\ None \notin {<<"uuid", r.uuid>>, <<"reference", r.ref>>}
  /\ \A book \in Books :
       /\ Len(book) \in Nat /\ DOMAIN book = 1..Len(book)
       /\ \A m \in DOMAIN book : MerchantOrder(book[m])

Init == merchants \in Books /\ records = << >>

AddRow(r) ==
  /\ Len(records) < MaxRows
  /\ records' = Append(records, r)
  /\ UNCHANGED merchants

Next == \E r \in Rows : AddRow(r)

Spec == Init /\ [][Next]_vars

-----------------------------------------------------------------------------
(* Rows that count.                                                        *)

\* The fingerprint covers every field but the id.
SameContent(a, b) == \A field \in RecordFields \ {"id"} : a[field] = b[field]

\* Fault: the fingerprint is not compared.
SameId(a, b) == a.id = b.id

\* A row repeats another by id or by fingerprint.
Same(a, b) == a.id = b.id \/ SameContent(a, b)

\* Fault: only the row before is compared.
UniqueOfNeighbours == {i \in DOMAIN records : i = 1 \/ ~Same(records[i - 1], records[i])}

\* A row counts unless it repeats an earlier one that counts.
Unique ==
  LET kept[n \in 0..Len(records)] ==
        IF n = 0 THEN {}
        ELSE IF \E i \in kept[n - 1] : Same(records[i], records[n]) THEN kept[n - 1]
        ELSE kept[n - 1] \cup {n}
  IN  kept[Len(records)]

-----------------------------------------------------------------------------
(* Amounts.                                                                *)

Magnitude(n) == IF n < 0 THEN -n ELSE n
Value(n) == IF n = None THEN 0 ELSE n

OfType(I, type) == {i \in I : records[i].type = type}
Amounts == [i \in DOMAIN records |-> Value(records[i].amount)]
OrderAmounts == [i \in DOMAIN records |-> Value(records[i].ordered)]
SumAmounts(I, type) == SumFunctionOnSet(Amounts, OfType(I, type))
SumOrdered(I) == SumFunctionOnSet(OrderAmounts, OfType(I, "ORDER"))

\* financialTotals: the amount ordered stands in for captures that sum to nothing.
Ordered(I) == Magnitude(SumOrdered(I))
Captures(I) ==
  LET captured == Magnitude(SumAmounts(I, "CAPTURE")) IN
  IF captured = 0 THEN Ordered(I) ELSE captured
Refunds(I) == Magnitude(SumAmounts(I, "REFUND"))
FeeCost(I) ==
  LET net == Magnitude(SumAmounts(I, "RETURNED_FEE")) - Magnitude(SumAmounts(I, "FEE")) IN
  IF net < 0 THEN -net ELSE 0

\* Fault: the sign of a cost is taken from the report.
ContributionAsSigned(i) ==
  IF records[i].type \in {"ORDER", "CAPTURE"} THEN 0 ELSE Value(records[i].amount)

\* payoutContribution
Contribution(i) ==
  LET amount == Value(records[i].amount)  type == records[i].type IN
  IF type \in Costs THEN -Magnitude(amount)
  ELSE IF type \in Returns THEN Magnitude(amount)
  ELSE IF type \in Transfers THEN amount ELSE 0

Contributed(I) == SumFunctionOnSet([i \in I |-> Contribution(i)], I)

-----------------------------------------------------------------------------
(* Matching.                                                               *)

\* Rows of an order carry its Sezzle uuid, the merchant's reference, both or neither.
OrderKey(r) ==
  IF r.uuid # None THEN <<"uuid", r.uuid>>
  ELSE IF r.ref # None THEN <<"reference", r.ref>> ELSE None

Keyed == {i \in Unique : OrderKey(records[i]) # None}

RecordsFor(m) ==
  {i \in Unique : \/ merchants[m].uuid # None /\ records[i].uuid = merchants[m].uuid
                  \/ records[i].ref = merchants[m].ref}

Matched == {m \in DOMAIN merchants : RecordsFor(m) # {}}

UsedIds == {records[i].id : i \in UNION {RecordsFor(m) : m \in Matched}}

Unmatched == {i \in Keyed : records[i].id \notin UsedIds}

Mismatches(m) ==
  LET I == RecordsFor(m) IN
  IF m \notin Matched THEN {}
  ELSE {code \in {"ORDER", "CAPTURE", "REFUND"} :
          \/ code = "ORDER" /\ merchants[m].ordered # Ordered(I)
          \/ code = "CAPTURE" /\ merchants[m].captured # Captures(I)
          \/ code = "REFUND" /\ merchants[m].refunded # Refunds(I)}

FeeAnomalies ==
  {m \in Matched : /\ merchants[m].fee # None
                   /\ Magnitude(FeeCost(RecordsFor(m)) - merchants[m].fee) > FeeTolerance}

\* generateFinanceDailyBrief: what it lists as of high priority.
HighPriority ==
  {found \in Matched \X {"CAPTURE", "REFUND", "FEE"} :
     \/ found[2] \in Mismatches(found[1])
     \/ found[2] = "FEE" /\ found[1] \in FeeAnomalies}

\* In basis points, rounded down.
Confidence ==
  LET all == Len(merchants) + Cardinality(Unmatched) IN
  IF all = 0 THEN 10000 ELSE (Cardinality(Matched) * 10000) \div all

\* Captures per order key, and what every other row contributes.
Payout ==
  LET keys == {OrderKey(records[i]) : i \in Keyed}
      group(key) == {i \in Keyed : OrderKey(records[i]) = key}
  IN  SumFunction([key \in keys |-> Captures(group(key))]) + Contributed(Unique)

-----------------------------------------------------------------------------
(* Properties.                                                             *)

\* Ids are worth their name: rows of one id have one content.
IdsIdentify ==
  \A i, j \in DOMAIN records :
    records[i].id = records[j].id => SameContent(records[i], records[j])

\* Whatever the order of the rows, exactly one of each content counts, so that no
\* result depends on the order in which Sezzle lists them (reconciliation.ts:297).
OneOfEachContent ==
  IdsIdentify =>
    \A i \in DOMAIN records :
      Cardinality({j \in Unique : SameContent(records[j], records[i])}) = 1

\* A row ends in exactly one place: among the duplicates, under a merchant's order,
\* among the unmatched, or among the adjustments; also when ids are used twice, as
\* matching marks rows by id alone (reconciliation.ts:332, 409).
EveryRowPlaced ==
  LET counted == Unique
      matching == UNION {RecordsFor(m) : m \in Matched}
      unmatched == Unmatched
  IN  \A i \in DOMAIN records :
        LET repeats == \E j \in counted : j < i /\ Same(records[j], records[i])
            matches == i \in matching
            adjusts == OrderKey(records[i]) = None
        IN  /\ i \in counted <=> ~repeats
            /\ i \in counted => (i \in unmatched <=> ~matches /\ ~adjusts)
            /\ ~(matches /\ adjusts)

\* "Duplicate rows are excluded before payout arithmetic" (README.md:444): a row that
\* repeats one that counts, by id or by content, however far back, changes nothing.
DuplicatesInert ==
  [][LET n == Len(records') IN
     (\E i \in Unique : \/ records[i].id = records'[n].id
                        \/ SameContent(records[i], records'[n]))
       => /\ Payout' = Payout /\ Matched' = Matched /\ Unmatched' = Unmatched
          /\ Confidence' = Confidence /\ HighPriority' = HighPriority]_vars

\* Each row of an order matches one order of the merchant's.
OneMerchantEach ==
  \A i \in Keyed : Cardinality({m \in DOMAIN merchants : i \in RecordsFor(m)}) <= 1

\* The rows of an order all carry its uuid, or none of them does, and no other order's
\* rows carry it: rows have one key exactly if they match one order.
KeysConsistent ==
  \A m, n \in DOMAIN merchants : \A i \in RecordsFor(m), j \in RecordsFor(n) :
    OrderKey(records[i]) = OrderKey(records[j]) <=> m = n

\* Refunds are all reported with one sign.
RefundsOneSign ==
  \A i, j \in OfType(Unique, "REFUND") : Value(records[i].amount) * Value(records[j].amount) >= 0

\* The brief has nothing to report: the books, row for row, are Sezzle's.
NothingToReport == Confidence = 10000 /\ HighPriority = {} /\ OneMerchantEach

\* What the merchant's own books, and rows other than captures and refunds of orders,
\* say is due.
DueByTheBooks ==
  SumFunction([m \in DOMAIN merchants |-> merchants[m].captured - merchants[m].refunded])
    + Contributed(Unique \ OfType(Keyed, "REFUND"))

\* If the brief has nothing to report, the expected payout is what the books say is
\* due, although one is summed per order key and the other compared per merchant's
\* order (reconciliation.ts:333, 430).
BooksBalance ==
  NothingToReport /\ KeysConsistent /\ RefundsOneSign => Payout = DueByTheBooks

-----------------------------------------------------------------------------
(* What the source says and the code does not do.                          *)

\* reconciliation.ts:439: "Expected payout calculated from deduplicated captures,
\* refunds, fees, chargebacks, and adjustments."  Nothing there asks that all rows of
\* an order carry its uuid: they match the order by uuid or reference.
MatchedOrdersPaidOnce == NothingToReport /\ RefundsOneSign => Payout = DueByTheBooks

=============================================================================
