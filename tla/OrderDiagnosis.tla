--------------------------- MODULE OrderDiagnosis ---------------------------
(***************************************************************************)
(* The order checks of the Integration Doctor on an order that operations  *)
(* and the dashboard work on: what the doctor reports, beside what the     *)
(* operations of OrderFinance accept in the same state.                    *)
(***************************************************************************)
EXTENDS OrderLedger, OrderDoctor

\* An instant is not an absent one.
ASSUME InstantAssumption == Nothing \notin Nat

\* What a client copies from get_order into diagnosticOrderSchema, which has no field
\* for releases.
Evidence(id, a) ==
  [NoOrder EXCEPT !.id = id, !.reference = id, !.currency = a.amount.currency,
     !.authorized = a.amount.amount, !.captured = a.captures.total,
     !.refunded = a.refunds.total, !.approved = a.approved,
     !.expiresAt = a.expiration]

Reported == AuditAuthCaptureFlow(<<Evidence("order", order)>>, now)

Reports(code, severity) == Finding(code, severity, "order") \in Reported

\* Some amount could be previewed and would be valid.
Possible(operation) == \E money \in MoneyInput : Verdict(operation, order, money, now) = "VALID"

Evident == order # Nothing /\ order.amount.amount >= 0

\* An order with something left to capture, or to reauthorize since it expired, is
\* reported with the severity that fits, at the very instant at which the operations
\* change from one to the other; and unless something was released, which the evidence
\* cannot show, an order that is reported has something left (diagnostics-engine.ts:366,
\* order.ts:121, order.ts:217).
DoctorFindsCapturable ==
  Evident /\ order.approved /\ Readable(order) =>
    /\ Possible("capture") => Reports("UNCAPTURED_AUTHORIZATION", "high")
    /\ Possible("reauthorize") => Reports("UNCAPTURED_AUTHORIZATION", "critical")
    /\ order.releases.total = 0 =>
         /\ Reports("UNCAPTURED_AUTHORIZATION", "high") => Possible("capture")
         /\ Reports("UNCAPTURED_AUTHORIZATION", "critical") => Possible("reauthorize")

\* The refunds of an order are reported exactly when they exceed its captures, and no
\* operation is possible on an order so reported (diagnostics-engine.ts:294,
\* money.ts:60).
DoctorFindsOverRefund ==
  Evident =>
    LET reported == \/ Reports("REFUND_BEFORE_CAPTURE", "critical")
                    \/ Reports("REFUND_EXCEEDS_REFUNDABLE_AMOUNT", "critical") IN
    /\ reported <=> RemainingRefundable(order) < 0
    /\ reported => \A operation \in Operations : ~Possible(operation)

=============================================================================
