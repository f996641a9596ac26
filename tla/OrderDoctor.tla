---------------------------- MODULE OrderDoctor ----------------------------
(***************************************************************************)
(* The Integration Doctor's checks of orders                               *)
(* (src/src/services/diagnostics-engine.ts): pure functions of the order   *)
(* evidence a client supplies.  A finding is its code, its severity and    *)
(* what it is about; titles, explanations and recommendations are fixed    *)
(* texts.                                                                  *)
(***************************************************************************)
EXTENDS OrderFinance, Sequences

Finding(code, severity, about) == [code |-> code, severity |-> severity, about |-> about]

Elements(seq) == {seq[i] : i \in DOMAIN seq}

\* The optional fields of diagnosticOrderSchema default to absence.
NoOrder ==
  [id |-> Nothing, reference |-> Nothing, merchantReference |-> Nothing,
   currency |-> Nothing, merchantCurrency |-> Nothing,
   authorized |-> 0, captured |-> 0, refunded |-> 0, approved |-> FALSE,
   expiresAt |-> Nothing, checkout |-> Nothing, checkoutExpiresAt |-> Nothing,
   updatedAt |-> Nothing, refundAttempts |-> << >>]

\* Two values that are both supplied and differ.
Differ(a, b) == a # Nothing /\ b # Nothing /\ a # b

Past(instant, time) == instant # Nothing /\ instant <= time

\* Approved, and not fully captured as far as the evidence goes: it has no releases.
Uncaptured(orders) ==
  {o \in Elements(orders) : o.approved /\ o.captured < o.authorized}

\* Fault: an authorization that expires this instant is taken to be open.
DetectUncapturedOrdersLate(orders, time) ==
  {Finding("UNCAPTURED_AUTHORIZATION",
           IF o.expiresAt # Nothing /\ o.expiresAt < time THEN "critical" ELSE "high",
           o.id) : o \in Uncaptured(orders)}

DetectUncapturedOrders(orders, time) ==
  {Finding("UNCAPTURED_AUTHORIZATION",
           IF Past(o.expiresAt, time) THEN "critical" ELSE "high",
           o.id) : o \in Uncaptured(orders)}

DetectStuckAuthorizations(orders, time, threshold) ==
  {Finding("STUCK_AUTHORIZATION", "high", o.id) :
     o \in {x \in Uncaptured(orders) :
              x.updatedAt # Nothing /\ time - x.updatedAt >= threshold}}

\* A refund attempt repeats an earlier one by id, or by amount and time.
DetectDuplicateRefunds(orders) ==
  {Finding("DUPLICATE_REFUND", "critical", o.id) :
     o \in {x \in Elements(orders) :
              \E i, j \in DOMAIN x.refundAttempts :
                LET a == x.refundAttempts[i]  b == x.refundAttempts[j] IN
                i < j /\ (a.id = b.id \/ (a.amount = b.amount /\ a.at = b.at))}}

MissingReferences(orders) ==
  {Finding("MISSING_ORDER_REFERENCE", "high", o.id) :
     o \in {x \in Elements(orders) : x.reference = Nothing}}

InconsistentCurrencies(orders) ==
  {Finding("CURRENCY_INCONSISTENCY", "high", o.id) :
     o \in {x \in Elements(orders) : Differ(x.merchantCurrency, x.currency)}}

\* Fault: a refund of all that was captured is reported.
InvalidRefundsAtLimit(orders) ==
  {Finding(IF o.captured = 0 THEN "REFUND_BEFORE_CAPTURE"
           ELSE "REFUND_EXCEEDS_REFUNDABLE_AMOUNT", "critical", o.id) :
     o \in {x \in Elements(orders) : x.refunded >= x.captured /\ x.refunded > 0}}

InvalidRefunds(orders) ==
  {Finding(IF o.captured = 0 THEN "REFUND_BEFORE_CAPTURE"
           ELSE "REFUND_EXCEEDS_REFUNDABLE_AMOUNT", "critical", o.id) :
     o \in {x \in Elements(orders) : x.refunded > x.captured}}

DuplicateReferences(orders) ==
  {Finding("DUPLICATE_ORDER_REFERENCE", "high", orders[i].reference) :
     i \in {k \in DOMAIN orders :
              \E j \in DOMAIN orders :
                j # k /\ orders[k].reference # Nothing
                  /\ orders[j].reference = orders[k].reference}}

AuditAuthCaptureFlow(orders, time) ==
  MissingReferences(orders) \cup InconsistentCurrencies(orders)
    \cup InvalidRefunds(orders) \cup DuplicateReferences(orders)
    \cup DetectUncapturedOrders(orders, time)

\* The part of diagnoseIntegration that looks at single orders.
StaleCheckouts(orders, time) ==
  {Finding("STUCK_CHECKOUT_SESSION", "medium", o.id) :
     o \in {x \in Elements(orders) :
              x.checkout = "active" /\ Past(x.checkoutExpiresAt, time)}}

MismatchedReferences(orders) ==
  {Finding("MERCHANT_ORDER_MISMATCH", "high", o.id) :
     o \in {x \in Elements(orders) : Differ(x.merchantReference, x.reference)}}

=============================================================================
