-------------------------- MODULE MCReconciliation --------------------------
(* Small instances of Reconciliation: an order that has a Sezzle uuid, one  *)
(* that has a reference only, two that share a uuid or a reference, and     *)
(* rows that repeat, contradict, or belong to none.                         *)
EXTENDS Reconciliation

CONSTANTS u, other, ref, ref2

Order(reference, uuid, ordered, captured, refunded, fee) ==
  [ref |-> reference, uuid |-> uuid, ordered |-> ordered, captured |-> captured,
   refunded |-> refunded, fee |-> fee]

Row(id, type, uuid, reference, amount) ==
  [id |-> id, type |-> type, uuid |-> uuid, ref |-> reference, amount |-> amount,
   ordered |-> None, date |-> 1]

OrderRow(id, uuid, reference, ordered) ==
  [Row(id, "ORDER", uuid, reference, None) EXCEPT !.ordered = ordered]

SmallBooks ==
  {<< >>,
   <<Order(ref, u, 2, 2, 0, None)>>,
   <<Order(ref, u, 2, 1, 1, 1)>>,
   <<Order(ref, u, 2, 2, 1, None), Order(ref2, None, 2, 1, 0, None)>>,
   <<Order(ref, u, 2, 2, 0, 0), Order(ref, None, 2, 2, 0, None)>>,
   <<Order(ref, None, 2, 2, 0, None), Order(ref2, None, 2, 2, 0, None)>>}

ManyRows ==
  {OrderRow(1, u, ref, 2),
   Row(2, "CAPTURE", u, ref, 2),
   Row(3, "CAPTURE", u, ref, 1), Row(4, "CAPTURE", u, ref, 1),
   Row(2, "CAPTURE", None, ref2, 1),
   Row(5, "REFUND", u, None, -1), Row(6, "REFUND", u, ref, 1),
   Row(7, "FEE", u, ref, 1), Row(8, "RETURNED_FEE", u, ref, 1),
   Row(9, "CHARGEBACK", other, None, 1),
   Row(10, "CORRECTION", None, None, -1), OrderRow(11, u, ref2, 2)}

\* Rows of one order, one of them without the uuid.
MixedKeys == {OrderRow(1, u, ref, 2), Row(2, "CAPTURE", None, ref, 2), Row(3, "FEE", u, ref, 1)}
=============================================================================
