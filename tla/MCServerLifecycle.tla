------------------------ MODULE MCServerLifecycle ------------------------
(* Small instances of ServerLifecycle: captures of one order and an update of *)
(* its reference, which carries no idempotency key.                           *)
EXTENDS ServerLifecycle, TLC

CONSTANTS order, fresh

capture == [tool |-> "capture", target |-> order, amount |-> 1]
reference == [tool |-> "reference", target |-> order, amount |-> 0]

OneCapture == {capture}
CaptureAndReference == {capture, reference}
OneTarget == {order}
OneSnapshot == {fresh}
Financial == {"capture"}
Validation == Requests \X Snapshots \X (0..Horizon)

Symmetry == Permutations(Calls)
==========================================================================
