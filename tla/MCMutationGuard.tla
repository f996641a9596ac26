------------------------- MODULE MCMutationGuard -------------------------
(* Small instances of MutationGuard: one order, captures of two amounts and a *)
(* reference update on it, and a target state that no longer permits captures. *)
EXTENDS MutationGuard, TLC

CONSTANTS order, fresh, spent

capture == [tool |-> "capture", target |-> order, amount |-> 1]
captureMore == [tool |-> "capture", target |-> order, amount |-> 2]
reference == [tool |-> "reference", target |-> order, amount |-> 0]

OneCapture == {capture}
CaptureAndReference == {capture, reference}
AllRequests == {capture, captureMore, reference}

OneTarget == {order}
TwoSnapshots == {fresh, spent}
OneSnapshot == {fresh}
Financial == {"capture"}

\* A spent order permits no capture, and its authorization expires at time 2.
Validation ==
  {<<r, s, t>> \in Requests \X Snapshots \X (0..Horizon) :
     r.tool = "capture" => s = fresh /\ t < 2}

Symmetry == Permutations(Calls) \cup Permutations(PreviewIds)
==========================================================================
