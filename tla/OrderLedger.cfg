SPECIFICATION Spec
CONSTANTS
  Nothing = Nothing
  usd = usd
  cad = cad
  Currencies = {usd, cad}
  MaxSafe = 3
  Calls = {c1, c2}
  Requests <- SomeRequests
  Orders <- AllOrders
  Horizon = 1
SYMMETRY Symmetry
INVARIANTS
  NeverOutOfRange
  SentWithinMeans
  DoctorFindsCapturable
  DoctorFindsOverRefund
PROPERTIES
  OverdrawnOnlyByOverlap
  RemainingAsPreviewed
CHECK_DEADLOCK FALSE
