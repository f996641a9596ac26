SPECIFICATION FairSpec
CONSTANTS
  None = None
  order = order
  fresh = fresh
  spent = spent
  PreviewIds = {p1}
  Calls = {c1, c2}
  Requests <- CaptureAndReference
  Snapshots <- OneSnapshot
  Contexts = {sandbox, production}
  Targets <- OneTarget
  KeyedTools <- Financial
  Permitted <- Validation
  Durable = TRUE
  Ttl = 1
  MaxRetries = 1
  Horizon = 0
  MaxChanges = 0
  MaxFaults = 1
  MaxRestarts = 1
INVARIANTS
  AtMostOnce
  SuccessIsReal
  VerdictsAgree
PROPERTIES
  VerdictsAreFinal
  ImplementsApprovedMutation
  CallsEnd
  ReservationsSettle
CHECK_DEADLOCK FALSE
