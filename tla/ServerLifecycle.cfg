SPECIFICATION FairServerSpec
CONSTANTS
  None = None
  order = order
  fresh = fresh
  PreviewIds = {p1}
  Calls = {c1, c2}
  Requests <- OneCapture
  Snapshots <- OneSnapshot
  Contexts = {sandbox}
  Targets <- OneTarget
  KeyedTools <- Financial
  Permitted <- Validation
  Durable = TRUE
  Transport = "http"
  Ttl = 1
  MaxRetries = 0
  Horizon = 1
  MaxChanges = 0
  MaxFaults = 2
  MaxRestarts = 1
INVARIANTS
  StoreOutlivesResponses
  AnswerIsOnRecord
PROPERTIES
  ImplementsProtocol
  ShutdownEnds
CHECK_DEADLOCK FALSE
