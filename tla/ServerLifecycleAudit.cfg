SPECIFICATION ServerSpec
CONSTANTS
  None = None
  order = order
  fresh = fresh
  PreviewIds = {p1}
  Calls = {c1, c2}
  Requests <- OneCapture
  Snapshots <- OneSnapshot
  Contexts = {sandbox}
  Targets <- OneTarget
  KeyedTools <- Financial
  Permitted <- Validation
  Durable = TRUE
  Transport = "http"
  Ttl = 1
  MaxRetries = 0
  Horizon = 0
  MaxChanges = 0
  MaxFaults = 1
  MaxRestarts = 0
SYMMETRY Symmetry
INVARIANTS
  ExecutedIsAudited
CHECK_DEADLOCK FALSE
