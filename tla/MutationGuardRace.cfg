SPECIFICATION Spec
CONSTANTS
  None = None
  order = order
  fresh = fresh
  spent = spent
  PreviewIds = {p1}
  Calls = {c1, c2}
  Requests <- AllRequests
  Snapshots <- TwoSnapshots
  Contexts = {sandbox}
  Targets <- OneTarget
  KeyedTools <- Financial
  Permitted <- Validation
  Durable = FALSE
  Ttl = 2
  MaxRetries = 1
  Horizon = 2
  MaxChanges = 1
  MaxFaults = 0
  MaxRestarts = 1
SYMMETRY Symmetry
INVARIANTS
  OnlyApprovedEffects
  ReserverConsumes
PROPERTIES
  ReservedWhileOpen
  ImplementsApprovedMutation
CHECK_DEADLOCK FALSE
