SPECIFICATION Spec
CONSTANTS
  None = None
  e1 = e1
  e2 = e2
  e3 = e3
  order = order
  session = session
  authorized = authorized
  captured = captured
  Deliveries = {d1, d2, d3}
  Payloads <- Versions
  Ids = {e1, e2, e3}
  Types = {authorized, captured}
  Entities = {order, session}
  Durable = TRUE
  Horizon = 2
  MaxFaults = 1
  MaxRestarts = 1
SYMMETRY Symmetry
INVARIANTS
  CountsDeliveries
  AuditsMatchStore
  TimelineInOrder
  HealthReported
PROPERTIES
  FirstVersionStands
CHECK_DEADLOCK FALSE
