SPECIFICATION Spec
CONSTANTS
  None = None
  e1 = e1
  e2 = e2
  e3 = e3
  order = order
  session = session
  authorized = authorized
  captured = captured
  Deliveries = {d1, d2, d3}
  Payloads <- Offsets
  Ids = {e1, e2, e3}
  Types = {authorized, captured}
  Entities = {order, session}
  Durable = FALSE
  Horizon = 1
  MaxFaults = 0
  MaxRestarts = 1
SYMMETRY Symmetry
INVARIANTS
  SortsByOccurrence
CHECK_DEADLOCK FALSE
