SPECIFICATION Spec
CONSTANTS
  None = None
  u = u
  other = other
  ref = ref
  ref2 = ref2
  Books <- SmallBooks
  Rows <- MixedKeys
  FeeTolerance = 0
  MaxRows = 3
INVARIANTS
  MatchedOrdersPaidOnce
CHECK_DEADLOCK FALSE
