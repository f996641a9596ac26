SPECIFICATION ReportSpec
CONSTANTS
  None = None
  u = u
  other = other
  ref = ref
  ref2 = ref2
  Books <- SmallBooks
  Rows <- ManyRows
  FeeTolerance = 0
  MaxRows = 4
  Digits = {0, 7}
  Exponents <- FewExponents
  MaxExponent = 3
  MaxCents = 100
  MaxWhole = 2
  MaxFraction = 3
INVARIANTS
  OneOfEachContent
  EveryRowPlaced
  BooksBalance
  AmountsExact
PROPERTIES
  DuplicatesInert
CHECK_DEADLOCK FALSE
