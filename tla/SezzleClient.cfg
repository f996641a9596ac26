SPECIFICATION FairSpec
CONSTANTS
  None = None
  read = read
  write = write
  renew = renew
  Operations = {write, renew}
  Logins = {renew}
  Retryable = {}
  Configured = TRUE
  MaxConcurrency = 1
  MaxRetries = 2
  MaxTokens = 3
INVARIANTS
  WritesOnce
  ReplayWithNewToken
  JoinedHaveAcquirer
  OwnMerchantOnly
PROPERTIES
  CacheTakesNewest
  OperationsEnd
CHECK_DEADLOCK FALSE
