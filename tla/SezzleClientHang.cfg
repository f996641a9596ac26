SPECIFICATION TimerSpec
CONSTANTS
  None = None
  read = read
  write = write
  renew = renew
  Operations = {read, write}
  Logins = {}
  Retryable = {read}
  Configured = TRUE
  MaxConcurrency = 1
  MaxRetries = 0
  MaxTokens = 1
PROPERTIES
  OperationsEnd
CHECK_DEADLOCK FALSE
