CONSTANTS
  ServerTimeout = 3
  MaxSignals = 0
  Served = {"loop"}
  FailureThreshold = 1
  RetryInterval = 1
  Tokens = {1}
  VerifyLimit = 1
  SaveLimit = 2
  Lifetime = 2
  MaxAlerts = 1
  PendingLimit = 1
SPECIFICATION Spec
\* The server ends.
CHECK_DEADLOCK FALSE
PROPERTY WatchdogGuardsLoop
