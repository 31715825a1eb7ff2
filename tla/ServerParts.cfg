CONSTANTS
  ServerTimeout = 2
  MaxSignals = 2
  Served = {"http"}
  FailureThreshold = 2
  RetryInterval = 2
  Tokens = {1, 2, 3, 4}
  VerifyLimit = 1
  SaveLimit = 2
  Lifetime = 2
  MaxAlerts = 3
  PendingLimit = 2
SPECIFICATION Spec
\* The server ends; there are no more alerts.
CHECK_DEADLOCK FALSE
INVARIANTS
  TypeOK
  ExitIsSafe
  AlertsGoOutOnce
PROPERTIES
  SmokeIsDebounced
  SessionsAreSound
  ServiceGoesOn
