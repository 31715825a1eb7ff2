CONSTANTS
  MaxAlerts = 3
  PendingLimit = 2
SPECIFICATION PairingSpec
CHECK_DEADLOCK FALSE
INVARIANT NoOldPicture
