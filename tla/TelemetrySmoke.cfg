CONSTANTS
  Temps = {20}
  TempChange = 1
  FullInterval = 6
  CacheMax = 2
  ReadsMayFail = TRUE
  LinkMayFail = FALSE
  MaxReports = 3
SPECIFICATION Spec
INVARIANTS
  SmokeIsReported
