CONSTANTS
  Temps = {20, 21, 23}
  TempChange = 1
  FullInterval = 3
  CacheMax = 2
  ReadsMayFail = TRUE
  LinkMayFail = TRUE
  MaxReports = 4
SPECIFICATION FairSpec
INVARIANTS
  TypeOK
  OnlyFailedReadsHideChanges
  EachReportOnce
PROPERTIES
  RoundEnds
