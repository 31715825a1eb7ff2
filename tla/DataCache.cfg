CONSTANTS
  MaxEntries = 3
  MaxReports = 6
  SaveMayFail = TRUE
  MayCrash = TRUE
SPECIFICATION Spec
INVARIANTS
  TypeOK
  IndicesAgree
  OldestFirst
  NothingReplayed
PROPERTIES
  ImplementsBacklog
