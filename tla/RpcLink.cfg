SPECIFICATION FairSpec
CONSTANTS
  MaxBehind = 5
INVARIANTS
  TypeOK
  OwnAnswers
  HealedInTime
PROPERTIES
  CallReturns
  DeadConnectionIsDropped
