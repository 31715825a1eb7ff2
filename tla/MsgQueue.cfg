CONSTANTS
  s1 = s1
  s2 = s2
  r1 = r1
  r2 = r2
  r3 = r3
  Senders = {s1, s2}
  Receivers = {r1, r2, r3}
  Capacity = 2
  Priorities = {1}
  MaxMsgId = 6
SPECIFICATION FairSpec
INVARIANTS
  TypeOK
  RingHoldsBacklog
  NoLostWakeup
PROPERTIES
  ImplementsFifo
  CloseReleasesAll
  BlockedReceiverIsServed
CHECK_DEADLOCK FALSE
