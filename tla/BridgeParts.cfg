CONSTANTS
  WatchdogTimeout = 2
  Signals = 1
  Temps = {36}
  Checksums = {"none", "md5", "sha256"}
  Ids = {"d1", "d2"}
  MaxDevices = 2
  DeviceTimeout = 1
  Users = {"a", "b"}
  BlockCount = 3
SPECIFICATION Spec
\* The process ends, the pool's model ends when it was destroyed during a call.
CHECK_DEADLOCK FALSE
INVARIANTS
  TypeOK
  EndIsOrderly
  EachBlockOnce
  UpgradeIsSafe
  SearchIsSafe
PROPERTIES
  
  AlarmsMeanFire
  LampFollowsPresence
