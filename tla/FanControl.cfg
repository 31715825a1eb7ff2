CONSTANTS
  Temps = {29, 31, 32, 33}
  TempHigh = 32
  TempLow = 30
  DebounceCount = 3
  AlertHold = 4
  CoolHold = 4
  MonitorHold = 8
  FanHold = 4
  FaultTimeout = 8
  AlertInterval = 2
  Remote = {"mqtt", "web"}
  ReadsMayFail = TRUE
  RpcMayFail = TRUE
  RelayAtStart = {0, 1}
SPECIFICATION FairSpec
INVARIANTS
  TypeOK
  FanRunsInAlert
  FanStateTracksRelay
PROPERTIES
  SmokeHasPriority
  BackToSafe
  NoSilentAlert
