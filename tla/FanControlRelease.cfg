CONSTANTS
  Temps = {31}
  TempHigh = 32
  TempLow = 30
  DebounceCount = 3
  AlertHold = 6
  CoolHold = 6
  MonitorHold = 12
  FanHold = 6
  FaultTimeout = 12
  AlertInterval = 2
  Remote = {}
  ReadsMayFail = FALSE
  RpcMayFail = FALSE
  RelayAtStart = {0}
SPECIFICATION FairSpec
PROPERTIES
  SmokeFanIsReleased
