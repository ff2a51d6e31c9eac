SPECIFICATION Spec
CONSTANTS
  WaitTime = 0
  HoldTime = 2
  MultiTime = 1
  HoldMark = 4
  MaxTimes = 3
  ConfirmTime = 9
  OnTime = 1
  OffTime = 1
  PauseTime = 2
  DefaultSlave = 1
  DefaultMaster = 2
  MaxDelta = 2
  Deltas <- MCDeltas
  SlaveIds <- MCSlaveIds
  MasterIds <- MCMasterIds
INVARIANTS
  TypeOK
  NumberIsTold
  ConfirmedInTime
PROPERTIES
  HonoursIntent
  SettingEnds
