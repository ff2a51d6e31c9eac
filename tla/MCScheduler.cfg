SPECIFICATION Spec
CONSTANTS
  motor = motor
  comm = comm
  detect = detect
  IdleTask = idle
  TimerTask = timer
  End = end
  Apps <- MCApps
  DelayOf <- MCDelayOf
  MaxTick = 2
  MaxPended = 2
INVARIANTS
  TypeOK
  HighestRuns
  SleepsItsTime
  OvertakenTwice
PROPERTIES
  Cooperative
  EveryoneRuns
