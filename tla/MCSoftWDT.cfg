SPECIFICATION Spec
CONSTANTS
  Load = 3
  Period = 2
INVARIANTS
  TypeOK
  NoFalseAlarm
  AlarmInTime
  LinkAgrees
PROPERTIES
  SilenceIsNoticed
  TalkIsNoticed
