SPECIFICATION Spec
CONSTANTS
  CountMax = 2
  MaxLaps = 2
  Seconds <- MCSeconds
  QeiLoad = 4
  Base = 2
  IntegralLimit = 1
  MaxOut = 1
  Terms <- MCTerms
INVARIANTS
  TypeOK
PROPERTIES
  TimeIsTrue
  SpeedIsTrue
