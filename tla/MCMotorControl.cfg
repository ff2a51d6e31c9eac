SPECIFICATION Spec
CONSTANTS
  rest = rest
  fast = fast
  Rest = rest
  Omegas <- MCOmegas
  Load = 1
  MaxOut = 2
INVARIANTS
  TypeOK
  RealisedInTwoRuns
  SoftStart
  LastCommandGoverns
PROPERTY StatusRealised
