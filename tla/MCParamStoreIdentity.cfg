SPECIFICATION Spec
CONSTANTS
  zero = zero
  id = id
  NoCrc = NoCrc
  NoRecord = NoRecord
  N = 2
  Values <- MCValues
  Zero = zero
  DefaultId = id
  MaxFaults = 4
INVARIANT DefaultsAfterFailedRead
