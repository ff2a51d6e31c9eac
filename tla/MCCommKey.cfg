SPECIFICATION GestureSpec
CONSTANTS
  WaitTime = 0
  HoldTime = 2
  MultiTime = 1
  HoldMark = 3
  MaxSamples = 14
  Deltas <- MCDeltas
INVARIANT DecodesGestures
CHECK_DEADLOCK FALSE
