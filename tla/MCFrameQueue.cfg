SPECIFICATION Spec
CONSTANTS
  good = good
  bad = bad
  NoFrame = NoFrame
  QueueSize = 3
  MaxRx = 8
  MaxU16 = 65535
  Frames <- MCFrames
  Malformed <- MCMalformed
INVARIANTS
  TypeOK
  RingExactUnlessTorn
PROPERTIES
  KeepsFifoPromise
  Drained
CHECK_DEADLOCK FALSE
