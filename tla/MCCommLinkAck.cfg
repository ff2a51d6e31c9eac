SPECIFICATION Spec
CONSTANTS
  CanFifo = 2
  Reload = 2
  Tries = 1
PROPERTIES
  AckMeansSet
