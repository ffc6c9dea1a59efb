SPECIFICATION Spec
CONSTANTS
  ThreadNum = 2
  IterNum = 1
  OpNum = 2
  ListNum = 1
  OptSync = "none"
  Agents <- TwoThreads
  Keys <- TwoKeys
  FirstChar <- SharedFirstChar
  NULL = NULL
PROPERTIES
  LengthDetectsCorruption
