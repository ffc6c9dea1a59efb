SPECIFICATION Spec
CONSTANTS
  ThreadNum = 2
  IterNum = 1
  OpNum = 2
  ListNum = 2
  OptSync = "none"
  Agents <- TwoThreads
  Keys <- ThreeKeys
  FirstChar <- ThreeFirstChars
  NULL = NULL
INVARIANTS
  NoWildPointers
