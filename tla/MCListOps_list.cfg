SPECIFICATION FairSpec
CONSTANTS
  ThreadNum = 2
  IterNum = 2
  OpNum = 4
  ListNum = 2
  OptSync = "s"
  Agents <- TwoThreads
  Keys <- TwoKeys
  FirstChar <- SharedFirstChar
  NULL = NULL
INVARIANTS
  MutualExclusion
  ListsIntact
  NoFailure
PROPERTIES
  ImplementsListObject
  Termination
