SPECIFICATION FairSpec
CONSTANTS
  ThreadNum = 3
  IterNum = 2
INVARIANTS
  MutualExclusion
  FinalCounterZero
  LossIsBounded
PROPERTIES
  ImplementsAtomicCounter
  Termination
