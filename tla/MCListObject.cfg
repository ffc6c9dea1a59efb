SPECIFICATION Spec
CONSTANTS
  ThreadNum = 2
  IterNum = 2
  ListNum = 2
  Keys = {1, 2, 3}
  Place <- ThreePlaces
CHECK_DEADLOCK FALSE
INVARIANTS
  KeysBalance
  NeverMisses
  EndsEmpty
  MeasuresOwn
