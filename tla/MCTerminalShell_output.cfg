SPECIFICATION Spec
CONSTANTS
  Scripts <- OneCommand
  Outputs <- TwoBytes
  PipeSize = 2
  MaxInterrupts = 0
INVARIANTS
  OutputIsPassed
