SPECIFICATION FairSpec
CONSTANTS
  Scripts <- KeyScripts
  Outputs <- TwoBytes
  PipeSize = 1
  MaxInterrupts = 2
INVARIANTS
  EchoIsOfTyped
  FedIsTyped
  ShownIsOutput
  LeavesNothingBehind
PROPERTIES
  KeysEnd
