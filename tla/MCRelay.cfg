SPECIFICATION FairSpec
CONSTANTS
  Scripts <- MCScripts
  Outputs <- OneLine
  PipeSize = 1
  MaxInterrupts = 1
INVARIANTS
  FedIsTyped
  ShownIsOutput
  RepeatsOnlyAtEnd
  LeavesNoShell
PROPERTIES
  
  ServerEnds
  KeyEndsClient
