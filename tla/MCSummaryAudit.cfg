SPECIFICATION Spec
CONSTANTS
  NumBlocks = 11
  NumInodes = 16
  InodesPerBlock = 8
  TableBlock = 5
  Bits = 17
  NDir = 2
  PerBlock = 3
  Images <- SmallImages
INVARIANTS
  TreeIsListed
  ExitStatusTellsBlocks
  ConsistentIsSilent
  SilentIsConsistent
  UnreferencedExact
  SharersNamed
