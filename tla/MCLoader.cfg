SPECIFICATION BootFairSpec
CONSTANTS
  Chunks = 2
  PatchAt <- MCPatchAt
  MaxPolls = 2
  NoLine = NoLine
INVARIANTS
  GameStartsWhole
  LoaderInv
PROPERTIES
  BootEnds
CHECK_DEADLOCK FALSE
