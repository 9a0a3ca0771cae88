CONSTANTS
  MaxEdits = 2
  None = None
SPECIFICATION BuildSpec
INVARIANTS
  CartIsFound
  PatchesMeetShim
  BuildInv
  DebugOnlyAsAsked
PROPERTIES
  MasteredIsCurrent
