SPECIFICATION GdcSpec
CONSTANTS
  Last = 3
  Backends <- MCBackends
  BiosTop = 65536
  Junk = Junk
INVARIANTS
  ContextKept
  GdcInv
