\* Every shape of transfer over dirty and clean lines, the range check at its
\* edges, and a boot preload in pieces.
CONSTANTS
  SectorSize = 4
  LineSize = 2
  Word = 256
  Half = 16
  OffLimit = 32
  PhysLimit = 64
  RegionSize = 32
  RamRegion = 1
  MaxLen = 32
  CartSize = 20
  ShimBase = 56
  CartFad = 5
  MaxSectors = 5
  Fads = {4, 5, 6, 7, 8, 9, 10, 11, 12, 13}
  PbTotal = 6
  Preload = 8
  PbPixel = 2
  Requests <- MCRequests
SPECIFICATION CartFairSpec
INVARIANTS
  CartInv
  ReadsWhatIsAsked
  ServedInBounds
PROPERTIES
  NoCollateralLoss
  BarBeforeTitle
  ImplementsCartDma
  ServiceEnds
CHECK_DEADLOCK FALSE   \* a death screen is where the machine stops
