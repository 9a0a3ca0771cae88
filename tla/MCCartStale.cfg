\* A transfer over dirty lines: what is left in the D-cache.
CONSTANTS
  SectorSize = 4
  LineSize = 2
  Word = 256
  Half = 16
  OffLimit = 32
  PhysLimit = 64
  RegionSize = 32
  RamRegion = 1
  MaxLen = 32
  CartSize = 20
  ShimBase = 56
  CartFad = 5
  MaxSectors = 5
  Fads = {4, 5, 6, 7, 8, 9, 10, 11, 12, 13}
  PbTotal = 1
  Preload = 1
  PbPixel = 1
  Requests <- MCStreams
SPECIFICATION CartSpec
INVARIANT NothingStaleInDcache
CHECK_DEADLOCK FALSE
