\* CDI build; the BIOS server may stall a command for ever.
CONSTANTS
  MaxSectors = 1
  Fads = {7}
  MaxAttempts = 4
  NotFoundTolerance = 1
  GuardLimit = 3
  CDXA = TRUE
  PickupDelay = 9
  TransferDelay = 9
SPECIFICATION GdFairSpec
INVARIANT IInv
PROPERTY ReadEnds
