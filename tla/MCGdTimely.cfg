\* GDI build; the BIOS server is as slow as the driver still tolerates.
CONSTANTS
  MaxSectors = 2
  Fads = {7}
  MaxAttempts = 4
  NotFoundTolerance = 1
  GuardLimit = 4
  CDXA = FALSE
  PickupDelay = 2
  TransferDelay = 3
SPECIFICATION GdSpec
INVARIANTS
  Delivered
  NoLegacyGdIrq
  FailureNeedsRepeatedFaults
  NoFalseHang
PROPERTIES
  NoFalseGiveUp
  ImplementsSectorRead
