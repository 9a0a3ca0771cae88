\* The real table: as it is over every image that differs in one byte, and
\* with any one definition misplaced.
CONSTANTS
  Script <- AllDefs
  Slips <- AllSlips
  Boot <- BootImage
  ImageSize <- BootSize
  NoDiff = NoDiff
SPECIFICATION PatchSpec
INVARIANTS
  TableInv
  StartedIsPatched
  PristineStarts
  HooksReach
CHECK_DEADLOCK FALSE
