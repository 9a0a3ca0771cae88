SPECIFICATION PollFairSpec
CONSTANTS
  Absent = Absent
  Nothing = Nothing
  Held <- MCHeld
  Period = 10
  PadThresh = 2
  FrameGap = 3
  MaxTrans = 1
  MaxMiss <- MCMisses
  Wired = {1}
INVARIANTS
  ButtonsAreFresh
  PollInv
  NoDropout
PROPERTIES
  ComboReboots
CHECK_DEADLOCK FALSE
