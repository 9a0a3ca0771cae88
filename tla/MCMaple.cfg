SPECIFICATION MapleFairSpec
CONSTANTS
  Frames <- MCFrames
  Garbage <- MCGarbage
  MaxSlots = 2
  MaxWalk = 3
  JvsCmds <- MCJvsCmds
  Other = "off"
  Ram = {"a", "b"}
  Outside = {"mmio"}
INVARIANTS
  ListAnswered
  MapleInv
  CfgAnswersItsOwn
PROPERTIES
  WalkEnds
CHECK_DEADLOCK FALSE
