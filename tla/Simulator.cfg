CONSTANTS
  MaxTick = 4
  MaxEvents = 3
  MaxResets = 1
  StartTick = 2
  Resolution = 2
  MaxSnapshots = 2
  Modes = {"Sequential", "Joint", "JointWithSequentialAction"}
  MaxSize = 2
  Ticks <- ThreeFrames
  Data <- FrameValues
  Zero <- ZeroFrame
SPECIFICATION SimSpec
INVARIANTS
  KeepsNewest
  EpisodeIsShown
  StatisticsAddUp
CHECK_DEADLOCK FALSE
