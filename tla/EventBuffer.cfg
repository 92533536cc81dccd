CONSTANTS
  MaxTick = 1
  MaxEvents = 3
  MaxResets = 1
  Modes = {"Sequential", "Joint", "JointWithSequentialAction"}
  DisableFinished = FALSE
  SubsInsert = FALSE
SPECIFICATION Spec
INVARIANTS
  PoolIsFree
PROPERTIES
  KeepsAgenda
  EpisodeEnds
CHECK_DEADLOCK FALSE
