CONSTANTS
  MaxTick = 1
  MaxEvents = 3
  MaxResets = 1
  Modes = {"Sequential"}
  DisableFinished = TRUE
  SubsInsert = FALSE
SPECIFICATION Spec
PROPERTY KeepsAgenda
CHECK_DEADLOCK FALSE
