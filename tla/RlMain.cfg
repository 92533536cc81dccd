SPECIFICATION MainSpec
CONSTANTS
  Unset = Unset
  Agents <- MCAgents
  TrainableAgents <- MCAgents
  MaxDecisions = 3
  Trainer <- MCTrainer
  agent2trainer <- MCAgent2Trainer
  GradIters = 2
  UpdateTargetEvery = 2
  NStartTrain = 2
  BatchCapacity = 2
  Setups <- MCSetups
  CheckpointInterval = 1
  Metrics = {0, 1}
  MaxCrashes = 2
  RolloutConfigs <- MCRolloutConfigs
  EvaluateOnly <- MCEvaluateOnly
  Capacity = 4
  MemoryAgents = {"a"}
  MaxItems = 9
INVARIANTS
  ExperiencesAreTrue
  ResumeContinues
  RepliesFit
  SamplesAreWhatWasPut
PROPERTIES
  JobEnds
CHECK_DEADLOCK FALSE
