CONSTANTS
  NodeNames = {n1, n2}
  Sizes = {s1, s2}
  MaxFailures = 1
  MaxCommands = 5
  JobNames = {k1, k2}
  ScheduleNames = {sched1, sched2}
  PoolSizes = {p1}
  MasterSize = p1
  MaxReplicas = 1
  MaxKubeFailures = 1
  MaxKubeCommands = 5
  LocalJobNames = {j1, j2, j3}
  Networked = {j1, j2}
  MaxRunning = 1
  MaxLocalCommands = 5
  Nodes = {"n1"}
  Jobs = {"j", "s"}
  ScheduledJobs = {"s"}
  Metrics = {"cpu", "memory"}
  Capacity <- MCCapacity
  Demand <- MCDemand
  Components = {"a", "b"}
  Component <- MCComponent
  Mode <- MCMode
  Images = {"i1"}
  MaxStarts = 3
  MaxRestartTimes = 1
  RemoveFailed <- MCRemoveFailed
  Budgets <- MCBudgets
  Parts = {"services", "grass", "k8s", "local"}
SPECIFICATION OrchestrationSpec
INVARIANTS
  PlacementIsBounded
  StoppedWhenGone
  ClusterIsKnown
  KubeJobsAreKnown
  LocalJobsAccounted
CHECK_DEADLOCK FALSE
