CONSTANTS
  VMs = {1, 2, 3}
  PmConfig <- MCPmConfig
  RackConfig <- MCRackConfig
  ClusterConfig <- MCClusterConfig
  Architecture <- MCArchitecture
  Cpu <- MCCpu
  Memory <- MCMemory
  Lifetime <- MCLifetime
  Category <- MCMixed
  Profiles <- MCProfiles
  MaxCpuRate = 150
  MaxMemoryRate = 150
  MaxUtilizationRate = 150
  CpuPrice = 2
  MemoryPrice = 1
  BufferTimeBudget = 2
  DelayDuration = 1
  KillModes = {TRUE, FALSE}
  PostponeSteps = {0, 1}
  LastTick = 3
SPECIFICATION Spec
INVARIANTS
  ResourcesAccounted
  RequestsSettled
  LifetimesArePaid
  HierarchyAddsUp
