CONSTANTS
  Stations <- ThreeStations
  Near <- NearOfThree
  Capacity <- TwoDocks
  InitBikes <- FourBikes
  Durations = {0, 1}
  TransferTimes = {1, 2}
  DecisionResolution = 2
  SnapshotResolution = 2
  SupplyMark = 80
  DemandMark = 20
  ScopeLow = 0
  ScopeHigh = 100
  DistanceNum = 2
  RequirementsNum = 2
  TripsNum = 1
  Windows = 2
  MaxTick = 4
  MaxTrips = 3
  MaxResets = 1
SPECIFICATION Spec
INVARIANTS
  BikesAccounted
  CacheShowsFrames
CHECK_DEADLOCK FALSE
