CONSTANTS
  Route <- ThreePorts
  StartAt = 2
  Park = 1
  Sail <- Legs
  ParkTimes = {1}
  SailTimes <- NoisyLegs
  MaxTicks = {6, 7, 9}
  FutureStopNumbers = {1, 2}
  PastStopNumber = 2
  PortNumber = 3
  Weights = {0, 1, 2}
  Proportions = {2, 6}
  TotalContainers = 2
  Unfixed = TRUE
  Rows <- SomeRows
  MaxRows = 4
  BufferSize = 2
  Units = {1, 2}
  UtcStarts <- EarlyStart
  FirstTicks = {0, 1}
  LastTick = 3
  MaxPickers = 2
  Seeds = {1, 3}
  ConfSeed = 2
  OrderNoise = TRUE
  Configs <- SomeConfigs
  StopLists <- SomeStops
  TotalBoxes = 5
  Whole = 4
  UsageNoises <- Noises
  Folders <- SomeFolders
  NoFile <- NoneThere
  MaxDraws = 2
  MaxEpisodes = 3
  TripTables <- SomeTrips
  FullStations <- StationInfo
  ToyStations <- TwoStations
  ToyTrips <- ThereAndBack
  VmTables <- SomeVms
  CpuReadings <- Readings
  SampleSize = 2
  MaxGenerates = 3
  Episodes = {0, 1}
  Ticks = {0, 1}
  MaxDataCacheNumber = 2
  MaxMessages = 5
SPECIFICATION DataSpec
INVARIANTS
  StopsServeReaders
  AllOrdersPlaced
  ItemsComeOnTime
  EqualDataEqualEpisodes
  DataIsWholeOrGone
  StreamIsComplete
CHECK_DEADLOCK FALSE
