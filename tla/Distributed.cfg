CONSTANTS
  opA = opA
  opB = opB
  a = a
  b = b
  Workers = {w1, w2, w3}
  Ops <- MCOps
  Parallelism <- MCParallelism
  BatchSizes <- MCBatchSizes
  MaxSteps = 2
  CallsPerStep = 2
  Peers <- MCPeers
  TypeOf <- MCTypeOf
  Expected <- MCExpected
  Minimal <- MCMinimal
  EnableCache = TRUE
  MaxCached = 1
  MaxMessages = 2
  MaxStarts = 3
  MaxExits = 2
  MaxAcked = 1
  MaxResends = 1
  Events <- MCEvents
  PeersNumber <- MCPeersNumber
  Pushed <- MCPushed
  MaxPushed = 6
  BatchNum = 2
  Durations <- MCDurations
  MaxCommands = 4
  MaxFailures = 1
  Parts = {"training", "proxy", "table", "vector"}
SPECIFICATION DistributedSpec
INVARIANTS
  GradientFitsRequest
  MessagesOnceInOrder
  CombinationsAreComplete
  AnswersFitEnvironments
PROPERTIES
  TrainingJobEnds
CHECK_DEADLOCK FALSE
