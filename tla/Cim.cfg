CONSTANTS
  Ports <- TwoPorts
  Vessels <- TwoVessels
  Schedules <- TwoSchedules
  RouteLength <- RouteOfTwo
  PortEmpty <- EmptyAtPorts
  VesselEmpty <- EmptyAboard
  Capacity <- CapacityTwo
  Volume = 2
  Buffers = {0, 1}
  Quantities = {1, 2}
  JointModes = {TRUE, FALSE}
  MaxTick = 6
  Horizon = 8
  MaxOrders = 3
  MaxResets = 1
SPECIFICATION Spec
INVARIANTS
  ContainersAccounted
  ServiceIsKept
  ScopeIsHonoured
CHECK_DEADLOCK FALSE
