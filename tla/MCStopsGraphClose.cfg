SPECIFICATION ManagerSpec
CONSTANTS
  StopName <- MCStopName
  BusName <- MCBusName
  Place <- MCPlace
  Origin = 0
  AddStopRequest <- CloseStops
  AddBusRequest <- CloseBuses
  NoDist = NoDist
  NoBus = NoBus
  Haversine <- Rounded
  NaN = NaN
  Infinity = Infinity
  velocity_ = 1
  wait_time_ = 2
  NoNumber = NoNumber
  NoGraph = NoGraph
INVARIANTS
  WeightsNotNegative
\* InitializeRouter is called once.
CHECK_DEADLOCK FALSE
