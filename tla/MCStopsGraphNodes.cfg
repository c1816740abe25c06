SPECIFICATION ManagerSpec
CONSTANTS
  StopName <- MCStopName
  BusName <- MCBusName
  Place <- MCPlace
  Origin = 0
  AddStopRequest <- CityStops
  AddBusRequest <- CityBuses
  NoDist = NoDist
  NoBus = NoBus
  Haversine <- Flat
  NaN = NaN
  Infinity = Infinity
  velocity_ = 1
  wait_time_ = 2
  NoNumber = NoNumber
  NoGraph = NoGraph
INVARIANTS
  NodeForEveryRoute
\* InitializeRouter is called once.
CHECK_DEADLOCK FALSE
