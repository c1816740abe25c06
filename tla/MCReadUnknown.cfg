SPECIFICATION ReadSpec
CONSTANTS
  StopName <- MCStopName
  BusName <- MCBusName
  Place <- MCPlace
  Origin = 0
  AddStopRequest <- TripStops
  AddBusRequest <- TripBuses
  NoDist = NoDist
  NoBus = NoBus
  Haversine <- Flat
  NaN = NaN
  Infinity = Infinity
  velocity_ = 1
  wait_time_ = 2
  NoNumber = NoNumber
  NoGraph = NoGraph
  ReadRequest <- MixedReads
  NotFound = NotFound
  MaxReads = 1
INVARIANT
  StopsOfRoutesAreIndexed
\* The input ends; without stops, or with a stop that is not there, so does
\* the program.
CHECK_DEADLOCK FALSE
