SPECIFICATION Spec
CONSTANTS
  Graphs <- AllGraphs
  NoRoute = NoRoute
  MaxRoutes = 1
INVARIANTS
  TableIsShortest
  TableIsSettled
  NoUndefinedAccess
  WalksAreShort
PROPERTIES
  FindsRoutes
  BuildRouteReturns
\* No caller has to make another call, and MaxRoutes ends the building of routes.
CHECK_DEADLOCK FALSE
