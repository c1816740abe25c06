SPECIFICATION Spec
CONSTANTS
  Graphs <- MultiGraphs
  NoRoute = NoRoute
  MaxRoutes = 2
INVARIANTS
  TypeOK
  HeldRoutesArePaths
PROPERTIES
  AnswersAreRight
\* No caller has to make another call, and MaxRoutes ends the building of routes.
CHECK_DEADLOCK FALSE
