SPECIFICATION ProgramSpec
CONSTANTS
  StopName <- MCStopName
  BusName <- MCBusName
  Place <- MCPlace
  Origin <- MCOrigin
  AddStopRequest <- MCAddStopRequest
  AddBusRequest <- MCAddBusRequest
  NoDist = NoDist
  NoBus = NoBus
  Haversine <- Flat
  NaN = NaN
  Infinity = Infinity
  velocity_ = 1
  wait_time_ = 2
  NoNumber = NoNumber
  NoGraph = NoGraph
  ReadRequest <- MCReadRequest
  NotFound = NotFound
  MaxReads = 8
  Thrown = Thrown
  Unspecified = Unspecified
  NotANumber = NotANumber
  ErrorMessage = ErrorMessage
  Places = 1
  Numeral <- MCNumeral
  SizeLimit = 1000
  Symbol <- MCSymbol
  Documents <- MCDocuments
  Texts <- MCTexts
INVARIANTS
  ProgramTypeOK
  ParsedAsWritten
  NoAnswersToHalfAnInput
  AnsweredInTurn
  EverythingIsParsed
PROPERTIES
  ProgramPlansTrips
  ProgramEnds
\* The program ends.
CHECK_DEADLOCK FALSE
