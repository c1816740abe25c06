------------------------------ MODULE Requests ------------------------------
(***************************************************************************)
(* The base requests of the input (main.cpp, Command.h): the stops and the *)
(* buses it asks for, and which of them have been processed.  What follows *)
(* from the requests alone, whatever the program makes of them.            *)
(***************************************************************************)
EXTENDS Naturals, Sequences, FiniteSets

CONSTANTS
  StopName,         \* names a stop may have
  BusName,          \* names a bus may have
  Place,            \* Coordinates a stop may have
  Origin,           \* Coordinates{}: latitude 0, longitude 0
  AddStopRequest,   \* parsed base requests of type "Stop"
  AddBusRequest     \* parsed base requests of type "Bus"

(***************************************************************************)
(* A stop request has an id (its position in the input), a name, a         *)
(* position and the declared road distances, a std::map from stop names to *)
(* lengths.  A bus request has an id, a name, a type and a list of stops.  *)
(***************************************************************************)
ASSUME StopRequestAssumption ==
  \A r \in AddStopRequest :
    /\ r.name \in StopName
    /\ r.pos \in Place
    /\ DOMAIN r.dist \subseteq StopName
    /\ \A s \in DOMAIN r.dist : r.dist[s] \in Nat

ASSUME BusRequestAssumption ==
  \A r \in AddBusRequest :
    /\ r.name \in BusName
    /\ r.type \in {"Linear", "Circular"}
    /\ r.stops \in Seq(StopName)

ASSUME RequestAssumption ==
  /\ Origin \in Place
  /\ AddStopRequest \cap AddBusRequest = {}

VARIABLE done       \* the base requests processed so far

Route(r) == {r.stops[i] : i \in DOMAIN r.stops}

StopRequests(s) == {r \in done \cap AddStopRequest : r.name = s}

BusRequests(b) == {r \in done \cap AddBusRequest : r.name = b}

\* The lengths that requests for stop a declare for the road to stop b.
Declared(a, b) ==
  {r.dist[b] : r \in {q \in StopRequests(a) : b \in DOMAIN q.dist}}

Mentioned ==
  (UNION {Route(r) : r \in done \cap AddBusRequest})
    \cup (UNION {{r.name} \cup DOMAIN r.dist : r \in done \cap AddStopRequest})

NoRepeatedBus ==
  \A q, r \in done \cap AddBusRequest : q.name = r.name => q = r

NoRepeatedStop ==
  \A q, r \in done \cap AddStopRequest : q.name = r.name => q = r
=============================================================================
