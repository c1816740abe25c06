-------------------------- MODULE StopsGraphManager --------------------------
(***************************************************************************)
(* The graph of waits and rides (StopsGraphManager.cpp): the part of       *)
(* bus::BusManagerWithRouter that InitializeRouter runs, once the base     *)
(* requests are processed.  Every stop becomes two vertices, one where a   *)
(* passenger waits and one where he is on board; every bus becomes an edge *)
(* to board it at each of its stops and a ride for any two of them.        *)
(*                                                                         *)
(* The stops and the buses are visited in the order of unordered_maps,     *)
(* which is any order.  Lengths are natural numbers, and times are in the  *)
(* time a bus takes for one unit of length, whatever the settings say of   *)
(* it: the velocity and the wait time may be zero or negative.             *)
(***************************************************************************)
EXTENDS BusManager, Timetable, DirectedWeightedGraph

CONSTANTS
  NoNumber,    \* std::nullopt of GetIndexFromStop
  NoGraph      \* std::nullopt of graph_

ASSUME NoNumberAssumption == NoNumber \notin Nat

ASSUME FiniteNamesAssumption == IsFiniteSet(StopName)

NodeType == {"WAIT", "BUS"}

VARIABLES
  pc,              \* how far InitializeRouter has come
  unvisited,       \* the stops, then the buses, the loop has still to visit
  current_node,
  index_,          \* the number of a stop's vertices
  reverse_index_,  \* the stop and the type of a vertex
  graph_

graphVars == <<pc, unvisited, current_node, index_, reverse_index_, graph_>>
managerVars == <<vars, graphVars>>

WeightWithSpan ==
  [time : Int \cup {NaN, Infinity}, span : Nat, route : BusName \cup {""}]

\* Type correctness of the indices and the graph: the numbers given out so far are
\* those with an entry in reverse_index_, and edges join vertices of the graph.
ManagerTypeOK ==
  /\ TypeOK
  /\ pc \in {"requests", "stops", "buses", "ready", "aborted", "thrown"}
  /\ unvisited \subseteq StopName \cup BusName
  /\ current_node \in Nat
  /\ index_ \in [StopName -> [NodeType -> Nat \cup {NoNumber}]]
  /\ reverse_index_ \in
       [0 .. current_node - 1 -> [name : StopName, type : NodeType]]
  /\ graph_ # NoGraph =>
       /\ graph_.vertex_count = current_node
       /\ \A id \in EdgeIds(graph_) :
            /\ graph_.edges[id].from \in Vertices(graph_)
            /\ graph_.edges[id].to \in Vertices(graph_)
            /\ graph_.edges[id].weight \in WeightWithSpan

ManagerInit ==
  /\ Init
  /\ pc = "requests"
  /\ unvisited = {}
  /\ current_node = 0
  /\ index_ = [s \in StopName |-> [t \in NodeType |-> NoNumber]]
  /\ reverse_index_ = << >>
  /\ graph_ = NoGraph

-----------------------------------------------------------------------------
Plus(x, y) == IF NaN \in {x, y} THEN NaN ELSE x + y

\* Faulty variant: of two partial sums, the earlier one first.
MinusSwapped(x, y) == IF NaN \in {x, y} THEN NaN ELSE y - x

\* Of two partial sums, the later one first: it is never the smaller one.
Minus(x, y) == IF NaN \in {x, y} THEN NaN ELSE x - y

\* Faulty variant: the distance is looked up for the way back.
RouteDistanceBack(start, finish) ==
  IF distances_[finish][start] # NoDist
    THEN distances_[finish][start]
    ELSE Haversine[place_[start]][place_[finish]]

RouteDistance(start, finish) ==
  IF distances_[start][finish] # NoDist
    THEN distances_[start][finish]
    ELSE Haversine[place_[start]][place_[finish]]

PartialSums(stops) ==
  LET sums[i \in DOMAIN stops] ==
        IF i = 1 THEN 0
                 ELSE Plus(sums[i - 1], RouteDistance(stops[i - 1], stops[i]))
  IN  sums

\* The edge from the i-th of the stops to the j-th, with the partial sums.
Ride(stops, sums, route, i, j) ==
  [from |-> index_[stops[i]]["BUS"],
   to |-> index_[stops[j]]["WAIT"],
   weight |-> [time |-> Over(Minus(sums[j], sums[i])), span |-> j - i, route |-> route]]

\* The edges AddEdgesHelper adds, in the order of its two loops; none for fewer
\* than two stops.
Rides(stops, route) ==
  LET sums == PartialSums(stops)
      rides[i \in 0 .. Len(stops)] ==
        IF i = 0
          THEN << >>
          ELSE rides[i - 1] \o [k \in 1 .. Len(stops) - i |->
                                  Ride(stops, sums, route, i, i + k)]
  IN  rides[Len(stops)]

Boardings(stops) ==
  [i \in DOMAIN stops |->
     [from |-> index_[stops[i]]["WAIT"],
      to |-> index_[stops[i]]["BUS"],
      weight |-> [time |-> wait_time_, span |-> 0, route |-> ""]]]

\* Faulty variant: a bus that only has one stop is not boarded there.
EdgesOfLongBus(r) ==
  IF Len(r.stops) < 2 THEN << >> ELSE
  Boardings(r.stops)
    \o Rides(r.stops, r.name)
    \o IF r.type = "Linear" THEN Rides(Reverse(r.stops), r.name) ELSE << >>

\* The edges one round of AddAllEdges adds, for the record of a bus.
EdgesOf(r) ==
  Boardings(r.stops)
    \o Rides(r.stops, r.name)
    \o IF r.type = "Linear" THEN Rides(Reverse(r.stops), r.name) ELSE << >>

-----------------------------------------------------------------------------
ProcessModifyRequest ==
  /\ pc = "requests"
  /\ Next
  /\ UNCHANGED graphVars

InitializeRouter ==
  /\ pc = "requests"
  /\ pc' = "stops"
  /\ unvisited' = stop_index_
  /\ UNCHANGED <<vars, current_node, index_, reverse_index_, graph_>>

\* Faulty variant: the counter moves on by one vertex for each stop.
NumberStopOnce(s) ==
  /\ pc = "stops"
  /\ s \in unvisited
  /\ unvisited' = unvisited \ {s}
  /\ index_' = [index_ EXCEPT ![s] = [WAIT |-> current_node,
                                      BUS |-> current_node + 1]]
  /\ reverse_index_' =
       [n \in 0 .. current_node |->
          IF n < current_node THEN reverse_index_[n]
                              ELSE [name |-> s, type |-> "WAIT"]]
  /\ current_node' = current_node + 1
  /\ UNCHANGED <<vars, pc, graph_>>

NumberStop(s) ==
  /\ pc = "stops"
  /\ s \in unvisited
  /\ unvisited' = unvisited \ {s}
  /\ index_' = [index_ EXCEPT ![s] = [WAIT |-> current_node,
                                      BUS |-> current_node + 1]]
  /\ reverse_index_' =
       [n \in 0 .. current_node + 1 |->
          IF n < current_node THEN reverse_index_[n]
          ELSE [name |-> s,
                type |-> IF n = current_node THEN "WAIT" ELSE "BUS"]]
  /\ current_node' = current_node + 2
  /\ UNCHANGED <<vars, pc, graph_>>

\* Without a stop there is no graph, and GetRouteGraph throws.
CreateGraph ==
  /\ pc = "stops"
  /\ unvisited = {}
  /\ IF current_node = 0
       THEN pc' = "thrown" /\ UNCHANGED <<unvisited, graph_>>
       ELSE /\ pc' = "buses"
            /\ unvisited' = {b \in BusName : bus_index_[b] # NoBus}
            /\ graph_' = EmptyGraph(current_node)
  /\ UNCHANGED <<vars, current_node, index_, reverse_index_>>

AddBusEdges(b) ==
  /\ pc = "buses"
  /\ b \in unvisited
  /\ unvisited' = unvisited \ {b}
  /\ graph_' = AddEdges(graph_, EdgesOf(bus_index_[b]))
  /\ UNCHANGED <<vars, pc, current_node, index_, reverse_index_>>

\* weight >= 0, which no comparison with a NaN is.
NotNegative(time) == time # NaN /\ (time = Infinity \/ time >= 0)

\* The graph is complete: GetRouteGraph gives it to the router's constructor,
\* which asserts this of every weight.
EmplaceRouter ==
  /\ pc = "buses"
  /\ unvisited = {}
  /\ pc' = IF \A id \in EdgeIds(graph_) : NotNegative(graph_.edges[id].weight.time)
             THEN "ready" ELSE "aborted"
  /\ UNCHANGED <<vars, unvisited, current_node, index_, reverse_index_, graph_>>

ManagerNext ==
  \/ ProcessModifyRequest
  \/ InitializeRouter
  \/ \E s \in StopName : NumberStop(s)
  \/ CreateGraph
  \/ \E b \in BusName : AddBusEdges(b)
  \/ EmplaceRouter

ManagerSpec == ManagerInit /\ [][ManagerNext]_managerVars

-----------------------------------------------------------------------------
GraphBuilt == pc \in {"ready", "aborted"}

EdgesFromTo(type, type2) ==
  {id \in EdgeIds(graph_) :
     /\ reverse_index_[graph_.edges[id].from].type = type
     /\ reverse_index_[graph_.edges[id].to].type = type2}

\* Whatever the order of the requests and of the loops, the edges from a vertex
\* on board are the rides the requests ask for: any two stops of a bus, in the
\* direction it travels, at the length of that stretch in that direction
\* (AddBus, AddStop, AddEdgesHelper), and no others.  Of buses with one name it
\* is the one in bus_index_.
RidesAreTheTimetable ==
  GraphBuilt /\ NoRepeatedStop =>
    {[from |-> reverse_index_[graph_.edges[id].from].name,
      to |-> reverse_index_[graph_.edges[id].to].name,
      weight |-> graph_.edges[id].weight] : id \in EdgesFromTo("BUS", "WAIT")}
    = Timetable({r \in done \cap AddBusRequest : bus_index_[r.name] = r})

\* A vertex on board is entered only by waiting at its own stop, where a bus
\* calls, and left only by a ride, so that no ride goes without its wait and
\* no wait is paid twice (AddAllEdges).
NoRideWithoutWaiting ==
  GraphBuilt =>
    /\ EdgesFromTo("BUS", "BUS") = {} /\ EdgesFromTo("WAIT", "WAIT") = {}
    /\ \A id \in EdgesFromTo("WAIT", "BUS") :
         LET edge == graph_.edges[id]
         IN  /\ reverse_index_[edge.from].name = reverse_index_[edge.to].name
             /\ edge.weight.time = wait_time_
    /\ {reverse_index_[graph_.edges[id].from].name :
          id \in EdgesFromTo("WAIT", "BUS")}
         = UNION {Route(r) : r \in {bus_index_[b] : b \in BusName} \ {NoBus}}

\* The two indices are each other's inverse, over all the vertices of all the
\* stops, whatever order the stops were numbered in (InitializeGraph): a vertex
\* of a route is always turned back into the stop it was made for.
IndicesAreInverse ==
  pc = "buses" \/ GraphBuilt =>
    /\ current_node = 2 * Cardinality(stop_index_)
    /\ \A s \in stop_index_, t \in NodeType :
         /\ index_[s][t] \in DOMAIN reverse_index_
         /\ reverse_index_[index_[s][t]] = [name |-> s, type |-> t]
    /\ \A s \in StopName \ stop_index_, t \in NodeType : index_[s][t] = NoNumber

-----------------------------------------------------------------------------
(***************************************************************************)
(* What the comments and an assertion of the code say.                     *)
(***************************************************************************)
\* StopsGraphManager.h: "Every stop is represented by the amount of nodes
\* equaling to nummer of routes going through it + 1".
NodeForEveryRoute ==
  GraphBuilt =>
    graph_.vertex_count =
      MapThenSumSet(LAMBDA s : Cardinality(buses_[s]) + 1, stop_index_)

\* StopsGraphManager.cpp, InitializeGraph: "No stops - we are done".
DoneWithoutStops == pc # "thrown"

\* router.h, InitializeRoutesInternalData: assert(edge.weight >= 0), of every
\* edge of a graph that InitializeGraph built.
WeightsNotNegative ==
  GraphBuilt =>
    \A id \in EdgeIds(graph_) : NotNegative(graph_.edges[id].weight.time)

-----------------------------------------------------------------------------
Buses == {b \in BusName : bus_index_[b] # NoBus}

SomeBusCalls == \E b \in Buses : Route(bus_index_[b]) # {}

StepTime(run, k) == Over(RouteDistance(run[k], run[k + 1]))

StepsNotNegative ==
  \A b \in Buses : \A run \in Runs(bus_index_[b]) : \A k \in 1 .. Len(run) - 1 :
    NotNegative(StepTime(run, k))

\* When that assertion holds, though AddEdgesHelper weighs a ride by the difference
\* of two partial sums: exactly if no bus has a step from one stop to the next
\* that takes a negative time or a NaN, and the wait time is not negative where a
\* bus calls. The settings have any sign (main.cpp).
AssertionHoldsExactlyIf ==
  GraphBuilt =>
    (WeightsNotNegative <=> (SomeBusCalls => wait_time_ >= 0) /\ StepsNotNegative)
=============================================================================
