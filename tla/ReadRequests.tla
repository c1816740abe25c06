---------------------------- MODULE ReadRequests ----------------------------
(***************************************************************************)
(* The read requests of FinalLogic (main.cpp), which are processed when    *)
(* InitializeRouter has returned: GetBusInfoRequest, GetStopInfoRequest    *)
(* and GetRouteInfoRequest (Command.cpp), BusManagerWithRouter::GetRoute   *)
(* with its cache (StopsGraphManager.cpp), and RouteInterpreter, which     *)
(* turns the edges of a route back into waits and rides.                   *)
(*                                                                         *)
(* The router is taken at its word (RouteFinder): BuildRoute gives one of  *)
(* the cheapest paths, if there are any, under a new id.                   *)
(***************************************************************************)
EXTENDS StopsGraphManager

CONSTANTS
  ReadRequest,  \* read requests of the input
  NotFound,     \* an answer with error_code_ kErrorNotFound
  MaxReads      \* bound: read requests in the input

ASSUME ReadRequestAssumption ==
  ReadRequest \subseteq [type : {"Bus"}, name : BusName]
                 \cup [type : {"Stop"}, name : StopName]
                 \cup [type : {"Route"}, from : StopName, to : StopName]

Duration == Nat \cup {Infinity}

Item ==
  [type : {"Wait"}, stop_name : StopName, time : {wait_time_}]
    \cup [type : {"Bus"}, bus : BusName, time : Duration, span_count : Nat]

\* An error is none of the answers there are to a bus, a stop or a route request.
ASSUME NotFoundAssumption ==
  /\ NotFound \notin [stop_count : Nat, unique_stop_count : Nat,
                      route_length : Length, geom_length : Length]
  /\ \A names \in SUBSET BusName : names # NotFound
  /\ NotFound \notin [items : Seq(Item), total_time : Duration]

VARIABLES
  route_cache_,            \* an optional is a set of one value or of none
  next_route_id_,          \* of router_
  expanded_routes_cache_,  \* of router_: the edges of the routes built
  answers                  \* the answers so far, with their requests

routeVars == <<route_cache_, next_route_id_, expanded_routes_cache_>>
readVars == <<managerVars, routeVars, answers>>

RouteInfo == [id : Nat, weight : Duration, edge_count : Nat]

\* Type correctness of the caches: a pair of stops has one RouteInfo at most, and
\* the ids below next_route_id_ are those the router holds edges for.
ReadTypeOK ==
  /\ pc \in {"requests", "stops", "buses", "ready", "aborted", "thrown",
            "undefined"}
  /\ DOMAIN route_cache_ \subseteq StopName \X StopName
  /\ \A pair \in DOMAIN route_cache_ :
       route_cache_[pair] \subseteq RouteInfo /\ Cardinality(route_cache_[pair]) <= 1
  /\ next_route_id_ \in Nat
  /\ DOMAIN expanded_routes_cache_ = 0 .. next_route_id_ - 1
  /\ \A n \in DOMAIN answers : answers[n].request \in ReadRequest

ReadInit ==
  /\ ManagerInit
  /\ route_cache_ = << >>
  /\ next_route_id_ = 0
  /\ expanded_routes_cache_ = << >>
  /\ answers = << >>

Reading(q) ==
  /\ pc = "ready"
  /\ Len(answers) < MaxReads
  /\ q \in ReadRequest

Reply(q, reply) == answers' = Append(answers, [request |-> q, reply |-> reply])

\* A string_view or an iterator is used that does not refer to anything.
Undefined ==
  /\ pc' = "undefined"
  /\ UNCHANGED <<vars, unvisited, current_node, index_, reverse_index_, graph_,
                 routeVars, answers>>

-----------------------------------------------------------------------------
(***************************************************************************)
(* GetBusInfoRequest and GetStopInfoRequest.                               *)
(***************************************************************************)
\* The loop that adds up the lengths from one stop to the next.
Added(lengths) ==
  LET sums[i \in 0 .. Len(lengths)] ==
        IF i = 0 THEN 0 ELSE Plus(sums[i - 1], lengths[i])
  IN  sums[Len(lengths)]

\* CalculateLength and CalculateRouteLength, which differ in what they take for
\* the distance of two stops: nothing for fewer than two stops.
CalculateLength(Distance(_, _), stops) ==
  Added([i \in 1 .. Len(stops) - 1 |-> Distance(stops[i], stops[i + 1])])

HaversineDistance(start, finish) == Haversine[place_[start]][place_[finish]]

GetGeomLength(r) ==
  LET length == CalculateLength(HaversineDistance, r.stops)
  IN  IF r.type = "Circular" THEN length ELSE Plus(length, length)

\* Faulty variant: the way back is taken to be as long as the way there.
GetRouteLengthTwice(r) ==
  LET length == CalculateLength(RouteDistance, r.stops)
  IN  IF r.type = "Circular" THEN length ELSE Plus(length, length)

GetRouteLength(r) ==
  IF r.type = "Circular"
    THEN CalculateLength(RouteDistance, r.stops)
    ELSE Plus(CalculateLength(RouteDistance, r.stops),
              CalculateLength(RouteDistance, Reverse(r.stops)))

GetStopsOnRoute(r) ==
  IF r.type = "Circular" THEN Len(r.stops)
  ELSE IF r.stops = << >> THEN 0 ELSE 2 * Len(r.stops) - 1

\* curvature_ is the quotient of the two lengths.
BusInfo(r) ==
  [stop_count |-> GetStopsOnRoute(r),
   unique_stop_count |-> Cardinality(Route(r)),
   route_length |-> GetRouteLength(r),
   geom_length |-> GetGeomLength(r)]

BusAnswer(b) ==
  IF bus_index_[b] = NoBus THEN NotFound ELSE BusInfo(bus_index_[b])

StopAnswer(s) ==
  IF s \notin stop_index_ THEN NotFound ELSE {v.name : v \in buses_[s]}

GetBusInfo(q) ==
  /\ Reading(q)
  /\ q.type = "Bus"
  /\ Reply(q, BusAnswer(q.name))
  /\ UNCHANGED <<managerVars, routeVars>>

GetStopInfo(q) ==
  /\ Reading(q)
  /\ q.type = "Stop"
  /\ IF q.name \in stop_index_ /\ Dangling(q.name)
       THEN Undefined
       ELSE /\ Reply(q, StopAnswer(q.name))
            /\ UNCHANGED <<managerVars, routeVars>>

-----------------------------------------------------------------------------
(***************************************************************************)
(* GetRouteInfoRequest.                                                    *)
(***************************************************************************)
\* A WeightWithSpan is compared, and added up to a route's, by its time.
TimeGraph(graph) ==
  [vertex_count |-> graph.vertex_count,
   edges |-> [id \in EdgeIds(graph) |->
                [graph.edges[id] EXCEPT !.weight = @.time]]]

\* The paths from a vertex that visit no vertex twice.
SimplePathsFrom(graph, from) ==
  LET visited(p) == {from} \cup {graph.edges[p[n]].to : n \in DOMAIN p}
      end(p) == IF p = << >> THEN from ELSE graph.edges[p[Len(p)]].to
      paths[n \in 0 .. graph.vertex_count] ==
        IF n = 0
          THEN {<< >>}
          ELSE UNION {{Append(p, id) :
                         id \in {e \in IncidentEdges(graph, end(p)) :
                                   graph.edges[e].to \notin visited(p)}} :
                      p \in paths[n - 1]}
  IN  UNION {paths[n] : n \in 0 .. graph.vertex_count}

\* The times of a path, added up.
PathTime(graph, path) ==
  IF \E n \in DOMAIN path : graph.edges[path[n]].weight.time = Infinity
    THEN Infinity ELSE PathWeight(TimeGraph(graph), path)

\* What Router::BuildRoute may leave in expanded_routes_cache_.
CheapestPaths(graph, from, to) ==
  LET paths == {p \in SimplePathsFrom(graph, from) : IsPath(graph, p, from, to)}
  IN  {p \in paths : \A q \in paths :
         NoLater(PathTime(graph, p), PathTime(graph, q))}

WaitItem(stop, weight) ==
  [type |-> "Wait", stop_name |-> stop, time |-> weight.time]

BusItem(weight) ==
  [type |-> "Bus", bus |-> weight.route, time |-> weight.time,
   span_count |-> weight.span]

GetItem(edge) ==
  LET stop == reverse_index_[edge.from]
  IN  IF stop.type = "WAIT" THEN WaitItem(stop.name, edge.weight)
                            ELSE BusItem(edge.weight)

\* RouteInterpreter::InterpretRoute, reading the route's edges from `expanded`.
InterpretRoute(info, expanded) ==
  [items |-> [n \in 1 .. info.edge_count |->
                GetItem(graph_.edges[expanded[info.id][n]])],
   total_time |-> info.weight]

RouteAnswer(maybe_info, expanded) ==
  IF maybe_info = {} THEN NotFound
  ELSE InterpretRoute(CHOOSE info \in maybe_info : TRUE, expanded)

GetCachedRoute(q) ==
  /\ Reading(q)
  /\ q.type = "Route"
  /\ <<q.from, q.to>> \in DOMAIN route_cache_
  /\ Reply(q, RouteAnswer(route_cache_[<<q.from, q.to>>], expanded_routes_cache_))
  /\ UNCHANGED <<managerVars, routeVars>>

IsKnown(s) == index_[s]["WAIT"] # NoNumber

Cache(q, maybe_info) ==
  route_cache_' = [pair \in DOMAIN route_cache_ \cup {<<q.from, q.to>>} |->
                     IF pair = <<q.from, q.to>> THEN maybe_info
                                                ELSE route_cache_[pair]]

NewRoute(q) ==
  /\ Reading(q)
  /\ q.type = "Route"
  /\ <<q.from, q.to>> \notin DOMAIN route_cache_

Paths(q) == CheapestPaths(graph_, index_[q.from]["WAIT"], index_[q.to]["WAIT"])

\* BuildNewRoute, when BuildRoute finds no route: this is cached, too.
FindNoRoute(q) ==
  /\ NewRoute(q)
  /\ IsKnown(q.from) /\ IsKnown(q.to)
  /\ Paths(q) = {}
  /\ Cache(q, {})
  /\ Reply(q, NotFound)
  /\ UNCHANGED <<managerVars, next_route_id_, expanded_routes_cache_>>

StoreRoute(q, path) ==
  LET info == [id |-> next_route_id_,
               weight |-> PathTime(graph_, path),
               edge_count |-> Len(path)]
  IN  /\ expanded_routes_cache_' =
           [id \in DOMAIN expanded_routes_cache_ \cup {info.id} |->
              IF id = info.id THEN path ELSE expanded_routes_cache_[id]]
      /\ Cache(q, {info})
      /\ Reply(q, RouteAnswer({info}, expanded_routes_cache_'))

\* Faulty variant: the next route gets the same id.
BuildNewRouteSameId(q) ==
  /\ NewRoute(q)
  /\ IsKnown(q.from) /\ IsKnown(q.to)
  /\ \E path \in Paths(q) : StoreRoute(q, path)
  /\ UNCHANGED <<managerVars, next_route_id_>>

BuildNewRoute(q) ==
  /\ NewRoute(q)
  /\ IsKnown(q.from) /\ IsKnown(q.to)
  /\ \E path \in Paths(q) : StoreRoute(q, path)
  /\ next_route_id_' = next_route_id_ + 1
  /\ UNCHANGED managerVars

\* BuildNewRoute, for a stop index_ does not hold: end() is dereferenced.
BuildUnknownRoute(q) ==
  /\ NewRoute(q)
  /\ ~ (IsKnown(q.from) /\ IsKnown(q.to))
  /\ Undefined

-----------------------------------------------------------------------------
Manage == ManagerNext /\ UNCHANGED <<routeVars, answers>>

Read(q) ==
  \/ GetBusInfo(q)
  \/ GetStopInfo(q)
  \/ GetCachedRoute(q)
  \/ FindNoRoute(q)
  \/ BuildNewRoute(q)
  \/ BuildUnknownRoute(q)

ReadNext == Manage \/ \E q \in ReadRequest : Read(q)

ReadSpec == ReadInit /\ [][ReadNext]_readVars

-----------------------------------------------------------------------------
Planner == INSTANCE TripPlanner WITH open <- pc \in {"ready", "undefined"}

\* The program answers as TripPlanner says: every answer follows from the base
\* requests, whatever their order, and a request gets the answer it got before.
PlansTrips == Planner!Spec

StandsForPath(pair, info) ==
  /\ info.id \in DOMAIN expanded_routes_cache_
  /\ IsPath(graph_, expanded_routes_cache_[info.id],
            index_[pair[1]]["WAIT"], index_[pair[2]]["WAIT"])
  /\ info.edge_count = Len(expanded_routes_cache_[info.id])

CachedAs(id) ==
  {pair \in DOMAIN route_cache_ : \E info \in route_cache_[pair] : info.id = id}

WasAsked(pair) ==
  \E n \in DOMAIN answers :
    answers[n].request = [type |-> "Route", from |-> pair[1], to |-> pair[2]]

\* Every RouteInfo in route_cache_ stands for a path between the two stops it
\* is cached for, and every route the router holds is cached for one question
\* only, which was asked (GetRoute never calls ReleaseRoute).
CachedRoutesAreHeld ==
  /\ \A pair \in DOMAIN route_cache_ :
       \A info \in route_cache_[pair] : StandsForPath(pair, info)
  /\ \A id \in DOMAIN expanded_routes_cache_ :
       \E pair \in DOMAIN route_cache_ : CachedAs(id) = {pair} /\ WasAsked(pair)

\* StopsGraphManager.cpp, BuildNewRoute: "we can get them from index here
\* without looking for records specifically".
StopsOfRoutesAreIndexed ==
  pc = "undefined" => \E s \in stop_index_ : Dangling(s)
=============================================================================
