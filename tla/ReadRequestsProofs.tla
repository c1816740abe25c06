------------------------- MODULE ReadRequestsProofs -------------------------
(***************************************************************************)
(* The read requests leave the catalogue alone, so that what is proved of  *)
(* BusManager holds while they are answered; and the routes in the cache   *)
(* are routes that the router holds.  Then what refinement needs: the      *)
(* edges of the built graph, its simple paths, that a pair in the cache    *)
(* has a cheapest path or none, and that every answer given is the one the *)
(* records and the caches hold for its request.                            *)
(***************************************************************************)
EXTENDS ReadRequests, StopsGraphManagerProofs, SequenceTheorems

\* Every behaviour of the program is one of the catalogue.
THEOREM ReadsKeepCatalogue == ReadSpec => Spec
<1>1. ReadInit => Init
  BY DEF ReadInit, ManagerInit
<1>2. [ManagerNext]_managerVars => [Next]_vars
  BY DEF ManagerNext, ProcessModifyRequest, InitializeRouter, NumberStop,
         CreateGraph, AddBusEdges, EmplaceRouter, managerVars
<1>3. ASSUME NEW q \in ReadRequest, Read(q)
      PROVE  UNCHANGED vars
  BY <1>3 DEF Read, GetBusInfo, GetStopInfo, GetCachedRoute, FindNoRoute,
              BuildNewRoute, BuildUnknownRoute, Undefined, managerVars
<1>4. [ReadNext]_readVars => [Next]_vars
  BY <1>2, <1>3 DEF ReadNext, Manage, readVars, managerVars
<1> QED
  BY <1>1, <1>4, PTL DEF ReadSpec, Spec

\* The distances that route lengths are added up from, while read requests are
\* answered, are those of the base requests.
THEOREM ReadsSeeDeclaredDistances == ReadSpec => []DeclaredDistancesWin
  BY ReadsKeepCatalogue, DeclaredDistancesWinAlways, PTL

-----------------------------------------------------------------------------
(***************************************************************************)
(* The caches.  There is nothing in them before the router is ready, and   *)
(* from then on the graph and the indices stay as they are.                *)
(***************************************************************************)
IsSeq(s) == s \in Seq({s[n] : n \in DOMAIN s})

LEMMA AppendGrows ==
  ASSUME NEW s, IsSeq(s), NEW x
  PROVE  /\ IsSeq(Append(s, x))
         /\ \A n \in DOMAIN s : n \in DOMAIN Append(s, x) /\ Append(s, x)[n] = s[n]
         /\ \E n \in DOMAIN Append(s, x) : Append(s, x)[n] = x
         /\ \A n \in DOMAIN Append(s, x) :
              Append(s, x)[n] = x \/ (n \in DOMAIN s /\ Append(s, x)[n] = s[n])
<1> DEFINE S == {s[n] : n \in DOMAIN s} \cup {x}
           t == Append(s, x)
<1>1. s \in Seq(S)
  BY SeqMonotonic DEF IsSeq
<1>2. /\ t \in Seq(S)
      /\ Len(t) = Len(s) + 1
      /\ \A n \in 1 .. Len(s) : t[n] = s[n]
      /\ t[Len(s) + 1] = x
  BY <1>1, AppendProperties
<1>3. DOMAIN s = 1 .. Len(s) /\ DOMAIN t = 1 .. Len(t) /\ Len(s) \in Nat
  BY <1>1, <1>2, LenProperties
<1>4. IsSeq(t)
  <2>1. t \in [1 .. Len(t) -> {t[n] : n \in DOMAIN t}]
    BY <1>2, <1>3, LenProperties
  <2> QED
    BY <2>1, <1>2, <1>3, SeqDef DEF IsSeq
<1>5. Len(s) + 1 \in DOMAIN t
  BY <1>2, <1>3
<1>6. \A n \in DOMAIN s : n \in DOMAIN t /\ t[n] = s[n]
  BY <1>2, <1>3
<1>7. \A n \in DOMAIN t : t[n] = x \/ (n \in DOMAIN s /\ t[n] = s[n])
  <2> TAKE n \in DOMAIN t
  <2>1. n \in DOMAIN s \/ n = Len(s) + 1
    BY <1>2, <1>3
  <2> QED
    BY <1>2, <1>6, <2>1
<1> QED
  BY <1>2, <1>4, <1>5, <1>6, <1>7

CacheInv ==
  /\ IsSeq(answers)
  /\ next_route_id_ \in Nat
  /\ DOMAIN expanded_routes_cache_ = 0 .. next_route_id_ - 1
  /\ pc \notin {"ready", "undefined"} =>
       DOMAIN route_cache_ = {} /\ next_route_id_ = 0
  /\ CachedRoutesAreHeld

LEMMA CacheInvInit == ReadInit => CacheInv
<1> SUFFICES ASSUME ReadInit PROVE CacheInv
  OBVIOUS
<1>1. IsSeq(answers)
  BY EmptySeq DEF ReadInit, IsSeq
<1>2. DOMAIN route_cache_ = {} /\ DOMAIN expanded_routes_cache_ = {}
  BY DEF ReadInit
<1> QED
  BY <1>1, <1>2 DEF ReadInit, CacheInv, CachedRoutesAreHeld

\* Where the caches stay as they are, and the answers only become more, what
\* CachedRoutesAreHeld reads must stay as it is, unless they are empty.
LEMMA CacheInvFrame ==
  ASSUME CacheInv,
         UNCHANGED routeVars,
         \/ UNCHANGED answers
         \/ \E x : answers' = Append(answers, x),
         pc' \notin {"ready", "undefined"} => pc \notin {"ready", "undefined"},
         pc \in {"ready", "undefined"} => UNCHANGED <<graph_, index_>>
  PROVE  CacheInv'
<1>1. /\ IsSeq(answers')
      /\ \A n \in DOMAIN answers : n \in DOMAIN answers' /\ answers'[n] = answers[n]
  <2>1. CASE UNCHANGED answers
    BY <2>1 DEF CacheInv
  <2>2. ASSUME NEW x, answers' = Append(answers, x)
        PROVE  /\ IsSeq(answers')
               /\ \A n \in DOMAIN answers :
                    n \in DOMAIN answers' /\ answers'[n] = answers[n]
    BY <2>2, AppendGrows DEF CacheInv
  <2> QED
    BY <2>1, <2>2
<1>2. CASE pc \in {"ready", "undefined"}
  <2>1. UNCHANGED <<route_cache_, expanded_routes_cache_, graph_, index_>>
    BY <1>2 DEF routeVars
  <2>2. \A pair : \A info : StandsForPath(pair, info)' = StandsForPath(pair, info)
    BY <2>1 DEF StandsForPath
  <2>3. \A pair : WasAsked(pair) => WasAsked(pair)'
    BY <1>1 DEF WasAsked
  <2>4. \A id : CachedAs(id)' = CachedAs(id)
    BY <2>1 DEF CachedAs
  <2>5. CachedRoutesAreHeld'
    BY <2>1, <2>2, <2>3, <2>4 DEF CacheInv, CachedRoutesAreHeld
  <2> QED
    BY <1>1, <1>2, <2>5 DEF CacheInv, routeVars
<1>3. CASE pc \notin {"ready", "undefined"}
  <2>1. DOMAIN route_cache_' = {} /\ DOMAIN expanded_routes_cache_' = {}
    BY <1>3 DEF CacheInv, routeVars
  <2>2. CachedRoutesAreHeld'
    BY <2>1 DEF CachedRoutesAreHeld
  <2> QED
    BY <1>1, <1>3, <2>2 DEF CacheInv, routeVars
<1> QED
  BY <1>2, <1>3

\* A question that is asked for the first time, answered with no route.
LEMMA CacheInvNoRoute ==
  ASSUME CacheInv, NEW q \in ReadRequest, FindNoRoute(q)
  PROVE  CacheInv'
<1> DEFINE new == <<q.from, q.to>>
<1>1. /\ pc = "ready" /\ new \notin DOMAIN route_cache_
      /\ UNCHANGED <<pc, graph_, index_, next_route_id_, expanded_routes_cache_>>
  BY DEF FindNoRoute, NewRoute, Reading, managerVars, graphVars
<1>2. /\ DOMAIN route_cache_' = DOMAIN route_cache_ \cup {new}
      /\ route_cache_'[new] = {}
      /\ \A pair \in DOMAIN route_cache_ : route_cache_'[pair] = route_cache_[pair]
  BY <1>1 DEF FindNoRoute, Cache
<1>3. /\ IsSeq(answers')
      /\ \A pair : WasAsked(pair) => WasAsked(pair)'
  BY AppendGrows DEF CacheInv, FindNoRoute, Reply, WasAsked
<1>4. \A pair, info : StandsForPath(pair, info)' = StandsForPath(pair, info)
  BY <1>1 DEF StandsForPath
<1>5. \A id : CachedAs(id)' = CachedAs(id)
  BY <1>2 DEF CachedAs
<1>6. CachedRoutesAreHeld'
  BY <1>1, <1>2, <1>3, <1>4, <1>5 DEF CacheInv, CachedRoutesAreHeld
<1> QED
  BY <1>1, <1>3, <1>6 DEF CacheInv

\* A route that is built gets an id that no entry has, and its path is held.
LEMMA CacheInvNewRoute ==
  ASSUME CacheInv, NEW q \in ReadRequest, BuildNewRoute(q)
  PROVE  CacheInv'
<1> DEFINE new == <<q.from, q.to>>
<1>1. /\ pc = "ready" /\ new \notin DOMAIN route_cache_ /\ q.type = "Route"
      /\ UNCHANGED <<pc, graph_, index_>>
      /\ next_route_id_' = next_route_id_ + 1
  BY DEF BuildNewRoute, NewRoute, Reading, managerVars, graphVars
<1>2. PICK path \in Paths(q) : StoreRoute(q, path)
  BY DEF BuildNewRoute
\* built and number are constants, which a prime leaves alone.
<1>b. PICK built : built = [id |-> next_route_id_,
                            weight |-> PathTime(graph_, path),
                            edge_count |-> Len(path)]
  OBVIOUS
<1>n. PICK number : number = next_route_id_
  OBVIOUS
<1>3. /\ DOMAIN route_cache_' = DOMAIN route_cache_ \cup {new}
      /\ route_cache_'[new] = {built}
      /\ \A pair \in DOMAIN route_cache_ : route_cache_'[pair] = route_cache_[pair]
  BY <1>1, <1>2, <1>b DEF StoreRoute, Cache
<1>4. /\ next_route_id_ \in Nat
      /\ next_route_id_ \notin DOMAIN expanded_routes_cache_
      /\ DOMAIN expanded_routes_cache_ = 0 .. next_route_id_ - 1
  BY DEF CacheInv
<1>5. /\ DOMAIN expanded_routes_cache_' =
           DOMAIN expanded_routes_cache_ \cup {next_route_id_}
      /\ expanded_routes_cache_'[next_route_id_] = path
      /\ \A id \in DOMAIN expanded_routes_cache_ :
           expanded_routes_cache_'[id] = expanded_routes_cache_[id]
  BY <1>2, <1>4 DEF StoreRoute
<1>6. DOMAIN expanded_routes_cache_' = 0 .. next_route_id_' - 1
  BY <1>1, <1>4, <1>5
<1>7. /\ IsSeq(answers')
      /\ \A pair : WasAsked(pair) => WasAsked(pair)'
      /\ WasAsked(new)'
  <2>1. PICK a : a.request = q /\ answers' = Append(answers, a)
    BY <1>2 DEF StoreRoute, Reply
  <2>2. q = [type |-> "Route", from |-> q.from, to |-> q.to]
    BY <1>1, ReadRequestAssumption
  <2>3. /\ IsSeq(answers')
        /\ \A n \in DOMAIN answers : n \in DOMAIN answers' /\ answers'[n] = answers[n]
        /\ \E n \in DOMAIN answers' : answers'[n] = a
    BY <2>1, AppendGrows DEF CacheInv
  <2> QED
    BY <2>1, <2>2, <2>3 DEF WasAsked
<1>8. \A pair \in DOMAIN route_cache_ : \A info \in route_cache_[pair] :
        StandsForPath(pair, info)'
  BY <1>1, <1>5 DEF CacheInv, CachedRoutesAreHeld, StandsForPath
<1>9. StandsForPath(new, built)'
  <2>1. IsPath(graph_, path, index_[q.from]["WAIT"], index_[q.to]["WAIT"])
    BY <1>2 DEF Paths, CheapestPaths
  <2> QED
    BY <2>1, <1>1, <1>5, <1>b DEF StandsForPath
<1>10. \A id \in DOMAIN expanded_routes_cache_ : CachedAs(id)' = CachedAs(id)
  BY <1>1, <1>3, <1>4, <1>b DEF CachedAs
<1>11. CachedAs(number)' = {new}
  <2>1. \A pair \in DOMAIN route_cache_ : \A info \in route_cache_[pair] :
          info.id # next_route_id_
    BY <1>4 DEF CacheInv, CachedRoutesAreHeld, StandsForPath
  <2> QED
    BY <2>1, <1>3, <1>b, <1>n DEF CachedAs
<1>12. CachedRoutesAreHeld'
  <2>1. \A pair \in DOMAIN route_cache_' :
          \A info \in route_cache_'[pair] : StandsForPath(pair, info)'
    BY <1>3, <1>8, <1>9
  <2>2. \A id \in DOMAIN expanded_routes_cache_' :
          \E pair \in DOMAIN route_cache_' :
            CachedAs(id)' = {pair} /\ WasAsked(pair)'
    BY <1>3, <1>5, <1>7, <1>10, <1>11, <1>n DEF CacheInv, CachedRoutesAreHeld
  <2> QED
    BY <2>1, <2>2 DEF CachedRoutesAreHeld
<1> QED
  BY <1>1, <1>4, <1>6, <1>7, <1>12 DEF CacheInv

LEMMA CacheInvRead ==
  ASSUME CacheInv, NEW q \in ReadRequest, Read(q)
  PROVE  CacheInv'
<1>1. CASE GetBusInfo(q)
  BY <1>1, CacheInvFrame DEF GetBusInfo, Reply, managerVars, graphVars
<1>2. CASE GetStopInfo(q)
  BY <1>2, CacheInvFrame DEF GetStopInfo, Reply, Undefined, managerVars, graphVars
<1>3. CASE GetCachedRoute(q)
  BY <1>3, CacheInvFrame DEF GetCachedRoute, Reply, managerVars, graphVars
<1>4. CASE FindNoRoute(q)
  BY <1>4, CacheInvNoRoute
<1>5. CASE BuildNewRoute(q)
  BY <1>5, CacheInvNewRoute
<1>6. CASE BuildUnknownRoute(q)
  BY <1>6, CacheInvFrame DEF BuildUnknownRoute, Undefined
<1> QED
  BY <1>1, <1>2, <1>3, <1>4, <1>5, <1>6 DEF Read

LEMMA CacheInvManage ==
  ASSUME CacheInv, ManagerNext, UNCHANGED <<routeVars, answers>>
  PROVE  CacheInv'
<1>1. pc \in {"requests", "stops", "buses"}
  BY DEF ManagerNext, ProcessModifyRequest, InitializeRouter, NumberStop,
         CreateGraph, AddBusEdges, EmplaceRouter
<1> QED
  BY <1>1, CacheInvFrame

\* Whatever is asked, as often as it is asked: a route in the cache stands for a
\* path the router holds, and a path the router holds is in the cache once.
THEOREM CachedRoutesAlwaysHeld == ReadSpec => []CachedRoutesAreHeld
<1>1. CacheInv /\ [ReadNext]_readVars => CacheInv'
  <2> SUFFICES ASSUME CacheInv, [ReadNext]_readVars PROVE CacheInv'
    OBVIOUS
  <2>1. CASE Manage
    BY <2>1, CacheInvManage DEF Manage
  <2>2. ASSUME NEW q \in ReadRequest, Read(q) PROVE CacheInv'
    BY <2>2, CacheInvRead
  <2>3. CASE UNCHANGED readVars
    BY <2>3, CacheInvFrame DEF readVars, managerVars, graphVars
  <2> QED
    BY <2>1, <2>2, <2>3 DEF ReadNext
<1>2. CacheInv => CachedRoutesAreHeld
  BY DEF CacheInv
<1> QED
  BY CacheInvInit, <1>1, <1>2, PTL DEF ReadSpec

-----------------------------------------------------------------------------
(***************************************************************************)
(* While read requests are answered the graph is the one InitializeRouter  *)
(* built.                                                                  *)
(***************************************************************************)
Managed == pc = "undefined" \/ (NumberInv /\ ManagerInv)

LEMMA ManagedKept ==
  ASSUME Managed, UNCHANGED managerVars
  PROVE  Managed'
<1>1. CASE pc = "undefined"
  BY <1>1 DEF Managed, managerVars, graphVars
<1>2. CASE NumberInv /\ ManagerInv
  <2>1. UNCHANGED <<stop_index_, bus_index_, place_, distances_>>
        /\ UNCHANGED <<pc, unvisited, current_node, index_, reverse_index_, graph_>>
    BY DEF managerVars, vars, catalogue, graphVars
  <2>2. Visited' = Visited
    BY <2>1 DEF Visited
  <2>3. NumberInv'
    BY <1>2, <2>1, <2>2 DEF NumberInv, Numbered, Unnumbered
  <2>4. GraphPart => GraphPart'
    BY <2>1, GraphPartKept DEF managerVars
  <2>5. ManagerInv'
    BY <1>2, <2>1, <2>4 DEF ManagerInv, Nodes, GraphBuilt, WeightsNotNegative
  <2> QED
    BY <2>3, <2>5 DEF Managed
<1> QED
  BY <1>1, <1>2 DEF Managed

LEMMA ManagedStep ==
  ASSUME TypeOK, IndexHoldsRequests, StopsKnownOnceMentioned, Managed, ManagerNext
  PROVE  Managed'
<1>1. pc # "undefined"
  BY DEF ManagerNext, ProcessModifyRequest, InitializeRouter, NumberStop,
         CreateGraph, AddBusEdges, EmplaceRouter
<1>2. NumberInv /\ ManagerInv
  BY <1>1 DEF Managed
<1> QED
  BY <1>2, NumberInvStep, ManagerInvStep DEF Managed

LEMMA ManagedRead ==
  ASSUME Managed, NEW q \in ReadRequest, Read(q)
  PROVE  Managed'
<1>1. UNCHANGED managerVars \/ pc' = "undefined"
  BY DEF Read, GetBusInfo, GetStopInfo, GetCachedRoute, FindNoRoute, BuildNewRoute,
         BuildUnknownRoute, Undefined
<1> QED
  BY <1>1, ManagedKept DEF Managed

\* What every state between the first base request and the last answer satisfies.
Sound ==
  /\ TypeOK /\ IndexHoldsRequests /\ StopsKnownOnceMentioned /\ DeclaredDistancesWin
  /\ Managed

LEMMA SoundInvariant == ReadSpec => []Sound
<1>1. ReadSpec => [](TypeOK /\ IndexHoldsRequests /\ StopsKnownOnceMentioned
                       /\ DeclaredDistancesWin)
  BY ReadsKeepCatalogue, TypeCorrect, IndexInvariant, StopsKnownAlways,
     DeclaredDistancesWinAlways, PTL
<1>2. ReadInit => Managed
  BY NumberInvInit, ManagerInvInit DEF ReadInit, Managed
<1>3. ASSUME TypeOK, IndexHoldsRequests, StopsKnownOnceMentioned, Managed,
             [ReadNext]_readVars
      PROVE  Managed'
  <2>1. CASE Manage
    BY <1>3, <2>1, ManagedStep DEF Manage
  <2>2. ASSUME NEW q \in ReadRequest, Read(q) PROVE Managed'
    BY <1>3, <2>2, ManagedRead
  <2>3. CASE UNCHANGED readVars
    BY <1>3, <2>3, ManagedKept DEF readVars
  <2> QED
    BY <1>3, <2>1, <2>2, <2>3 DEF ReadNext
<1> QED
  BY <1>1, <1>2, <1>3, PTL DEF ReadSpec, Sound

-----------------------------------------------------------------------------
(***************************************************************************)
(* The built graph: its vertices, and its edges by their ids.              *)
(***************************************************************************)
Waiting(s) == index_[s]["WAIT"]

OnBoard(s) == index_[s]["BUS"]

Time(id) == graph_.edges[id].weight.time

\* id is the wait at s, or a ride from s to t.
WaitEdge(id, s) == graph_.edges[id] = Boarding(s)

RideEdge(id, s, t) ==
  graph_.edges[id].from = OnBoard(s) /\ graph_.edges[id].to = Waiting(t)

LEMMA BuiltVertices ==
  ASSUME Sound, pc = "ready"
  PROVE  /\ current_node \in Nat
         /\ current_node = 2 * Cardinality(stop_index_)
         /\ graph_.vertex_count = current_node
         /\ Vertices(graph_) = Nodes
         /\ graph_.edges \in Seq(Edges)
         /\ EdgeIds(graph_) = DOMAIN graph_.edges
         /\ \A s \in stop_index_ : Waiting(s) \in Nodes /\ OnBoard(s) \in Nodes
         /\ \A s \in stop_index_ : /\ reverse_index_[Waiting(s)] = AtStop(s, "WAIT")
                                   /\ reverse_index_[OnBoard(s)] = AtStop(s, "BUS")
<1>1. TypeOK /\ NumberInv /\ ManagerInv
  BY DEF Sound, Managed
<1>2. GraphPart
  BY <1>1 DEF ManagerInv
<1>3. current_node \in Nat
  BY <1>1, CountIsNat
<1>4. graph_.vertex_count = current_node /\ Vertices(graph_) = Nodes
  BY <1>2 DEF GraphPart, Vertices, Nodes
<1>5. \A s \in stop_index_, t \in NodeType :
        index_[s][t] \in Nodes /\ reverse_index_[index_[s][t]] = AtStop(s, t)
  BY <1>1 DEF NumberInv, Visited, Numbered, TypeOK, AtStop, Nodes
<1>6. current_node = 2 * Cardinality(stop_index_)
  BY <1>1 DEF NumberInv, Visited
<1> QED
  BY <1>2, <1>3, <1>4, <1>5, <1>6 DEF GraphPart, EdgeIds, NodeType, Waiting, OnBoard

LEMMA BuiltEdges ==
  ASSUME Sound, pc = "ready", NEW id \in EdgeIds(graph_)
  PROVE  /\ graph_.edges[id] \in Edges
         /\ \/ \E s \in stop_index_ : WaitEdge(id, s)
            \/ \E s, t \in stop_index_ : RideEdge(id, s, t)
<1>1. /\ TypeOK /\ NumberInv /\ ManagerInv /\ IndexHoldsRequests
      /\ StopsKnownOnceMentioned /\ GraphBuilt
  BY DEF Sound, Managed, GraphBuilt
<1>2. graph_.edges[id] \in Edges
  BY BuiltVertices
<1> DEFINE e == graph_.edges[id]
<1>3. PICK b \in Buses : IsWait(e, bus_index_[b]) \/ IsRide(e, bus_index_[b])
  <2>1. e \in Elements(graph_.edges)
    BY DEF Elements, EdgeIds
  <2> QED
    BY <1>1, <2>1, BuiltGraph
<1>4. bus_index_[b].stops \in Seq(stop_index_)
  BY <1>1, BusesAreKnown
<1> HIDE DEF e
<1>5. CASE IsWait(e, bus_index_[b])
  <2>1. PICK s \in Route(bus_index_[b]) : e = Boarding(s)
    BY <1>5 DEF IsWait
  <2>2. s \in stop_index_
    BY <1>4 DEF Route
  <2> QED
    BY <1>2, <2>1, <2>2 DEF WaitEdge, e
<1>6. CASE IsRide(e, bus_index_[b])
  <2>1. PICK run \in Runs(bus_index_[b]) : \E p \in Pairs(Len(run)) :
          e = Ride(run, PartialSums(run), bus_index_[b].name, p[1], p[2])
    BY <1>6 DEF IsRide
  <2>2. PICK p \in Pairs(Len(run)) :
          e = Ride(run, PartialSums(run), bus_index_[b].name, p[1], p[2])
    BY <2>1
  <2>3. run \in Seq(stop_index_) /\ Len(run) \in Nat
    BY <1>4, RunsFacts
  <2>4. p[1] \in 1 .. Len(run) /\ p[2] \in 1 .. Len(run)
    BY <2>3, PairsFacts
  <2>5. run[p[1]] \in stop_index_ /\ run[p[2]] \in stop_index_
    BY <2>3, <2>4
  <2>6. e.from = OnBoard(run[p[1]]) /\ e.to = Waiting(run[p[2]])
    BY <2>2 DEF Ride, OnBoard, Waiting
  <2>7. RideEdge(id, run[p[1]], run[p[2]])
    BY <2>6 DEF RideEdge, e
  <2> QED
    BY <1>2, <2>5, <2>7
<1> QED
  BY <1>3, <1>5, <1>6

\* The same for the graph with the times alone as weights.
LEMMA TimesOfGraph ==
  ASSUME Sound, pc = "ready"
  PROVE  /\ EdgeIds(TimeGraph(graph_)) = EdgeIds(graph_)
         /\ \A id \in EdgeIds(graph_) :
              /\ Time(id) \in Duration
              /\ TimeGraph(graph_).edges[id].weight = Time(id)
<1>1. WeightsNotNegative
  BY DEF Sound, Managed, ManagerInv
<1>2. EdgeIds(TimeGraph(graph_)) = EdgeIds(graph_)
  BY DEF TimeGraph, EdgeIds
<1>3. ASSUME NEW id \in EdgeIds(graph_)
      PROVE  /\ Time(id) \in Duration
             /\ TimeGraph(graph_).edges[id].weight = Time(id)
  <2>1. graph_.edges[id] \in Edges
    BY BuiltEdges
  <2>2. Time(id) \in Int \cup {NaN, Infinity}
    BY <2>1 DEF Edges, WeightWithSpan, Time
  <2>3. NotNegative(Time(id))
    BY <1>1 DEF WeightsNotNegative, GraphBuilt, Time
  <2>4. TimeGraph(graph_).edges[id] = [graph_.edges[id] EXCEPT !.weight = Time(id)]
    BY DEF TimeGraph, Time
  <2>5. \A e \in Edges : \A x : [e EXCEPT !.weight = x].weight = x
    BY DEF Edges
  <2>6. TimeGraph(graph_).edges[id].weight = Time(id)
    BY <2>1, <2>4, <2>5
  <2> QED
    BY <2>1, <2>2, <2>3, <2>6 DEF NotNegative, Duration
<1> QED
  BY <1>2, <1>3

-----------------------------------------------------------------------------
(***************************************************************************)
(* The paths that visit no vertex twice, edge by edge.                     *)
(***************************************************************************)
VisitedBy(from, p) == {from} \cup {graph_.edges[p[n]].to : n \in DOMAIN p}

EndOf(from, p) == IF p = << >> THEN from ELSE graph_.edges[p[Len(p)]].to

LongerPaths(from, P) ==
  UNION {{Append(p, id) :
            id \in {e \in IncidentEdges(graph_, EndOf(from, p)) :
                      graph_.edges[e].to \notin VisitedBy(from, p)}} :
         p \in P}

PathRows(P, from) ==
  /\ P[0] = {<< >>}
  /\ \A n \in 1 .. graph_.vertex_count : P[n] = LongerPaths(from, P[n - 1])
  /\ SimplePathsFrom(graph_, from) = UNION {P[n] : n \in 0 .. graph_.vertex_count}

LEMMA PathRowsExist ==
  ASSUME graph_.vertex_count \in Nat, NEW from
  PROVE  \E P : PathRows(P, from)
<1> DEFINE vc == graph_.vertex_count
           A == SUBSET Seq(EdgeIds(graph_))
           op == [n \in 1 .. vc |-> [X \in A |-> LongerPaths(from, X)]]
           Built(f) == f = [n \in 0 .. vc |->
                              IF n = 0 THEN {<< >>} ELSE LongerPaths(from, f[n - 1])]
           paths == CHOOSE f : Built(f)
<1>1. SimplePathsFrom(graph_, from) = UNION {paths[n] : n \in 0 .. vc}
  BY DEF SimplePathsFrom, LongerPaths, EndOf, VisitedBy
<1>2. \A X \in A : LongerPaths(from, X) \in A
  BY DEF LongerPaths, IncidentEdges
<1>3. \A n \in 1 .. vc : \A X \in A : op[n][X] = LongerPaths(from, X)
  OBVIOUS
<1> HIDE DEF op
<1>4. StepsWithin(op, A, 0, vc)
  BY <1>2, <1>3 DEF StepsWithin
<1>5. {<< >>} \in A
  OBVIOUS
<1> HIDE DEF A
<1>6. PICK f \in [0 .. vc -> A] : Stepwise(f, {<< >>}, op, 0, vc)
  BY <1>4, <1>5, Recursion
<1>7. Built(f)
  <2>1. \A n \in 0 .. vc : n # 0 => n \in 0 + 1 .. vc /\ n \in 1 .. vc /\ n - 1 \in 0 .. vc
    OBVIOUS
  <2>2. \A n \in 0 .. vc : f[n] = IF n = 0 THEN {<< >>} ELSE LongerPaths(from, f[n - 1])
    BY <1>3, <1>6, <2>1 DEF Stepwise
  <2> QED
    BY <1>6, <2>2
<1>8. Built(paths)
  BY <1>7
<1> HIDE DEF paths
<1>9. paths[0] = {<< >>} /\ \A n \in 1 .. vc : paths[n] = LongerPaths(from, paths[n - 1])
  <2>1. \A n \in 1 .. vc : n \in 0 .. vc /\ n # 0
    OBVIOUS
  <2>2. 0 \in 0 .. vc
    OBVIOUS
  <2>3. paths[0] = {<< >>}
    BY <1>8, <2>2
  <2>4. ASSUME NEW n \in 1 .. vc PROVE paths[n] = LongerPaths(from, paths[n - 1])
    BY <1>8, <2>1
  <2> QED
    BY <2>3, <2>4
<1> QED
  BY <1>1, <1>9 DEF PathRows

GoodPath(from, n, p) ==
  /\ p \in Seq(EdgeIds(graph_)) /\ Len(p) = n
  /\ VisitedBy(from, p) \subseteq Nodes
  /\ Cardinality(VisitedBy(from, p)) = n + 1
  /\ EndOf(from, p) \in VisitedBy(from, p)
  /\ IsPath(graph_, p, from, EndOf(from, p))

LEMMA EmptyPath ==
  ASSUME NEW from \in Nodes
  PROVE  /\ GoodPath(from, 0, << >>)
         /\ EndOf(from, << >>) = from
         /\ VisitedBy(from, << >>) = {from}
<1>1. EndOf(from, << >>) = from
  BY DEF EndOf
<1>2. VisitedBy(from, << >>) = {from}
  BY DEF VisitedBy
<1>3. Cardinality({from}) = 0 + 1
  BY FS_Singleton
<1>4. IsPath(graph_, << >>, from, from)
  BY DEF IsPath
<1>5. << >> \in Seq(EdgeIds(graph_)) /\ Len(<< >>) = 0
  OBVIOUS
<1> QED
  BY <1>1, <1>2, <1>3, <1>4, <1>5, Zenon DEF GoodPath

LEMMA NodesFinite ==
  ASSUME current_node \in Nat
  PROVE  IsFiniteSet(Nodes) /\ Cardinality(Nodes) = current_node
BY FS_Interval DEF Nodes

LEMMA LongerPath ==
  ASSUME Sound, pc = "ready", NEW from \in Nodes, NEW n \in Nat, NEW p,
         GoodPath(from, n, p), NEW id \in IncidentEdges(graph_, EndOf(from, p)),
         graph_.edges[id].to \notin VisitedBy(from, p)
  PROVE  /\ GoodPath(from, n + 1, Append(p, id))
         /\ EndOf(from, Append(p, id)) = graph_.edges[id].to
         /\ VisitedBy(from, Append(p, id)) = VisitedBy(from, p) \cup {graph_.edges[id].to}
         /\ n + 1 < graph_.vertex_count
<1> DEFINE q == Append(p, id)
           to == graph_.edges[id].to
<1>1. /\ id \in EdgeIds(graph_) /\ graph_.edges[id].from = EndOf(from, p)
      /\ to \in Nodes
  <2>1. id \in EdgeIds(graph_) /\ graph_.edges[id].from = EndOf(from, p)
    BY DEF IncidentEdges
  <2>2. graph_.edges[id] \in Edges
    BY <2>1, BuiltEdges
  <2> QED
    BY <2>1, <2>2 DEF Edges
<1>2. p \in Seq(EdgeIds(graph_)) /\ Len(p) = n /\ DOMAIN p = 1 .. n
  BY DEF GoodPath
<1>3. /\ q \in Seq(EdgeIds(graph_)) /\ Len(q) = n + 1 /\ DOMAIN q = 1 .. n + 1
      /\ q[n + 1] = id /\ \A k \in 1 .. n : q[k] = p[k]
      /\ q # << >>
  BY <1>1, <1>2
<1> HIDE DEF q
<1>4. EndOf(from, q) = to
  BY <1>3 DEF EndOf
<1>5. VisitedBy(from, q) = VisitedBy(from, p) \cup {to}
  <2>1. {graph_.edges[q[k]].to : k \in 1 .. n + 1}
          = {graph_.edges[p[k]].to : k \in 1 .. n} \cup {to}
    <3>1. \A k \in 1 .. n + 1 : k \in 1 .. n \/ k = n + 1
      OBVIOUS
    <3>2. n + 1 \in 1 .. n + 1 /\ \A k \in 1 .. n : k \in 1 .. n + 1
      OBVIOUS
    <3> QED
      BY <1>3, <3>1, <3>2
  <2> QED
    BY <1>2, <1>3, <2>1 DEF VisitedBy
<1>6. /\ VisitedBy(from, q) \subseteq Nodes
      /\ IsFiniteSet(VisitedBy(from, p))
      /\ Cardinality(VisitedBy(from, q)) = n + 1 + 1
      /\ n + 1 < graph_.vertex_count
  <2>1. VisitedBy(from, p) \subseteq Nodes /\ Cardinality(VisitedBy(from, p)) = n + 1
    BY DEF GoodPath
  <2>2. current_node \in Nat /\ graph_.vertex_count = current_node
    BY BuiltVertices
  <2>3. IsFiniteSet(Nodes) /\ Cardinality(Nodes) = current_node
    BY <2>2, NodesFinite
  <2>4. IsFiniteSet(VisitedBy(from, p))
    BY <2>1, <2>3, FS_Subset
  <2>5. Cardinality(VisitedBy(from, q)) = n + 1 + 1
    <3> DEFINE V == VisitedBy(from, p)
    <3>1. Cardinality(V \cup {to}) = Cardinality(V) + 1
      BY <2>4, FS_AddElement
    <3> QED
      BY <1>5, <2>1, <3>1
  <2>6. VisitedBy(from, q) \subseteq Nodes
    BY <1>1, <1>5, <2>1
  <2>7. Cardinality(VisitedBy(from, q)) <= Cardinality(Nodes)
    BY <2>3, <2>6, FS_Subset
  <2> QED
    BY <2>2, <2>3, <2>4, <2>5, <2>6, <2>7
<1>7. IsPath(graph_, q, from, to)
  <2>1. IsPath(graph_, p, from, EndOf(from, p))
    BY DEF GoodPath
  <2>2. \A k \in DOMAIN q : q[k] \in EdgeIds(graph_)
    BY <1>3
  <2>3. \A k \in 1 .. Len(q) - 1 : graph_.edges[q[k]].to = graph_.edges[q[k + 1]].from
    <3> TAKE k \in 1 .. Len(q) - 1
    <3>1. CASE k = n
      <4>1. n \in 1 .. n /\ p # << >>
        BY <1>2, <1>3, <3>1
      <4> QED
        BY <1>1, <1>2, <1>3, <3>1, <4>1 DEF EndOf
    <3>2. CASE k # n
      <4>1. k \in 1 .. Len(p) - 1 /\ k \in 1 .. n /\ k + 1 \in 1 .. n
        BY <1>2, <1>3, <3>2
      <4> QED
        BY <1>3, <2>1, <4>1 DEF IsPath
    <3> QED
      BY <3>1, <3>2
  <2>4. graph_.edges[q[1]].from = from
    <3>1. CASE n = 0
      <4>1. p = << >>
        BY <1>2, <3>1
      <4> QED
        BY <1>1, <1>3, <3>1, <4>1 DEF EndOf
    <3>2. CASE n # 0
      <4>1. p # << >> /\ 1 \in 1 .. n
        BY <1>2, <3>2
      <4> QED
        BY <1>3, <2>1, <4>1 DEF IsPath
    <3> QED
      BY <3>1, <3>2
  <2>5. graph_.edges[q[Len(q)]].to = to
    BY <1>3
  <2> QED
    BY <1>3, <2>2, <2>3, <2>4, <2>5 DEF IsPath
<1> QED
  BY <1>3, <1>4, <1>5, <1>6, <1>7 DEF GoodPath, q

LEMMA GoodRows ==
  ASSUME Sound, pc = "ready", NEW from \in Nodes, NEW P, PathRows(P, from)
  PROVE  \A n \in 0 .. graph_.vertex_count : \A p \in P[n] : GoodPath(from, n, p)
<1> DEFINE S == {n \in Nat : n <= graph_.vertex_count =>
                   \A p \in P[n] : GoodPath(from, n, p)}
<1>1. 0 \in S
  <2>1. P[0] = {<< >>}
    BY DEF PathRows
  <2> QED
    BY <2>1, EmptyPath
<1>2. ASSUME NEW n \in Nat, n \in S
      PROVE  n + 1 \in S
  <2> SUFFICES ASSUME n + 1 <= graph_.vertex_count, NEW q \in P[n + 1]
               PROVE  GoodPath(from, n + 1, q)
    OBVIOUS
  <2>1. graph_.vertex_count \in Nat
    BY BuiltVertices
  <2>2. n + 1 \in 1 .. graph_.vertex_count /\ n <= graph_.vertex_count /\ n + 1 - 1 = n
    BY <2>1
  <2>3. P[n + 1] = LongerPaths(from, P[n])
    BY <2>2 DEF PathRows
  <2>4. PICK p \in P[n], id \in EdgeIds(graph_) :
          /\ id \in IncidentEdges(graph_, EndOf(from, p))
          /\ graph_.edges[id].to \notin VisitedBy(from, p) /\ q = Append(p, id)
    BY <2>3 DEF LongerPaths, IncidentEdges
  <2>5. GoodPath(from, n, p)
    BY <1>2, <2>2
  <2> QED
    BY <2>4, <2>5, LongerPath
<1> HIDE DEF S
<1>3. Nat \subseteq S
  BY <1>1, <1>2, StepByStep
<1>4. graph_.vertex_count \in Nat
  BY BuiltVertices
<1> QED
  BY <1>3, <1>4 DEF S

\* What holds of the path without edges, and of a path with an edge more if it
\* holds of the path, holds of all of them.
LEMMA SimplePathsInduct ==
  ASSUME Sound, pc = "ready", NEW from \in Nodes, NEW S,
         << >> \in S,
         \A p \in S, id \in EdgeIds(graph_) :
           /\ GoodPath(from, Len(p), p)
           /\ id \in IncidentEdges(graph_, EndOf(from, p))
           /\ graph_.edges[id].to \notin VisitedBy(from, p)
           => Append(p, id) \in S
  PROVE  SimplePathsFrom(graph_, from) \subseteq S
<1>0. graph_.vertex_count \in Nat
  BY BuiltVertices
<1>1. PICK P : PathRows(P, from)
  BY <1>0, PathRowsExist
<1> DEFINE R == {n \in Nat : n <= graph_.vertex_count => P[n] \subseteq S}
<1>2. 0 \in R
  BY <1>1 DEF PathRows
<1>3. ASSUME NEW n \in Nat, n \in R
      PROVE  n + 1 \in R
  <2> SUFFICES ASSUME n + 1 <= graph_.vertex_count, NEW q \in P[n + 1]
               PROVE  q \in S
    OBVIOUS
  <2>2. /\ n + 1 \in 1 .. graph_.vertex_count /\ n \in 0 .. graph_.vertex_count
        /\ n + 1 - 1 = n /\ n <= graph_.vertex_count
    BY <1>0
  <2>3. P[n + 1] = LongerPaths(from, P[n])
    BY <1>1, <2>2 DEF PathRows
  <2>4. PICK p \in P[n], id \in EdgeIds(graph_) :
          /\ id \in IncidentEdges(graph_, EndOf(from, p))
          /\ graph_.edges[id].to \notin VisitedBy(from, p) /\ q = Append(p, id)
    BY <2>3 DEF LongerPaths, IncidentEdges
  <2>5. GoodPath(from, n, p)
    BY <1>1, <2>2, GoodRows
  <2>6. GoodPath(from, Len(p), p)
    BY <2>5 DEF GoodPath
  <2>7. p \in S /\ id \in EdgeIds(graph_)
    BY <1>3, <2>2, <2>4 DEF IncidentEdges
  <2> QED
    BY <2>4, <2>6, <2>7
<1> HIDE DEF R
<1>4. Nat \subseteq R
  BY <1>2, <1>3, StepByStep
<1>5. \A n \in 0 .. graph_.vertex_count : P[n] \subseteq S
  BY <1>0, <1>4 DEF R
<1> QED
  BY <1>1, <1>5 DEF PathRows

LEMMA SimplePaths ==
  ASSUME Sound, pc = "ready", NEW from \in Nodes
  PROVE  /\ << >> \in SimplePathsFrom(graph_, from)
         /\ \A p \in SimplePathsFrom(graph_, from) :
              /\ p \in Seq(EdgeIds(graph_)) /\ Len(p) < graph_.vertex_count
              /\ GoodPath(from, Len(p), p)
              /\ \A id \in IncidentEdges(graph_, EndOf(from, p)) :
                   graph_.edges[id].to \notin VisitedBy(from, p)
                     => Append(p, id) \in SimplePathsFrom(graph_, from)
<1>0. graph_.vertex_count \in Nat /\ Vertices(graph_) = Nodes
  BY BuiltVertices
<1>1. PICK P : PathRows(P, from)
  BY <1>0, PathRowsExist
<1>2. << >> \in SimplePathsFrom(graph_, from)
  BY <1>0, <1>1 DEF PathRows
<1>3. ASSUME NEW p \in SimplePathsFrom(graph_, from)
      PROVE  /\ p \in Seq(EdgeIds(graph_)) /\ Len(p) < graph_.vertex_count
             /\ GoodPath(from, Len(p), p)
             /\ \A id \in IncidentEdges(graph_, EndOf(from, p)) :
                  graph_.edges[id].to \notin VisitedBy(from, p)
                    => Append(p, id) \in SimplePathsFrom(graph_, from)
  <2>1. PICK n \in 0 .. graph_.vertex_count : p \in P[n]
    BY <1>1 DEF PathRows
  <2>2. GoodPath(from, n, p) /\ n \in Nat
    BY <1>1, <2>1, GoodRows
  <2>3. p \in Seq(EdgeIds(graph_)) /\ Len(p) = n /\ GoodPath(from, Len(p), p)
    BY <2>2 DEF GoodPath
  <2>4. n < graph_.vertex_count
    <3>1. IsFiniteSet(Nodes) /\ Cardinality(Nodes) = graph_.vertex_count
      BY BuiltVertices, NodesFinite
    <3>2. Cardinality(VisitedBy(from, p)) = n + 1 /\ VisitedBy(from, p) \subseteq Nodes
      BY <2>2 DEF GoodPath
    <3>3. Cardinality(VisitedBy(from, p)) <= Cardinality(Nodes)
      BY <3>1, <3>2, FS_Subset
    <3> QED
      BY <1>0, <3>1, <3>2, <3>3
  <2>5. ASSUME NEW id \in IncidentEdges(graph_, EndOf(from, p)),
               graph_.edges[id].to \notin VisitedBy(from, p)
        PROVE  Append(p, id) \in SimplePathsFrom(graph_, from)
    <3>1. n + 1 \in 1 .. graph_.vertex_count /\ n + 1 - 1 = n
          /\ n + 1 \in 0 .. graph_.vertex_count
      BY <1>0, <2>4
    <3>2. P[n + 1] = LongerPaths(from, P[n])
      BY <1>1, <3>1 DEF PathRows
    <3>3. Append(p, id) \in LongerPaths(from, P[n])
      BY <2>1, <2>5 DEF LongerPaths
    <3> QED
      BY <1>1, <3>1, <3>2, <3>3 DEF PathRows
  <2> QED
    BY <2>3, <2>4, <2>5
<1> QED
  BY <1>2, <1>3

\* The edges of a path cost a number each, and so does the path, unless a bus on
\* it arrives nowhere.
LEMMA PathTimeFacts ==
  ASSUME Sound, pc = "ready", NEW p \in Seq(EdgeIds(graph_))
  PROVE  PathTime(graph_, p) \in Duration
<1>1. \A n \in 1 .. Len(p) : p[n] \in EdgeIds(graph_)
  OBVIOUS
<1>2. Len(p) \in Nat /\ DOMAIN p = 1 .. Len(p)
  OBVIOUS
<1>3. CASE \E n \in DOMAIN p : Time(p[n]) = Infinity
  BY <1>3 DEF PathTime, Time, Duration
<1>4. CASE ~ \E n \in DOMAIN p : Time(p[n]) = Infinity
  <2>1. PathTime(graph_, p) = PathWeight(TimeGraph(graph_), p)
    BY <1>4 DEF PathTime, Time
  <2>2. \A n \in 1 .. Len(p) : TimeGraph(graph_).edges[p[n]].weight \in Nat
    <3> TAKE n \in 1 .. Len(p)
    <3>1. /\ TimeGraph(graph_).edges[p[n]].weight = Time(p[n])
          /\ Time(p[n]) \in Duration /\ Time(p[n]) # Infinity
      BY <1>1, <1>2, <1>4, TimesOfGraph
    <3> QED
      BY <3>1 DEF Duration
  <2>3. PathWeight(TimeGraph(graph_), p) \in Nat
    BY <1>2, <2>2, PathWeightNat
  <2> QED
    BY <2>1, <2>3 DEF Duration
<1> QED
  BY <1>3, <1>4

\* An edge more is its time more.
LEMMA PathTimeLast ==
  ASSUME Sound, pc = "ready", NEW p \in Seq(EdgeIds(graph_)), NEW id \in EdgeIds(graph_)
  PROVE  PathTime(graph_, Append(p, id)) = Later(PathTime(graph_, p), Time(id))
<1> DEFINE longer == Append(p, id)
           n == Len(p)
<1>1. /\ n \in Nat /\ DOMAIN p = 1 .. n /\ DOMAIN longer = 1 .. n + 1
      /\ longer[n + 1] = id /\ \A k \in 1 .. n : longer[k] = p[k] /\ p[k] \in EdgeIds(graph_)
  OBVIOUS
<1> HIDE DEF longer, n
<1>2. CASE \E k \in DOMAIN p : Time(p[k]) = Infinity
  <2>1. \E k \in DOMAIN longer : Time(longer[k]) = Infinity
    <3>1. PICK k \in 1 .. n : Time(p[k]) = Infinity
      BY <1>1, <1>2
    <3>2. k \in 1 .. n + 1 /\ Time(longer[k]) = Infinity
      BY <1>1, <3>1
    <3> QED
      BY <1>1, <3>2
  <2>2. PathTime(graph_, p) = Infinity /\ PathTime(graph_, longer) = Infinity
    BY <1>2, <2>1 DEF PathTime, Time
  <2> QED
    BY <2>2 DEF Later, longer
<1>3. CASE Time(id) = Infinity
  <2>1. n + 1 \in DOMAIN longer /\ Time(longer[n + 1]) = Infinity
    BY <1>1, <1>3
  <2>2. PathTime(graph_, longer) = Infinity
    BY <2>1 DEF PathTime, Time
  <2> QED
    BY <1>3, <2>2 DEF Later, longer
<1>4. CASE Time(id) # Infinity /\ ~ \E k \in DOMAIN p : Time(p[k]) = Infinity
  <2>1. ~ \E k \in DOMAIN longer : Time(longer[k]) = Infinity
    <3> SUFFICES ASSUME NEW k \in 1 .. n + 1 PROVE Time(longer[k]) # Infinity
      BY <1>1
    <3>1. CASE k = n + 1
      BY <1>1, <1>4, <3>1
    <3>2. CASE k # n + 1
      <4>1. k \in 1 .. n
        BY <1>1, <3>2
      <4>2. longer[k] = p[k] /\ Time(p[k]) # Infinity
        BY <1>1, <1>4, <4>1
      <4> QED
        BY <4>2
    <3> QED
      BY <3>1, <3>2
  <2>2. /\ PathTime(graph_, p) = PathWeight(TimeGraph(graph_), p)
        /\ PathTime(graph_, longer) = PathWeight(TimeGraph(graph_), longer)
    BY <1>4, <2>1 DEF PathTime, Time
  <2>3. EdgeIds(TimeGraph(graph_)) = EdgeIds(graph_)
    BY TimesOfGraph
  <2> DEFINE w(e) == TimeGraph(graph_).edges[e].weight
  <2>4. \A e \in EdgeIds(graph_) : w(e) = Time(e) /\ Time(e) \in Duration
    BY TimesOfGraph
  <2>5. /\ \A m \in 1 .. Len(p) : TimeGraph(graph_).edges[p[m]].weight \in Nat
        /\ TimeGraph(graph_).edges[id].weight \in Nat
        /\ TimeGraph(graph_).edges[id].weight = Time(id)
    <3> HIDE DEF w
    <3>1. \A e \in EdgeIds(graph_) : Time(e) # Infinity => w(e) \in Nat /\ w(e) = Time(e)
      BY <2>4 DEF Duration
    <3>2. ASSUME NEW m \in 1 .. n PROVE w(p[m]) \in Nat
      <4>1. p[m] \in EdgeIds(graph_) /\ Time(p[m]) # Infinity
        BY <1>1, <1>4
      <4> QED
        BY <3>1, <4>1
    <3>3. w(id) \in Nat /\ w(id) = Time(id)
      BY <1>4, <3>1
    <3> QED
      BY <3>2, <3>3 DEF n, w
  <2>6. /\ PathWeight(TimeGraph(graph_), p) \in Nat
        /\ PathWeight(TimeGraph(graph_), longer)
             = PathWeight(TimeGraph(graph_), p) + Time(id)
    <3>1. p \in Seq(EdgeIds(TimeGraph(graph_))) /\ id \in EdgeIds(TimeGraph(graph_))
      BY <2>3
    <3> QED
      BY <2>5, <3>1, PathWeightLast DEF longer
  <2>7. PathTime(graph_, p) # Infinity
    BY <2>2, <2>6, SettingsAssumption
  <2> QED
    BY <1>4, <2>2, <2>6, <2>7 DEF Later, longer
<1> QED
  BY <1>2, <1>3, <1>4

-----------------------------------------------------------------------------
(***************************************************************************)
(* What is in the caches, and what has been answered.                      *)
(***************************************************************************)
InfoOf(id, path) ==
  [id |-> id, weight |-> PathTime(graph_, path), edge_count |-> Len(path)]

CheapRoutes(pair) == CheapestPaths(graph_, Waiting(pair[1]), Waiting(pair[2]))

\* The router holds a path under the id, which is cached for a pair of stops.
Stored(pair, id, path) ==
  /\ id \in DOMAIN expanded_routes_cache_ /\ expanded_routes_cache_[id] = path
  /\ route_cache_[pair] = {InfoOf(id, path)}

\* A question the cache has the answer to: there is no path, or the router holds
\* one of the cheapest.
Cached(pair) ==
  /\ pair \in StopName \X StopName
  /\ IsKnown(pair[1]) /\ IsKnown(pair[2])
  /\ \/ route_cache_[pair] = {} /\ CheapRoutes(pair) = {}
     \/ \E id : \E path \in CheapRoutes(pair) :
          /\ Stored(pair, id, path)
          /\ InfoOf(id, path) \in RouteInfo

\* What RouteInterpreter makes of the edges of a path.
Plan(path) ==
  [items |-> [n \in 1 .. Len(path) |-> GetItem(graph_.edges[path[n]])],
   total_time |-> PathTime(graph_, path)]

RouteReply(pair, reply) ==
  \/ route_cache_[pair] = {} /\ reply = NotFound
  \/ \E id, path : Stored(pair, id, path) /\ reply = Plan(path)

\* The reply is the one the records and the caches hold for the request.
AnswersRequest(q, reply) ==
  /\ q \in ReadRequest
  /\ q.type = "Bus" => reply = BusAnswer(q.name)
  /\ q.type = "Stop" => reply = StopAnswer(q.name)
  /\ q.type = "Route" => /\ <<q.from, q.to>> \in DOMAIN route_cache_
                         /\ RouteReply(<<q.from, q.to>>, reply)

ReplyInv ==
  /\ pc \notin {"ready", "undefined"} => answers = << >> /\ DOMAIN route_cache_ = {}
  /\ \A pair \in DOMAIN route_cache_ : Cached(pair)
  /\ \A n \in DOMAIN answers : \E q, reply :
       answers[n] = [request |-> q, reply |-> reply] /\ AnswersRequest(q, reply)

\* A request has one type only.
LEMMA RequestTypes ==
  ASSUME NEW q \in ReadRequest
  PROVE  /\ q.type = "Bus" => q.name \in BusName
         /\ q.type = "Stop" => q.name \in StopName
         /\ q.type = "Route" => q.from \in StopName /\ q.to \in StopName
         /\ q.type \in {"Bus", "Stop", "Route"}
BY ReadRequestAssumption

\* The catalogue, the indices and the graph say the same, and so do the entries
\* the caches had.
LEMMA CatalogueKept ==
  ASSUME UNCHANGED <<bus_index_, stop_index_, buses_, place_, distances_>>
  PROVE  /\ \A b : BusAnswer(b)' = BusAnswer(b)
         /\ \A s : StopAnswer(s)' = StopAnswer(s)
<1>1. \A a, b : RouteDistance(a, b)' = RouteDistance(a, b)
  BY DEF RouteDistance
<1>2. \A a, b : HaversineDistance(a, b)' = HaversineDistance(a, b)
  BY DEF HaversineDistance
<1>3. \A stops : /\ CalculateLength(RouteDistance, stops)' = CalculateLength(RouteDistance, stops)
                 /\ CalculateLength(HaversineDistance, stops)'
                      = CalculateLength(HaversineDistance, stops)
  <2> TAKE stops
  <2>1. [i \in 1 .. Len(stops) - 1 |-> RouteDistance(stops[i], stops[i + 1])]'
          = [i \in 1 .. Len(stops) - 1 |-> RouteDistance(stops[i], stops[i + 1])]
    BY <1>1
  <2>2. [i \in 1 .. Len(stops) - 1 |-> HaversineDistance(stops[i], stops[i + 1])]'
          = [i \in 1 .. Len(stops) - 1 |-> HaversineDistance(stops[i], stops[i + 1])]
    BY <1>2
  <2> QED
    BY <2>1, <2>2 DEF CalculateLength
<1>4. \A r : BusInfo(r)' = BusInfo(r)
  <2> TAKE r
  <2>1. GetRouteLength(r)' = GetRouteLength(r) /\ GetGeomLength(r)' = GetGeomLength(r)
    BY <1>3 DEF GetRouteLength, GetGeomLength
  <2> QED
    BY <2>1 DEF BusInfo
<1>5. \A b : BusAnswer(b)' = BusAnswer(b)
  <2> TAKE b
  <2>1. PICK r : r = bus_index_[b]
    OBVIOUS
  <2>2. BusAnswer(b) = IF r = NoBus THEN NotFound ELSE BusInfo(r)
    BY <2>1 DEF BusAnswer
  <2>3. BusAnswer(b)' = IF r = NoBus THEN NotFound ELSE BusInfo(r)'
    BY <2>1 DEF BusAnswer
  <2> QED
    BY <1>4, <2>2, <2>3
<1>6. \A s : StopAnswer(s)' = StopAnswer(s)
  BY DEF StopAnswer
<1> QED
  BY <1>5, <1>6

LEMMA PlanOfRoute ==
  ASSUME NEW id, NEW expanded
  PROVE  RouteAnswer({InfoOf(id, expanded[id])}, expanded) = Plan(expanded[id])
<1> DEFINE info == InfoOf(id, expanded[id])
<1>1. (CHOOSE i \in {info} : TRUE) = info
  OBVIOUS
<1>2. RouteAnswer({info}, expanded) = InterpretRoute(info, expanded)
  BY <1>1 DEF RouteAnswer
<1>3. /\ info.id = id /\ info.weight = PathTime(graph_, expanded[id])
      /\ info.edge_count = Len(expanded[id])
  BY DEF InfoOf
<1> HIDE DEF info
<1>4. InterpretRoute(info, expanded) = Plan(expanded[id])
  BY <1>3 DEF InterpretRoute, Plan
<1> QED
  BY <1>2, <1>4 DEF info

Fixed == <<done, stop_index_, place_, buses_, distances_, bus_index_,
           index_, reverse_index_, graph_>>

LEMMA GraphKept ==
  ASSUME UNCHANGED Fixed
  PROVE  /\ \A id, path : InfoOf(id, path)' = InfoOf(id, path)
         /\ \A path : Plan(path)' = Plan(path)
         /\ \A pair : CheapRoutes(pair)' = CheapRoutes(pair)
         /\ \A s : IsKnown(s)' = IsKnown(s)
<1>1. graph_' = graph_ /\ index_' = index_ /\ reverse_index_' = reverse_index_
  BY DEF Fixed
<1>2. \A id, path : InfoOf(id, path)' = InfoOf(id, path)
  BY <1>1 DEF InfoOf
<1>3. \A e : GetItem(e)' = GetItem(e)
  BY <1>1 DEF GetItem, WaitItem, BusItem
<1>4. \A path : Plan(path)' = Plan(path)
  <2> TAKE path
  <2>1. \A n : GetItem(graph_.edges[path[n]])' = GetItem(graph_.edges[path[n]])
    <3> TAKE n
    <3>1. PICK e : e = graph_.edges[path[n]]
      OBVIOUS
    <3>2. GetItem(graph_.edges[path[n]])' = GetItem(e)'
      BY <1>1, <3>1 DEF GetItem, WaitItem, BusItem
    <3> QED
      BY <1>3, <3>1, <3>2
  <2>2. [n \in 1 .. Len(path) |-> GetItem(graph_.edges[path[n]])]'
          = [n \in 1 .. Len(path) |-> GetItem(graph_.edges[path[n]])]
    BY <2>1
  <2> QED
    BY <1>1, <2>2 DEF Plan
<1>5. \A pair : CheapRoutes(pair)' = CheapRoutes(pair)
  BY <1>1 DEF CheapRoutes, Waiting
<1>6. \A s : IsKnown(s)' = IsKnown(s)
  BY <1>1 DEF IsKnown
<1> QED
  BY <1>2, <1>4, <1>5, <1>6

\* The entries there were stay, and so do the answers given.
LEMMA EntriesKept ==
  ASSUME ReplyInv, UNCHANGED Fixed,
         \A pair \in DOMAIN route_cache_ :
           pair \in DOMAIN route_cache_' /\ route_cache_'[pair] = route_cache_[pair],
         \A id \in DOMAIN expanded_routes_cache_ :
           /\ id \in DOMAIN expanded_routes_cache_'
           /\ expanded_routes_cache_'[id] = expanded_routes_cache_[id]
  PROVE  /\ \A pair \in DOMAIN route_cache_ : Cached(pair)'
         /\ \A q, reply : AnswersRequest(q, reply) => AnswersRequest(q, reply)'
<1>1. ASSUME NEW pair \in DOMAIN route_cache_, NEW id, NEW path, Stored(pair, id, path)
      PROVE  Stored(pair, id, path)'
  <2>1. InfoOf(id, path)' = InfoOf(id, path)
    BY GraphKept
  <2> QED
    BY <1>1, <2>1 DEF Stored
<1>2. ASSUME NEW pair \in DOMAIN route_cache_
      PROVE  Cached(pair)'
  <2>1. Cached(pair)
    BY DEF ReplyInv
  <2>2. CheapRoutes(pair)' = CheapRoutes(pair)
        /\ \A s : IsKnown(s)' = IsKnown(s)
        /\ \A id, path : InfoOf(id, path)' = InfoOf(id, path)
    BY GraphKept
  <2>3. IsKnown(pair[1])' /\ IsKnown(pair[2])' /\ pair \in StopName \X StopName
    BY <2>1, <2>2 DEF Cached
  <2>4. CASE route_cache_[pair] = {} /\ CheapRoutes(pair) = {}
    BY <2>2, <2>3, <2>4 DEF Cached
  <2>5. ASSUME NEW id, NEW path \in CheapRoutes(pair), Stored(pair, id, path),
               InfoOf(id, path) \in RouteInfo
        PROVE  Cached(pair)'
    <3>1. Stored(pair, id, path)'
      BY <1>1, <2>5
    <3>2. InfoOf(id, path)' \in RouteInfo
      BY <2>2, <2>5
    <3> QED
      BY <2>2, <2>3, <3>1, <3>2 DEF Cached
  <2> QED
    BY <2>1, <2>4, <2>5 DEF Cached
<1>3. ASSUME NEW q, NEW reply, AnswersRequest(q, reply)
      PROVE  AnswersRequest(q, reply)'
  <2>1. BusAnswer(q.name)' = BusAnswer(q.name) /\ StopAnswer(q.name)' = StopAnswer(q.name)
    BY CatalogueKept DEF Fixed
  <2>2. ASSUME q.type = "Route"
        PROVE  /\ <<q.from, q.to>> \in DOMAIN route_cache_'
               /\ RouteReply(<<q.from, q.to>>, reply)'
    <3>1. PICK pair : pair = <<q.from, q.to>>
      OBVIOUS
    <3>2. pair \in DOMAIN route_cache_ /\ RouteReply(pair, reply)
      BY <1>3, <2>2, <3>1 DEF AnswersRequest
    <3>3. \A path : Plan(path)' = Plan(path)
      BY GraphKept
    <3>4. RouteReply(pair, reply)'
      BY <1>1, <3>2, <3>3 DEF RouteReply
    <3> QED
      BY <3>1, <3>2, <3>4
  <2> QED
    BY <1>3, <2>1, <2>2 DEF AnswersRequest
<1> QED
  BY <1>2, <1>3

\* An answer more, if any, which is the one its request should get.
LEMMA ReplyInvFrame ==
  ASSUME CacheInv, ReplyInv, pc \in {"ready", "undefined"}, pc' \in {"ready", "undefined"},
         UNCHANGED Fixed,
         \A pair \in DOMAIN route_cache_ :
           pair \in DOMAIN route_cache_' /\ route_cache_'[pair] = route_cache_[pair],
         \A id \in DOMAIN expanded_routes_cache_ :
           /\ id \in DOMAIN expanded_routes_cache_'
           /\ expanded_routes_cache_'[id] = expanded_routes_cache_[id],
         \A pair \in DOMAIN route_cache_' : pair \in DOMAIN route_cache_ \/ Cached(pair)',
         \/ UNCHANGED answers
         \/ \E q, reply : /\ answers' = Append(answers, [request |-> q, reply |-> reply])
                          /\ AnswersRequest(q, reply)'
  PROVE  ReplyInv'
<1>1. /\ \A pair \in DOMAIN route_cache_ : Cached(pair)'
      /\ \A q, reply : AnswersRequest(q, reply) => AnswersRequest(q, reply)'
  BY EntriesKept
<1>2. \A n \in DOMAIN answers : \E q, reply :
        answers[n] = [request |-> q, reply |-> reply] /\ AnswersRequest(q, reply)'
  BY <1>1 DEF ReplyInv
<1>3. \A n \in DOMAIN answers' : \E q, reply :
        answers'[n] = [request |-> q, reply |-> reply] /\ AnswersRequest(q, reply)'
  <2>1. CASE UNCHANGED answers
    BY <1>2, <2>1
  <2>2. ASSUME NEW q, NEW reply, AnswersRequest(q, reply)',
               answers' = Append(answers, [request |-> q, reply |-> reply])
        PROVE  \A n \in DOMAIN answers' : \E p, r :
                 answers'[n] = [request |-> p, reply |-> r] /\ AnswersRequest(p, r)'
    <3> TAKE n \in DOMAIN answers'
    <3>1. answers'[n] = [request |-> q, reply |-> reply]
          \/ (n \in DOMAIN answers /\ answers'[n] = answers[n])
      BY <2>2, AppendGrows DEF CacheInv
    <3> QED
      BY <1>2, <2>2, <3>1
  <2> QED
    BY <2>1, <2>2
<1>4. \A pair \in DOMAIN route_cache_' : Cached(pair)'
  BY <1>1
<1> QED
  BY <1>3, <1>4 DEF ReplyInv

LEMMA ReplyInvInit == ReadInit => ReplyInv
BY DEF ReadInit, ReplyInv

LEMMA ReplyInvManage ==
  ASSUME ReplyInv, ManagerNext, UNCHANGED <<routeVars, answers>>
  PROVE  ReplyInv'
<1>1. pc \in {"requests", "stops", "buses"}
  BY DEF ManagerNext, ProcessModifyRequest, InitializeRouter, NumberStop,
         CreateGraph, AddBusEdges, EmplaceRouter
<1>2. answers = << >> /\ DOMAIN route_cache_ = {}
  BY <1>1 DEF ReplyInv
<1>3. answers' = << >> /\ DOMAIN route_cache_' = {}
  BY <1>2 DEF routeVars
<1>4. \A n : n \notin DOMAIN answers'
  BY <1>3
<1> QED
  BY <1>3, <1>4 DEF ReplyInv

\* What GetRoute answers from the cache.
LEMMA CachedReply ==
  ASSUME ReplyInv, NEW pair \in DOMAIN route_cache_, NEW reply,
         reply = RouteAnswer(route_cache_[pair], expanded_routes_cache_)
  PROVE  RouteReply(pair, reply)
<1>1. Cached(pair)
  BY DEF ReplyInv
<1>2. CASE route_cache_[pair] = {}
  BY <1>2 DEF RouteReply, RouteAnswer
<1>3. ASSUME NEW id, NEW path, Stored(pair, id, path)
      PROVE  RouteReply(pair, reply)
  <2>1. reply = RouteAnswer({InfoOf(id, expanded_routes_cache_[id])},
                            expanded_routes_cache_)
    BY <1>3 DEF Stored
  <2>2. reply = Plan(path)
    BY <1>3, <2>1, PlanOfRoute DEF Stored
  <2> QED
    BY <1>3, <2>2 DEF RouteReply
<1> QED
  BY <1>1, <1>2, <1>3 DEF Cached

LEMMA NewQuestion ==
  ASSUME NEW q \in ReadRequest, NewRoute(q), IsKnown(q.from), IsKnown(q.to),
         NEW pair, pair = <<q.from, q.to>>
  PROVE  /\ pc = "ready" /\ q.type = "Route" /\ pair \notin DOMAIN route_cache_
         /\ pair \in StopName \X StopName /\ IsKnown(pair[1]) /\ IsKnown(pair[2])
         /\ Paths(q) = CheapRoutes(pair)
<1>1. q.type = "Route" /\ q.from \in StopName /\ q.to \in StopName
  BY RequestTypes DEF NewRoute
<1> QED
  BY <1>1 DEF NewRoute, Reading, Paths, CheapRoutes, Waiting

LEMMA ReplyInvNoRoute ==
  ASSUME CacheInv, ReplyInv, NEW q \in ReadRequest, FindNoRoute(q)
  PROVE  ReplyInv'
<1>1. PICK pair : pair = <<q.from, q.to>>
  OBVIOUS
<1>2. /\ pc = "ready" /\ q.type = "Route" /\ pair \notin DOMAIN route_cache_
      /\ pair \in StopName \X StopName /\ IsKnown(pair[1]) /\ IsKnown(pair[2])
      /\ CheapRoutes(pair) = {}
  BY <1>1, NewQuestion DEF FindNoRoute
<1>3. UNCHANGED Fixed /\ pc' = "ready" /\ UNCHANGED expanded_routes_cache_
  BY <1>2 DEF FindNoRoute, managerVars, vars, catalogue, graphVars, Fixed
<1>4. /\ DOMAIN route_cache_' = DOMAIN route_cache_ \cup {pair}
      /\ route_cache_'[pair] = {}
      /\ \A p \in DOMAIN route_cache_ : route_cache_'[p] = route_cache_[p]
  BY <1>1, <1>2 DEF FindNoRoute, Cache
<1>5. Cached(pair)'
  BY <1>2, <1>3, <1>4, GraphKept DEF Cached
<1>6. RouteReply(pair, NotFound)'
  BY <1>4 DEF RouteReply
<1>7. AnswersRequest(q, NotFound)'
  BY <1>1, <1>2, <1>4, <1>6 DEF AnswersRequest
<1>8. answers' = Append(answers, [request |-> q, reply |-> NotFound])
  BY DEF FindNoRoute, Reply
<1>9. \A p \in DOMAIN route_cache_' : p \in DOMAIN route_cache_ \/ Cached(p)'
  BY <1>4, <1>5
<1> QED
  BY <1>2, <1>3, <1>4, <1>7, <1>8, <1>9, ReplyInvFrame

\* The weight of a path of BuildRoute is a time.
LEMMA RouteInfoType ==
  ASSUME Sound, pc = "ready", NEW pair \in StopName \X StopName,
         IsKnown(pair[1]), NEW path \in CheapRoutes(pair), NEW id \in Nat
  PROVE  InfoOf(id, path) \in RouteInfo
<1>1. Waiting(pair[1]) \in Nodes
  <2>1. pair[1] \in stop_index_
    <3>1. NumberInv /\ TypeOK
      BY DEF Sound, Managed
    <3> QED
      BY <3>1 DEF NumberInv, Visited, Unnumbered, IsKnown, NodeType
  <2> QED
    BY <2>1, BuiltVertices
<1>2. path \in SimplePathsFrom(graph_, Waiting(pair[1]))
  BY DEF CheapRoutes, CheapestPaths
<1>3. path \in Seq(EdgeIds(graph_))
  BY <1>1, <1>2, SimplePaths
<1>4. PathTime(graph_, path) \in Duration /\ Len(path) \in Nat
  BY <1>3, PathTimeFacts
<1> QED
  BY <1>4 DEF InfoOf, RouteInfo

LEMMA ReplyInvNewRoute ==
  ASSUME Sound, CacheInv, ReplyInv, NEW q \in ReadRequest, BuildNewRoute(q)
  PROVE  ReplyInv'
<1>1. PICK pair : pair = <<q.from, q.to>>
  OBVIOUS
<1>2. /\ pc = "ready" /\ q.type = "Route" /\ pair \notin DOMAIN route_cache_
      /\ pair \in StopName \X StopName /\ IsKnown(pair[1]) /\ IsKnown(pair[2])
      /\ Paths(q) = CheapRoutes(pair)
  BY <1>1, NewQuestion DEF BuildNewRoute
<1>3. UNCHANGED Fixed /\ pc' = "ready"
  BY <1>2 DEF BuildNewRoute, managerVars, vars, catalogue, graphVars, Fixed
<1>4. PICK path \in CheapRoutes(pair) : StoreRoute(q, path)
  BY <1>2 DEF BuildNewRoute
<1>5. PICK id : id = next_route_id_
  OBVIOUS
<1>6. /\ id \in Nat /\ id \notin DOMAIN expanded_routes_cache_
  BY <1>5 DEF CacheInv
<1>7. /\ DOMAIN expanded_routes_cache_' = DOMAIN expanded_routes_cache_ \cup {id}
      /\ expanded_routes_cache_'[id] = path
      /\ \A i \in DOMAIN expanded_routes_cache_ :
           expanded_routes_cache_'[i] = expanded_routes_cache_[i]
  BY <1>4, <1>5, <1>6 DEF StoreRoute
<1>8. /\ DOMAIN route_cache_' = DOMAIN route_cache_ \cup {pair}
      /\ route_cache_'[pair] = {InfoOf(id, path)}
      /\ \A p \in DOMAIN route_cache_ : route_cache_'[p] = route_cache_[p]
  BY <1>1, <1>2, <1>4, <1>5 DEF StoreRoute, Cache, InfoOf
<1>9. InfoOf(id, path)' = InfoOf(id, path) /\ Plan(path)' = Plan(path)
  BY <1>3, GraphKept
<1>10. Stored(pair, id, path)'
  BY <1>7, <1>8, <1>9 DEF Stored
<1>11. InfoOf(id, path) \in RouteInfo
  BY <1>2, <1>6, RouteInfoType
<1>12. Cached(pair)'
  <2>1. /\ IsKnown(pair[1])' /\ IsKnown(pair[2])'
        /\ path \in CheapRoutes(pair)'
        /\ InfoOf(id, path)' \in RouteInfo
    BY <1>2, <1>3, <1>4, <1>9, <1>11, GraphKept
  <2> QED
    BY <1>2, <1>10, <2>1 DEF Cached
<1>13. answers' = Append(answers, [request |-> q, reply |-> Plan(path)])
  <2>1. PICK expanded : expanded = expanded_routes_cache_'
    OBVIOUS
  <2>2. answers' = Append(answers, [request |-> q,
                                    reply |-> RouteAnswer({InfoOf(id, path)}, expanded)])
    BY <1>4, <1>5, <2>1 DEF StoreRoute, Reply, InfoOf
  <2>3. expanded[id] = path
    BY <1>7, <2>1
  <2>4. RouteAnswer({InfoOf(id, path)}, expanded) = Plan(path)
    BY <2>3, PlanOfRoute
  <2> QED
    BY <2>2, <2>4
<1>14. PICK reply : reply = Plan(path)
  OBVIOUS
<1>15. RouteReply(pair, reply)'
  <2>1. reply = Plan(path)'
    BY <1>9, <1>14
  <2> QED
    BY <1>10, <2>1 DEF RouteReply
<1>16. AnswersRequest(q, reply)'
  BY <1>1, <1>2, <1>8, <1>15 DEF AnswersRequest
<1>17. \A p \in DOMAIN route_cache_' : p \in DOMAIN route_cache_ \/ Cached(p)'
  BY <1>8, <1>12
<1> QED
  BY <1>2, <1>3, <1>7, <1>8, <1>13, <1>14, <1>16, <1>17, ReplyInvFrame

LEMMA ReplyInvRead ==
  ASSUME Sound, CacheInv, ReplyInv, NEW q \in ReadRequest, Read(q)
  PROVE  ReplyInv'
<1>1. CASE GetBusInfo(q)
  <2>1. /\ q.type = "Bus" /\ pc = "ready" /\ pc' = "ready" /\ UNCHANGED Fixed
        /\ UNCHANGED <<route_cache_, expanded_routes_cache_>>
    BY <1>1 DEF GetBusInfo, Reading, managerVars, vars, catalogue, graphVars, routeVars,
                Fixed
  <2>2. PICK reply : reply = BusAnswer(q.name)
    OBVIOUS
  <2>3. reply = BusAnswer(q.name)'
    BY <2>1, <2>2, CatalogueKept DEF Fixed
  <2>4. AnswersRequest(q, reply)'
    BY <2>1, <2>3 DEF AnswersRequest
  <2>5. answers' = Append(answers, [request |-> q, reply |-> reply])
    BY <1>1, <2>2 DEF GetBusInfo, Reply
  <2> QED
    BY <2>1, <2>4, <2>5, ReplyInvFrame
<1>2. CASE GetStopInfo(q)
  <2>1. CASE q.name \in stop_index_ /\ Dangling(q.name)
    <3>1. /\ pc = "ready" /\ pc' = "undefined" /\ UNCHANGED Fixed
          /\ UNCHANGED <<route_cache_, expanded_routes_cache_, answers>>
      BY <1>2, <2>1 DEF GetStopInfo, Reading, Undefined, vars, catalogue, routeVars, Fixed
    <3> QED
      BY <3>1, ReplyInvFrame
  <2>2. CASE ~ (q.name \in stop_index_ /\ Dangling(q.name))
    <3>1. /\ q.type = "Stop" /\ pc = "ready" /\ pc' = "ready" /\ UNCHANGED Fixed
          /\ UNCHANGED <<route_cache_, expanded_routes_cache_>>
      BY <1>2, <2>2 DEF GetStopInfo, Reading, managerVars, vars, catalogue, graphVars,
                        routeVars, Fixed
    <3>2. PICK reply : reply = StopAnswer(q.name)
      OBVIOUS
    <3>3. reply = StopAnswer(q.name)'
      BY <3>1, <3>2, CatalogueKept DEF Fixed
    <3>4. AnswersRequest(q, reply)'
      BY <3>1, <3>3 DEF AnswersRequest
    <3>5. answers' = Append(answers, [request |-> q, reply |-> reply])
      BY <1>2, <2>2, <3>2 DEF GetStopInfo, Reply
    <3> QED
      BY <3>1, <3>4, <3>5, ReplyInvFrame
  <2> QED
    BY <2>1, <2>2
<1>3. CASE GetCachedRoute(q)
  <2>1. /\ q.type = "Route" /\ pc = "ready" /\ pc' = "ready" /\ UNCHANGED Fixed
        /\ UNCHANGED <<route_cache_, expanded_routes_cache_>>
    BY <1>3 DEF GetCachedRoute, Reading, managerVars, vars, catalogue, graphVars,
                routeVars, Fixed
  <2>2. PICK pair : pair = <<q.from, q.to>>
    OBVIOUS
  <2>3. PICK reply : reply = RouteAnswer(route_cache_[pair], expanded_routes_cache_)
    OBVIOUS
  <2>4. pair \in DOMAIN route_cache_
    BY <1>3, <2>2 DEF GetCachedRoute
  <2>5. answers' = Append(answers, [request |-> q, reply |-> reply])
    BY <1>3, <2>2, <2>3 DEF GetCachedRoute, Reply
  <2>6. RouteReply(pair, reply)
    BY <2>3, <2>4, CachedReply
  <2>7. AnswersRequest(q, reply)
    BY <2>1, <2>2, <2>4, <2>6 DEF AnswersRequest
  <2>8. AnswersRequest(q, reply)'
    BY <2>1, <2>7, EntriesKept
  <2> QED
    BY <2>1, <2>5, <2>8, ReplyInvFrame
<1>4. CASE FindNoRoute(q)
  BY <1>4, ReplyInvNoRoute
<1>5. CASE BuildNewRoute(q)
  BY <1>5, ReplyInvNewRoute
<1>6. CASE BuildUnknownRoute(q)
  <2>1. /\ pc = "ready" /\ pc' = "undefined" /\ UNCHANGED Fixed
        /\ UNCHANGED <<route_cache_, expanded_routes_cache_, answers>>
    BY <1>6 DEF BuildUnknownRoute, NewRoute, Reading, Undefined, vars, catalogue,
                routeVars, Fixed
  <2> QED
    BY <2>1, ReplyInvFrame
<1> QED
  BY <1>1, <1>2, <1>3, <1>4, <1>5, <1>6 DEF Read

LEMMA ReplyInvStutter ==
  ASSUME CacheInv, ReplyInv, UNCHANGED readVars
  PROVE  ReplyInv'
<1>1. /\ UNCHANGED Fixed
      /\ UNCHANGED <<pc, route_cache_, expanded_routes_cache_, answers>>
  BY DEF readVars, managerVars, vars, catalogue, graphVars, routeVars, Fixed
<1>2. CASE pc \in {"ready", "undefined"}
  BY <1>1, <1>2, ReplyInvFrame
<1>3. CASE pc \notin {"ready", "undefined"}
  <2>1. answers' = << >> /\ DOMAIN route_cache_' = {}
    BY <1>1, <1>3 DEF ReplyInv
  <2>2. \A n : n \notin DOMAIN answers'
    BY <2>1
  <2> QED
    BY <2>1, <2>2 DEF ReplyInv
<1> QED
  BY <1>2, <1>3

LEMMA CacheInvNext == CacheInv /\ [ReadNext]_readVars => CacheInv'
<1> SUFFICES ASSUME CacheInv, [ReadNext]_readVars PROVE CacheInv'
  OBVIOUS
<1>1. CASE Manage
  BY <1>1, CacheInvManage DEF Manage
<1>2. ASSUME NEW q \in ReadRequest, Read(q) PROVE CacheInv'
  BY <1>2, CacheInvRead
<1>3. CASE UNCHANGED readVars
  BY <1>3, CacheInvFrame DEF readVars, managerVars, graphVars
<1> QED
  BY <1>1, <1>2, <1>3 DEF ReadNext

LEMMA ReplyInvNext == Sound /\ CacheInv /\ ReplyInv /\ [ReadNext]_readVars => ReplyInv'
<1> SUFFICES ASSUME Sound, CacheInv, ReplyInv, [ReadNext]_readVars PROVE ReplyInv'
  OBVIOUS
<1>1. CASE Manage
  BY <1>1, ReplyInvManage DEF Manage
<1>2. ASSUME NEW q \in ReadRequest, Read(q) PROVE ReplyInv'
  BY <1>2, ReplyInvRead
<1>3. CASE UNCHANGED readVars
  BY <1>3, ReplyInvStutter
<1> QED
  BY <1>1, <1>2, <1>3 DEF ReadNext

LEMMA ReplyInvariant == ReadSpec => [](Sound /\ CacheInv /\ ReplyInv)
BY SoundInvariant, CacheInvInit, CacheInvNext, ReplyInvInit, ReplyInvNext, PTL DEF ReadSpec

LEMMA CachedInfos ==
  ASSUME ReplyInv, NEW pair \in DOMAIN route_cache_
  PROVE  /\ pair \in StopName \X StopName
         /\ route_cache_[pair] \subseteq RouteInfo
         /\ Cardinality(route_cache_[pair]) <= 1
<1>1. Cached(pair)
  BY DEF ReplyInv
<1>2. CASE route_cache_[pair] = {}
  BY <1>1, <1>2, FS_EmptySet DEF Cached
<1>3. ASSUME NEW info \in RouteInfo, route_cache_[pair] = {info}
      PROVE  /\ route_cache_[pair] \subseteq RouteInfo
             /\ Cardinality(route_cache_[pair]) <= 1
  <2>1. Cardinality({info}) = 1
    BY FS_Singleton
  <2> QED
    BY <1>3, <2>1
<1> QED
  BY <1>1, <1>2, <1>3 DEF Cached, Stored

\* BusManager is in one of its phases, or has gone where the code says nothing.
LEMMA SoundPhases ==
  ASSUME Sound
  PROVE  pc \in {"requests", "stops", "buses", "ready", "aborted", "thrown",
                "undefined"}
<1>1. CASE pc = "undefined"
  BY <1>1
<1>2. CASE NumberInv /\ ManagerInv
  BY <1>2, ManagerInvGivesType DEF Sound, ManagerTypeOK
<1> QED
  BY <1>1, <1>2 DEF Sound, Managed

\* The caches hold what their types say, the one of the router under the ids it
\* gave out (GetRoute, BuildNewRoute): the weight of a route is never a NaN nor
\* negative, whatever the distances and the settings, because the router's
\* assertion comes first.
THEOREM ReadTypeAlways == ReadSpec => []ReadTypeOK
<1>1. Sound /\ CacheInv /\ ReplyInv => ReadTypeOK
  <2> SUFFICES ASSUME Sound, CacheInv, ReplyInv PROVE ReadTypeOK
    OBVIOUS
  <2>1. pc \in {"requests", "stops", "buses", "ready", "aborted", "thrown",
                "undefined"}
    BY SoundPhases
  <2>2. \A n \in DOMAIN answers : answers[n].request \in ReadRequest
    <3> TAKE n \in DOMAIN answers
    <3>1. PICK q, reply :
            answers[n] = [request |-> q, reply |-> reply] /\ AnswersRequest(q, reply)
      BY DEF ReplyInv
    <3> QED
      BY <3>1 DEF AnswersRequest
  <2>3. next_route_id_ \in Nat /\ DOMAIN expanded_routes_cache_ = 0 .. next_route_id_ - 1
    BY DEF CacheInv
  <2>4. /\ DOMAIN route_cache_ \subseteq StopName \X StopName
        /\ \A pair \in DOMAIN route_cache_ :
             route_cache_[pair] \subseteq RouteInfo /\ Cardinality(route_cache_[pair]) <= 1
    BY CachedInfos
  <2> QED
    BY <2>1, <2>2, <2>3, <2>4, Zenon DEF ReadTypeOK
<1> QED
  BY <1>1, ReplyInvariant, PTL

=============================================================================
