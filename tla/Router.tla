------------------------------- MODULE Router -------------------------------
(***************************************************************************)
(* The all-pairs router of router.h, Graph::Router: the constructor, which *)
(* fills routes_internal_data_ in place, one cell at a time, and BuildRoute *)
(* and ReleaseRoute, which its owner calls when the constructor is done.   *)
(*                                                                         *)
(* A weight is the time of a WeightWithSpan (utility.h), the only part of  *)
(* it that comparisons look at, as a natural number of time units.         *)
(***************************************************************************)
EXTENDS DirectedWeightedGraph

LOCAL INSTANCE SequencesExt

CONSTANTS
  Graphs,     \* the graphs a router may be built for
  NoRoute,    \* std::nullopt, of a cell of the table and of BuildRoute
  MaxRoutes   \* bound: ids handed out (64 bits wide in the code), answers held

\* assert(edge.weight >= 0) of InitializeRoutesInternalData.
ASSUME GraphAssumption ==
  \A g \in Graphs :
    /\ g.vertex_count \in Nat \ {0}
    /\ g.edges \in Seq([from : Vertices(g), to : Vertices(g), weight : Nat])

ASSUME RouterConstants ==
  /\ MaxRoutes \in Nat
  /\ NoRoute \notin [weight : Nat, prev_edge : Nat]
  /\ NoRoute \notin [id : Nat, weight : Nat, edge_count : Nat]

VARIABLES
  graph_,                 \* the graph, a reference to the owner's
  routes_internal_data_,  \* the table: weight and last edge of a best route
  next_route_id_,
  expanded_routes_cache_, \* the edges of the routes built and not released
  pc,                     \* where the constructor or BuildRoute is
  vertex,                 \* loop variable of InitializeRoutesInternalData
  todo,                   \* incident edges the loop has still to look at
  cursor,                 \* the loop variables through, from, to of relaxation
  walk,                   \* BuildRoute: from, to, edge_id, edges
  answers                 \* what the calls of BuildRoute returned

construction == <<vertex, todo, cursor>>
vars == <<graph_, routes_internal_data_, next_route_id_,
          expanded_routes_cache_, pc, construction, walk, answers>>

V == Vertices(graph_)
GetEdge(id) == graph_.edges[id]

NoWalk == [from |-> 0, to |-> 0, edge_id |-> NoEdge, edges |-> << >>]

RouteInternalData == [weight : Nat, prev_edge : EdgeIds(graph_) \cup {NoEdge}]
RouteInfo == [id : Nat, weight : Nat, edge_count : Nat]

\* Type correctness of the table and of the routes: ids that hold
\* edges are below next_route_id_, and a walk is made of edges of the graph.
TypeOK ==
  /\ graph_.vertex_count \in Nat \ {0}
  /\ graph_.edges \in Seq([from : V, to : V, weight : Nat])
  /\ routes_internal_data_ \in [V -> [V -> RouteInternalData \cup {NoRoute}]]
  /\ next_route_id_ \in Nat
  /\ DOMAIN expanded_routes_cache_ \subseteq 0 .. next_route_id_ - 1
  /\ \A id \in DOMAIN expanded_routes_cache_ :
       expanded_routes_cache_[id] \in Seq(EdgeIds(graph_))
  /\ pc \in {"row", "edges", "relax", "ready", "walk", "undefined"}
  /\ vertex \in V
  /\ todo \subseteq EdgeIds(graph_)
  /\ cursor \in [through : V, from : V, to : V]
  /\ walk \in [from : V, to : V, edge_id : EdgeIds(graph_) \cup {NoEdge},
               edges : Seq(EdgeIds(graph_))]
  /\ answers \subseteq [from : V, to : V, info : RouteInfo \cup {NoRoute}]

Init ==
  /\ graph_ \in Graphs
  /\ routes_internal_data_ = [i \in V |-> [j \in V |-> NoRoute]]
  /\ next_route_id_ = 0
  /\ expanded_routes_cache_ = << >>
  /\ pc = "row"
  /\ vertex = 0
  /\ todo = {}
  /\ cursor = [through |-> 0, from |-> 0, to |-> 0]
  /\ walk = NoWalk
  /\ answers = {}

-----------------------------------------------------------------------------
(***************************************************************************)
(* InitializeRoutesInternalData: the diagonal, then the incident edges of  *)
(* the vertex in the order of their ids.                                   *)
(***************************************************************************)
SetCell(i, j, data) ==
  routes_internal_data_' = [routes_internal_data_ EXCEPT ![i][j] = data]

InitializeDiagonal ==
  /\ pc = "row"
  /\ SetCell(vertex, vertex, [weight |-> 0, prev_edge |-> NoEdge])
  /\ todo' = IncidentEdges(graph_, vertex)
  /\ pc' = "edges"
  /\ UNCHANGED <<graph_, next_route_id_, expanded_routes_cache_, vertex,
                 cursor, walk, answers>>

\* route_internal_data->weight > edge.weight, or there is none yet.
Cheaper(data, weight) == data = NoRoute \/ weight < data.weight

ConsiderEdge ==
  /\ pc = "edges"
  /\ \E id \in todo :
       /\ \A other \in todo : id <= other
       /\ todo' = todo \ {id}
       /\ LET edge == GetEdge(id) IN
            IF Cheaper(routes_internal_data_[vertex][edge.to], edge.weight)
              THEN SetCell(vertex, edge.to,
                           [weight |-> edge.weight, prev_edge |-> id])
              ELSE UNCHANGED routes_internal_data_
  /\ UNCHANGED <<graph_, next_route_id_, expanded_routes_cache_, pc, vertex,
                 cursor, walk, answers>>

NextRow ==
  /\ pc = "edges"
  /\ todo = {}
  /\ IF vertex + 1 \in V
       THEN vertex' = vertex + 1 /\ pc' = "row"
       ELSE UNCHANGED vertex /\ pc' = "relax"
  /\ UNCHANGED <<graph_, routes_internal_data_, next_route_id_,
                 expanded_routes_cache_, todo, cursor, walk, answers>>

-----------------------------------------------------------------------------
(***************************************************************************)
(* RelaxRoutesInternalDataThroughVertex.  route_from and route_to are      *)
(* references into the table that RelaxRoute is writing to.                *)
(***************************************************************************)
Through == cursor.through

\* Faulty variant: an equally good route replaces the one found before.
RelaxedOnTies(table, k, i, j) ==
  LET route_from == table[i][k]
      route_to == table[k][j]
  IN  IF /\ route_from # NoRoute
         /\ route_to # NoRoute
         /\ \/ table[i][j] = NoRoute
            \/ route_from.weight + route_to.weight <= table[i][j].weight
        THEN [weight |-> route_from.weight + route_to.weight,
              prev_edge |-> IF route_to.prev_edge # NoEdge
                              THEN route_to.prev_edge
                              ELSE route_from.prev_edge]
        ELSE table[i][j]

\* Faulty variant: the last edge is taken from the first half of the route.
RelaxedWithFirstHalf(table, k, i, j) ==
  LET route_from == table[i][k]
      route_to == table[k][j]
  IN  IF /\ route_from # NoRoute
         /\ route_to # NoRoute
         /\ Cheaper(table[i][j], route_from.weight + route_to.weight)
        THEN [weight |-> route_from.weight + route_to.weight,
              prev_edge |-> IF route_from.prev_edge # NoEdge
                              THEN route_from.prev_edge
                              ELSE route_to.prev_edge]
        ELSE table[i][j]

\* RelaxRoute(i, j): the value of cell [i][j] of the table afterwards.
Relaxed(table, k, i, j) ==
  LET route_from == table[i][k]
      route_to == table[k][j]
  IN  IF /\ route_from # NoRoute
         /\ route_to # NoRoute
         /\ Cheaper(table[i][j], route_from.weight + route_to.weight)
        THEN [weight |-> route_from.weight + route_to.weight,
              prev_edge |-> IF route_to.prev_edge # NoEdge
                              THEN route_to.prev_edge
                              ELSE route_from.prev_edge]
        ELSE table[i][j]

\* Faulty variant: no route is relaxed through the last vertex.
FinishRowEarly ==
  IF cursor.from + 1 \in V
    THEN /\ cursor' = [through |-> Through, from |-> cursor.from + 1, to |-> 0]
         /\ UNCHANGED pc
    ELSE IF Through + 2 \in V
    THEN /\ cursor' = [through |-> Through + 1, from |-> 0, to |-> 0]
         /\ UNCHANGED pc
    ELSE /\ UNCHANGED cursor
         /\ pc' = "ready"

\* The end of the loop over vertex_to: the next row, or the next vertex to go
\* through, or the end of the constructor.
FinishRow ==
  IF cursor.from + 1 \in V
    THEN /\ cursor' = [through |-> Through, from |-> cursor.from + 1, to |-> 0]
         /\ UNCHANGED pc
    ELSE IF Through + 1 \in V
    THEN /\ cursor' = [through |-> Through + 1, from |-> 0, to |-> 0]
         /\ UNCHANGED pc
    ELSE /\ UNCHANGED cursor
         /\ pc' = "ready"

SkipRow ==
  /\ pc = "relax"
  /\ routes_internal_data_[cursor.from][Through] = NoRoute
  /\ FinishRow
  /\ UNCHANGED <<graph_, routes_internal_data_, next_route_id_,
                 expanded_routes_cache_, vertex, todo, walk, answers>>

RelaxRoute ==
  /\ pc = "relax"
  /\ routes_internal_data_[cursor.from][Through] # NoRoute
  /\ SetCell(cursor.from, cursor.to,
             Relaxed(routes_internal_data_, Through, cursor.from, cursor.to))
  /\ IF cursor.to + 1 \in V
       THEN /\ cursor' = [cursor EXCEPT !.to = @ + 1]
            /\ UNCHANGED pc
       ELSE FinishRow
  /\ UNCHANGED <<graph_, next_route_id_, expanded_routes_cache_, vertex, todo,
                 walk, answers>>

-----------------------------------------------------------------------------
(***************************************************************************)
(* BuildRoute.  The walk goes back along the last edges, from `to` until   *)
(* an entry without one; the code dereferences the entries it comes by     *)
(* unchecked.  A walk of more edges than there are vertices has been at    *)
(* some vertex twice, and what it does depends on the vertex alone, so it  *)
(* goes round for ever: the model lets it hang.                            *)
(***************************************************************************)
BuildNoRoute(from, to) ==
  /\ pc = "ready"
  /\ Cardinality(answers) < MaxRoutes
  /\ routes_internal_data_[from][to] = NoRoute
  /\ answers' = answers \cup {[from |-> from, to |-> to, info |-> NoRoute]}
  /\ UNCHANGED <<graph_, routes_internal_data_, next_route_id_,
                 expanded_routes_cache_, pc, construction, walk>>

StartWalk(from, to) ==
  /\ pc = "ready"
  /\ next_route_id_ < MaxRoutes
  /\ routes_internal_data_[from][to] # NoRoute
  /\ walk' = [from |-> from, to |-> to, edges |-> << >>,
              edge_id |-> routes_internal_data_[from][to].prev_edge]
  /\ pc' = "walk"
  /\ UNCHANGED <<graph_, routes_internal_data_, next_route_id_,
                 expanded_routes_cache_, construction, answers>>

\* Faulty variant: the indices of the table are swapped.
WalkTransposed ==
  /\ pc = "walk"
  /\ walk.edge_id # NoEdge
  /\ Len(walk.edges) <= graph_.vertex_count
  /\ LET before == routes_internal_data_[GetEdge(walk.edge_id).from][walk.from]
     IN  IF before = NoRoute
           THEN pc' = "undefined" /\ UNCHANGED walk
           ELSE /\ walk' = [from |-> walk.from, to |-> walk.to,
                            edge_id |-> before.prev_edge,
                            edges |-> Append(walk.edges, walk.edge_id)]
                /\ UNCHANGED pc
  /\ UNCHANGED <<graph_, routes_internal_data_, next_route_id_,
                 expanded_routes_cache_, construction, answers>>

WalkBack ==
  /\ pc = "walk"
  /\ walk.edge_id # NoEdge
  /\ Len(walk.edges) <= graph_.vertex_count
  /\ LET before == routes_internal_data_[walk.from][GetEdge(walk.edge_id).from]
     IN  IF before = NoRoute
           THEN pc' = "undefined" /\ UNCHANGED walk
           ELSE /\ walk' = [from |-> walk.from, to |-> walk.to,
                            edge_id |-> before.prev_edge,
                            edges |-> Append(walk.edges, walk.edge_id)]
                /\ UNCHANGED pc
  /\ UNCHANGED <<graph_, routes_internal_data_, next_route_id_,
                 expanded_routes_cache_, construction, answers>>

Expanded(edges) ==
  [id \in DOMAIN expanded_routes_cache_ \cup {next_route_id_} |->
     IF id = next_route_id_ THEN edges ELSE expanded_routes_cache_[id]]

\* Faulty variant: the edges are left in the order of the walk.
FinishWalkUnreversed ==
  /\ pc = "walk"
  /\ walk.edge_id = NoEdge
  /\ expanded_routes_cache_' = Expanded(walk.edges)
  /\ answers' = answers \cup
       {[from |-> walk.from, to |-> walk.to,
         info |-> [id |-> next_route_id_,
                   weight |-> routes_internal_data_[walk.from][walk.to].weight,
                   edge_count |-> Len(walk.edges)]]}
  /\ next_route_id_' = next_route_id_ + 1
  /\ walk' = NoWalk
  /\ pc' = "ready"
  /\ UNCHANGED <<graph_, routes_internal_data_, construction>>

\* Faulty variant: the id is used again for the next route.
FinishWalkSameId ==
  /\ pc = "walk"
  /\ walk.edge_id = NoEdge
  /\ expanded_routes_cache_' = Expanded(Reverse(walk.edges))
  /\ answers' = answers \cup
       {[from |-> walk.from, to |-> walk.to,
         info |-> [id |-> next_route_id_,
                   weight |-> routes_internal_data_[walk.from][walk.to].weight,
                   edge_count |-> Len(walk.edges)]]}
  /\ UNCHANGED next_route_id_
  /\ walk' = NoWalk
  /\ pc' = "ready"
  /\ UNCHANGED <<graph_, routes_internal_data_, construction>>

FinishWalk ==
  /\ pc = "walk"
  /\ walk.edge_id = NoEdge
  /\ expanded_routes_cache_' = Expanded(Reverse(walk.edges))
  /\ answers' = answers \cup
       {[from |-> walk.from, to |-> walk.to,
         info |-> [id |-> next_route_id_,
                   weight |-> routes_internal_data_[walk.from][walk.to].weight,
                   edge_count |-> Len(walk.edges)]]}
  /\ next_route_id_' = next_route_id_ + 1
  /\ walk' = NoWalk
  /\ pc' = "ready"
  /\ UNCHANGED <<graph_, routes_internal_data_, construction>>

\* The caller gives up the RouteInfo it names.
ReleaseRoute(id) ==
  /\ pc = "ready"
  /\ id \in DOMAIN expanded_routes_cache_
  /\ expanded_routes_cache_' =
       [k \in DOMAIN expanded_routes_cache_ \ {id} |-> expanded_routes_cache_[k]]
  /\ answers' = {a \in answers : a.info = NoRoute \/ a.info.id # id}
  /\ UNCHANGED <<graph_, routes_internal_data_, next_route_id_, pc,
                 construction, walk>>

-----------------------------------------------------------------------------
Construct ==
  \/ InitializeDiagonal
  \/ ConsiderEdge
  \/ NextRow
  \/ SkipRow
  \/ RelaxRoute

Walk == WalkBack \/ FinishWalk

Next ==
  \/ Construct
  \/ Walk
  \/ \E from, to \in V : BuildNoRoute(from, to) \/ StartWalk(from, to)
  \/ \E id \in DOMAIN expanded_routes_cache_ : ReleaseRoute(id)

\* The thread that constructs the router, or is inside BuildRoute, runs on; no
\* call has to be made.
Spec == Init /\ [][Next]_vars /\ WF_vars(Construct) /\ WF_vars(Walk)

Constructed == pc \in {"ready", "walk"}

\* Entry [i][j] of the table is there exactly if j can be reached from i, and
\* its weight is that of the cheapest walk, among all walks of the graph
\* (router.h, the constructor).  A walk of more edges than there are vertices
\* is not cheaper than one without its cycles.
TableIsShortest ==
  pc = "ready" =>
    LET walks == WalkWeights(graph_) IN
    \A i, j \in V :
      IF walks[i][j] = {}
        THEN routes_internal_data_[i][j] = NoRoute
        ELSE /\ routes_internal_data_[i][j] # NoRoute
             /\ routes_internal_data_[i][j].weight \in walks[i][j]
             /\ \A w \in walks[i][j] : routes_internal_data_[i][j].weight <= w

\* The finished table agrees with every edge of the graph: no edge offers a
\* shorter way, and the last edge of an entry accounts for its weight exactly,
\* given the entry of the vertex the edge comes from (which BuildRoute
\* dereferences without looking).
Settled(table) ==
  /\ \A i \in V : table[i][i] = [weight |-> 0, prev_edge |-> NoEdge]
  /\ \A i \in V, id \in EdgeIds(graph_) :
       LET edge == GetEdge(id) IN
       table[i][edge.from] # NoRoute =>
         /\ table[i][edge.to] # NoRoute
         /\ table[i][edge.to].weight <= table[i][edge.from].weight + edge.weight
  /\ \A i, j \in V :
       i # j /\ table[i][j] # NoRoute =>
         /\ table[i][j].prev_edge # NoEdge
         /\ LET edge == GetEdge(table[i][j].prev_edge) IN
              /\ edge.to = j
              /\ table[i][edge.from] # NoRoute
              /\ table[i][j].weight = table[i][edge.from].weight + edge.weight

TableIsSettled == Constructed => Settled(routes_internal_data_)

\* What GetRouteEdge gives for a RouteInfo that was not released stays as it was
\* built, whatever is built or released in between: edge_count edges that lead
\* from the one vertex of the query to the other, one from where the other ends.
HeldRoutesArePaths ==
  \A a \in answers :
    a.info # NoRoute =>
      /\ a.info.id \in DOMAIN expanded_routes_cache_
      /\ IsPath(graph_, expanded_routes_cache_[a.info.id], a.from, a.to)
      /\ Len(expanded_routes_cache_[a.info.id]) = a.info.edge_count
      /\ a.info.weight = routes_internal_data_[a.from][a.to].weight

\* BuildRoute never dereferences an entry that is not there.
NoUndefinedAccess == pc # "undefined"

\* BuildRoute comes by no vertex twice, not even where edges of weight 0 form
\* cycles: its walk stays shorter than the number of vertices (router.h, the
\* loop of BuildRoute, which has no other end).
WalksAreShort == pc = "walk" => Len(walk.edges) < graph_.vertex_count

\* Every BuildRoute returns: the walk along the last edges gets back to `from`
\* even where edges of weight 0 form cycles.
BuildRouteReturns == pc = "walk" ~> pc = "ready"

-----------------------------------------------------------------------------
Finder == INSTANCE RouteFinder WITH
  graph <- graph_,
  ready <- pc \in {"ready", "walk", "undefined"},
  expanded <- expanded_routes_cache_

\* Router keeps the promises of RouteFinder: whatever order it relaxes its
\* cells in, what BuildRoute hands out is a cheapest path, kept until released,
\* and the constructor returns.
FindsRoutes == Finder!Spec

\* The promises without the last one: every step of the router is a step of
\* RouteFinder, or one its callers do not see.
AnswersAreRight == Finder!Init /\ [][Finder!Next]_(Finder!vars)
=============================================================================
