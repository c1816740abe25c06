------------------------ MODULE DirectedWeightedGraph ------------------------
(***************************************************************************)
(* The graph of graph.h, Graph::DirectedWeightedGraph: a number of         *)
(* vertices and the edges in the order AddEdge was given them.  An EdgeId  *)
(* of the code is one less than the position of the edge in `edges`.       *)
(***************************************************************************)
EXTENDS Naturals, Sequences, FiniteSets

NoEdge == 0     \* std::nullopt of std::optional<EdgeId>

EmptyGraph(vertex_count) == [vertex_count |-> vertex_count, edges |-> << >>]

\* AddEdge for each of a sequence of edges, in turn.
AddEdges(graph, edges) == [graph EXCEPT !.edges = @ \o edges]

Vertices(graph) == 0 .. graph.vertex_count - 1

EdgeIds(graph) == DOMAIN graph.edges

\* The incidence list of a vertex is this set in increasing order: ids are
\* handed out by AddEdge, which appends them to the list.
IncidentEdges(graph, vertex) ==
  {id \in EdgeIds(graph) : graph.edges[id].from = vertex}

-----------------------------------------------------------------------------
(***************************************************************************)
(* Paths, as sequences of edge ids.                                        *)
(***************************************************************************)
IsPath(graph, path, from, to) ==
  /\ \A n \in DOMAIN path : path[n] \in EdgeIds(graph)
  /\ \A n \in 1 .. Len(path) - 1 :
       graph.edges[path[n]].to = graph.edges[path[n + 1]].from
  /\ IF path = << >>
       THEN from = to
       ELSE /\ graph.edges[path[1]].from = from
            /\ graph.edges[path[Len(path)]].to = to

PathWeight(graph, path) ==
  LET total[n \in 0 .. Len(path)] ==
        IF n = 0 THEN 0 ELSE total[n - 1] + graph.edges[path[n]].weight
  IN  total[Len(path)]

\* The total weights of the walks of at most one edge more than those of R.
WithEdge(graph, R) ==
  [from \in Vertices(graph) |-> [to \in Vertices(graph) |->
     R[from][to] \cup
     UNION {{w + graph.edges[id].weight : w \in R[from][graph.edges[id].from]} :
            id \in {e \in EdgeIds(graph) : graph.edges[e].to = to}}]]

\* The total weights of the walks of at most n edges from one vertex to
\* another, for every pair of vertices, computed one edge at a time.
WeightsWithin(graph) ==
  LET W[n \in 0 .. graph.vertex_count] ==
        IF n = 0
          THEN [from \in Vertices(graph) |-> [to \in Vertices(graph) |->
                  IF from = to THEN {0} ELSE {}]]
          ELSE WithEdge(graph, W[n - 1])
  IN  W

WalkWeights(graph) == WeightsWithin(graph)[graph.vertex_count]
=============================================================================
