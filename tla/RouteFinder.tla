---------------------------- MODULE RouteFinder ----------------------------
(***************************************************************************)
(* What Graph::Router promises its owner, without saying how: once the     *)
(* constructor has returned, BuildRoute answers with a cheapest path, if   *)
(* there is a path at all, under an id of its own, and the edges of the    *)
(* path can be read back under that id until the route is released.        *)
(***************************************************************************)
EXTENDS DirectedWeightedGraph

CONSTANTS Graphs, NoRoute

VARIABLES
  graph,
  ready,      \* the constructor has returned
  answers,    \* the answers callers hold: from, to, info
  expanded    \* the edges of the routes among them, by id

vars == <<graph, ready, answers, expanded>>

V == Vertices(graph)

Held == {a \in answers : a.info # NoRoute}

\* A path and its weight are right for a query if no walk is cheaper.
Cheapest(from, to, weight) ==
  LET weights == WalkWeights(graph)[from][to]
  IN  weight \in weights /\ \A w \in weights : weight <= w

RightAnswer(a, edges) ==
  /\ IsPath(graph, edges, a.from, a.to)
  /\ a.info.edge_count = Len(edges)
  /\ a.info.weight = PathWeight(graph, edges)
  /\ Cheapest(a.from, a.to, a.info.weight)

Init ==
  /\ graph \in Graphs
  /\ ready = FALSE
  /\ answers = {}
  /\ expanded = << >>

Construct ==
  /\ ~ ready
  /\ ready' = TRUE
  /\ UNCHANGED <<graph, answers, expanded>>

AnswerNoRoute(from, to) ==
  /\ ready
  /\ WalkWeights(graph)[from][to] = {}
  /\ answers' = answers \cup {[from |-> from, to |-> to, info |-> NoRoute]}
  /\ UNCHANGED <<graph, ready, expanded>>

AnswerRoute(from, to) ==
  /\ ready
  /\ \E a \in answers' \ answers :
       /\ a.from = from /\ a.to = to /\ a.info # NoRoute
       /\ answers' = answers \cup {a}
       /\ a.info.id \notin DOMAIN expanded
       /\ DOMAIN expanded' = DOMAIN expanded \cup {a.info.id}
       /\ \A id \in DOMAIN expanded : expanded'[id] = expanded[id]
       /\ RightAnswer(a, expanded'[a.info.id])
  /\ UNCHANGED <<graph, ready>>

Release(id) ==
  /\ ready
  /\ expanded' = [k \in DOMAIN expanded \ {id} |-> expanded[k]]
  /\ answers' = {a \in answers : a.info = NoRoute \/ a.info.id # id}
  /\ UNCHANGED <<graph, ready>>

Next ==
  \/ Construct
  \/ \E from, to \in V : AnswerNoRoute(from, to) \/ AnswerRoute(from, to)
  \/ \E id \in DOMAIN expanded : Release(id)

Spec == Init /\ [][Next]_vars /\ WF_vars(Construct)
=============================================================================
