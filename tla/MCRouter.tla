------------------------------ MODULE MCRouter ------------------------------
(***************************************************************************)
(* Graphs for TLC.  The small graphs are all the graphs of three vertices  *)
(* with one edge at most from each vertex to each other, weighing 0 or 1:  *)
(* a detour may be cheaper than the direct edge, as good, or dearer, and   *)
(* edges of weight 0 form cycles.  The multigraphs have parallel edges and *)
(* loops.  The city graphs have the shape StopsGraphManager gives its own: *)
(* vertex 2s waits at stop s and vertex 2s + 1 rides from it; waiting      *)
(* costs nothing or one.                                                   *)
(***************************************************************************)
EXTENDS Router, SequencesExt

Link(from, to, weight) == [from |-> from, to |-> to, weight |-> weight]

Pairs == << <<0, 1>>, <<1, 0>>, <<1, 2>>, <<2, 1>>, <<0, 2>>, <<2, 0>> >>

SmallGraph(weights) ==
  [vertex_count |-> 3,
   edges |-> SelectSeq([n \in 1 .. 6 |->
                          Link(Pairs[n][1], Pairs[n][2], weights[n])],
                       LAMBDA link : link.weight # 9)]

SmallGraphs == {SmallGraph(w) : w \in [1 .. 6 -> {0, 1, 9}]}

Links == {Link(from, to, weight) : from, to \in {0, 1}, weight \in {0, 1, 2}}

MultiGraphs ==
  {[vertex_count |-> 2, edges |-> <<a, b, c>>] : a, b, c \in Links}

Rides == << <<0, 1, 0>>, <<1, 0, 0>>, <<1, 2, 1>>, <<2, 0, 0>>, <<0, 2, 3>> >>

Boarding(wait) == <<Link(0, 1, wait), Link(2, 3, wait), Link(4, 5, wait)>>

Riding(ride) == Link(2 * ride[1] + 1, 2 * ride[2], ride[3])

CityGraph(wait, chosen) ==
  [vertex_count |-> 6,
   edges |-> Boarding(wait)
             \o [n \in 1 .. Cardinality(chosen) |->
                   Riding(Rides[SetToSortSeq(chosen, <)[n]])]]

CityGraphs ==
  {CityGraph(wait, chosen) : wait \in {0, 1}, chosen \in SUBSET (1 .. 5)}

AllGraphs == SmallGraphs \cup CityGraphs
=============================================================================
