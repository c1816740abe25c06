---------------------------- MODULE RouterProofs ----------------------------
(***************************************************************************)
(* The table of the router and BuildRoute, proved for every graph with     *)
(* natural weights.                                                        *)
(*                                                                         *)
(* Relaxing through vertex k in place is the same as computing a new table *)
(* from the old one: row k and column k, all that RelaxRoute reads of      *)
(* other cells, do not change, because the diagonal is 0.  So the          *)
(* invariant speaks of the table as it will be when the phase is complete  *)
(* (Completed), which no cell of the phase changes, and one lemma, about   *)
(* two tables and no state, takes a phase to the next (PhaseStep).         *)
(***************************************************************************)
EXTENDS Router, GraphProofs

LOCAL INSTANCE SequencesExt

Table(D) == D \in [V -> [V -> RouteInternalData \cup {NoRoute}]]

Nil == [weight |-> 0, prev_edge |-> NoEdge]

Diagonal(D) == \A i \in V : D[i][i] = Nil

\* No entry is beaten by a detour through a vertex before k.
Detours(D, k) ==
  \A m, i, j \in V :
    m < k /\ D[i][m] # NoRoute /\ D[m][j] # NoRoute =>
      /\ D[i][j] # NoRoute
      /\ D[i][j].weight <= D[i][m].weight + D[m][j].weight

EdgesCounted(D) ==
  \A id \in EdgeIds(graph_) :
    LET edge == GetEdge(id) IN
      /\ D[edge.from][edge.to] # NoRoute
      /\ D[edge.from][edge.to].weight <= edge.weight

\* While the table is filled an entry may be heavier than the way its last
\* edge shows; it is never lighter.
LastEdge(D, i, j) ==
  /\ D[i][j].prev_edge \in EdgeIds(graph_)
  /\ LET edge == GetEdge(D[i][j].prev_edge) IN
       /\ edge.to = j
       /\ D[i][edge.from] # NoRoute
       /\ D[i][edge.from].weight + edge.weight <= D[i][j].weight

LastEdges(D) == \A i, j \in V : i # j /\ D[i][j] # NoRoute => LastEdge(D, i, j)

\* u comes before j in the routes from i: its route weighs less or, where edges
\* of weight 0 make it weigh the same, its rank is lower.
Before(D, i, rank, u, j) ==
  \/ D[i][u].weight < D[i][j].weight
  \/ D[i][u].weight = D[i][j].weight /\ rank[u] < rank[j]

\* Going back along the last edges goes down.
Descends(D, i, rank) ==
  \A j \in V : i # j /\ D[i][j] # NoRoute =>
    Before(D, i, rank, GetEdge(D[i][j].prev_edge).from, j)

Ranked(D) ==
  \A i \in V : \E rank \in [V -> Nat], bound \in Nat :
    /\ \A j \in V : rank[j] < bound
    /\ Descends(D, i, rank)

Phase(D, k) ==
  /\ Table(D)
  /\ Diagonal(D)
  /\ Detours(D, k)
  /\ EdgesCounted(D)
  /\ LastEdges(D)
  /\ Ranked(D)

\* The table when the cells outside S have been relaxed, too; S[i] holds the
\* cells of row i that have been.
Completed(D, k, S) ==
  [i \in V |-> [j \in V |-> IF j \in S[i] THEN D[i][j] ELSE Relaxed(D, k, i, j)]]

NoCells == [i \in V |-> {}]

GraphOK ==
  /\ graph_.vertex_count \in Nat \ {0}
  /\ graph_.edges \in Seq([from : V, to : V, weight : Nat])

-----------------------------------------------------------------------------
(***************************************************************************)
(* The values of the table.                                                *)
(***************************************************************************)
LEMMA VertexFacts ==
  ASSUME GraphOK
  PROVE  /\ V \subseteq Nat
         /\ 0 \in V
         /\ \A v \in V : v < graph_.vertex_count /\ \A u \in 0 .. v : u \in V
         /\ \A v \in V : v + 1 \notin V => v + 1 = graph_.vertex_count
BY DEF GraphOK, V, Vertices

LEMMA SeqElement ==
  ASSUME NEW S, NEW s \in Seq(S), NEW n \in 1 .. Len(s)
  PROVE  s[n] \in S
OBVIOUS

LEMMA EdgeFacts ==
  ASSUME GraphOK, NEW id \in EdgeIds(graph_)
  PROVE  /\ GetEdge(id) \in [from : V, to : V, weight : Nat]
         /\ GetEdge(id).from \in V
         /\ GetEdge(id).to \in V
         /\ GetEdge(id).weight \in Nat
         /\ id \in Nat
         /\ id # NoEdge
<1>1. id \in 1 .. Len(graph_.edges)
  BY DEF GraphOK, EdgeIds
<1>2. graph_.edges[id] \in [from : V, to : V, weight : Nat]
  BY <1>1, SeqElement DEF GraphOK
<1> QED
  BY <1>1, <1>2 DEF GetEdge, NoEdge, GraphOK

LEMMA NilIsData ==
  /\ Nil \in RouteInternalData
  /\ Nil.weight = 0
  /\ Nil.prev_edge = NoEdge
BY DEF Nil, RouteInternalData

LEMMA DataFacts ==
  ASSUME GraphOK
  PROVE  NoRoute \notin RouteInternalData
<1>1. EdgeIds(graph_) \cup {NoEdge} \subseteq Nat
  BY EdgeFacts DEF NoEdge
<1> QED
  BY <1>1, RouterConstants DEF RouteInternalData

LEMMA CellFacts ==
  ASSUME NEW D, Table(D), NEW i \in V, NEW j \in V, D[i][j] # NoRoute
  PROVE  /\ D[i][j] \in RouteInternalData
         /\ D[i][j].weight \in Nat
         /\ D[i][j].prev_edge \in EdgeIds(graph_) \cup {NoEdge}
BY DEF Table, RouteInternalData

\* What Relaxed gives, without records: a candidate wins if it is strictly
\* lighter, and takes the last edge of its second half if there is one.
LEMMA RelaxedFacts ==
  ASSUME GraphOK, NEW D, Table(D), NEW k \in V, NEW i \in V, NEW j \in V
  PROVE  /\ Relaxed(D, k, i, j) \in RouteInternalData \cup {NoRoute}
         /\ D[i][j] # NoRoute =>
              /\ Relaxed(D, k, i, j) # NoRoute
              /\ Relaxed(D, k, i, j).weight <= D[i][j].weight
         /\ D[i][k] # NoRoute /\ D[k][j] # NoRoute =>
              /\ Relaxed(D, k, i, j) # NoRoute
              /\ Relaxed(D, k, i, j).weight <= D[i][k].weight + D[k][j].weight
         /\ Relaxed(D, k, i, j) # D[i][j] =>
              /\ D[i][k] # NoRoute /\ D[k][j] # NoRoute
              /\ D[i][j] # NoRoute =>
                   D[i][k].weight + D[k][j].weight < D[i][j].weight
              /\ Relaxed(D, k, i, j).weight = D[i][k].weight + D[k][j].weight
              /\ Relaxed(D, k, i, j).prev_edge =
                   IF D[k][j].prev_edge # NoEdge THEN D[k][j].prev_edge
                                                 ELSE D[i][k].prev_edge
<1>1. NoRoute \notin RouteInternalData
  BY DataFacts
<1>2. D[i][j] \in RouteInternalData \cup {NoRoute}
  BY DEF Table
<1>3. CASE D[i][k] # NoRoute /\ D[k][j] # NoRoute
           /\ Cheaper(D[i][j], D[i][k].weight + D[k][j].weight)
  <2> DEFINE new == [weight |-> D[i][k].weight + D[k][j].weight,
                     prev_edge |-> IF D[k][j].prev_edge # NoEdge
                                     THEN D[k][j].prev_edge
                                     ELSE D[i][k].prev_edge]
  <2>1. Relaxed(D, k, i, j) = new
    BY <1>3 DEF Relaxed
  <2>2. new \in RouteInternalData
    BY <1>3, CellFacts DEF RouteInternalData
  <2>3. new.weight = D[i][k].weight + D[k][j].weight /\ new.weight \in Nat
    BY <1>3, CellFacts
  <2>4. D[i][j] # NoRoute => new.weight < D[i][j].weight
    BY <1>3, <2>3 DEF Cheaper
  <2>5. D[i][j] # NoRoute => D[i][j].weight \in Nat
    BY CellFacts
  <2> QED
    BY <1>1, <1>3, <2>1, <2>2, <2>3, <2>4, <2>5
<1>4. CASE ~(D[i][k] # NoRoute /\ D[k][j] # NoRoute
             /\ Cheaper(D[i][j], D[i][k].weight + D[k][j].weight))
  <2>1. Relaxed(D, k, i, j) = D[i][j]
    BY <1>4 DEF Relaxed
  <2>2. D[i][k] # NoRoute /\ D[k][j] # NoRoute =>
          /\ D[i][j] # NoRoute
          /\ D[i][j].weight <= D[i][k].weight + D[k][j].weight
    BY <1>4, CellFacts DEF Cheaper
  <2>3. D[i][j] # NoRoute => D[i][j].weight <= D[i][j].weight
    BY CellFacts
  <2> QED
    BY <1>2, <2>1, <2>2, <2>3
<1> QED
  BY <1>3, <1>4

\* RelaxRoute leaves alone the cells it reads from: the diagonal, row k and
\* column k.
LEMMA PivotStable ==
  ASSUME GraphOK, NEW D, Table(D), Diagonal(D),
         NEW k \in V, NEW i \in V, NEW j \in V,
         i = j \/ i = k \/ j = k
  PROVE  Relaxed(D, k, i, j) = D[i][j]
<1> SUFFICES ASSUME D[i][k] # NoRoute, D[k][j] # NoRoute,
                    D[i][j] # NoRoute =>
                      D[i][k].weight + D[k][j].weight < D[i][j].weight
             PROVE  FALSE
  BY RelaxedFacts
<1>1. Nil # NoRoute
  BY NilIsData, DataFacts
<1>2. D[i][k].weight \in Nat /\ D[k][j].weight \in Nat
  BY CellFacts
<1>3. D[i][i].weight = 0 /\ D[k][k].weight = 0
  BY NilIsData DEF Diagonal
<1>4. CASE i = j
  BY <1>1, <1>2, <1>3, <1>4 DEF Diagonal
<1>5. CASE i = k
  BY <1>2, <1>3, <1>5
<1>6. CASE j = k
  BY <1>2, <1>3, <1>6
<1> QED
  BY <1>4, <1>5, <1>6

-----------------------------------------------------------------------------
(***************************************************************************)
(* One phase, as a function of the table at its start.                     *)
(***************************************************************************)
LEMMA CompletedAll ==
  ASSUME NEW D, Table(D), NEW k, NEW S, \A i \in V : S[i] = V
  PROVE  Completed(D, k, S) = D
BY DEF Completed, Table

\* The table after the phase keeps everything it had and knows the detours
\* through k.
LEMMA PhaseStep ==
  ASSUME GraphOK, NEW D, NEW k \in V, Phase(D, k)
  PROVE  Phase(Completed(D, k, NoCells), k + 1)
<1> DEFINE C == Completed(D, k, NoCells)
<1>1. Table(D) /\ Diagonal(D)
  BY DEF Phase
<1>2. \A i, j \in V : C[i][j] = Relaxed(D, k, i, j)
  BY DEF Completed, NoCells
<1>3. \A i, j \in V : i = j \/ i = k \/ j = k => C[i][j] = D[i][j]
  BY <1>1, <1>2, PivotStable
<1>4. Table(C)
  BY <1>1, RelaxedFacts DEF Table, Completed, NoCells
<1>5. Diagonal(C)
  BY <1>1, <1>3 DEF Diagonal
<1>6. \A i, j \in V : D[i][j] # NoRoute =>
        C[i][j] # NoRoute /\ C[i][j].weight <= D[i][j].weight
  BY <1>1, <1>2, RelaxedFacts
<1>7. \A i, j \in V : D[i][k] # NoRoute /\ D[k][j] # NoRoute =>
        /\ C[i][j] # NoRoute
        /\ C[i][j].weight <= D[i][k].weight + D[k][j].weight
  BY <1>1, <1>2, RelaxedFacts
<1>8. \A i, j \in V : C[i][j] # D[i][j] =>
        /\ D[i][k] # NoRoute /\ D[k][j] # NoRoute
        /\ C[i][j].weight = D[i][k].weight + D[k][j].weight
        /\ C[i][j].prev_edge = IF D[k][j].prev_edge # NoEdge
                                 THEN D[k][j].prev_edge
                                 ELSE D[i][k].prev_edge
  BY <1>1, <1>2, RelaxedFacts
<1>9. \A i, j \in V : /\ D[i][j] # NoRoute => D[i][j].weight \in Nat
                      /\ C[i][j] # NoRoute => C[i][j].weight \in Nat
  BY <1>1, <1>4, CellFacts
<1> HIDE DEF C
<1>10. EdgesCounted(C)
  <2> SUFFICES ASSUME NEW id \in EdgeIds(graph_)
               PROVE  /\ C[GetEdge(id).from][GetEdge(id).to] # NoRoute
                      /\ C[GetEdge(id).from][GetEdge(id).to].weight
                           <= GetEdge(id).weight
    BY DEF EdgesCounted
  <2>1. /\ D[GetEdge(id).from][GetEdge(id).to] # NoRoute
        /\ D[GetEdge(id).from][GetEdge(id).to].weight <= GetEdge(id).weight
    BY DEF Phase, EdgesCounted
  <2> QED
    BY <1>6, <1>9, <2>1, EdgeFacts
<1>11. Detours(C, k + 1)
  <2> SUFFICES ASSUME NEW m \in V, NEW i \in V, NEW j \in V, m < k + 1,
                      C[i][m] # NoRoute, C[m][j] # NoRoute
               PROVE  /\ C[i][j] # NoRoute
                      /\ C[i][j].weight <= C[i][m].weight + C[m][j].weight
    BY DEF Detours
  <2>1. CASE m = k
    BY <1>3, <1>7, <2>1
  <2>2. CASE m # k
    <3>1. \A a, b \in V : D[a][m] # NoRoute /\ D[m][b] # NoRoute =>
            /\ D[a][b] # NoRoute
            /\ D[a][b].weight <= D[a][m].weight + D[m][b].weight
      <4>1. m < k
        BY <2>2, VertexFacts
      <4> QED
        BY <4>1 DEF Phase, Detours
    <3>2. CASE C[i][m] = D[i][m] /\ C[m][j] = D[m][j]
      BY <1>6, <1>9, <3>1, <3>2
    <3>3. CASE C[i][m] = D[i][m] /\ C[m][j] # D[m][j]
      <4>1. /\ D[m][k] # NoRoute /\ D[k][j] # NoRoute
            /\ C[m][j].weight = D[m][k].weight + D[k][j].weight
        BY <1>8, <3>3
      <4>2. D[i][k] # NoRoute /\ D[i][k].weight <= D[i][m].weight + D[m][k].weight
        BY <3>1, <3>3, <4>1
      <4> QED
        BY <1>7, <1>9, <3>3, <4>1, <4>2
    <3>4. CASE C[i][m] # D[i][m] /\ C[m][j] = D[m][j]
      <4>1. /\ D[i][k] # NoRoute /\ D[k][m] # NoRoute
            /\ C[i][m].weight = D[i][k].weight + D[k][m].weight
        BY <1>8, <3>4
      <4>2. D[k][j] # NoRoute /\ D[k][j].weight <= D[k][m].weight + D[m][j].weight
        BY <3>1, <3>4, <4>1
      <4> QED
        BY <1>7, <1>9, <3>4, <4>1, <4>2
    <3>5. CASE C[i][m] # D[i][m] /\ C[m][j] # D[m][j]
      <4>1. /\ D[i][k] # NoRoute /\ D[k][m] # NoRoute
            /\ C[i][m].weight = D[i][k].weight + D[k][m].weight
        BY <1>8, <3>5
      <4>2. /\ D[m][k] # NoRoute /\ D[k][j] # NoRoute
            /\ C[m][j].weight = D[m][k].weight + D[k][j].weight
        BY <1>8, <3>5
      <4> QED
        BY <1>7, <1>9, <4>1, <4>2
    <3> QED
      BY <3>2, <3>3, <3>4, <3>5
  <2> QED
    BY <2>1, <2>2
<1>12. LastEdges(C)
  <2> SUFFICES ASSUME NEW i \in V, NEW j \in V, i # j, C[i][j] # NoRoute
               PROVE  LastEdge(C, i, j)
    BY DEF LastEdges
  <2>1. CASE C[i][j] = D[i][j]
    <3>1. LastEdge(D, i, j)
      BY <2>1 DEF Phase, LastEdges
    <3> DEFINE u == GetEdge(D[i][j].prev_edge).from
               w == GetEdge(D[i][j].prev_edge).weight
    <3>2. D[i][j].prev_edge \in EdgeIds(graph_) /\ u \in V /\ w \in Nat
      BY <3>1, EdgeFacts DEF LastEdge
    <3>3. D[i][u] # NoRoute /\ D[i][u].weight + w <= D[i][j].weight
      BY <3>1 DEF LastEdge
    <3>4. C[i][u] # NoRoute /\ C[i][u].weight + w <= C[i][j].weight
      <4> HIDE DEF u, w
      <4> QED
        BY <1>6, <1>9, <2>1, <3>2, <3>3
    <3> QED
      BY <2>1, <3>1, <3>4 DEF LastEdge
  <2>2. CASE C[i][j] # D[i][j]
    <3>1. k # j /\ D[i][k] # NoRoute /\ D[k][j] # NoRoute
          /\ C[i][j].weight = D[i][k].weight + D[k][j].weight
      BY <1>3, <1>8, <2>2
    <3>2. LastEdge(D, k, j)
      BY <3>1 DEF Phase, LastEdges
    <3> DEFINE u == GetEdge(D[k][j].prev_edge).from
               w == GetEdge(D[k][j].prev_edge).weight
    <3>3. D[k][j].prev_edge \in EdgeIds(graph_) /\ u \in V /\ w \in Nat
      BY <3>2, EdgeFacts DEF LastEdge
    <3>4. D[k][u] # NoRoute /\ D[k][u].weight + w <= D[k][j].weight
      BY <3>2 DEF LastEdge
    <3>5. C[i][j].prev_edge = D[k][j].prev_edge
      BY <1>8, <2>2, <3>3, EdgeFacts
    <3>6. C[i][u] # NoRoute /\ C[i][u].weight + w <= C[i][j].weight
      <4> HIDE DEF u, w
      <4> QED
        BY <1>7, <1>9, <3>1, <3>3, <3>4
    <3> QED
      BY <3>2, <3>5, <3>6 DEF LastEdge
  <2> QED
    BY <2>1, <2>2
\* The entries that change get ranks above all those of their row, in the order
\* of row k, where their last edges come from.
<1>13. Ranked(C)
  <2> SUFFICES ASSUME NEW i \in V
               PROVE  \E rank \in [V -> Nat], bound \in Nat :
                        /\ \A j \in V : rank[j] < bound
                        /\ Descends(C, i, rank)
    BY DEF Ranked
  <2>1. PICK old \in [V -> Nat], ob \in Nat :
          (\A j \in V : old[j] < ob) /\ Descends(D, i, old)
    BY DEF Phase, Ranked
  <2>2. PICK via \in [V -> Nat], vb \in Nat :
          (\A j \in V : via[j] < vb) /\ Descends(D, k, via)
    BY DEF Phase, Ranked
  <2> DEFINE rank == [j \in V |-> IF C[i][j] = D[i][j] THEN old[j] ELSE ob + via[j]]
  <2>3. rank \in [V -> Nat]
    OBVIOUS
  <2>4. ASSUME NEW j \in V PROVE rank[j] < ob + vb
    <3>1. old[j] \in Nat /\ via[j] \in Nat /\ old[j] < ob /\ via[j] < vb
      BY <2>1, <2>2
    <3>2. rank[j] = IF C[i][j] = D[i][j] THEN old[j] ELSE ob + via[j]
      OBVIOUS
    <3> HIDE DEF rank
    <3> QED
      BY <3>1, <3>2
  <2>5. \A j \in V : /\ C[i][j] = D[i][j] => rank[j] = old[j]
                     /\ C[i][j] # D[i][j] => rank[j] = ob + via[j]
                     /\ rank[j] \in Nat /\ old[j] \in Nat /\ via[j] \in Nat
    OBVIOUS
  <2> HIDE DEF rank
  <2>6. ASSUME NEW j \in V, i # j, C[i][j] # NoRoute
        PROVE  Before(C, i, rank, GetEdge(C[i][j].prev_edge).from, j)
    <3>1. CASE C[i][j] = D[i][j]
      <4>1. LastEdge(D, i, j)
        BY <2>6, <3>1 DEF Phase, LastEdges
      <4> DEFINE u == GetEdge(D[i][j].prev_edge).from
                 w == GetEdge(D[i][j].prev_edge).weight
      <4>2. u \in V /\ w \in Nat /\ D[i][u] # NoRoute
            /\ D[i][u].weight + w <= D[i][j].weight
        BY <4>1, EdgeFacts DEF LastEdge
      <4>3. Before(D, i, old, u, j)
        BY <2>1, <2>6, <3>1 DEF Descends
      <4> HIDE DEF u, w
      <4>4. C[i][u] # NoRoute /\ C[i][u].weight <= D[i][u].weight
        BY <1>6, <4>2
      <4>5. C[i][u] # D[i][u] => C[i][u].weight < D[i][u].weight
        BY <1>1, <1>2, <4>2, RelaxedFacts
      <4>6. Before(C, i, rank, u, j)
        BY <1>9, <2>5, <2>6, <3>1, <4>2, <4>3, <4>4, <4>5 DEF Before
      <4> QED
        BY <3>1, <4>6 DEF u
    <3>2. CASE C[i][j] # D[i][j]
      <4>1. k # j /\ D[i][k] # NoRoute /\ D[k][j] # NoRoute
            /\ C[i][j].weight = D[i][k].weight + D[k][j].weight
        BY <1>3, <1>8, <3>2
      <4>2. LastEdge(D, k, j)
        BY <4>1 DEF Phase, LastEdges
      <4> DEFINE u == GetEdge(D[k][j].prev_edge).from
                 w == GetEdge(D[k][j].prev_edge).weight
      <4>3. /\ D[k][j].prev_edge \in EdgeIds(graph_) /\ u \in V /\ w \in Nat
            /\ D[k][u] # NoRoute /\ D[k][u].weight + w <= D[k][j].weight
        BY <4>2, EdgeFacts DEF LastEdge
      <4>4. C[i][j].prev_edge = D[k][j].prev_edge
        BY <1>8, <3>2, <4>3, EdgeFacts
      <4>5. Before(D, k, via, u, j)
        BY <2>2, <4>1 DEF Descends
      <4> HIDE DEF u, w
      <4>6. C[i][u] # NoRoute /\ C[i][u].weight <= D[i][k].weight + D[k][u].weight
        BY <1>7, <4>1, <4>3
      <4>7. old[u] < ob
        BY <2>1, <4>3
      <4>8. CASE D[k][u].weight < D[k][j].weight
        <5>1. C[i][u].weight < C[i][j].weight
          BY <1>9, <2>6, <4>1, <4>3, <4>6, <4>8
        <5> QED
          BY <4>4, <5>1 DEF Before, u
      <4>9. CASE D[k][u].weight = D[k][j].weight /\ via[u] < via[j]
        <5>1. C[i][u].weight <= C[i][j].weight
          BY <1>9, <4>1, <4>6, <4>9
        <5>2. rank[j] = ob + via[j]
          BY <2>5, <3>2
        <5>3. rank[u] = old[u] \/ rank[u] = ob + via[u]
          BY <2>5, <4>3
        <5>4. rank[u] < rank[j]
          BY <2>5, <4>3, <4>7, <4>9, <5>2, <5>3
        <5>5. C[i][u].weight \in Nat /\ C[i][j].weight \in Nat
          BY <1>9, <2>6, <4>3, <4>6
        <5>6. Before(C, i, rank, u, j)
          BY <5>1, <5>4, <5>5 DEF Before
        <5> QED
          BY <4>4, <5>6 DEF u
      <4> QED
        BY <4>5, <4>8, <4>9 DEF Before
    <3> QED
      BY <3>1, <3>2
  <2>7. Descends(C, i, rank)
    BY <2>6 DEF Descends
  <2> QED
    BY <2>3, <2>4, <2>7
<1> QED
  BY <1>4, <1>5, <1>10, <1>11, <1>12, <1>13 DEF Phase, C

-----------------------------------------------------------------------------
(***************************************************************************)
(* Type correctness.  A RouteInfo has a weight because the entry BuildRoute *)
(* started from is there.                                                  *)
(***************************************************************************)
TypeInv ==
  /\ TypeOK
  /\ pc = "walk" => routes_internal_data_[walk.from][walk.to] # NoRoute

LEMMA ReverseType ==
  ASSUME NEW S, NEW s \in Seq(S)
  PROVE  /\ Reverse(s) \in Seq(S)
         /\ Len(Reverse(s)) = Len(s)
         /\ \A n \in 1 .. Len(s) : Reverse(s)[n] = s[Len(s) - n + 1]
BY DEF Reverse

LEMMA TypeGraph == TypeOK => GraphOK
BY DEF TypeOK, GraphOK

\* The graph is the owner's and never changes.
LEMMA GraphConstant ==
  ASSUME Next
  PROVE  /\ graph_' = graph_
         /\ V' = V
         /\ EdgeIds(graph_)' = EdgeIds(graph_)
         /\ RouteInternalData' = RouteInternalData
<1>1. graph_' = graph_
  BY DEF Next, Construct, Walk, InitializeDiagonal, ConsiderEdge, NextRow,
         SkipRow, RelaxRoute, BuildNoRoute, StartWalk, WalkBack, FinishWalk,
         ReleaseRoute
<1> QED
  BY <1>1 DEF V, Vertices, EdgeIds, RouteInternalData

\* Only the constructor writes to the table, and what it writes are data.
LEMMA SetCellType ==
  ASSUME NEW D, Table(D), NEW i \in V, NEW j \in V,
         NEW d \in RouteInternalData \cup {NoRoute}
  PROVE  Table([D EXCEPT ![i][j] = d])
BY DEF Table

\* The variables keep their types, in every router of every graph.
LEMMA TypeInvariant == Spec => []TypeInv
<1> USE DEF construction
<1>1. Init => TypeInv
  <2> SUFFICES ASSUME Init PROVE TypeInv
    OBVIOUS
  <2>1. GraphOK
    BY GraphAssumption DEF Init, GraphOK, V
  <2> QED
    BY <2>1, VertexFacts
       DEF Init, TypeInv, TypeOK, GraphOK, NoWalk, NoEdge, RouteInternalData
<1>2. ASSUME TypeInv, Next
      PROVE  TypeInv'
  <2> USE <1>2, GraphConstant DEF TypeInv
  <2>1. GraphOK /\ Table(routes_internal_data_)
    BY TypeGraph DEF TypeOK, Table
  <2>2. CASE InitializeDiagonal
    <3>1. Table(routes_internal_data_')
      BY <2>1, <2>2, SetCellType, NilIsData
         DEF InitializeDiagonal, SetCell, Nil, TypeOK
    <3>2. todo' \subseteq EdgeIds(graph_)
      BY <2>2 DEF InitializeDiagonal, IncidentEdges
    <3> QED
      BY <2>2, <3>1, <3>2 DEF InitializeDiagonal, TypeOK, Table
  <2>3. CASE ConsiderEdge
    <3>1. PICK id \in todo :
            /\ todo' = todo \ {id}
            /\ \/ SetCell(vertex, GetEdge(id).to,
                     [weight |-> GetEdge(id).weight, prev_edge |-> id])
               \/ UNCHANGED routes_internal_data_
      BY <2>3 DEF ConsiderEdge
    <3>2. id \in EdgeIds(graph_)
      BY DEF TypeOK
    <3>3. [weight |-> GetEdge(id).weight, prev_edge |-> id] \in RouteInternalData
      BY <2>1, <3>2, EdgeFacts DEF RouteInternalData
    <3>4. Table(routes_internal_data_')
      BY <2>1, <3>1, <3>2, <3>3, EdgeFacts, SetCellType DEF SetCell, TypeOK
    <3> QED
      BY <2>3, <3>1, <3>4 DEF ConsiderEdge, TypeOK, Table
  <2>4. CASE NextRow
    BY <2>4 DEF NextRow, TypeOK
  <2>5. ASSUME FinishRow
        PROVE  cursor' \in [through : V, from : V, to : V]
               /\ pc' \in {pc, "ready"}
    BY <2>1, <2>5, VertexFacts DEF FinishRow, Through, TypeOK
  <2>6. CASE SkipRow
    BY <2>5, <2>6 DEF SkipRow, TypeOK
  <2>7. CASE RelaxRoute
    <3>1. Table(routes_internal_data_')
      BY <2>1, <2>7, RelaxedFacts, SetCellType
         DEF RelaxRoute, SetCell, Through, TypeOK
    <3>2. cursor' \in [through : V, from : V, to : V] /\ pc' \in {pc, "ready"}
      BY <2>5, <2>7 DEF RelaxRoute, TypeOK
    <3> QED
      BY <2>7, <3>1, <3>2 DEF RelaxRoute, TypeOK, Table
  <2>8. ASSUME NEW from \in V, NEW to \in V, BuildNoRoute(from, to)
        PROVE  TypeInv'
    BY <2>8 DEF BuildNoRoute, TypeOK
  <2>9. ASSUME NEW from \in V, NEW to \in V, StartWalk(from, to)
        PROVE  TypeInv'
    <3>1. routes_internal_data_[from][to].prev_edge
            \in EdgeIds(graph_) \cup {NoEdge}
      BY <2>1, <2>9, CellFacts DEF StartWalk
    <3> QED
      BY <2>9, <3>1 DEF StartWalk, TypeOK
  <2>10. CASE WalkBack
    <3>1. /\ walk.edge_id \in EdgeIds(graph_)
          /\ walk.from \in V
          /\ GetEdge(walk.edge_id).from \in V
      BY <2>1, <2>10, EdgeFacts DEF WalkBack, TypeOK
    <3> DEFINE before ==
                 routes_internal_data_[walk.from][GetEdge(walk.edge_id).from]
    <3>2. CASE before = NoRoute
      BY <2>10, <3>2 DEF WalkBack, TypeOK
    <3>3. CASE before # NoRoute
      <4>1. before.prev_edge \in EdgeIds(graph_) \cup {NoEdge}
        BY <2>1, <3>1, <3>3, CellFacts
      <4>2. Append(walk.edges, walk.edge_id) \in Seq(EdgeIds(graph_))
        BY <3>1 DEF TypeOK
      <4>3. /\ walk' = [from |-> walk.from, to |-> walk.to,
                        edge_id |-> before.prev_edge,
                        edges |-> Append(walk.edges, walk.edge_id)]
            /\ pc' = pc
        BY <2>10, <3>3 DEF WalkBack
      <4>4. walk' \in [from : V, to : V, edge_id : EdgeIds(graph_) \cup {NoEdge},
                       edges : Seq(EdgeIds(graph_))]
        <5> HIDE DEF before
        <5> QED
          BY <4>1, <4>2, <4>3 DEF TypeOK
      <4>5. walk'.from = walk.from /\ walk'.to = walk.to
        BY <4>3
      <4> QED
        BY <2>10, <4>3, <4>4, <4>5 DEF WalkBack, TypeOK
    <3> QED
      BY <3>2, <3>3
  <2>11. CASE FinishWalk
    <3>1. Reverse(walk.edges) \in Seq(EdgeIds(graph_))
      BY ReverseType DEF TypeOK
    <3>2. walk.from \in V /\ walk.to \in V
          /\ routes_internal_data_[walk.from][walk.to].weight \in Nat
      BY <2>1, <2>11, CellFacts DEF FinishWalk, TypeOK
    <3>3. answers' \subseteq [from : V, to : V, info : RouteInfo \cup {NoRoute}]
      BY <2>11, <3>2 DEF FinishWalk, TypeOK, RouteInfo
    <3>4. NoWalk \in [from : V, to : V, edge_id : EdgeIds(graph_) \cup {NoEdge},
                      edges : Seq(EdgeIds(graph_))]
      BY <2>1, VertexFacts DEF NoWalk
    <3> QED
      BY <2>11, <3>1, <3>3, <3>4 DEF FinishWalk, Expanded, TypeOK
  <2>12. ASSUME NEW id \in DOMAIN expanded_routes_cache_, ReleaseRoute(id)
         PROVE  TypeInv'
    BY <2>12 DEF ReleaseRoute, TypeOK
  <2> QED
    BY <2>2, <2>3, <2>4, <2>6, <2>7, <2>8, <2>9, <2>10, <2>11, <2>12
       DEF Next, Construct, Walk
<1>3. TypeInv /\ UNCHANGED vars => TypeInv'
  BY DEF TypeInv, TypeOK, vars, V, Vertices, EdgeIds, RouteInternalData, RouteInfo
<1>4. TypeInv /\ [Next]_vars => TypeInv'
  BY <1>2, <1>3
<1> QED
  BY <1>1, <1>4, PTL DEF Spec

\* TypeOK for every graph: the table holds data of the graph's own edges, and
\* every id with edges in the cache has been handed out.
THEOREM TypeCorrect == Spec => []TypeOK
BY TypeInvariant, PTL DEF TypeInv

-----------------------------------------------------------------------------
(***************************************************************************)
(* The table, from the first row to the last phase.                        *)
(***************************************************************************)
RowEmpty(D, i) == \A j \in V : D[i][j] = NoRoute

\* Row i when the edges ids of vertex i have been looked at.
RowFilled(D, i, ids) ==
  /\ D[i][i] = Nil
  /\ \A id \in ids : /\ D[i][GetEdge(id).to] # NoRoute
                     /\ D[i][GetEdge(id).to].weight <= GetEdge(id).weight
  /\ \A j \in V : i # j /\ D[i][j] # NoRoute =>
       /\ D[i][j].prev_edge \in IncidentEdges(graph_, i)
       /\ GetEdge(D[i][j].prev_edge).to = j
       /\ GetEdge(D[i][j].prev_edge).weight <= D[i][j].weight

\* The cells of the phase that have been relaxed.
DoneCells ==
  [i \in V |-> IF i < cursor.from THEN V
              ELSE IF i = cursor.from THEN {j \in V : j < cursor.to}
              ELSE {}]

AtStart == cursor = [through |-> 0, from |-> 0, to |-> 0]

RowPart ==
  /\ AtStart
  /\ \A i \in V : IF i < vertex
                    THEN RowFilled(routes_internal_data_, i,
                                   IncidentEdges(graph_, i))
                    ELSE RowEmpty(routes_internal_data_, i)

ThisRow ==
  /\ todo \subseteq IncidentEdges(graph_, vertex)
  /\ RowFilled(routes_internal_data_, vertex,
               IncidentEdges(graph_, vertex) \ todo)

OtherRows(D) ==
  \A i \in V : /\ i < vertex => RowFilled(D, i, IncidentEdges(graph_, i))
               /\ i > vertex => RowEmpty(D, i)

EdgesPart ==
  /\ AtStart
  /\ ThisRow
  /\ OtherRows(routes_internal_data_)

RelaxPart ==
  /\ Diagonal(routes_internal_data_)
  /\ Phase(Completed(routes_internal_data_, Through, DoneCells), Through + 1)

TableInv ==
  /\ pc = "row" => RowPart
  /\ pc = "edges" => EdgesPart
  /\ pc = "relax" => RelaxPart
  /\ pc \in {"ready", "walk", "undefined"} =>
       Phase(routes_internal_data_, graph_.vertex_count)

LEMMA FillCell ==
  ASSUME GraphOK, NEW D, Table(D), NEW i \in V, NEW ids, RowFilled(D, i, ids),
         ids \subseteq EdgeIds(graph_),
         NEW id \in IncidentEdges(graph_, i),
         NEW E, E = IF Cheaper(D[i][GetEdge(id).to], GetEdge(id).weight)
                      THEN [D EXCEPT ![i][GetEdge(id).to] =
                              [weight |-> GetEdge(id).weight, prev_edge |-> id]]
                      ELSE D
  PROVE  /\ RowFilled(E, i, ids \cup {id})
         /\ \A k \in V : k # i => E[k] = D[k]
<1>1. id \in EdgeIds(graph_)
  BY DEF IncidentEdges
<1> DEFINE to == GetEdge(id).to
           w == GetEdge(id).weight
<1>2. to \in V /\ w \in Nat
  BY <1>1, EdgeFacts
<1>3. \A e \in ids : GetEdge(e).to \in V /\ GetEdge(e).weight \in Nat
  BY EdgeFacts
<1>4. \A j \in V : D[i][j] # NoRoute => D[i][j].weight \in Nat
  BY CellFacts
<1>5. NoRoute # [weight |-> w, prev_edge |-> id]
  BY <1>1, <1>2, DataFacts DEF RouteInternalData
<1>6. CASE Cheaper(D[i][to], w)
  <2>1. E = [D EXCEPT ![i][to] = [weight |-> w, prev_edge |-> id]]
    BY <1>6
  <2>2. i # to
    <3>1. ~ Cheaper(Nil, w)
      BY <1>2, NilIsData, DataFacts DEF Cheaper
    <3> QED
      BY <1>6, <3>1 DEF RowFilled
  <2>3. \A k \in V : k # i => E[k] = D[k]
    BY <2>1 DEF Table
  <2>4. \A j \in V : E[i][j] = IF j = to THEN [weight |-> w, prev_edge |-> id]
                                         ELSE D[i][j]
    BY <1>2, <2>1 DEF Table
  <2>5. E[i][to].weight = w /\ E[i][to].prev_edge = id /\ E[i][to] # NoRoute
    BY <1>2, <1>5, <2>4
  <2> HIDE DEF to, w
  <2>6. D[i][to] # NoRoute => w <= D[i][to].weight
    BY <1>2, <1>4, <1>6 DEF Cheaper
  <2>7. E[i][i] = Nil
    BY <2>2, <2>4 DEF RowFilled
  <2>8. \A e \in ids \cup {id} : /\ E[i][GetEdge(e).to] # NoRoute
                                 /\ E[i][GetEdge(e).to].weight <= GetEdge(e).weight
    <3>1. ASSUME NEW e \in ids
          PROVE  /\ E[i][GetEdge(e).to] # NoRoute
                 /\ E[i][GetEdge(e).to].weight <= GetEdge(e).weight
      <4>1. /\ D[i][GetEdge(e).to] # NoRoute
            /\ D[i][GetEdge(e).to].weight <= GetEdge(e).weight
        BY DEF RowFilled
      <4> QED
        BY <1>2, <1>3, <1>4, <2>4, <2>5, <2>6, <4>1
    <3>2. E[i][GetEdge(id).to] # NoRoute
          /\ E[i][GetEdge(id).to].weight <= GetEdge(id).weight
      BY <1>2, <2>5 DEF to, w
    <3> QED
      BY <3>1, <3>2
  <2>9. ASSUME NEW j \in V, i # j, E[i][j] # NoRoute
        PROVE  /\ E[i][j].prev_edge \in IncidentEdges(graph_, i)
               /\ GetEdge(E[i][j].prev_edge).to = j
               /\ GetEdge(E[i][j].prev_edge).weight <= E[i][j].weight
    <3>1. CASE j = to
      BY <1>2, <2>5, <3>1 DEF to, w
    <3>2. CASE j # to
      BY <2>4, <2>9, <3>2 DEF RowFilled
    <3> QED
      BY <3>1, <3>2
  <2> QED
    BY <2>3, <2>7, <2>8, <2>9 DEF RowFilled
<1>7. CASE ~ Cheaper(D[i][to], w)
  <2>1. E = D
    BY <1>7
  <2>2. D[i][to] # NoRoute /\ D[i][to].weight <= w
    BY <1>2, <1>4, <1>7 DEF Cheaper
  <2> QED
    BY <2>1, <2>2 DEF RowFilled
<1> QED
  BY <1>6, <1>7

LEMMA FilledPhase ==
  ASSUME GraphOK, NEW D, Table(D),
         \A i \in V : RowFilled(D, i, IncidentEdges(graph_, i))
  PROVE  Phase(D, 0)
<1>1. Diagonal(D)
  BY DEF RowFilled, Diagonal
<1>2. Detours(D, 0)
  BY VertexFacts DEF Detours
<1>3. EdgesCounted(D)
  BY EdgeFacts DEF RowFilled, EdgesCounted, IncidentEdges, GetEdge
<1>4. ASSUME NEW i \in V, NEW j \in V, i # j, D[i][j] # NoRoute
      PROVE  LastEdge(D, i, j)
  <2> DEFINE id == D[i][j].prev_edge
  <2>1. id \in EdgeIds(graph_) /\ GetEdge(id).from = i /\ GetEdge(id).to = j
        /\ GetEdge(id).weight <= D[i][j].weight
    BY <1>4 DEF RowFilled, IncidentEdges, GetEdge
  <2>2. D[i][i] # NoRoute /\ D[i][i].weight = 0
    BY <1>1, NilIsData, DataFacts DEF Diagonal
  <2>3. GetEdge(id).weight \in Nat
    BY <2>1, EdgeFacts
  <2> QED
    BY <2>1, <2>2, <2>3 DEF LastEdge
<1>5. ASSUME NEW i \in V
      PROVE  \E rank \in [V -> Nat], bound \in Nat :
               /\ \A j \in V : rank[j] < bound
               /\ Descends(D, i, rank)
  <2> DEFINE rank == [j \in V |-> IF i = j THEN 0 ELSE 1]
  <2>1. rank \in [V -> Nat] /\ \A j \in V : rank[j] < 2
    OBVIOUS
  <2>2. ASSUME NEW j \in V, i # j, D[i][j] # NoRoute
        PROVE  Before(D, i, rank, GetEdge(D[i][j].prev_edge).from, j)
    <3>1. GetEdge(D[i][j].prev_edge).from = i
      BY <2>2 DEF RowFilled, IncidentEdges, GetEdge
    <3>2. D[i][i].weight = 0 /\ D[i][j].weight \in Nat
      BY <1>1, <2>2, NilIsData, CellFacts DEF Diagonal
    <3>3. rank[i] = 0 /\ rank[j] = 1
      BY <2>2
    <3> HIDE DEF rank
    <3>4. Before(D, i, rank, i, j)
      BY <3>2, <3>3 DEF Before
    <3> QED
      BY <3>1, <3>4
  <2>3. Descends(D, i, rank)
    BY <2>2 DEF Descends
  <2> QED
    BY <2>1, <2>3
<1> QED
  BY <1>1, <1>2, <1>3, <1>4, <1>5 DEF Phase, LastEdges, Ranked

LEMMA ExceptRow ==
  ASSUME NEW A, NEW B, NEW S \in [A -> B], NEW f \in A, NEW x
  PROVE  \A i \in A : [S EXCEPT ![f] = x][i] = IF i = f THEN x ELSE S[i]
OBVIOUS

\* One step of RelaxRoute, on the table and on the set of the cells done.
CellRelaxed(D, k, f, t) == [D EXCEPT ![f][t] = Relaxed(D, k, f, t)]
CellAdded(S, f, t) == [S EXCEPT ![f] = S[f] \cup {t}]

LEMMA RelaxCell ==
  ASSUME GraphOK, NEW D, Table(D), Diagonal(D), NEW k \in V,
         NEW f \in V, NEW t \in V, NEW S \in [V -> SUBSET V], t \notin S[f]
  PROVE  /\ Table(CellRelaxed(D, k, f, t))
         /\ Diagonal(CellRelaxed(D, k, f, t))
         /\ Completed(CellRelaxed(D, k, f, t), k, CellAdded(S, f, t))
              = Completed(D, k, S)
<1> DEFINE E == CellRelaxed(D, k, f, t)
           S2 == CellAdded(S, f, t)
<1>1. \A i, j \in V : E[i][j] = IF i = f /\ j = t THEN Relaxed(D, k, f, t)
                                                ELSE D[i][j]
  BY DEF Table, CellRelaxed
<1>2. Table(E)
  BY RelaxedFacts, SetCellType DEF CellRelaxed
<1>3. \A i \in V : S2[i] = IF i = f THEN S[f] \cup {t} ELSE S[i]
  BY ExceptRow DEF CellAdded
<1> HIDE DEF E, S2
<1>4. \A i, j \in V : i = j \/ i = k \/ j = k => E[i][j] = D[i][j]
  BY <1>1, PivotStable
<1>5. Diagonal(E)
  BY <1>4 DEF Diagonal
<1>6. ASSUME NEW i \in V, NEW j \in V, ~(i = f /\ j = t)
      PROVE  Relaxed(E, k, i, j) = Relaxed(D, k, i, j)
  <2>1. E[i][j] = D[i][j] /\ E[i][k] = D[i][k] /\ E[k][j] = D[k][j]
    BY <1>1, <1>4, <1>6
  <2> QED
    BY <2>1 DEF Relaxed
<1>7. \A i, j \in V : j \in S2[i] <=> j \in S[i] \/ (i = f /\ j = t)
  BY <1>3
<1>8. \A i, j \in V : (IF j \in S2[i] THEN E[i][j] ELSE Relaxed(E, k, i, j))
                      = IF j \in S[i] THEN D[i][j] ELSE Relaxed(D, k, i, j)
  <2> TAKE i \in V, j \in V
  <2>1. CASE i = f /\ j = t
    BY <1>1, <1>7, <2>1
  <2>2. CASE ~(i = f /\ j = t)
    <3>1. Relaxed(E, k, i, j) = Relaxed(D, k, i, j)
      BY <1>6, <2>2
    <3>2. E[i][j] = D[i][j]
      BY <1>1, <2>2
    <3>3. j \in S2[i] <=> j \in S[i]
      BY <1>7, <2>2
    <3> QED
      BY <3>1, <3>2, <3>3
  <2> QED
    BY <2>1, <2>2
<1>9. Completed(E, k, S2) = Completed(D, k, S)
  BY <1>8 DEF Completed
<1> QED
  BY <1>2, <1>5, <1>9 DEF E, S2

LEMMA SkipCells ==
  ASSUME NEW D, NEW k \in V, NEW f \in V, NEW S \in [V -> SUBSET V],
         D[f][k] = NoRoute
  PROVE  Completed(D, k, [S EXCEPT ![f] = V]) = Completed(D, k, S)
<1>1. \A j \in V : Relaxed(D, k, f, j) = D[f][j]
  BY DEF Relaxed
<1> QED
  BY <1>1 DEF Completed

\* A step that leaves the table and the graph alone keeps a finished table.
LEMMA PhaseKept ==
  ASSUME graph_' = graph_, NEW D, NEW k
  PROVE  Phase(D, k)' <=> Phase(D, k)
BY DEF Phase, Table, Diagonal, Detours, EdgesCounted, LastEdges, LastEdge,
       Ranked, Descends, Before, RouteInternalData, EdgeIds, GetEdge, V

\* The end of a row, when D is the table the row leaves behind.
LEMMA RowFinished ==
  ASSUME TypeOK, pc = "relax", FinishRow, graph_' = graph_,
         NEW D, Table(D), Diagonal(D), routes_internal_data_' = D,
         Phase(Completed(D, Through, [DoneCells EXCEPT ![cursor.from] = V]),
               Through + 1)
  PROVE  TableInv'
<1> DEFINE S == [DoneCells EXCEPT ![cursor.from] = V]
<1>1. GraphOK /\ cursor.from \in V /\ Through \in V /\ V' = V
  BY TypeGraph DEF TypeOK, Through, V
<1>2. \A i \in V : S[i] = IF i = cursor.from THEN V ELSE DoneCells[i]
  <2>1. DoneCells \in [V -> SUBSET V]
    BY DEF DoneCells
  <2> QED
    BY <1>1, <2>1, ExceptRow
<1>3. \A C, k : Phase(C, k)' <=> Phase(C, k)
  BY PhaseKept
<1>4. CASE cursor.from + 1 \in V
  <2>1. pc' = "relax" /\ cursor' = [through |-> Through, from |-> cursor.from + 1,
                                   to |-> 0]
    BY <1>4 DEF FinishRow
  <2>2. DoneCells' = S
    <3>1. \A i \in V : DoneCells'[i] = S[i]
      <4> SUFFICES ASSUME NEW i \in V PROVE DoneCells'[i] = S[i]
        OBVIOUS
      <4>1. i \in Nat /\ cursor.from \in Nat
        BY <1>1, VertexFacts
      <4>2. {j \in V : j < 0} = {}
        BY <1>1, VertexFacts
      <4>3. DoneCells'[i] = IF i < cursor.from + 1 THEN V
                            ELSE IF i = cursor.from + 1 THEN {j \in V : j < 0}
                            ELSE {}
        BY <1>1, <2>1 DEF DoneCells
      <4>4. DoneCells[i] = IF i < cursor.from THEN V
                           ELSE IF i = cursor.from THEN {j \in V : j < cursor.to}
                           ELSE {}
        BY DEF DoneCells
      <4> HIDE DEF S
      <4>5. S[i] = IF i = cursor.from THEN V ELSE DoneCells[i]
        BY <1>2
      <4>6. CASE i < cursor.from
        BY <4>1, <4>3, <4>4, <4>5, <4>6
      <4>7. CASE i = cursor.from
        BY <4>1, <4>3, <4>5, <4>7
      <4>8. CASE i > cursor.from
        <5>1. DoneCells'[i] = {}
          BY <4>1, <4>2, <4>3, <4>8
        <5>2. DoneCells[i] = {}
          BY <4>1, <4>4, <4>8
        <5> QED
          BY <4>1, <4>5, <4>8, <5>1, <5>2
      <4> QED
        BY <4>1, <4>6, <4>7, <4>8
    <3>2. DoneCells' = [i \in V |-> DoneCells'[i]] /\ S = [i \in V |-> S[i]]
      BY <1>1 DEF DoneCells
    <3> HIDE DEF S
    <3> QED
      BY <3>1, <3>2
  <2>3. Through' = Through
    BY <2>1 DEF Through
  <2>4. Completed(D, Through, DoneCells)' = Completed(D, Through, S)
    BY <1>1, <2>2, <2>3 DEF Completed, Relaxed, Cheaper
  <2>5. Phase(Completed(D, Through, DoneCells), Through + 1)'
    BY <1>3, <2>3, <2>4
  <2>6. RelaxPart'
    BY <1>1, <2>5 DEF RelaxPart, Diagonal
  <2> QED
    BY <2>1, <2>6 DEF TableInv
<1>5. CASE cursor.from + 1 \notin V
  <2>1. \A i \in V : S[i] = V
    <3>1. \A i \in V : i < cursor.from \/ i = cursor.from
      BY <1>1, <1>5, VertexFacts
    <3>2. \A i \in V : i < cursor.from => DoneCells[i] = V
      BY DEF DoneCells
    <3> HIDE DEF S
    <3> QED
      BY <1>2, <3>1, <3>2
  <2>2. Phase(D, Through + 1)
    <3> HIDE DEF S
    <3>1. Completed(D, Through, S) = D
      BY <2>1, CompletedAll
    <3> QED
      BY <3>1 DEF S
  <2>3. CASE Through + 1 \in V
    <3>1. pc' = "relax" /\ cursor' = [through |-> Through + 1, from |-> 0, to |-> 0]
      BY <1>5, <2>3 DEF FinishRow
    <3>2. DoneCells' = NoCells
      BY <1>1, <3>1, VertexFacts DEF DoneCells, NoCells
    <3>3. Phase(Completed(D, Through + 1, NoCells), Through + 1 + 1)
      BY <1>1, <2>2, <2>3, PhaseStep
    <3>4. Through' = Through + 1
      BY <3>1 DEF Through
    <3>5. Completed(D, Through, DoneCells)' = Completed(D, Through + 1, NoCells)
      BY <1>1, <3>2, <3>4 DEF Completed, Relaxed, Cheaper
    <3>6. RelaxPart'
      BY <1>1, <1>3, <3>3, <3>4, <3>5 DEF RelaxPart, Diagonal
    <3> QED
      BY <3>1, <3>6 DEF TableInv
  <2>4. CASE Through + 1 \notin V
    <3>1. pc' = "ready"
      BY <1>5, <2>4 DEF FinishRow
    <3>2. Through + 1 = graph_.vertex_count
      BY <1>1, <2>4, VertexFacts
    <3> QED
      BY <1>3, <2>2, <3>1, <3>2 DEF TableInv
  <2> QED
    BY <2>3, <2>4
<1> QED
  BY <1>4, <1>5

LEMMA FilledKept ==
  ASSUME graph_' = graph_, NEW D, NEW i, NEW ids
  PROVE  /\ RowFilled(D, i, ids)' <=> RowFilled(D, i, ids)
         /\ IncidentEdges(graph_, i)' = IncidentEdges(graph_, i)
BY DEF RowFilled, IncidentEdges, EdgeIds, GetEdge, V

LEMMA OtherRow ==
  ASSUME NEW D, OtherRows(D), NEW i \in V
  PROVE  /\ i < vertex => RowFilled(D, i, IncidentEdges(graph_, i))
         /\ i > vertex => RowEmpty(D, i)
BY DEF OtherRows

LEMMA OtherRowsKept ==
  ASSUME graph_' = graph_, vertex' = vertex, NEW E
  PROVE  OtherRows(E)' <=> OtherRows(E)
BY DEF OtherRows, RowFilled, RowEmpty, IncidentEdges, EdgeIds, GetEdge, V

LEMMA TableInvariant == Spec => []TableInv
<1>1. Init => TableInv
  <2> SUFFICES ASSUME Init PROVE TableInv
    OBVIOUS
  <2>1. GraphOK
    BY GraphAssumption DEF Init, GraphOK, V
  <2>2. \A i \in V : ~ (i < vertex)
    BY <2>1, VertexFacts DEF Init
  <2>3. \A i \in V : RowEmpty(routes_internal_data_, i)
    BY DEF Init, RowEmpty
  <2> QED
    BY <2>2, <2>3 DEF Init, TableInv, RowPart, AtStart
<1>2. ASSUME TypeOK, TableInv, Next
      PROVE  TableInv'
  <2> DEFINE D == routes_internal_data_
  <2>1. GraphOK /\ Table(D) /\ vertex \in V
    BY <1>2, TypeGraph DEF TypeOK, Table
  <2>2. graph_' = graph_ /\ V' = V
    BY <1>2, GraphConstant
  <2>3. V \subseteq Nat
    BY <2>1, VertexFacts
  <2>4. CASE InitializeDiagonal
    <3>1. /\ pc = "row" /\ AtStart
          /\ \A i \in V : IF i < vertex
                           THEN RowFilled(D, i, IncidentEdges(graph_, i))
                           ELSE RowEmpty(D, i)
      BY <1>2, <2>4 DEF InitializeDiagonal, TableInv, RowPart
    <3>2. D' = [D EXCEPT ![vertex][vertex] = Nil]
      BY <2>4 DEF InitializeDiagonal, SetCell, Nil
    <3>3. /\ \A i \in V : i # vertex => D'[i] = D[i]
          /\ \A j \in V : D'[vertex][j] = IF j = vertex THEN Nil ELSE D[vertex][j]
      BY <2>1, <3>2 DEF Table
    <3>4. RowFilled(D', vertex, {})
      BY <2>1, <2>3, <3>1, <3>3 DEF RowFilled, RowEmpty
    <3>5. /\ todo' = IncidentEdges(graph_, vertex) /\ vertex' = vertex
          /\ pc' = "edges" /\ cursor' = cursor
      BY <2>4 DEF InitializeDiagonal, construction
    <3>6. OtherRows(D')
      BY <2>1, <2>3, <3>1, <3>3 DEF OtherRows, RowFilled, RowEmpty
    <3>7. IncidentEdges(graph_, vertex) \ todo' = {}
      BY <3>5
    <3>8. ThisRow'
      BY <2>2, <3>4, <3>5, <3>7, FilledKept DEF ThisRow
    <3>9. OtherRows(D)'
      BY <2>2, <3>5, <3>6, OtherRowsKept
    <3>10. EdgesPart'
      BY <3>1, <3>5, <3>8, <3>9 DEF EdgesPart, AtStart
    <3> QED
      BY <3>5, <3>10 DEF TableInv
  <2>5. CASE ConsiderEdge
    <3>1. /\ pc = "edges" /\ AtStart
          /\ todo \subseteq IncidentEdges(graph_, vertex)
          /\ RowFilled(D, vertex, IncidentEdges(graph_, vertex) \ todo)
          /\ OtherRows(D)
      BY <1>2, <2>5 DEF ConsiderEdge, TableInv, EdgesPart, ThisRow
    <3>2. PICK id \in todo :
            /\ todo' = todo \ {id}
            /\ D' = IF Cheaper(D[vertex][GetEdge(id).to], GetEdge(id).weight)
                      THEN [D EXCEPT ![vertex][GetEdge(id).to] =
                              [weight |-> GetEdge(id).weight, prev_edge |-> id]]
                      ELSE D
      BY <2>5 DEF ConsiderEdge, SetCell
    <3> DEFINE seen == IncidentEdges(graph_, vertex) \ todo
    <3>3. /\ RowFilled(D', vertex, seen \cup {id})
          /\ \A k \in V : k # vertex => D'[k] = D[k]
      <4>1. seen \subseteq EdgeIds(graph_) /\ id \in IncidentEdges(graph_, vertex)
        BY <3>1 DEF IncidentEdges
      <4> HIDE DEF seen
      <4> QED
        BY <2>1, <3>1, <3>2, <4>1, FillCell DEF seen
    <3>4. seen \cup {id} = IncidentEdges(graph_, vertex) \ todo'
      BY <3>1, <3>2
    <3>5. pc' = "edges" /\ cursor' = cursor /\ vertex' = vertex
      BY <2>5 DEF ConsiderEdge
    <3>6. OtherRows(D')
      BY <2>1, <2>3, <3>1, <3>3 DEF OtherRows, RowFilled, RowEmpty
    <3>7. todo' \subseteq IncidentEdges(graph_, vertex)
      BY <3>1, <3>2
    <3>8. RowFilled(D', vertex, IncidentEdges(graph_, vertex) \ todo')
      BY <3>3, <3>4
    <3>9. ThisRow'
      BY <2>2, <3>5, <3>7, <3>8, FilledKept DEF ThisRow
    <3>10. OtherRows(D)'
      BY <2>2, <3>5, <3>6, OtherRowsKept
    <3>11. EdgesPart'
      BY <3>1, <3>5, <3>9, <3>10 DEF EdgesPart, AtStart
    <3> QED
      BY <3>5, <3>11 DEF TableInv
  <2>6. CASE NextRow
    <3>1. /\ pc = "edges" /\ todo = {} /\ D' = D /\ cursor' = cursor
      BY <2>6 DEF NextRow
    <3>2. /\ AtStart
          /\ RowFilled(D, vertex, IncidentEdges(graph_, vertex))
          /\ OtherRows(D)
      BY <1>2, <3>1 DEF TableInv, EdgesPart, ThisRow
    <3>3. CASE vertex + 1 \in V
      <4>1. vertex' = vertex + 1 /\ pc' = "row"
        BY <2>6, <3>3 DEF NextRow
      <4>2. \A i \in V : IF i < vertex + 1
                         THEN RowFilled(D, i, IncidentEdges(graph_, i))
                         ELSE RowEmpty(D, i)
        <5> TAKE i \in V
        <5>1. i \in Nat /\ vertex \in Nat
          BY <2>1, <2>3
        <5>2. i < vertex \/ i = vertex \/ i > vertex
          BY <5>1
        <5>3. i < vertex + 1 <=> i < vertex \/ i = vertex
          BY <5>1
        <5>4. ~ (i < vertex + 1) => i > vertex
          BY <5>1
        <5> QED
          BY <3>2, <5>2, <5>3, <5>4, OtherRow
      <4>3. RowPart'
        BY <2>2, <3>1, <3>2, <4>1, <4>2, FilledKept DEF RowPart, AtStart, RowEmpty
      <4> QED
        BY <4>1, <4>3 DEF TableInv
    <3>4. CASE vertex + 1 \notin V
      <4>1. pc' = "relax"
        BY <2>6, <3>4 DEF NextRow
      <4>2. \A i \in V : i < vertex \/ i = vertex
        BY <2>1, <2>3, <3>4, VertexFacts
      <4>3. \A i \in V : RowFilled(D, i, IncidentEdges(graph_, i))
        BY <3>2, <4>2, OtherRow
      <4>4. Phase(D, 0)
        BY <2>1, <4>3, FilledPhase
      <4>5. Phase(Completed(D, 0, NoCells), 0 + 1)
        BY <2>1, <4>4, PhaseStep, VertexFacts
      <4>6. Through' = 0 /\ cursor'.from = 0 /\ cursor'.to = 0
        BY <3>1, <3>2 DEF AtStart, Through
      <4>7. DoneCells' = NoCells
        <5>1. {j \in V : j < 0} = {} /\ \A i \in V : ~ (i < 0)
          BY <2>1, VertexFacts
        <5>2. DoneCells' = [i \in V |-> IF i < 0 THEN V
                                       ELSE IF i = 0 THEN {j \in V : j < 0}
                                       ELSE {}]
          BY <2>2, <4>6 DEF DoneCells
        <5> QED
          BY <5>1, <5>2 DEF NoCells
      <4>8. Completed(D, Through, DoneCells)' = Completed(D, 0, NoCells)
        BY <2>2, <3>1, <4>6, <4>7 DEF Completed, Relaxed, Cheaper
      <4>9. Phase(Completed(D, Through, DoneCells), Through + 1)'
        BY <2>2, <4>5, <4>6, <4>8, PhaseKept
      <4>10. Diagonal(D)'
        BY <2>2, <3>1, <4>4 DEF Phase, Diagonal
      <4> QED
        BY <4>1, <4>9, <4>10 DEF TableInv, RelaxPart
    <3> QED
      BY <3>3, <3>4
  <2>7. ASSUME pc = "relax"
        PROVE  /\ Diagonal(D)
               /\ Phase(Completed(D, Through, DoneCells), Through + 1)
               /\ cursor.from \in V /\ cursor.to \in V /\ Through \in V
               /\ DoneCells \in [V -> SUBSET V]
    BY <1>2, <2>7 DEF TableInv, RelaxPart, DoneCells, TypeOK, Through
  <2>8. CASE SkipRow
    <3>1. pc = "relax" /\ D[cursor.from][Through] = NoRoute /\ FinishRow /\ D' = D
      BY <2>8 DEF SkipRow
    <3>2. Completed(D, Through, [DoneCells EXCEPT ![cursor.from] = V])
            = Completed(D, Through, DoneCells)
      BY <2>7, <3>1, SkipCells
    <3> QED
      BY <1>2, <2>1, <2>2, <2>7, <3>1, <3>2, RowFinished
  <2>9. CASE RelaxRoute
    <3> DEFINE k == Through
               f == cursor.from
               t == cursor.to
               S2 == CellAdded(DoneCells, f, t)
    <3>1. /\ pc = "relax"
          /\ D' = CellRelaxed(D, k, f, t)
          /\ IF t + 1 \in V
               THEN cursor' = [cursor EXCEPT !.to = @ + 1] /\ pc' = pc
               ELSE FinishRow
      BY <2>9 DEF RelaxRoute, SetCell, CellRelaxed
    <3>2. f \in Nat /\ t \in Nat
      BY <2>3, <2>7, <3>1
    <3>3. t \notin DoneCells[f]
      BY <2>7, <3>1, <3>2 DEF DoneCells
    <3>4. \A i \in V : S2[i] = IF i = f THEN DoneCells[f] \cup {t} ELSE DoneCells[i]
      BY <2>7, <3>1, ExceptRow DEF CellAdded
    <3>5. /\ Table(D')
          /\ Diagonal(D')
          /\ Completed(D', k, S2) = Completed(D, k, DoneCells)
      <4>1. /\ GraphOK /\ Table(D) /\ Diagonal(D) /\ k \in V /\ f \in V /\ t \in V
            /\ DoneCells \in [V -> SUBSET V]
        BY <2>1, <2>7, <3>1
      <4> HIDE DEF D, k, f, t
      <4>2. /\ Table(CellRelaxed(D, k, f, t))
            /\ Diagonal(CellRelaxed(D, k, f, t))
            /\ Completed(CellRelaxed(D, k, f, t), k, CellAdded(DoneCells, f, t))
                 = Completed(D, k, DoneCells)
        BY <3>3, <4>1, RelaxCell
      <4> QED
        BY <3>1, <4>2
    <3>6. DoneCells[f] = {j \in V : j < t}
      BY <2>7, <3>1, <3>2 DEF DoneCells
    <3>7. CASE t + 1 \in V
      <4>1. /\ cursor'.from = f /\ cursor'.to = t + 1 /\ Through' = k
            /\ pc' = "relax"
        BY <1>2, <3>1, <3>7 DEF TypeOK, Through
      <4>2. DoneCells' = S2
        <5>1. DoneCells[f] \cup {t} = {j \in V : j < t + 1}
          BY <2>3, <2>7, <3>1, <3>2, <3>6
        <5>2. DoneCells' = [i \in V |-> IF i < f THEN V
                                       ELSE IF i = f THEN {j \in V : j < t + 1}
                                       ELSE {}]
          BY <2>2, <4>1 DEF DoneCells
        <5>3. S2 = [i \in V |-> S2[i]]
          BY <2>7, <3>1 DEF CellAdded
        <5>4. \A i \in V : DoneCells[i] = IF i < f THEN V
                                         ELSE IF i = f THEN {j \in V : j < t}
                                         ELSE {}
          BY DEF DoneCells
        <5>5. ~ (f < f)
          BY <3>2
        <5> HIDE DEF S2
        <5>6. ASSUME NEW i \in V
              PROVE  DoneCells'[i] = S2[i]
          <6>1. CASE i = f
            BY <3>4, <3>6, <5>1, <5>2, <5>5, <6>1
          <6>2. CASE i # f
            BY <3>4, <5>2, <5>4, <6>2
          <6> QED
            BY <6>1, <6>2
        <5> QED
          BY <5>2, <5>3, <5>6
      <4>3. Completed(D, Through, DoneCells)' = Completed(D', k, S2)
        BY <2>2, <4>1, <4>2 DEF Completed, Relaxed, Cheaper
      <4>4. Phase(Completed(D, Through, DoneCells), Through + 1)'
        BY <2>2, <2>7, <3>1, <3>5, <4>1, <4>3, PhaseKept
      <4>5. Diagonal(D)'
        BY <2>2, <3>5 DEF Diagonal
      <4> QED
        BY <4>1, <4>4, <4>5 DEF TableInv, RelaxPart
    <3>8. CASE t + 1 \notin V
      <4>1. S2 = [DoneCells EXCEPT ![f] = V]
        <5>1. DoneCells[f] \cup {t} = V
          <6>1. \A j \in V : j < t \/ j = t
            BY <2>1, <2>7, <3>1, <3>8, VertexFacts
          <6> QED
            BY <2>7, <3>1, <3>6, <6>1
        <5> QED
          BY <5>1 DEF CellAdded
      <4> HIDE DEF S2
      <4>2. Phase(Completed(D', k, [DoneCells EXCEPT ![f] = V]), k + 1)
        BY <2>7, <3>1, <3>5, <4>1
      <4> QED
        BY <1>2, <2>2, <3>1, <3>5, <3>8, <4>2, RowFinished
    <3> QED
      BY <3>7, <3>8
  <2>10. ASSUME D' = D, pc \in {"ready", "walk"},
                pc' \in {"ready", "walk", "undefined"}
         PROVE  TableInv'
    BY <1>2, <2>2, <2>10, PhaseKept DEF TableInv
  <2>11. ASSUME NEW from \in V, NEW to \in V,
                BuildNoRoute(from, to) \/ StartWalk(from, to)
         PROVE  TableInv'
    BY <2>10, <2>11 DEF BuildNoRoute, StartWalk
  <2>12. CASE WalkBack
    BY <2>10, <2>12 DEF WalkBack
  <2>13. CASE FinishWalk
    BY <2>10, <2>13 DEF FinishWalk
  <2>14. ASSUME NEW id \in DOMAIN expanded_routes_cache_, ReleaseRoute(id)
         PROVE  TableInv'
    BY <2>10, <2>14 DEF ReleaseRoute
  <2> QED
    BY <1>2, <2>4, <2>5, <2>6, <2>8, <2>9, <2>11, <2>12, <2>13, <2>14
       DEF Next, Construct, Walk
<1>3. TableInv /\ UNCHANGED vars => TableInv'
  <2> SUFFICES ASSUME TableInv, UNCHANGED vars PROVE TableInv'
    OBVIOUS
  <2>1. /\ graph_' = graph_ /\ routes_internal_data_' = routes_internal_data_
        /\ pc' = pc /\ vertex' = vertex /\ todo' = todo /\ cursor' = cursor
        /\ V' = V
    BY DEF vars, construction, V
  <2>2. /\ Through' = Through /\ DoneCells' = DoneCells
        /\ Completed(routes_internal_data_, Through, DoneCells)'
             = Completed(routes_internal_data_, Through, DoneCells)
    BY <2>1 DEF Through, DoneCells, Completed, Relaxed, Cheaper
  <2> QED
    BY <2>1, <2>2, PhaseKept, FilledKept
       DEF TableInv, RowPart, EdgesPart, ThisRow, OtherRows, RelaxPart, AtStart,
           RowEmpty, Diagonal
<1>4. TypeOK /\ TableInv /\ [Next]_vars => TableInv'
  BY <1>2, <1>3
<1> QED
  BY <1>1, <1>4, TypeCorrect, PTL DEF Spec
-----------------------------------------------------------------------------
(***************************************************************************)
(* The finished table.                                                     *)
(***************************************************************************)
LEMMA PhaseSettled ==
  ASSUME GraphOK, NEW D, Phase(D, graph_.vertex_count)
  PROVE  Settled(D)
<1>1. /\ Table(D) /\ Diagonal(D) /\ Detours(D, graph_.vertex_count)
      /\ EdgesCounted(D) /\ LastEdges(D)
  BY DEF Phase
<1>2. ASSUME NEW i \in V, NEW id \in EdgeIds(graph_),
             D[i][GetEdge(id).from] # NoRoute
      PROVE  /\ D[i][GetEdge(id).to] # NoRoute
             /\ D[i][GetEdge(id).to].weight
                  <= D[i][GetEdge(id).from].weight + GetEdge(id).weight
  <2> DEFINE m == GetEdge(id).from
             j == GetEdge(id).to
             w == GetEdge(id).weight
  <2>1. m \in V /\ j \in V /\ w \in Nat /\ m < graph_.vertex_count
    BY EdgeFacts, VertexFacts
  <2>2. D[m][j] # NoRoute /\ D[m][j].weight <= w
    BY <1>1 DEF EdgesCounted
  <2>3. D[i][m] # NoRoute
    BY <1>2
  <2> HIDE DEF m, j, w
  <2>4. D[i][j] # NoRoute /\ D[i][j].weight <= D[i][m].weight + D[m][j].weight
    BY <1>1, <2>1, <2>2, <2>3 DEF Detours
  <2>5. /\ D[i][j].weight \in Nat /\ D[i][m].weight \in Nat
        /\ D[m][j].weight \in Nat
    BY <1>1, <2>1, <2>2, <2>3, <2>4, CellFacts
  <2>6. D[i][j].weight <= D[i][m].weight + w
    BY <2>1, <2>2, <2>4, <2>5
  <2> QED
    BY <2>4, <2>6 DEF m, j, w
<1>3. ASSUME NEW i \in V, NEW j \in V, i # j, D[i][j] # NoRoute
      PROVE  /\ D[i][j].prev_edge \in EdgeIds(graph_)
             /\ D[i][j].prev_edge # NoEdge
             /\ GetEdge(D[i][j].prev_edge).to = j
             /\ D[i][GetEdge(D[i][j].prev_edge).from] # NoRoute
             /\ D[i][j].weight = D[i][GetEdge(D[i][j].prev_edge).from].weight
                                   + GetEdge(D[i][j].prev_edge).weight
  <2> DEFINE id == D[i][j].prev_edge
             m == GetEdge(id).from
             w == GetEdge(id).weight
  <2>1. /\ id \in EdgeIds(graph_) /\ GetEdge(id).to = j
        /\ D[i][m] # NoRoute /\ D[i][m].weight + w <= D[i][j].weight
    BY <1>1, <1>3 DEF LastEdges, LastEdge
  <2>2. m \in V /\ w \in Nat /\ id # NoEdge
    BY <2>1, EdgeFacts
  <2>3. D[i][j].weight <= D[i][m].weight + w
    BY <1>2, <2>1
  <2> HIDE DEF id, m, w
  <2>4. D[i][j].weight \in Nat /\ D[i][m].weight \in Nat
    BY <1>1, <1>3, <2>1, <2>2, CellFacts
  <2>5. D[i][j].weight = D[i][m].weight + w
    BY <2>1, <2>2, <2>3, <2>4
  <2> QED
    BY <2>1, <2>2, <2>5 DEF id, m, w
<1> QED
  BY <1>1, <1>2, <1>3 DEF Settled, Diagonal, Nil

\* TableIsSettled for every graph: when the constructor is done, no edge offers
\* a shorter way and every entry is explained by its last edge.
THEOREM TableAlwaysSettled == Spec => []TableIsSettled
<1>1. TypeOK /\ TableInv => TableIsSettled
  BY TypeGraph, PhaseSettled DEF TableInv, TableIsSettled, Constructed
<1> QED
  BY <1>1, TypeCorrect, TableInvariant, PTL

-----------------------------------------------------------------------------
(***************************************************************************)
(* BuildRoute, proved for every graph with natural weights, and with it    *)
(* that the router keeps the promises of RouteFinder.  The walk along the  *)
(* last edges never comes by an entry that is not there, nor by a vertex   *)
(* twice, and the edges it leaves in expanded_routes_cache_ lead from one  *)
(* end of the query to the other and stay as they are until the route is   *)
(* released.  An entry of the finished table weighs what the cheapest of   *)
(* all walks does, so that what BuildRoute hands out is a path of that     *)
(* weight.                                                                 *)
(***************************************************************************)
\* The vertex the walk has come back to.
Back(edges, to) == IF edges = << >> THEN to ELSE GetEdge(edges[Len(edges)]).from

\* The edges of a walk, in the order of the walk.
LinkedBack(edges, to) ==
  /\ edges # << >> => GetEdge(edges[1]).to = to
  /\ \A n \in 1 .. Len(edges) - 1 :
       GetEdge(edges[n]).from = GetEdge(edges[n + 1]).to

WalkPart ==
  LET here == routes_internal_data_[walk.from][Back(walk.edges, walk.to)] IN
  /\ here # NoRoute
  /\ walk.edge_id = here.prev_edge
  /\ LinkedBack(walk.edges, walk.to)

RouteInv ==
  /\ NoUndefinedAccess
  /\ pc = "walk" => WalkPart
  /\ pc \in {"row", "edges", "relax"} => answers = {}
  /\ HeldRoutesArePaths

-----------------------------------------------------------------------------
LEMMA WalkLonger ==
  ASSUME GraphOK, NEW s \in Seq(EdgeIds(graph_)), NEW to, LinkedBack(s, to),
         NEW id \in EdgeIds(graph_), GetEdge(id).to = Back(s, to)
  PROVE  /\ LinkedBack(Append(s, id), to)
         /\ Back(Append(s, id), to) = GetEdge(id).from
<1> DEFINE longer == Append(s, id)
<1>1. /\ Len(longer) = Len(s) + 1 /\ longer # << >> /\ Len(s) \in Nat
      /\ longer[Len(s) + 1] = id
      /\ \A n \in 1 .. Len(s) : longer[n] = s[n]
  OBVIOUS
<1> HIDE DEF longer
<1>2. CASE s = << >>
  <2>1. Len(s) = 0
    BY <1>2
  <2> QED
    BY <1>1, <1>2, <2>1 DEF LinkedBack, Back, longer
<1>3. CASE s # << >>
  <2>1. Len(s) \in Nat /\ Len(s) # 0
    BY <1>3
  <2>2. GetEdge(longer[1]).to = to
    BY <1>1, <1>3, <2>1 DEF LinkedBack
  <2>3. ASSUME NEW n \in 1 .. Len(longer) - 1
        PROVE  GetEdge(longer[n]).from = GetEdge(longer[n + 1]).to
    <3>1. n \in 1 .. Len(s)
      BY <1>1, <2>1
    <3>2. CASE n = Len(s)
      BY <1>1, <1>3, <2>1, <3>1, <3>2 DEF Back
    <3>3. CASE n # Len(s)
      <4>1. n \in 1 .. Len(s) - 1 /\ n + 1 \in 1 .. Len(s)
        BY <2>1, <3>1, <3>3
      <4> QED
        BY <1>1, <3>1, <4>1 DEF LinkedBack
    <3> QED
      BY <3>2, <3>3
  <2> QED
    BY <1>1, <2>2, <2>3 DEF LinkedBack, Back, longer
<1> QED
  BY <1>2, <1>3

LEMMA WalkReversed ==
  ASSUME GraphOK, NEW s \in Seq(EdgeIds(graph_)), NEW to, LinkedBack(s, to)
  PROVE  IsPath(graph_, Reverse(s), Back(s, to), to)
<1> DEFINE path == Reverse(s)
<1>1. /\ path \in Seq(EdgeIds(graph_)) /\ Len(path) = Len(s)
      /\ \A n \in 1 .. Len(s) : path[n] = s[Len(s) - n + 1]
  BY ReverseType
<1>2. Len(s) \in Nat /\ DOMAIN path = 1 .. Len(s)
  BY <1>1
<1>3. s = << >> <=> Len(s) = 0
  OBVIOUS
<1>4. path = << >> <=> Len(s) = 0
  BY <1>1
<1> HIDE DEF path
<1>5. \A n \in DOMAIN path : path[n] \in EdgeIds(graph_)
  BY <1>1, <1>2
<1>6. ASSUME NEW n \in 1 .. Len(path) - 1
      PROVE  graph_.edges[path[n]].to = graph_.edges[path[n + 1]].from
  <2> DEFINE m == Len(s) - n
  <2>1. /\ n \in 1 .. Len(s) /\ n + 1 \in 1 .. Len(s) /\ m \in 1 .. Len(s) - 1
        /\ Len(s) - n + 1 = m + 1 /\ Len(s) - (n + 1) + 1 = m
    BY <1>1, <1>2
  <2>2. path[n] = s[m + 1] /\ path[n + 1] = s[m]
    BY <1>1, <2>1
  <2> HIDE DEF m
  <2> QED
    BY <2>1, <2>2 DEF LinkedBack, GetEdge
<1>7. ASSUME path # << >>
      PROVE  /\ graph_.edges[path[1]].from = Back(s, to)
             /\ graph_.edges[path[Len(path)]].to = to
  <2>1. /\ 1 \in 1 .. Len(s) /\ Len(s) \in 1 .. Len(s)
        /\ Len(s) - 1 + 1 = Len(s) /\ Len(s) - Len(s) + 1 = 1
    BY <1>2, <1>4, <1>7
  <2>2. path[1] = s[Len(s)] /\ path[Len(path)] = s[1]
    BY <1>1, <2>1
  <2> QED
    BY <1>3, <1>4, <1>7, <2>2 DEF LinkedBack, Back, GetEdge
<1>8. path = << >> => Back(s, to) = to
  BY <1>3, <1>4 DEF Back
<1> QED
  BY <1>5, <1>6, <1>7, <1>8 DEF IsPath, path
-----------------------------------------------------------------------------
(***************************************************************************)
(* The invariant of the walk.  Its facts about the table come from         *)
(* TableIsSettled: an entry with no last edge is the diagonal, and the     *)
(* last edge of any other comes from a vertex whose entry is there.        *)
(***************************************************************************)
LEMMA BackVertex ==
  ASSUME GraphOK, NEW s \in Seq(EdgeIds(graph_)), NEW to \in V
  PROVE  Back(s, to) \in V
<1>1. s # << >> => Len(s) \in 1 .. Len(s)
  OBVIOUS
<1>2. s # << >> => s[Len(s)] \in EdgeIds(graph_)
  BY <1>1, SeqElement
<1> QED
  BY <1>2, EdgeFacts DEF Back

LEMMA SettledEntry ==
  ASSUME NEW D, Settled(D), NEW i \in V, NEW j \in V, D[i][j] # NoRoute
  PROVE  /\ D[i][j].prev_edge = NoEdge => i = j
         /\ D[i][j].prev_edge # NoEdge =>
              /\ GetEdge(D[i][j].prev_edge).to = j
              /\ D[i][GetEdge(D[i][j].prev_edge).from] # NoRoute
<1>1. i = j => D[i][j].prev_edge = NoEdge
  BY DEF Settled
<1> QED
  BY <1>1 DEF Settled

\* A step that leaves the routes, their answers and the table alone.
LEMMA HeldKept ==
  ASSUME HeldRoutesArePaths, graph_' = graph_, answers' = answers,
         expanded_routes_cache_' = expanded_routes_cache_,
         routes_internal_data_' = routes_internal_data_ \/ answers = {}
  PROVE  HeldRoutesArePaths'
BY DEF HeldRoutesArePaths, IsPath, EdgeIds

LEMMA RouteInvariant == Spec => []RouteInv
<1>1. Init => RouteInv
  BY DEF Init, RouteInv, NoUndefinedAccess, HeldRoutesArePaths
<1>2. ASSUME TypeOK, TableIsSettled, RouteInv, Next
      PROVE  RouteInv'
  <2> DEFINE D == routes_internal_data_
  <2>1. GraphOK /\ graph_' = graph_
    BY <1>2, TypeGraph, GraphConstant
  <2>2. ASSUME Construct
        PROVE  RouteInv'
    <3>1. /\ pc \in {"row", "edges", "relax"} /\ answers' = answers
          /\ expanded_routes_cache_' = expanded_routes_cache_
          /\ pc' \in {"row", "edges", "relax", "ready"}
      BY <2>2 DEF Construct, InitializeDiagonal, ConsiderEdge, NextRow, SkipRow,
                  RelaxRoute, FinishRow
    <3>2. answers = {}
      BY <1>2, <3>1 DEF RouteInv
    <3>3. HeldRoutesArePaths'
      BY <1>2, <2>1, <3>1, <3>2, HeldKept DEF RouteInv
    <3> QED
      BY <3>1, <3>2, <3>3 DEF RouteInv, NoUndefinedAccess
  <2>3. ASSUME NEW from \in V, NEW to \in V, BuildNoRoute(from, to)
        PROVE  RouteInv'
    <3>1. /\ pc = "ready" /\ pc' = pc /\ D' = D
          /\ answers' = answers \cup {[from |-> from, to |-> to, info |-> NoRoute]}
          /\ expanded_routes_cache_' = expanded_routes_cache_
      BY <2>3 DEF BuildNoRoute
    <3>2. HeldRoutesArePaths'
      BY <1>2, <2>1, <3>1 DEF RouteInv, HeldRoutesArePaths, IsPath, EdgeIds
    <3> QED
      BY <3>1, <3>2 DEF RouteInv, NoUndefinedAccess
  <2>4. ASSUME NEW from \in V, NEW to \in V, StartWalk(from, to)
        PROVE  RouteInv'
    <3>1. /\ pc = "ready" /\ pc' = "walk" /\ D' = D /\ D[from][to] # NoRoute
          /\ walk' = [from |-> from, to |-> to, edges |-> << >>,
                      edge_id |-> D[from][to].prev_edge]
          /\ answers' = answers
          /\ expanded_routes_cache_' = expanded_routes_cache_
      BY <2>4 DEF StartWalk
    <3>2. /\ walk'.from = from /\ walk'.to = to /\ walk'.edges = << >>
          /\ walk'.edge_id = D[from][to].prev_edge
      BY <3>1
    <3>3. WalkPart'
      BY <3>1, <3>2 DEF WalkPart, Back, LinkedBack
    <3>4. HeldRoutesArePaths'
      BY <1>2, <2>1, <3>1, HeldKept DEF RouteInv
    <3> QED
      BY <3>1, <3>3, <3>4 DEF RouteInv, NoUndefinedAccess
  <2>5. ASSUME WalkBack
        PROVE  RouteInv'
    <3> DEFINE from == walk.from
               to == walk.to
               s == walk.edges
               id == walk.edge_id
               before == D[from][GetEdge(id).from]
    <3>1. /\ pc = "walk" /\ id # NoEdge /\ D' = D /\ answers' = answers
          /\ expanded_routes_cache_' = expanded_routes_cache_
          /\ IF before = NoRoute
               THEN pc' = "undefined" /\ walk' = walk
               ELSE /\ walk' = [from |-> from, to |-> to,
                                edge_id |-> before.prev_edge,
                                edges |-> Append(s, id)]
                    /\ pc' = pc
      BY <2>5 DEF WalkBack
    <3>2. /\ from \in V /\ to \in V /\ s \in Seq(EdgeIds(graph_))
          /\ id \in EdgeIds(graph_)
      BY <1>2, <3>1 DEF TypeOK
    <3>3. /\ Settled(D) /\ D[from][Back(s, to)] # NoRoute
          /\ id = D[from][Back(s, to)].prev_edge /\ LinkedBack(s, to)
      BY <1>2, <3>1 DEF RouteInv, WalkPart, TableIsSettled, Constructed
    <3>4. Back(s, to) \in V
      BY <2>1, <3>2, BackVertex
    <3>5. GetEdge(id).to = Back(s, to) /\ before # NoRoute
      BY <3>1, <3>2, <3>3, <3>4, SettledEntry
    <3>6. /\ LinkedBack(Append(s, id), to)
          /\ Back(Append(s, id), to) = GetEdge(id).from
      BY <2>1, <3>2, <3>3, <3>5, WalkLonger
    <3>7. /\ pc' = pc /\ walk'.from = from /\ walk'.to = to
          /\ walk'.edge_id = before.prev_edge /\ walk'.edges = Append(s, id)
      BY <3>1, <3>5
    <3>8. /\ Back(walk.edges, walk.to)' = GetEdge(id).from
          /\ LinkedBack(walk.edges, walk.to)'
      BY <2>1, <3>6, <3>7 DEF Back, LinkedBack, GetEdge
    <3>9. WalkPart'
      BY <3>1, <3>5, <3>7, <3>8 DEF WalkPart
    <3>10. HeldRoutesArePaths'
      BY <1>2, <2>1, <3>1, HeldKept DEF RouteInv
    <3> QED
      BY <3>1, <3>7, <3>9, <3>10 DEF RouteInv, NoUndefinedAccess
  <2>6. ASSUME FinishWalk
        PROVE  RouteInv'
    <3> DEFINE from == walk.from
               to == walk.to
               path == Reverse(walk.edges)
               next == next_route_id_
               info == [id |-> next, weight |-> D[from][to].weight,
                        edge_count |-> Len(walk.edges)]
               answer == [from |-> from, to |-> to, info |-> info]
    <3>1. /\ pc = "walk" /\ walk.edge_id = NoEdge /\ D' = D /\ pc' = "ready"
          /\ answers' = answers \cup {answer}
          /\ expanded_routes_cache_' = Expanded(path)
      BY <2>6 DEF FinishWalk
    <3>2. /\ from \in V /\ to \in V /\ walk.edges \in Seq(EdgeIds(graph_))
          /\ next \in Nat /\ DOMAIN expanded_routes_cache_ \subseteq 0 .. next - 1
      BY <1>2 DEF TypeOK
    <3>3. /\ Settled(D) /\ D[from][Back(walk.edges, to)] # NoRoute
          /\ D[from][Back(walk.edges, to)].prev_edge = NoEdge
          /\ LinkedBack(walk.edges, to)
      BY <1>2, <3>1 DEF RouteInv, WalkPart, TableIsSettled, Constructed
    <3>4. Back(walk.edges, to) = from
      BY <2>1, <3>2, <3>3, BackVertex, SettledEntry
    <3>5. IsPath(graph_, path, from, to) /\ Len(path) = Len(walk.edges)
      BY <2>1, <3>2, <3>3, <3>4, WalkReversed, ReverseType
    <3>6. /\ next \notin DOMAIN expanded_routes_cache_
          /\ DOMAIN Expanded(path) = DOMAIN expanded_routes_cache_ \cup {next}
          /\ Expanded(path)[next] = path
          /\ \A id \in DOMAIN expanded_routes_cache_ :
               Expanded(path)[id] = expanded_routes_cache_[id]
      BY <3>2 DEF Expanded
    <3>7. /\ answer.from = from /\ answer.to = to /\ answer.info = info
          /\ info.id = next /\ info.weight = D[from][to].weight
          /\ info.edge_count = Len(walk.edges)
      OBVIOUS
    <3>8. ASSUME NEW a \in answers', a.info # NoRoute
          PROVE  /\ a.info.id \in DOMAIN Expanded(path)
                 /\ IsPath(graph_, Expanded(path)[a.info.id], a.from, a.to)
                 /\ Len(Expanded(path)[a.info.id]) = a.info.edge_count
                 /\ a.info.weight = D[a.from][a.to].weight
      <4>1. CASE a \in answers
        <5>1. /\ a.info.id \in DOMAIN expanded_routes_cache_
              /\ IsPath(graph_, expanded_routes_cache_[a.info.id], a.from, a.to)
              /\ Len(expanded_routes_cache_[a.info.id]) = a.info.edge_count
              /\ a.info.weight = D[a.from][a.to].weight
          BY <1>2, <3>8, <4>1 DEF RouteInv, HeldRoutesArePaths
        <5> QED
          BY <3>6, <5>1
      <4>2. CASE a = answer
        <5> HIDE DEF answer, info, path
        <5> QED
          BY <3>5, <3>6, <3>7, <4>2
      <4> QED
        BY <3>1, <3>8, <4>1, <4>2
    <3>9. HeldRoutesArePaths'
      <4> HIDE DEF answer, info, path
      <4> QED
        BY <2>1, <3>1, <3>8 DEF HeldRoutesArePaths
    <3> QED
      BY <3>1, <3>9 DEF RouteInv, NoUndefinedAccess
  <2>7. ASSUME NEW id \in DOMAIN expanded_routes_cache_, ReleaseRoute(id)
        PROVE  RouteInv'
    <3>1. /\ pc = "ready" /\ pc' = pc /\ D' = D
          /\ expanded_routes_cache_' =
               [k \in DOMAIN expanded_routes_cache_ \ {id} |->
                  expanded_routes_cache_[k]]
          /\ answers' = {a \in answers : a.info = NoRoute \/ a.info.id # id}
      BY <2>7 DEF ReleaseRoute
    <3>2. HeldRoutesArePaths'
      BY <1>2, <2>1, <3>1 DEF RouteInv, HeldRoutesArePaths
    <3> QED
      BY <3>1, <3>2 DEF RouteInv, NoUndefinedAccess
  <2> QED
    BY <1>2, <2>2, <2>3, <2>4, <2>5, <2>6, <2>7 DEF Next, Walk
<1>3. RouteInv /\ UNCHANGED vars => RouteInv'
  BY DEF RouteInv, NoUndefinedAccess, WalkPart, Back, LinkedBack, GetEdge,
         HeldRoutesArePaths, vars, construction
<1>4. TypeOK /\ TableIsSettled /\ RouteInv /\ [Next]_vars => RouteInv'
  BY <1>2, <1>3
<1> QED
  BY <1>1, <1>4, TypeCorrect, TableAlwaysSettled, PTL DEF Spec

\* NoUndefinedAccess for every graph: BuildRoute may dereference the entry of
\* the vertex a last edge comes from without looking whether it is there.
THEOREM NeverUndefined == Spec => []NoUndefinedAccess
BY RouteInvariant, PTL DEF RouteInv

\* HeldRoutesArePaths for every graph and any order of BuildRoute and
\* ReleaseRoute: a RouteInfo that was not released stands for the path it was
\* built for.
THEOREM HeldRoutesAlwaysPaths == Spec => []HeldRoutesArePaths
BY RouteInvariant, PTL DEF RouteInv

-----------------------------------------------------------------------------
(***************************************************************************)
(* The walk ends.  Whatever ranks the row of the table has, the vertices   *)
(* the walk has come by stand in that order, so none of them twice.        *)
(***************************************************************************)
DownAlong(D, from, edges, to) ==
  LET passed(n) == GetEdge(edges[n]).to
  IN  \A rank \in [V -> Nat] :
        Descends(D, from, rank) =>
          \A n \in 1 .. Len(edges) :
            /\ D[from][passed(n)] # NoRoute
            /\ Before(D, from, rank, Back(edges, to), passed(n))
            /\ \A m \in 1 .. n - 1 : Before(D, from, rank, passed(n), passed(m))

DownInv ==
  pc = "walk" =>
    DownAlong(routes_internal_data_, walk.from, walk.edges, walk.to)

LEMMA DownKept ==
  ASSUME graph_' = graph_, NEW D, NEW from, NEW edges, NEW to
  PROVE  DownAlong(D, from, edges, to)' <=> DownAlong(D, from, edges, to)
BY DEF DownAlong, Before, Descends, Back, GetEdge, V

LEMMA BeforeIsOrder ==
  ASSUME NEW D, Table(D), NEW i \in V, NEW rank \in [V -> Nat],
         NEW u \in V, NEW v \in V, NEW w \in V,
         D[i][u] # NoRoute, D[i][v] # NoRoute, D[i][w] # NoRoute
  PROVE  /\ ~ Before(D, i, rank, u, u)
         /\ Before(D, i, rank, u, v) /\ Before(D, i, rank, v, w)
              => Before(D, i, rank, u, w)
<1>1. /\ D[i][u].weight \in Nat /\ D[i][v].weight \in Nat /\ D[i][w].weight \in Nat
      /\ rank[u] \in Nat /\ rank[v] \in Nat /\ rank[w] \in Nat
  BY CellFacts
<1> QED
  BY <1>1 DEF Before


LEMMA WalkGoesDown ==
  ASSUME TypeOK, TableIsSettled, TableInv, RouteInv, DownInv, WalkBack
  PROVE  DownInv'
<1> DEFINE D == routes_internal_data_
           from == walk.from
           to == walk.to
           s == walk.edges
           id == walk.edge_id
           at == Back(s, to)
           passed(n) == GetEdge(s[n]).to
<1>1. GraphOK /\ Table(D) /\ graph_' = graph_ /\ V' = V
  BY TypeGraph DEF TypeOK, Table, WalkBack, V
<1>2. /\ pc = "walk" /\ id \in EdgeIds(graph_) /\ D' = D
      /\ from \in V /\ to \in V /\ s \in Seq(EdgeIds(graph_))
  BY DEF WalkBack, TypeOK
<1>3. /\ Settled(D) /\ D[from][at] # NoRoute /\ id = D[from][at].prev_edge
      /\ at \in V /\ Ranked(D)
  BY <1>1, <1>2, BackVertex
     DEF RouteInv, WalkPart, TableIsSettled, Constructed, TableInv, Phase
<1>4. /\ from # at /\ GetEdge(id).to = at /\ D[from][GetEdge(id).from] # NoRoute
      /\ GetEdge(id).from \in V /\ id # NoEdge
  <2>1. id # NoEdge
    BY DEF WalkBack
  <2>2. from # at
    BY <1>2, <1>3, <2>1 DEF Settled
  <2> QED
    BY <1>1, <1>2, <1>3, <2>1, <2>2, SettledEntry, EdgeFacts
<1>5. CASE pc' # "walk"
  BY <1>5 DEF DownInv
<1>6. CASE pc' = "walk"
  <2>1. /\ walk'.from = from /\ walk'.to = to /\ walk'.edges = Append(s, id)
    BY <1>4, <1>6 DEF WalkBack
  <2>2. /\ Len(Append(s, id)) = Len(s) + 1 /\ Len(s) \in Nat
        /\ Append(s, id)[Len(s) + 1] = id
        /\ \A n \in 1 .. Len(s) : Append(s, id)[n] = s[n] /\ s[n] \in EdgeIds(graph_)
    BY <1>2
  <2> DEFINE passed2(n) == GetEdge(Append(s, id)[n]).to
             at2 == GetEdge(id).from
  <2>3. Back(Append(s, id), to) = at2
    <3>1. Append(s, id) # << >>
      BY <2>2
    <3> QED
      BY <2>2, <3>1 DEF Back
  <2>4. /\ \A n \in 1 .. Len(s) : passed2(n) = passed(n) /\ passed(n) \in V
        /\ passed2(Len(s) + 1) = at
    BY <1>1, <1>4, <2>2, EdgeFacts
  <2>5. ASSUME NEW rank \in [V -> Nat], Descends(D, from, rank),
               NEW n \in 1 .. Len(s) + 1
        PROVE  /\ D[from][passed2(n)] # NoRoute
               /\ Before(D, from, rank, at2, passed2(n))
               /\ \A m \in 1 .. n - 1 : Before(D, from, rank, passed2(n), passed2(m))
    <3>1. \A l \in 1 .. Len(s) :
            /\ D[from][passed(l)] # NoRoute
            /\ Before(D, from, rank, at, passed(l))
            /\ \A m \in 1 .. l - 1 : Before(D, from, rank, passed(l), passed(m))
      BY <1>2, <2>5 DEF DownInv, DownAlong
    <3>2. Before(D, from, rank, at2, at)
      BY <1>3, <1>4, <2>5 DEF Descends
    <3> HIDE DEF passed, passed2, at, at2
    <3>3. CASE n = Len(s) + 1
      <4>1. \A m \in 1 .. n - 1 : m \in 1 .. Len(s)
        BY <2>2, <3>3
      <4> QED
        BY <1>3, <2>4, <3>1, <3>2, <3>3, <4>1
    <3>4. CASE n # Len(s) + 1
      <4>1. n \in 1 .. Len(s) /\ \A m \in 1 .. n - 1 : m \in 1 .. Len(s)
        BY <2>2, <3>4
      <4>2. at2 \in V /\ D[from][at2] # NoRoute
        BY <1>4 DEF at2
      <4>3. Before(D, from, rank, at2, passed(n))
        BY <1>1, <1>2, <1>3, <2>4, <3>1, <3>2, <4>1, <4>2, BeforeIsOrder
      <4> QED
        BY <2>4, <3>1, <4>1, <4>3
    <3> QED
      BY <3>3, <3>4
  <2>6. DownAlong(D, from, Append(s, id), to)
    <3> HIDE DEF D, from, to, s, id
    <3> QED
      BY <2>2, <2>3, <2>5 DEF DownAlong
  <2>7. PICK E, i, p, t : E = D /\ i = from /\ p = Append(s, id) /\ t = to
    OBVIOUS
  <2>8. DownAlong(E, i, p, t)'
    BY <1>1, <2>6, <2>7, DownKept
  <2>9. routes_internal_data_' = E /\ walk'.from = i /\ walk'.edges = p /\ walk'.to = t
    BY <1>2, <2>1, <2>7
  <2> QED
    BY <2>8, <2>9 DEF DownInv
<1> QED
  BY <1>5, <1>6

LEMMA DownInvariant == Spec => []DownInv
<1>1. Init => DownInv
  BY DEF Init, DownInv
<1>2. ASSUME TypeOK, TableIsSettled, TableInv, RouteInv, DownInv, Next
      PROVE  DownInv'
  <2>1. ASSUME NEW from \in V, NEW to \in V, StartWalk(from, to)
        PROVE  DownInv'
    <3>1. walk'.edges = << >>
      BY <2>1 DEF StartWalk
    <3>2. 1 .. Len(walk'.edges) = {}
      BY <3>1
    <3> QED
      BY <3>2 DEF DownInv, DownAlong
  <2>2. CASE WalkBack
    BY <1>2, <2>2, WalkGoesDown
  <2>3. ASSUME pc' # "walk" PROVE DownInv'
    BY <2>3 DEF DownInv
  <2>4. CASE Construct
    <3>1. pc' \in {"row", "edges", "relax", "ready"}
      BY <2>4 DEF Construct, InitializeDiagonal, ConsiderEdge, NextRow, SkipRow,
                  RelaxRoute, FinishRow
    <3> QED
      BY <2>3, <3>1
  <2>5. CASE FinishWalk
    BY <2>3, <2>5 DEF FinishWalk
  <2>6. ASSUME NEW from \in V, NEW to \in V, BuildNoRoute(from, to)
        PROVE  DownInv'
    BY <2>3, <2>6 DEF BuildNoRoute
  <2>7. ASSUME NEW id \in DOMAIN expanded_routes_cache_, ReleaseRoute(id)
        PROVE  DownInv'
    BY <2>3, <2>7 DEF ReleaseRoute
  <2> QED
    BY <1>2, <2>1, <2>2, <2>4, <2>5, <2>6, <2>7 DEF Next, Walk
<1>3. DownInv /\ UNCHANGED vars => DownInv'
  BY DownKept DEF DownInv, vars
<1>4. TypeOK /\ TableIsSettled /\ TableInv /\ RouteInv /\ DownInv /\ [Next]_vars
        => DownInv'
  BY <1>2, <1>3
<1> QED
  BY <1>1, <1>4, TypeCorrect, TableAlwaysSettled, TableInvariant, RouteInvariant, PTL
     DEF Spec

LEMMA DownIsShort ==
  ASSUME TypeOK, TableInv, RouteInv, DownInv, pc = "walk"
  PROVE  Len(walk.edges) < graph_.vertex_count
<1> DEFINE D == routes_internal_data_
           from == walk.from
           s == walk.edges
           n == Len(s)
           at == Back(s, walk.to)
           f == [m \in 1 .. n + 1 |-> IF m = n + 1 THEN at ELSE GetEdge(s[m]).to]
<1>1. /\ GraphOK /\ Table(D) /\ Ranked(D) /\ from \in V /\ walk.to \in V
      /\ s \in Seq(EdgeIds(graph_))
  BY TypeGraph DEF TypeOK, Table, TableInv, Phase
<1>2. at \in V /\ D[from][at] # NoRoute
  BY <1>1, BackVertex DEF RouteInv, WalkPart
<1>3. /\ n \in Nat
      /\ \A m \in 1 .. n : GetEdge(s[m]).to \in V
  BY <1>1, SeqElement, EdgeFacts
<1>4. PICK rank \in [V -> Nat] : Descends(D, from, rank)
  BY <1>1 DEF Ranked
<1>5. \A m \in 1 .. n :
        /\ D[from][GetEdge(s[m]).to] # NoRoute
        /\ Before(D, from, rank, at, GetEdge(s[m]).to)
        /\ \A l \in 1 .. m - 1 :
             Before(D, from, rank, GetEdge(s[m]).to, GetEdge(s[l]).to)
  BY <1>4 DEF DownInv, DownAlong
<1>6. /\ f \in [1 .. n + 1 -> V]
      /\ \A m \in 1 .. n : f[m] = GetEdge(s[m]).to
      /\ f[n + 1] = at
  BY <1>2, <1>3
<1> HIDE DEF f, at
<1>7. \A m \in 1 .. n + 1 : f[m] \in V /\ D[from][f[m]] # NoRoute
  <2> TAKE m \in 1 .. n + 1
  <2>1. m \in 1 .. n \/ m = n + 1
    BY <1>3
  <2> QED
    BY <1>2, <1>3, <1>5, <1>6, <2>1
<1>8. ASSUME NEW x \in 1 .. n + 1, NEW y \in 1 .. n + 1, x < y
      PROVE  f[x] # f[y]
  <2>1. Before(D, from, rank, f[y], f[x])
    <3>1. x \in 1 .. n /\ x \in 1 .. y - 1 /\ (y \in 1 .. n \/ y = n + 1)
      BY <1>3, <1>8
    <3> QED
      BY <1>5, <1>6, <3>1
  <2> QED
    BY <1>1, <1>7, <2>1, BeforeIsOrder
<1>9. ASSUME NEW x \in 1 .. n + 1, NEW y \in 1 .. n + 1, f[x] = f[y]
      PROVE  x = y
  <2>1. x < y \/ y < x \/ x = y
    BY <1>3
  <2> QED
    BY <1>8, <1>9, <2>1
<1>10. graph_.vertex_count \in Nat /\ n + 1 \in Nat
  BY <1>1, <1>3 DEF GraphOK
<1>11. n + 1 <= graph_.vertex_count
  <2>1. f \in [1 .. n + 1 -> Vertices(graph_)]
    BY <1>6 DEF V
  <2> QED
    BY <1>9, <1>10, <2>1, DistinctVertices
<1> QED
  BY <1>10, <1>11, <1>3

\* WalksAreShort for every graph, cycles of weight 0 included: relaxing only
\* where it is strictly cheaper leaves last edges that never lead round, so
\* the loop of BuildRoute, which has no other end, comes by no vertex twice.
THEOREM WalksAlwaysShort == Spec => []WalksAreShort
<1>1. TypeOK /\ TableInv /\ RouteInv /\ DownInv => WalksAreShort
  BY DownIsShort DEF WalksAreShort
<1> QED
  BY <1>1, TypeCorrect, TableInvariant, RouteInvariant, DownInvariant, PTL

-----------------------------------------------------------------------------
(***************************************************************************)
(* No walk is cheaper than its entry: an edge more keeps it so, because no *)
(* edge offers a shorter way (Settled).                                    *)
(***************************************************************************)
Within(n, i, j) == WeightsWithin(graph_)[n][i][j]

LEMMA EdgeMore ==
  ASSUME GraphOK, NEW n \in 0 .. graph_.vertex_count - 1, NEW i \in V,
         NEW id \in EdgeIds(graph_), NEW w \in Within(n, i, GetEdge(id).from)
  PROVE  w + GetEdge(id).weight \in Within(n + 1, i, GetEdge(id).to)
<1>1. graph_.vertex_count \in Nat /\ graph_.edges[id].to \in Vertices(graph_)
  BY EdgeFacts DEF GraphOK, V, GetEdge
<1> QED
  BY <1>1, WeightsWithEdge DEF Within, V, GetEdge

LEMMA NoWalkCheaper ==
  ASSUME GraphOK, NEW D, Table(D), Settled(D),
         NEW n \in 0 .. graph_.vertex_count, NEW i \in V, NEW j \in V,
         NEW w \in Within(n, i, j)
  PROVE  w \in Nat /\ D[i][j] # NoRoute /\ D[i][j].weight <= w
<1> DEFINE Bound(a, b, u) ==
             u \in Nat /\ D[a][b] # NoRoute /\ D[a][b].weight <= u
           S == {m \in Nat : m <= graph_.vertex_count =>
                               \A a, b \in V : \A u \in Within(m, a, b) : Bound(a, b, u)}
<1>1. graph_.vertex_count \in Nat
  BY DEF GraphOK
<1>2. 0 \in S
  <2>1. ASSUME NEW a \in V, NEW b \in V, NEW u \in Within(0, a, b)
        PROVE  Bound(a, b, u)
    <3>1. a = b /\ u = 0
      BY <1>1, <2>1, WeightsFacts DEF Within, V
    <3>2. D[a][b] = Nil
      BY <3>1 DEF Settled, Nil
    <3> QED
      BY <3>1, <3>2, NilIsData, DataFacts
  <2> QED
    BY <2>1
<1>3. ASSUME NEW m \in Nat, m \in S
      PROVE  m + 1 \in S
  <2> SUFFICES ASSUME m + 1 <= graph_.vertex_count,
                      NEW a \in V, NEW b \in V, NEW u \in Within(m + 1, a, b)
               PROVE  Bound(a, b, u)
    OBVIOUS
  <2>1. m \in 0 .. graph_.vertex_count - 1 /\ m <= graph_.vertex_count
    BY <1>1
  <2>2. \A c \in V : \A x \in Within(m, a, c) : Bound(a, c, x)
    BY <1>3, <2>1
  <2>3. \/ u \in Within(m, a, b)
        \/ \E id \in EdgeIds(graph_) :
             /\ GetEdge(id).to = b
             /\ \E x \in Within(m, a, GetEdge(id).from) : u = x + GetEdge(id).weight
    BY <1>1, <2>1, WeightsFacts DEF Within, V, GetEdge
  <2>4. CASE u \in Within(m, a, b)
    BY <2>2, <2>4
  <2>5. ASSUME NEW id \in EdgeIds(graph_), GetEdge(id).to = b,
               NEW x \in Within(m, a, GetEdge(id).from), u = x + GetEdge(id).weight
        PROVE  Bound(a, b, u)
    <3> DEFINE c == GetEdge(id).from
               d == GetEdge(id).weight
    <3>1. c \in V /\ d \in Nat
      BY EdgeFacts
    <3>2. x \in Nat /\ D[a][c] # NoRoute /\ D[a][c].weight <= x
      BY <2>2, <3>1
    <3>3. D[a][b] # NoRoute /\ D[a][b].weight <= D[a][c].weight + d
      BY <2>5, <3>2 DEF Settled
    <3>4. u = x + d
      BY <2>5
    <3> HIDE DEF c, d
    <3>5. D[a][b].weight \in Nat /\ D[a][c].weight \in Nat
      BY <3>1, <3>2, <3>3, CellFacts
    <3> QED
      BY <3>1, <3>2, <3>3, <3>4, <3>5
  <2> QED
    BY <2>3, <2>4, <2>5
<1> HIDE DEF S
<1>4. n \in S
  BY <1>1, <1>2, <1>3, StepByStep
<1> QED
  BY <1>1, <1>4 DEF S

-----------------------------------------------------------------------------
(***************************************************************************)
(* Every entry is the weight of a walk.  Those whose weight is that of a   *)
(* walk of at most n edges are more than n, or all there are: the lowest   *)
(* of the others has a last edge, from an entry that is lower still.       *)
(***************************************************************************)
Entries(D, i) == {j \in V : D[i][j] # NoRoute}

Explained(D, i, n) == {j \in Entries(D, i) : D[i][j].weight \in Within(n, i, j)}

LEMMA LowestEntry ==
  ASSUME GraphOK, NEW D, Table(D), NEW i \in V, NEW rank \in [V -> Nat],
         NEW S \in SUBSET Entries(D, i), S # {}
  PROVE  \E j \in S : \A u \in S : ~ Before(D, i, rank, u, j)
<1> DEFINE Weights_ == {D[i][j].weight : j \in S}
<1>1. \A j \in S : j \in V /\ D[i][j] # NoRoute /\ D[i][j].weight \in Nat
                   /\ rank[j] \in Nat
  BY CellFacts DEF Entries
<1>2. PICK a \in S : \A u \in S : D[i][a].weight <= D[i][u].weight
  <2>1. Weights_ \subseteq Nat /\ Weights_ # {}
    BY <1>1
  <2>2. PICK w \in Weights_ : \A x \in Weights_ : w <= x
    BY <2>1, LeastNatural
  <2> QED
    BY <2>2
<1> DEFINE T == {j \in S : D[i][j].weight = D[i][a].weight}
           Ranks == {rank[j] : j \in T}
<1>3. PICK b \in T : \A u \in T : rank[b] <= rank[u]
  <2>1. Ranks \subseteq Nat /\ Ranks # {}
    BY <1>1
  <2>2. PICK r \in Ranks : \A x \in Ranks : r <= x
    BY <2>1, LeastNatural
  <2> QED
    BY <2>2
<1>4. ASSUME NEW u \in S, Before(D, i, rank, u, b)
      PROVE  FALSE
  <2>1. D[i][b].weight = D[i][a].weight /\ b \in S
    BY <1>3
  <2>2. D[i][b].weight <= D[i][u].weight
    BY <1>2, <2>1
  <2>3. D[i][u].weight = D[i][b].weight /\ rank[u] < rank[b]
    BY <1>1, <1>4, <2>1, <2>2 DEF Before
  <2>4. rank[b] <= rank[u]
    BY <1>3, <2>1, <2>3
  <2> QED
    BY <1>1, <2>1, <2>3, <2>4
<1> QED
  BY <1>3, <1>4

LEMMA ExplainedGrows ==
  ASSUME GraphOK, NEW D, Table(D), Settled(D), Ranked(D), NEW i \in V,
         NEW n \in 0 .. graph_.vertex_count - 1
  PROVE  /\ i \in Explained(D, i, 0)
         /\ Explained(D, i, n) \subseteq Explained(D, i, n + 1)
         /\ i \in Explained(D, i, n) /\ Explained(D, i, n) # Entries(D, i) =>
              Explained(D, i, n + 1) # Explained(D, i, n)
<1>1. graph_.vertex_count \in Nat
  BY DEF GraphOK
<1>2. i \in Explained(D, i, 0)
  <2>1. D[i][i] = Nil /\ Nil # NoRoute /\ Nil.weight = 0
    BY NilIsData, DataFacts DEF Settled, Nil
  <2>2. 0 \in Within(0, i, i)
    BY <1>1, WeightsFacts DEF Within, V
  <2> QED
    BY <2>1, <2>2 DEF Explained, Entries
<1>3. Explained(D, i, n) \subseteq Explained(D, i, n + 1)
  <2>1. \A j \in V : \A w : w \in Within(n, i, j) => w \in Within(n + 1, i, j)
    BY <1>1, WeightsFacts DEF Within, V
  <2> QED
    BY <2>1 DEF Explained, Entries
<1>4. ASSUME i \in Explained(D, i, n), Explained(D, i, n) # Entries(D, i)
      PROVE  Explained(D, i, n + 1) # Explained(D, i, n)
  <2> DEFINE S == Entries(D, i) \ Explained(D, i, n)
  <2>1. PICK rank \in [V -> Nat] : Descends(D, i, rank)
    BY DEF Ranked
  <2>2. S \subseteq Entries(D, i) /\ S # {}
    BY <1>4 DEF Explained
  <2>3. PICK j \in S : \A u \in S : ~ Before(D, i, rank, u, j)
    BY <2>2, LowestEntry
  <2>4. j \in V /\ D[i][j] # NoRoute /\ i # j
    BY <1>4, <2>3 DEF Entries
  <2> DEFINE id == D[i][j].prev_edge
             u == GetEdge(id).from
  <2>5. /\ id \in EdgeIds(graph_) /\ GetEdge(id).to = j
        /\ D[i][u] # NoRoute
        /\ D[i][j].weight = D[i][u].weight + GetEdge(id).weight
    BY <2>4, CellFacts DEF Settled
  <2>6. u \in V
    BY <2>5, EdgeFacts
  <2>7. Before(D, i, rank, u, j)
    BY <2>1, <2>4 DEF Descends
  <2>8. u \in Explained(D, i, n)
    BY <2>3, <2>5, <2>6, <2>7 DEF Entries
  <2>9. D[i][j].weight \in Within(n + 1, i, j)
    <3>1. D[i][u].weight \in Within(n, i, u)
      BY <2>8 DEF Explained
    <3> QED
      BY <2>4, <2>5, <3>1, EdgeMore
  <2>10. j \in Explained(D, i, n + 1)
    BY <2>4, <2>9 DEF Explained, Entries
  <2> QED
    BY <2>3, <2>10
<1> QED
  BY <1>2, <1>3, <1>4

LEMMA EntriesExplained ==
  ASSUME GraphOK, NEW D, Table(D), Settled(D), Ranked(D), NEW i \in V
  PROVE  Explained(D, i, graph_.vertex_count) = Entries(D, i)
<1> DEFINE N == graph_.vertex_count
           A(n) == Explained(D, i, n)
           S == {n \in Nat : n <= N =>
                   /\ i \in A(n)
                   /\ A(n) = Entries(D, i) \/ n + 1 <= Cardinality(A(n))}
<1>1. N \in Nat /\ 0 \in 0 .. N - 1
  BY DEF GraphOK
<1>2. \A n : A(n) \subseteq Entries(D, i) /\ A(n) \in SUBSET Vertices(graph_)
  BY DEF Explained, Entries, V
<1>3. \A n : IsFiniteSet(A(n)) /\ Cardinality(A(n)) \in Nat /\ Cardinality(A(n)) <= N
  BY <1>1, <1>2, VertexCount, FS_Subset, FS_CardinalityType
<1>4. i \in A(0)
  BY <1>1, ExplainedGrows
<1>5. ASSUME NEW n \in 0 .. N - 1
      PROVE  /\ A(n) \subseteq A(n + 1)
             /\ i \in A(n) /\ A(n) # Entries(D, i) => A(n + 1) # A(n)
  BY ExplainedGrows
<1> HIDE DEF A
<1>6. 0 \in S
  <2>1. Cardinality(A(0)) # 0
    BY <1>3, <1>4, FS_EmptySet
  <2> QED
    BY <1>3, <1>4, <2>1
<1>7. ASSUME NEW n \in Nat, n \in S
      PROVE  n + 1 \in S
  <2> SUFFICES ASSUME n + 1 <= N
               PROVE  /\ i \in A(n + 1)
                      /\ \/ A(n + 1) = Entries(D, i)
                         \/ n + 1 + 1 <= Cardinality(A(n + 1))
    OBVIOUS
  <2>1. n \in 0 .. N - 1 /\ n <= N
    BY <1>1
  <2>2. i \in A(n) /\ A(n) \subseteq A(n + 1)
    BY <1>5, <1>7, <2>1
  <2>3. CASE A(n) = Entries(D, i)
    BY <1>2, <2>2, <2>3
  <2>4. CASE A(n) # Entries(D, i)
    <3>1. n + 1 <= Cardinality(A(n)) /\ n + 1 \in Nat
      BY <1>7, <2>1, <2>4
    <3>2. PICK v \in A(n + 1) : v \notin A(n)
      BY <1>5, <2>1, <2>2, <2>4
    <3>3. n + 1 + 1 <= Cardinality(A(n + 1))
      BY <1>1, <1>2, <2>2, <3>1, <3>2, OneVertexMore
    <3> QED
      BY <2>2, <3>3
  <2> QED
    BY <2>3, <2>4
<1>8. N \in S
  <2> HIDE DEF S
  <2> QED
    BY <1>1, <1>6, <1>7, StepByStep
<1>9. ~ (N + 1 <= Cardinality(A(N)))
  BY <1>1, <1>3
<1> QED
  BY <1>1, <1>8, <1>9 DEF A

LEMMA ShortestTable ==
  ASSUME GraphOK, NEW D, Table(D), Settled(D), Ranked(D), NEW i \in V, NEW j \in V
  PROVE  IF WalkWeights(graph_)[i][j] = {}
           THEN D[i][j] = NoRoute
           ELSE /\ D[i][j] # NoRoute
                /\ D[i][j].weight \in WalkWeights(graph_)[i][j]
                /\ \A w \in WalkWeights(graph_)[i][j] : D[i][j].weight <= w
<1>1. WalkWeights(graph_)[i][j] = Within(graph_.vertex_count, i, j)
  BY DEF WalkWeights, Within
<1>2. graph_.vertex_count \in 0 .. graph_.vertex_count
  BY DEF GraphOK
<1>3. \A w \in Within(graph_.vertex_count, i, j) :
        D[i][j] # NoRoute /\ D[i][j].weight <= w
  BY <1>2, NoWalkCheaper
<1>4. D[i][j] # NoRoute => D[i][j].weight \in Within(graph_.vertex_count, i, j)
  BY EntriesExplained DEF Explained, Entries
<1> QED
  BY <1>1, <1>3, <1>4

\* TableIsShortest for every graph: in place, with references into the table
\* that is written to, the constructor finds the cheapest of all walks between
\* any two vertices.
THEOREM TableAlwaysShortest == Spec => []TableIsShortest
<1>1. TypeOK /\ TableInv => TableIsShortest
  <2> SUFFICES ASSUME TypeOK, TableInv, pc = "ready"
               PROVE  \A i, j \in V :
                        IF WalkWeights(graph_)[i][j] = {}
                          THEN routes_internal_data_[i][j] = NoRoute
                          ELSE /\ routes_internal_data_[i][j] # NoRoute
                               /\ routes_internal_data_[i][j].weight
                                    \in WalkWeights(graph_)[i][j]
                               /\ \A w \in WalkWeights(graph_)[i][j] :
                                    routes_internal_data_[i][j].weight <= w
    BY DEF TableIsShortest
  <2>1. GraphOK /\ Phase(routes_internal_data_, graph_.vertex_count)
    BY TypeGraph DEF TableInv
  <2>2. /\ Table(routes_internal_data_) /\ Settled(routes_internal_data_)
        /\ Ranked(routes_internal_data_)
    BY <2>1, PhaseSettled DEF Phase
  <2> QED
    BY <2>1, <2>2, ShortestTable
<1> QED
  BY <1>1, TypeCorrect, TableInvariant, PTL

-----------------------------------------------------------------------------
(***************************************************************************)
(* The refinement.                                                         *)
(***************************************************************************)
LEMMA SameWalks == Finder!WalkWeights(graph_) = WalkWeights(graph_)
BY DEF Finder!WalkWeights, WalkWeights, Finder!WeightsWithin, WeightsWithin,
       Finder!WithEdge, WithEdge, Finder!Vertices, Vertices,
       Finder!EdgeIds, EdgeIds

LEMMA SamePaths ==
  ASSUME NEW path
  PROVE  /\ Finder!PathWeight(graph_, path) = PathWeight(graph_, path)
         /\ \A i, j : Finder!IsPath(graph_, path, i, j) <=> IsPath(graph_, path, i, j)
BY DEF Finder!PathWeight, PathWeight, Finder!IsPath, IsPath, Finder!EdgeIds, EdgeIds


\* What is left of the weight of the route asked for is the weight of the entry
\* the walk has come back to.
WeightPart ==
  LET row == routes_internal_data_[walk.from] IN
  /\ row[walk.to] # NoRoute
  /\ row[walk.to].weight = row[Back(walk.edges, walk.to)].weight
                             + PathWeight(graph_, Reverse(walk.edges))

WeightInv == pc = "walk" => WeightPart

LEMMA ReverseEmpty == Reverse(<< >>) = << >>
BY DEF Reverse

LEMMA ReverseAppend ==
  ASSUME NEW S, NEW s \in Seq(S), NEW e \in S
  PROVE  Reverse(Append(s, e)) = <<e>> \o Reverse(s)
<1> DEFINE longer == Append(s, e)
           n == Len(s)
<1>2. n \in Nat /\ Len(longer) = n + 1 /\ longer \in Seq(S)
  OBVIOUS
<1>3. \A m \in 1 .. n : longer[m] = s[m]
  OBVIOUS
<1>4. longer[n + 1] = e
  OBVIOUS
<1> HIDE DEF longer
<1>5. /\ Reverse(longer) \in Seq(S) /\ Len(Reverse(longer)) = n + 1
      /\ \A m \in 1 .. n + 1 : Reverse(longer)[m] = longer[n + 1 - m + 1]
  BY <1>2, ReverseType
<1>6. /\ Reverse(s) \in Seq(S) /\ Len(Reverse(s)) = n
      /\ \A m \in 1 .. n : Reverse(s)[m] = s[n - m + 1]
  BY ReverseType
<1> DEFINE front == <<e>> \o Reverse(s)
<1>7. /\ front \in Seq(S) /\ Len(front) = n + 1 /\ front[1] = e
      /\ \A m \in 2 .. n + 1 : front[m] = Reverse(s)[m - 1]
  BY <1>2, <1>6
<1> HIDE DEF front
<1>8. ASSUME NEW m \in 1 .. n + 1
      PROVE  Reverse(longer)[m] = front[m]
  <2>1. CASE m = 1
    BY <1>2, <1>4, <1>5, <1>7, <2>1
  <2>2. CASE m # 1
    <3>1. /\ m \in 2 .. n + 1 /\ m - 1 \in 1 .. n /\ n - (m - 1) + 1 = n + 1 - m + 1
          /\ n + 1 - m + 1 \in 1 .. n
      BY <1>2, <2>2
    <3> QED
      BY <1>3, <1>5, <1>6, <1>7, <3>1
  <2> QED
    BY <2>1, <2>2
<1>9. Reverse(longer) = front
  BY <1>2, <1>5, <1>7, <1>8
<1> QED
  BY <1>9 DEF longer, front

LEMMA WeightInvariant == Spec => []WeightInv
<1>1. Init => WeightInv
  BY DEF Init, WeightInv
<1>2. ASSUME TypeOK, TableIsSettled, RouteInv, WeightInv, Next
      PROVE  WeightInv'
  <2> DEFINE D == routes_internal_data_
  <2>1. GraphOK /\ Table(D) /\ graph_' = graph_
    BY <1>2, TypeGraph, GraphConstant DEF TypeOK, Table
  <2>2. ASSUME pc' # "walk" PROVE WeightInv'
    BY <2>2 DEF WeightInv
  <2>3. CASE Construct
    <3>1. pc' \in {"row", "edges", "relax", "ready"}
      BY <2>3 DEF Construct, InitializeDiagonal, ConsiderEdge, NextRow, SkipRow,
                  RelaxRoute, FinishRow
    <3> QED
      BY <2>2, <3>1
  <2>4. ASSUME NEW from \in V, NEW to \in V, StartWalk(from, to)
        PROVE  WeightInv'
    <3>1. /\ D' = D /\ D[from][to] # NoRoute
          /\ walk'.from = from /\ walk'.to = to /\ walk'.edges = << >>
      BY <2>4 DEF StartWalk
    <3>2. Reverse(<< >>) = << >>
      BY ReverseEmpty
    <3>3. PathWeight(graph_, << >>) = 0
      BY PathWeightEmpty
    <3>4. D[from][to].weight \in Nat
      BY <2>1, <3>1, CellFacts
    <3>5. D[from][to].weight = D[from][to].weight + PathWeight(graph_, Reverse(<< >>))
      BY <3>2, <3>3, <3>4
    <3>6. WeightPart'
      BY <2>1, <3>1, <3>5 DEF WeightPart, Back
    <3> QED
      BY <3>6 DEF WeightInv
  <2>5. CASE WalkBack
    <3> DEFINE from == walk.from
               to == walk.to
               s == walk.edges
               id == walk.edge_id
               at == Back(s, to)
    <3>1. /\ pc = "walk" /\ id \in EdgeIds(graph_) /\ id # NoEdge /\ D' = D
          /\ from \in V /\ to \in V /\ s \in Seq(EdgeIds(graph_))
      BY <1>2, <2>5 DEF WalkBack, TypeOK
    <3>2. /\ Settled(D) /\ D[from][at] # NoRoute /\ id = D[from][at].prev_edge
          /\ at \in V
      BY <1>2, <2>1, <3>1, BackVertex
         DEF RouteInv, WalkPart, TableIsSettled, Constructed
    <3> DEFINE u == GetEdge(id).from
               w == GetEdge(id).weight
    <3>3. /\ u \in V /\ w \in Nat /\ D[from][u] # NoRoute
          /\ D[from][at].weight = D[from][u].weight + w
      <4>1. from # at
        BY <3>1, <3>2 DEF Settled
      <4> QED
        BY <2>1, <3>1, <3>2, <4>1, EdgeFacts DEF Settled
    <3>4. /\ walk'.from = from /\ walk'.to = to /\ walk'.edges = Append(s, id)
      BY <2>5, <3>3 DEF WalkBack
    <3>5. /\ Reverse(Append(s, id)) = <<id>> \o Reverse(s)
          /\ Reverse(s) \in Seq(EdgeIds(graph_))
      BY <3>1, ReverseAppend, ReverseType
    <3>6. /\ PathWeight(graph_, Reverse(s)) \in Nat
          /\ PathWeight(graph_, Reverse(Append(s, id)))
               = w + PathWeight(graph_, Reverse(s))
      <4>1. \A e \in EdgeIds(graph_) : graph_.edges[e].weight \in Nat
        BY <2>1, EdgeFacts DEF GetEdge
      <4>2. /\ PathWeight(graph_, Reverse(s)) \in Nat
            /\ PathWeight(graph_, <<id>> \o Reverse(s))
                 = graph_.edges[id].weight + PathWeight(graph_, Reverse(s))
        BY <3>1, <3>5, <4>1, PathWeightFirst
      <4> QED
        BY <3>5, <4>2 DEF GetEdge
    <3>7. /\ D[from][to] # NoRoute
          /\ D[from][to].weight = D[from][at].weight + PathWeight(graph_, Reverse(s))
      BY <1>2, <3>1 DEF WeightInv, WeightPart
    <3>8. Back(Append(s, id), to) = u
      <4>1. Append(s, id) # << >> /\ Append(s, id)[Len(Append(s, id))] = id
        BY <3>1
      <4> QED
        BY <4>1 DEF Back
    <3>9. D[from][to].weight = D[from][u].weight
                               + PathWeight(graph_, Reverse(Append(s, id)))
      <4>1. D[from][at].weight \in Nat /\ D[from][u].weight \in Nat
        BY <2>1, <3>1, <3>2, <3>3, CellFacts
      <4> HIDE DEF u, w, at, s, id
      <4> QED
        BY <3>3, <3>6, <3>7, <4>1
    <3>10. Back(walk.edges, walk.to)' = u
      BY <2>1, <3>4, <3>8 DEF Back, GetEdge
    <3>11. WeightPart'
      BY <2>1, <3>1, <3>4, <3>7, <3>9, <3>10 DEF WeightPart
    <3> QED
      BY <3>11 DEF WeightInv
  <2>6. CASE FinishWalk
    BY <2>2, <2>6 DEF FinishWalk
  <2>7. ASSUME NEW from \in V, NEW to \in V, BuildNoRoute(from, to)
        PROVE  WeightInv'
    BY <2>2, <2>7 DEF BuildNoRoute
  <2>8. ASSUME NEW id \in DOMAIN expanded_routes_cache_, ReleaseRoute(id)
        PROVE  WeightInv'
    BY <2>2, <2>8 DEF ReleaseRoute
  <2> QED
    BY <1>2, <2>3, <2>4, <2>5, <2>6, <2>7, <2>8 DEF Next, Walk
<1>3. WeightInv /\ UNCHANGED vars => WeightInv'
  BY DEF WeightInv, WeightPart, Back, GetEdge, vars
<1>4. TypeOK /\ TableIsSettled /\ RouteInv /\ WeightInv /\ [Next]_vars => WeightInv'
  BY <1>2, <1>3
<1> QED
  BY <1>1, <1>4, TypeCorrect, TableAlwaysSettled, RouteInvariant, PTL DEF Spec

-----------------------------------------------------------------------------
Returned == pc \in {"ready", "walk", "undefined"}

\* What callers see of a step: the constructor returns, or nothing happens.
LEMMA HiddenStep ==
  ASSUME UNCHANGED <<graph_, answers, expanded_routes_cache_>>,
         Returned => Returned'
  PROVE  [Finder!Next]_(Finder!vars)
<1>1. CASE Returned' /\ ~ Returned
  <2>1. Finder!Construct
    BY <1>1 DEF Finder!Construct, Returned
  <2> QED
    BY <2>1 DEF Finder!Next
<1>2. CASE Returned' <=> Returned
  <2>1. UNCHANGED Finder!vars
    BY <1>2 DEF Finder!vars, Returned
  <2> QED
    BY <2>1
<1> QED
  BY <1>1, <1>2

LEMMA NoRouteStep ==
  ASSUME TypeOK, TableInv, NEW from \in V, NEW to \in V, BuildNoRoute(from, to)
  PROVE  Finder!Next
<1>1. pc = "ready" /\ routes_internal_data_[from][to] = NoRoute
  BY DEF BuildNoRoute
<1>2. GraphOK /\ Phase(routes_internal_data_, graph_.vertex_count)
  BY <1>1, TypeGraph DEF TableInv
<1>3. /\ Table(routes_internal_data_) /\ Settled(routes_internal_data_)
      /\ Ranked(routes_internal_data_)
  BY <1>2, PhaseSettled DEF Phase
<1>4. Finder!WalkWeights(graph_)[from][to] = {}
  BY <1>1, <1>2, <1>3, ShortestTable, SameWalks
<1>5. Finder!AnswerNoRoute(from, to)
  BY <1>1, <1>4 DEF Finder!AnswerNoRoute, BuildNoRoute
<1>6. from \in Finder!V /\ to \in Finder!V
  BY DEF Finder!V, Finder!Vertices, V, Vertices
<1> QED
  BY <1>5, <1>6 DEF Finder!Next

LEMMA RouteStep ==
  ASSUME TypeOK, TableInv, TableIsSettled, RouteInv, WeightInv, FinishWalk
  PROVE  Finder!Next
<1> DEFINE D == routes_internal_data_
           from == walk.from
           to == walk.to
           path == Reverse(walk.edges)
           next == next_route_id_
           info == [id |-> next, weight |-> D[from][to].weight,
                    edge_count |-> Len(walk.edges)]
           answer == [from |-> from, to |-> to, info |-> info]
<1>1. /\ pc = "walk" /\ walk.edge_id = NoEdge /\ pc' = "ready" /\ graph_' = graph_
      /\ answers' = answers \cup {answer}
      /\ expanded_routes_cache_' = Expanded(path)
  BY DEF FinishWalk
<1>2. /\ from \in V /\ to \in V /\ walk.edges \in Seq(EdgeIds(graph_))
      /\ next \in Nat /\ DOMAIN expanded_routes_cache_ \subseteq 0 .. next - 1
  BY DEF TypeOK
<1>3. /\ GraphOK /\ Table(D) /\ Settled(D) /\ Ranked(D)
  BY <1>1, TypeGraph DEF TableInv, Phase, TableIsSettled, Constructed
<1>4. /\ D[from][Back(walk.edges, to)] # NoRoute
      /\ D[from][Back(walk.edges, to)].prev_edge = NoEdge
      /\ LinkedBack(walk.edges, to)
  BY <1>1 DEF RouteInv, WalkPart
<1>5. Back(walk.edges, to) = from
  BY <1>2, <1>3, <1>4, BackVertex, SettledEntry
<1>6. IsPath(graph_, path, from, to) /\ Len(path) = Len(walk.edges)
  BY <1>2, <1>3, <1>4, <1>5, WalkReversed, ReverseType
<1>7. D[from][to].weight = PathWeight(graph_, path)
  <2>1. D[from][to].weight = D[from][from].weight + PathWeight(graph_, path)
    BY <1>1, <1>5 DEF WeightInv, WeightPart
  <2>2. D[from][from].weight = 0
    BY <1>2, <1>3 DEF Settled
  <2>3. PathWeight(graph_, path) \in Nat
    <3>1. \A e \in EdgeIds(graph_) : graph_.edges[e].weight \in Nat
      BY <1>3, EdgeFacts DEF GetEdge
    <3>2. path \in Seq(EdgeIds(graph_))
      BY <1>2, ReverseType
    <3>3. CASE path = << >>
      BY <3>3, PathWeightEmpty
    <3>4. CASE path # << >>
      <4>1. path[1] \in EdgeIds(graph_)
        BY <3>2, <3>4
      <4> QED
        BY <3>1, <3>2, <4>1, PathWeightFirst
    <3> QED
      BY <3>3, <3>4
  <2> QED
    BY <2>1, <2>2, <2>3
<1>8. /\ D[from][to].weight \in WalkWeights(graph_)[from][to]
      /\ \A w \in WalkWeights(graph_)[from][to] : D[from][to].weight <= w
  <2>1. D[from][to] # NoRoute
    BY <1>1 DEF WeightInv, WeightPart
  <2> QED
    BY <1>2, <1>3, <2>1, ShortestTable
<1>9. /\ next \notin DOMAIN expanded_routes_cache_
      /\ DOMAIN Expanded(path) = DOMAIN expanded_routes_cache_ \cup {next}
      /\ Expanded(path)[next] = path
      /\ \A id \in DOMAIN expanded_routes_cache_ :
           Expanded(path)[id] = expanded_routes_cache_[id]
  BY <1>2 DEF Expanded
<1>10. /\ answer.from = from /\ answer.to = to /\ answer.info = info
       /\ info.id = next /\ info.weight = D[from][to].weight
       /\ info.edge_count = Len(walk.edges)
  OBVIOUS
<1>11. info # NoRoute
  <2>1. D[from][to].weight \in Nat /\ Len(walk.edges) \in Nat
    BY <1>1, <1>2, <1>3, CellFacts DEF WeightInv, WeightPart
  <2> QED
    BY <1>2, <2>1, RouterConstants
<1> HIDE DEF answer, info, path, next
<1>12. answer \in answers' \ answers
  <2>1. answer \notin answers
    BY <1>9, <1>10, <1>11 DEF RouteInv, HeldRoutesArePaths
  <2> QED
    BY <1>1, <2>1
<1>13. Finder!RightAnswer(answer, path)
  BY <1>6, <1>7, <1>8, <1>10, SameWalks, SamePaths
     DEF Finder!RightAnswer, Finder!Cheapest
<1>14. Finder!AnswerRoute(from, to)
  BY <1>1, <1>9, <1>10, <1>11, <1>12, <1>13 DEF Finder!AnswerRoute
<1>15. from \in Finder!V /\ to \in Finder!V
  BY <1>2 DEF Finder!V, Finder!Vertices, V, Vertices
<1> QED
  BY <1>14, <1>15 DEF Finder!Next

LEMMA RouterStep ==
  ASSUME TypeOK, TableInv, TableIsSettled, RouteInv, WeightInv, Next
  PROVE  [Finder!Next]_(Finder!vars)
<1>1. CASE Construct
  <2>1. /\ UNCHANGED <<graph_, answers, expanded_routes_cache_>>
        /\ pc \in {"row", "edges", "relax"}
    BY <1>1 DEF Construct, InitializeDiagonal, ConsiderEdge, NextRow, SkipRow,
                RelaxRoute
  <2> QED
    BY <2>1, HiddenStep DEF Returned
<1>2. CASE WalkBack
  <2>1. /\ UNCHANGED <<graph_, answers, expanded_routes_cache_>>
        /\ pc' = "undefined" \/ pc' = pc
    BY <1>2 DEF WalkBack
  <2> QED
    BY <2>1, HiddenStep DEF Returned
<1>3. CASE FinishWalk
  BY <1>3, RouteStep
<1>4. ASSUME NEW from \in V, NEW to \in V, BuildNoRoute(from, to)
      PROVE  Finder!Next
  BY <1>4, NoRouteStep
<1>5. ASSUME NEW from \in V, NEW to \in V, StartWalk(from, to)
      PROVE  [Finder!Next]_(Finder!vars)
  <2>1. UNCHANGED <<graph_, answers, expanded_routes_cache_>> /\ pc' = "walk"
    BY <1>5 DEF StartWalk
  <2> QED
    BY <2>1, HiddenStep DEF Returned
<1>6. ASSUME NEW id \in DOMAIN expanded_routes_cache_, ReleaseRoute(id)
      PROVE  Finder!Next
  <2>1. Finder!Release(id)
    BY <1>6 DEF ReleaseRoute, Finder!Release
  <2> QED
    BY <2>1 DEF Finder!Next
<1> QED
  BY <1>1, <1>2, <1>3, <1>4, <1>5, <1>6 DEF Next, Walk

\* AnswersAreRight for every graph: Router implements the safety part of
\* RouteFinder.  The constructor, the walks and the table are steps its callers
\* do not see; what they do see is a new answer, which is a cheapest path under
\* an id of its own or says rightly that there is none, or the release of one.
THEOREM RouterAnswersAreRight == Spec => AnswersAreRight
<1>1. Init => Finder!Init
  BY DEF Init, Finder!Init
<1>2. TypeOK /\ TableInv /\ TableIsSettled /\ RouteInv /\ WeightInv /\ [Next]_vars
        => [Finder!Next]_(Finder!vars)
  <2>1. UNCHANGED vars => [Finder!Next]_(Finder!vars)
    BY HiddenStep DEF vars, Returned
  <2> QED
    BY <2>1, RouterStep
<1> QED
  BY <1>1, <1>2, TypeCorrect, TableInvariant, TableAlwaysSettled, RouteInvariant,
     WeightInvariant, PTL DEF Spec, AnswersAreRight

=============================================================================
