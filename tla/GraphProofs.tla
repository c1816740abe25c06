----------------------------- MODULE GraphProofs -----------------------------
(***************************************************************************)
(* What the recursive functions of DirectedWeightedGraph compute, and the  *)
(* two facts about natural numbers that proofs about them rest on: a set   *)
(* of numbers has a least one, and a set with 0 that has the successor of  *)
(* each of its elements has every number.                                  *)
(***************************************************************************)
EXTENDS DirectedWeightedGraph, FiniteSetTheorems, TLAPS

LEMMA LeastNatural ==
  ASSUME NEW S \in SUBSET Nat, S # {}
  PROVE  \E m \in S : \A k \in S : m <= k
<1> DEFINE below == {p \in Nat \X Nat : p[1] < p[2]}
<1>1. \A k, m \in Nat : k < m => <<k, m>> \in below
  OBVIOUS
<1>2. IsWellFoundedOn(below, Nat)
  BY NatLessThanWellFounded, Zenon DEF OpToRel
<1>3. \E m \in S : \A k \in S : <<k, m>> \notin below
  <2> HIDE DEF below
  <2> QED
    BY <1>2, WFMin, Zenon
<1> HIDE DEF below
<1>4. PICK m \in S : \A k \in S : <<k, m>> \notin below
  BY <1>3
<1>5. \A k \in S : m <= k
  <2> TAKE k \in S
  <2>1. k \in Nat /\ m \in Nat /\ ~ (k < m)
    BY <1>1, <1>4
  <2> QED
    BY <2>1
<1> QED
  BY <1>5

LEMMA StepByStep ==
  ASSUME NEW S, 0 \in S, \A n \in Nat : n \in S => n + 1 \in S
  PROVE  Nat \subseteq S
<1> SUFFICES ASSUME Nat \ S # {} PROVE FALSE
  OBVIOUS
<1>1. PICK m \in Nat \ S : \A k \in Nat \ S : m <= k
  BY LeastNatural
<1>2. m - 1 \in Nat /\ m - 1 + 1 = m /\ ~ (m <= m - 1)
  BY <1>1
<1> QED
  BY <1>1, <1>2

\* A finite set can be numbered, and every numbering without repetition has all of it.
LEMMA Numbering ==
  ASSUME NEW S, IsFiniteSet(S)
  PROVE  LET n == Cardinality(S)
             once(f) == \A a, b \in 1 .. n : f[a] = f[b] => a = b
         IN  /\ n \in Nat
             /\ \E f \in [1 .. n -> S] : once(f)
             /\ \A f \in [1 .. n -> S] : once(f) => S = {f[a] : a \in 1 .. n}
<1> DEFINE n == Cardinality(S)
           once(f) == \A a, b \in 1 .. n : f[a] = f[b] => a = b
<1>1. n \in Nat /\ ExistsBijection(1 .. n, S)
  BY FS_CardinalityType
<1>2. IsFiniteSet(1 .. n) /\ Cardinality(1 .. n) = n
  BY <1>1, FS_Interval
<1> HIDE DEF n
<1>3. \E f \in [1 .. n -> S] : once(f)
  BY <1>1 DEF ExistsBijection, Bijection, Injection, IsInjective
<1>4. ASSUME NEW f \in [1 .. n -> S], once(f) PROVE S = {f[a] : a \in 1 .. n}
  <2>1. f \in Injection(1 .. n, S)
    BY <1>4 DEF Injection, IsInjective
  <2>2. f \in Surjection(1 .. n, S)
    BY <1>2, <2>1, FS_Injection DEF n
  <2> QED
    BY <2>2 DEF Surjection
<1> QED
  BY <1>1, <1>3, <1>4 DEF n

\* A function defined step by step, from lo to hi: op[m] is the step to m.
StepsWithin(op, A, lo, hi) == \A m \in lo + 1 .. hi : \A x \in A : op[m][x] \in A

Stepwise(f, a, op, lo, hi) ==
  /\ f[lo] = a
  /\ \A m \in lo + 1 .. hi : f[m] = op[m][f[m - 1]]

LEMMA Recursion ==
  ASSUME NEW lo \in Nat, NEW hi \in Nat, lo <= hi, NEW A, NEW a \in A, NEW op,
         StepsWithin(op, A, lo, hi)
  PROVE  \E f \in [lo .. hi -> A] : Stepwise(f, a, op, lo, hi)
<1> DEFINE Upto(f, n) ==
             f = [m \in lo .. lo + n |-> IF m = lo THEN a ELSE op[m][f[m - 1]]]
           S == {n \in Nat : lo + n <= hi =>
                   \E f : Upto(f, n) /\ \A m \in lo .. lo + n : f[m] \in A}
<1>1. 0 \in S
  <2> DEFINE f == [m \in lo .. lo + 0 |-> a]
  <2>1. Upto(f, 0) /\ \A m \in lo .. lo + 0 : f[m] \in A
    OBVIOUS
  <2> QED
    BY <2>1
<1>2. ASSUME NEW n \in Nat, n \in S
      PROVE  n + 1 \in S
  <2> SUFFICES ASSUME lo + (n + 1) <= hi
               PROVE  \E f : /\ Upto(f, n + 1)
                             /\ \A m \in lo .. lo + (n + 1) : f[m] \in A
    OBVIOUS
  <2> DEFINE last == lo + (n + 1)
  <2>1. PICK f : Upto(f, n) /\ \A m \in lo .. lo + n : f[m] \in A
    BY <1>2
  <2> DEFINE g == [m \in lo .. last |-> IF m = last THEN op[m][f[m - 1]] ELSE f[m]]
  <2>2. ASSUME NEW m \in lo .. last
        PROVE  g[m] = (IF m = lo THEN a ELSE op[m][g[m - 1]]) /\ g[m] \in A
    <3>1. CASE m = last
      <4>1. m # lo /\ m - 1 \in lo .. lo + n /\ m \in lo + 1 .. hi /\ m - 1 # last
            /\ m - 1 \in lo .. last
        BY <3>1
      <4>2. f[m - 1] \in A
        BY <2>1, <4>1
      <4>3. g[m - 1] = f[m - 1] /\ g[m] = op[m][f[m - 1]]
        BY <3>1, <4>1
      <4> QED
        BY <4>1, <4>2, <4>3 DEF StepsWithin
    <3>2. CASE m # last
      <4>1. m \in lo .. lo + n
            /\ (m # lo => m - 1 \in lo .. last /\ m - 1 # last)
        BY <3>2
      <4>2. f[m] = (IF m = lo THEN a ELSE op[m][f[m - 1]]) /\ f[m] \in A
        BY <2>1, <4>1
      <4> QED
        BY <3>2, <4>1, <4>2
    <3> QED
      BY <3>1, <3>2
  <2>3. Upto(g, n + 1)
    BY <2>2
  <2> QED
    BY <2>2, <2>3
<1> HIDE DEF S
<1>3. hi - lo \in S
  <2>1. hi - lo \in Nat
    OBVIOUS
  <2> QED
    BY <1>1, <1>2, <2>1, StepByStep
<1>4. PICK f : /\ f = [m \in lo .. hi |-> IF m = lo THEN a ELSE op[m][f[m - 1]]]
               /\ \A m \in lo .. hi : f[m] \in A
  <2>1. lo + (hi - lo) = hi
    OBVIOUS
  <2> QED
    BY <1>3, <2>1 DEF S
<1>5. f[lo] = a /\ f \in [lo .. hi -> A]
  BY <1>4
<1>6. ASSUME NEW m \in lo + 1 .. hi
      PROVE  f[m] = op[m][f[m - 1]]
  <2>1. m \in lo .. hi /\ m # lo
    OBVIOUS
  <2> QED
    BY <1>4, <2>1
<1> QED
  BY <1>5, <1>6 DEF Stepwise

-----------------------------------------------------------------------------
NoEdges(graph) ==
  [from \in Vertices(graph) |-> [to \in Vertices(graph) |->
     IF from = to THEN {0} ELSE {}]]

\* The recursion of WeightsWithin, up to n edges.
Weights(graph, W, n) ==
  W = [m \in 0 .. n |-> IF m = 0 THEN NoEdges(graph) ELSE WithEdge(graph, W[m - 1])]

LEMMA WeightsExist ==
  ASSUME NEW graph
  PROVE  \A n \in Nat : \E W : Weights(graph, W, n)
<1> DEFINE S == {n \in Nat : \E W : Weights(graph, W, n)}
<1>1. 0 \in S
  <2> DEFINE W == [m \in 0 .. 0 |-> NoEdges(graph)]
  <2>1. Weights(graph, W, 0)
    BY DEF Weights
  <2> QED
    BY <2>1
<1>2. ASSUME NEW n \in Nat, n \in S
      PROVE  n + 1 \in S
  <2>1. PICK W : Weights(graph, W, n)
    BY <1>2
  <2> DEFINE X == [m \in 0 .. n + 1 |-> IF m = n + 1 THEN WithEdge(graph, W[n])
                                                    ELSE W[m]]
  <2>2. ASSUME NEW m \in 0 .. n + 1
        PROVE  X[m] = IF m = 0 THEN NoEdges(graph) ELSE WithEdge(graph, X[m - 1])
    <3>1. CASE m = n + 1
      BY <3>1
    <3>2. CASE m # n + 1
      <4>1. m \in 0 .. n /\ (m # 0 => m - 1 \in 0 .. n + 1 /\ m - 1 # n + 1)
        BY <3>2
      <4>2. W[m] = IF m = 0 THEN NoEdges(graph) ELSE WithEdge(graph, W[m - 1])
        BY <2>1, <4>1 DEF Weights
      <4> QED
        BY <3>2, <4>1, <4>2
    <3> QED
      BY <3>1, <3>2
  <2>3. Weights(graph, X, n + 1)
    BY <2>2 DEF Weights
  <2> QED
    BY <2>3
<1> HIDE DEF S
<1>3. Nat \subseteq S
  BY <1>1, <1>2, StepByStep
<1> QED
  BY <1>3 DEF S

\* WeightsWithin is what its definition says.
LEMMA WeightsRecursion ==
  ASSUME NEW graph, graph.vertex_count \in Nat
  PROVE  /\ WeightsWithin(graph)[0] = NoEdges(graph)
         /\ \A n \in 0 .. graph.vertex_count - 1 :
              WeightsWithin(graph)[n + 1] = WithEdge(graph, WeightsWithin(graph)[n])
<1> DEFINE W == WeightsWithin(graph)
           N == graph.vertex_count
<1>1. W = CHOOSE X : Weights(graph, X, N)
  BY DEF WeightsWithin, Weights, NoEdges
<1>2. Weights(graph, W, N)
  BY <1>1, WeightsExist
<1> HIDE DEF W
<1>3. W[0] = NoEdges(graph)
  BY <1>2 DEF Weights
<1>4. ASSUME NEW n \in 0 .. N - 1
      PROVE  W[n + 1] = WithEdge(graph, W[n])
  <2>1. n + 1 \in 0 .. N /\ n + 1 # 0 /\ n + 1 - 1 = n
    OBVIOUS
  <2>2. W[n + 1] = WithEdge(graph, W[n + 1 - 1])
    BY <1>2, <2>1 DEF Weights
  <2> QED
    BY <2>1, <2>2
<1> QED
  BY <1>3, <1>4 DEF W

\* The walks without an edge, and those of one edge more.
LEMMA WeightsFacts ==
  ASSUME NEW graph, graph.vertex_count \in Nat,
         NEW i \in Vertices(graph), NEW j \in Vertices(graph)
  PROVE  /\ \A w : w \in WeightsWithin(graph)[0][i][j] <=> i = j /\ w = 0
         /\ \A n \in 0 .. graph.vertex_count - 1 : \A w :
              w \in WeightsWithin(graph)[n + 1][i][j] <=>
                \/ w \in WeightsWithin(graph)[n][i][j]
                \/ \E id \in EdgeIds(graph) :
                     /\ graph.edges[id].to = j
                     /\ \E u \in WeightsWithin(graph)[n][i][graph.edges[id].from] :
                          w = u + graph.edges[id].weight
<1>1. \A w : w \in NoEdges(graph)[i][j] <=> i = j /\ w = 0
  BY DEF NoEdges
<1>2. \A R, w : w \in WithEdge(graph, R)[i][j] <=>
        \/ w \in R[i][j]
        \/ \E id \in EdgeIds(graph) :
             /\ graph.edges[id].to = j
             /\ \E u \in R[i][graph.edges[id].from] : w = u + graph.edges[id].weight
  BY DEF WithEdge
<1> QED
  BY <1>1, <1>2, WeightsRecursion

LEMMA WeightsWithEdge ==
  ASSUME NEW graph, graph.vertex_count \in Nat,
         NEW n \in 0 .. graph.vertex_count - 1, NEW i \in Vertices(graph),
         NEW id \in EdgeIds(graph), graph.edges[id].to \in Vertices(graph),
         NEW w \in WeightsWithin(graph)[n][i][graph.edges[id].from]
  PROVE  w + graph.edges[id].weight
           \in WeightsWithin(graph)[n + 1][i][graph.edges[id].to]
<1> DEFINE W == WeightsWithin(graph)
           to == graph.edges[id].to
<1>1. W[n + 1] = WithEdge(graph, W[n])
  BY WeightsRecursion
<1>2. \A R : \A u \in R[i][graph.edges[id].from] :
        u + graph.edges[id].weight \in WithEdge(graph, R)[i][to]
  <2> TAKE R
  <2> TAKE u \in R[i][graph.edges[id].from]
  <2>1. WithEdge(graph, R)[i][to] = R[i][to] \cup
          UNION {{x + graph.edges[e].weight : x \in R[i][graph.edges[e].from]} :
                 e \in {d \in EdgeIds(graph) : graph.edges[d].to = to}}
    BY DEF WithEdge
  <2>2. id \in {d \in EdgeIds(graph) : graph.edges[d].to = to}
    OBVIOUS
  <2>3. u + graph.edges[id].weight
          \in {x + graph.edges[id].weight : x \in R[i][graph.edges[id].from]}
    OBVIOUS
  <2> HIDE DEF to
  <2> QED
    BY <2>1, <2>2, <2>3
<1> HIDE DEF W, to
<1>3. w + graph.edges[id].weight \in W[n + 1][i][to]
  BY <1>1, <1>2 DEF W
<1> QED
  BY <1>3 DEF W, to

LEMMA VertexCount ==
  ASSUME NEW graph, graph.vertex_count \in Nat
  PROVE  /\ IsFiniteSet(Vertices(graph))
         /\ Cardinality(Vertices(graph)) = graph.vertex_count
<1> DEFINE N == graph.vertex_count
<1>1. 0 \in Int /\ N - 1 \in Int
  OBVIOUS
<1>2. /\ IsFiniteSet(0 .. N - 1)
      /\ Cardinality(0 .. N - 1) = IF 0 > N - 1 THEN 0 ELSE N - 1 - 0 + 1
  BY <1>1, FS_Interval
<1> QED
  BY <1>2 DEF Vertices

\* Counting vertices one at a time.
LEMMA OneVertexMore ==
  ASSUME NEW graph, graph.vertex_count \in Nat, NEW n \in Nat,
         NEW A \in SUBSET Vertices(graph), n <= Cardinality(A),
         NEW B \in SUBSET Vertices(graph), A \subseteq B,
         NEW v \in B, v \notin A
  PROVE  n + 1 <= Cardinality(B)
<1>1. IsFiniteSet(A) /\ IsFiniteSet(B)
  BY VertexCount, FS_Subset
<1>2. IsFiniteSet(A \cup {v}) /\ Cardinality(A \cup {v}) = Cardinality(A) + 1
  BY <1>1, FS_AddElement
<1>3. Cardinality(A \cup {v}) <= Cardinality(B)
  BY <1>1, FS_Subset
<1>4. Cardinality(A) \in Nat /\ Cardinality(B) \in Nat
  BY <1>1, FS_CardinalityType
<1> QED
  BY <1>2, <1>3, <1>4

\* A sequence of vertices without repetition is no longer than there are
\* vertices.
LEMMA DistinctVertices ==
  ASSUME NEW graph, graph.vertex_count \in Nat, NEW n \in Nat,
         NEW f \in [1 .. n -> Vertices(graph)],
         \A x, y \in 1 .. n : f[x] = f[y] => x = y
  PROVE  n <= graph.vertex_count
<1>1. IsFiniteSet(1 .. n) /\ Cardinality(1 .. n) = n
  BY FS_Interval
<1>2. ~ (graph.vertex_count < n)
  BY <1>1, VertexCount, FS_PigeonHole
<1> QED
  BY <1>2

-----------------------------------------------------------------------------
\* The recursion of PathWeight, for the first n edges.
Totals(graph, path, T, n) ==
  T = [m \in 0 .. n |-> IF m = 0 THEN 0
                        ELSE T[m - 1] + graph.edges[path[m]].weight]

LEMMA TotalsExist ==
  ASSUME NEW graph, NEW path
  PROVE  \A n \in Nat : \E T : Totals(graph, path, T, n)
<1> DEFINE S == {n \in Nat : \E T : Totals(graph, path, T, n)}
           w(m) == graph.edges[path[m]].weight
<1>1. 0 \in S
  <2> DEFINE T == [m \in 0 .. 0 |-> 0]
  <2>1. Totals(graph, path, T, 0)
    BY DEF Totals
  <2> QED
    BY <2>1
<1>2. ASSUME NEW n \in Nat, n \in S
      PROVE  n + 1 \in S
  <2>1. PICK T : Totals(graph, path, T, n)
    BY <1>2
  <2> DEFINE X == [m \in 0 .. n + 1 |-> IF m = n + 1 THEN T[n] + w(m) ELSE T[m]]
  <2>2. ASSUME NEW m \in 0 .. n + 1
        PROVE  X[m] = IF m = 0 THEN 0 ELSE X[m - 1] + w(m)
    <3>1. CASE m = n + 1
      BY <3>1
    <3>2. CASE m # n + 1
      <4>1. m \in 0 .. n /\ (m # 0 => m - 1 \in 0 .. n + 1 /\ m - 1 # n + 1)
        BY <3>2
      <4>2. T[m] = IF m = 0 THEN 0 ELSE T[m - 1] + w(m)
        BY <2>1, <4>1 DEF Totals
      <4> QED
        BY <3>2, <4>1, <4>2
    <3> QED
      BY <3>1, <3>2
  <2>3. Totals(graph, path, X, n + 1)
    BY <2>2 DEF Totals
  <2> QED
    BY <2>3
<1> HIDE DEF S
<1>3. Nat \subseteq S
  BY <1>1, <1>2, StepByStep
<1> QED
  BY <1>3 DEF S

\* PathWeight is what its definition says.
LEMMA PathWeightTotals ==
  ASSUME NEW graph, NEW path, Len(path) \in Nat
  PROVE  \E T : /\ T[0] = 0
                /\ \A m \in 0 .. Len(path) - 1 :
                     T[m + 1] = T[m] + graph.edges[path[m + 1]].weight
                /\ PathWeight(graph, path) = T[Len(path)]
<1> DEFINE n == Len(path)
           T == CHOOSE X : Totals(graph, path, X, n)
<1>1. PathWeight(graph, path) = T[n]
  BY DEF PathWeight, Totals
<1>2. Totals(graph, path, T, n)
  BY TotalsExist
<1> HIDE DEF T
<1>3. T[0] = 0
  BY <1>2 DEF Totals
<1>4. ASSUME NEW m \in 0 .. n - 1
      PROVE  T[m + 1] = T[m] + graph.edges[path[m + 1]].weight
  <2>1. m + 1 \in 0 .. n /\ m + 1 # 0 /\ m + 1 - 1 = m
    OBVIOUS
  <2>2. T[m + 1] = T[m + 1 - 1] + graph.edges[path[m + 1]].weight
    BY <1>2, <2>1 DEF Totals
  <2> QED
    BY <2>1, <2>2
<1> QED
  BY <1>1, <1>3, <1>4

LEMMA PathWeightEmpty ==
  ASSUME NEW graph
  PROVE  PathWeight(graph, << >>) = 0
BY PathWeightTotals

\* A path whose edges weigh a number each weighs one.
LEMMA PathWeightNat ==
  ASSUME NEW graph, NEW path, Len(path) \in Nat,
         \A m \in 1 .. Len(path) : graph.edges[path[m]].weight \in Nat
  PROVE  PathWeight(graph, path) \in Nat
<1> DEFINE n == Len(path)
<1>1. PICK T : /\ T[0] = 0
               /\ \A m \in 0 .. n - 1 : T[m + 1] = T[m] + graph.edges[path[m + 1]].weight
               /\ PathWeight(graph, path) = T[n]
  BY PathWeightTotals
<1> DEFINE S == {m \in Nat : m <= n => T[m] \in Nat}
<1>2. 0 \in S
  BY <1>1
<1>3. ASSUME NEW m \in Nat, m \in S
      PROVE  m + 1 \in S
  <2> SUFFICES ASSUME m + 1 <= n PROVE T[m + 1] \in Nat
    OBVIOUS
  <2>1. m \in 0 .. n - 1 /\ m + 1 \in 1 .. n
    OBVIOUS
  <2>2. T[m] \in Nat
    BY <1>3, <2>1
  <2> DEFINE c == graph.edges[path[m + 1]].weight
  <2>3. T[m + 1] = T[m] + c /\ c \in Nat
    BY <1>1, <2>1
  <2> HIDE DEF c
  <2> QED
    BY <2>2, <2>3
<1> HIDE DEF S
<1>4. n \in S
  BY <1>2, <1>3, StepByStep
<1> QED
  BY <1>1, <1>4 DEF S

\* An edge more at the front is its weight more.
LEMMA PathWeightFirst ==
  ASSUME NEW graph, NEW path \in Seq(EdgeIds(graph)), NEW first \in EdgeIds(graph),
         \A id \in EdgeIds(graph) : graph.edges[id].weight \in Nat
  PROVE  /\ PathWeight(graph, path) \in Nat
         /\ PathWeight(graph, <<first>> \o path)
              = graph.edges[first].weight + PathWeight(graph, path)
<1> DEFINE longer == <<first>> \o path
           n == Len(path)
           w == graph.edges[first].weight
<1>1. /\ n \in Nat /\ Len(longer) = n + 1 /\ Len(longer) - 1 = n
      /\ longer[1] = first
      /\ \A m \in 1 .. n : longer[m + 1] = path[m] /\ path[m] \in EdgeIds(graph)
  OBVIOUS
<1> HIDE DEF longer
<1>2. PICK T : /\ T[0] = 0
               /\ \A m \in 0 .. n - 1 : T[m + 1] = T[m] + graph.edges[path[m + 1]].weight
               /\ PathWeight(graph, path) = T[n]
  BY <1>1, PathWeightTotals
<1>3. PICK X : /\ X[0] = 0
               /\ \A m \in 0 .. n : X[m + 1] = X[m] + graph.edges[longer[m + 1]].weight
               /\ PathWeight(graph, longer) = X[n + 1]
  BY <1>1, PathWeightTotals
<1> DEFINE S == {m \in Nat : m <= n => T[m] \in Nat /\ X[m + 1] = w + T[m]}
<1>4. 0 \in S
  <2>1. X[0 + 1] = X[0] + graph.edges[longer[0 + 1]].weight
    <3>1. 0 \in 0 .. n
      BY <1>1
    <3> QED
      BY <1>3, <3>1
  <2> QED
    BY <1>1, <1>2, <1>3, <2>1
<1>5. ASSUME NEW m \in Nat, m \in S
      PROVE  m + 1 \in S
  <2> SUFFICES ASSUME m + 1 <= n
               PROVE  T[m + 1] \in Nat /\ X[m + 1 + 1] = w + T[m + 1]
    OBVIOUS
  <2>1. m \in 0 .. n - 1 /\ m + 1 \in 1 .. n /\ m + 1 \in 0 .. n
    BY <1>1
  <2>2. T[m] \in Nat /\ X[m + 1] = w + T[m]
    BY <1>5, <2>1
  <2> DEFINE c == graph.edges[path[m + 1]].weight
  <2>3. T[m + 1] = T[m] + c
    BY <1>2, <2>1
  <2>4. X[m + 1 + 1] = X[m + 1] + c
    BY <1>1, <1>3, <2>1
  <2>5. c \in Nat /\ w \in Nat
    BY <1>1, <2>1
  <2> HIDE DEF c, w
  <2> QED
    BY <2>2, <2>3, <2>4, <2>5
<1> HIDE DEF S
<1>6. n \in S
  BY <1>1, <1>4, <1>5, StepByStep
<1> QED
  BY <1>1, <1>2, <1>3, <1>6 DEF S, longer

\* An edge more at the end is its weight more.
LEMMA PathWeightLast ==
  ASSUME NEW graph, NEW path \in Seq(EdgeIds(graph)), NEW last \in EdgeIds(graph),
         \A m \in 1 .. Len(path) : graph.edges[path[m]].weight \in Nat,
         graph.edges[last].weight \in Nat
  PROVE  /\ PathWeight(graph, path) \in Nat
         /\ PathWeight(graph, Append(path, last))
              = PathWeight(graph, path) + graph.edges[last].weight
<1> DEFINE longer == Append(path, last)
           n == Len(path)
           w == graph.edges[last].weight
<1>1. /\ n \in Nat /\ Len(longer) = n + 1 /\ Len(longer) - 1 = n
      /\ longer[n + 1] = last
      /\ \A m \in 1 .. n : longer[m] = path[m] /\ path[m] \in EdgeIds(graph)
  OBVIOUS
<1> HIDE DEF longer
<1>2. PICK T : /\ T[0] = 0
               /\ \A m \in 0 .. n - 1 : T[m + 1] = T[m] + graph.edges[path[m + 1]].weight
               /\ PathWeight(graph, path) = T[n]
  BY <1>1, PathWeightTotals
<1>3. PICK X : /\ X[0] = 0
               /\ \A m \in 0 .. n : X[m + 1] = X[m] + graph.edges[longer[m + 1]].weight
               /\ PathWeight(graph, longer) = X[n + 1]
  BY <1>1, PathWeightTotals
<1> DEFINE S == {m \in Nat : m <= n => T[m] \in Nat /\ X[m] = T[m]}
<1>4. 0 \in S
  BY <1>2, <1>3
<1>5. ASSUME NEW m \in Nat, m \in S
      PROVE  m + 1 \in S
  <2> SUFFICES ASSUME m + 1 <= n
               PROVE  T[m + 1] \in Nat /\ X[m + 1] = T[m + 1]
    OBVIOUS
  <2>1. m \in 0 .. n - 1 /\ m + 1 \in 1 .. n /\ m \in 0 .. n
    BY <1>1
  <2>2. T[m] \in Nat /\ X[m] = T[m]
    BY <1>5, <2>1
  <2> DEFINE c == graph.edges[path[m + 1]].weight
  <2>3. T[m + 1] = T[m] + c
    BY <1>2, <2>1
  <2>4. X[m + 1] = X[m] + c
    BY <1>1, <1>3, <2>1
  <2>5. c \in Nat
    BY <1>1, <2>1
  <2> HIDE DEF c
  <2> QED
    BY <2>2, <2>3, <2>4, <2>5
<1> HIDE DEF S
<1>6. n \in S
  BY <1>1, <1>4, <1>5, StepByStep
<1>7. X[n + 1] = X[n] + w
  <2>1. n \in 0 .. n
    BY <1>1
  <2> QED
    BY <1>1, <1>3, <2>1
<1> QED
  BY <1>1, <1>2, <1>3, <1>6, <1>7 DEF S, longer
=============================================================================
