----------------------- MODULE ReadRequestsRefinement -----------------------
(***************************************************************************)
(* The program answers as TripPlanner promises, for every proper input.    *)
(* A bus: the loops of CalculateLength add up the hops of its trip, and    *)
(* the hops of the way there and of the way back are those of the trip.    *)
(* A stop: the names it lists, or undefined behaviour.  A route: the       *)
(* simple paths of the graph and the itineraries of the timetable are held *)
(* against each other, so that the cheapest path takes the least of all    *)
(* travel times.  And a request gets the answer it got before, because the *)
(* records and the caches settle what it is answered.                      *)
(***************************************************************************)
EXTENDS ReadRequestsProofs

-----------------------------------------------------------------------------
(***************************************************************************)
(* Lengths, added up.                                                      *)
(***************************************************************************)
LEMMA PlusAlgebra ==
  /\ \A x, y, z \in Length : Plus(Plus(x, y), z) = Plus(x, Plus(y, z))
  /\ \A x, y \in Length : Plus(x, y) = Plus(y, x) /\ Plus(x, y) \in Length
  /\ \A x \in Length : Plus(x, 0) = x /\ Plus(0, x) = x
  /\ 0 \in Length
<1>1. \A x, y \in Nat : x + y # NaN
  BY GeometryAssumption
<1>2. \A x \in Length : Plus(x, NaN) = NaN /\ Plus(NaN, x) = NaN
  BY DEF Plus
<1>3. \A x, y \in Nat : Plus(x, y) = x + y
  BY GeometryAssumption DEF Plus
<1>4. \A x \in Length : x = NaN \/ x \in Nat
  BY DEF Length
<1>5. NaN \in Length /\ Nat \subseteq Length
  BY DEF Length
<1>6. ASSUME NEW x \in Length, NEW y \in Length
      PROVE  Plus(x, y) = Plus(y, x) /\ Plus(x, y) \in Length
  BY <1>2, <1>3, <1>4, <1>5
<1>7. ASSUME NEW x \in Length, NEW y \in Length, NEW z \in Length
      PROVE  Plus(Plus(x, y), z) = Plus(x, Plus(y, z))
  <2>1. CASE x \in Nat /\ y \in Nat /\ z \in Nat
    <3>1. x + y \in Nat /\ y + z \in Nat /\ (x + y) + z = x + (y + z)
      BY <2>1
    <3> QED
      BY <1>3, <2>1, <3>1
  <2>2. CASE x = NaN
    BY <1>2, <1>6, <2>2
  <2>3. CASE y = NaN
    BY <1>2, <1>6, <2>3
  <2>4. CASE z = NaN
    BY <1>2, <1>6, <2>4
  <2> QED
    BY <1>4, <2>1, <2>2, <2>3, <2>4
<1>8. ASSUME NEW x \in Length
      PROVE  Plus(x, 0) = x /\ Plus(0, x) = x
  BY <1>2, <1>3, <1>4, <1>5
<1> QED
  BY <1>5, <1>6, <1>7, <1>8

LEMMA AddedSteps ==
  ASSUME NEW h \in Seq(Length)
  PROVE  \E f : /\ f[0] = 0
                /\ \A m \in 1 .. Len(h) : f[m] = Plus(f[m - 1], h[m])
                /\ \A m \in 0 .. Len(h) : f[m] \in Length
                /\ Added(h) = f[Len(h)]
<1> DEFINE n == Len(h)
           Built(f) == f = [i \in 0 .. n |-> IF i = 0 THEN 0 ELSE Plus(f[i - 1], h[i])]
           sums == CHOOSE f : Built(f)
           op == [m \in 1 .. n |-> [x \in Length |-> Plus(x, h[m])]]
<1>1. n \in Nat /\ \A m \in 1 .. n : h[m] \in Length
  OBVIOUS
<1>2. Added(h) = sums[n]
  BY DEF Added
<1>3. \A m \in 1 .. n : \A x \in Length : op[m][x] = Plus(x, h[m])
  OBVIOUS
<1> HIDE DEF op, n
<1>4. StepsWithin(op, Length, 0, n)
  <2>1. ASSUME NEW m \in 0 + 1 .. n, NEW x \in Length PROVE op[m][x] \in Length
    <3>1. m \in 1 .. n
      OBVIOUS
    <3>2. h[m] \in Length /\ op[m][x] = Plus(x, h[m])
      BY <1>1, <1>3, <3>1
    <3> QED
      BY <3>2, PlusAlgebra
  <2> QED
    BY <2>1 DEF StepsWithin
<1>5. PICK f \in [0 .. n -> Length] : Stepwise(f, 0, op, 0, n)
  <2>1. 0 \in Length /\ 0 \in Nat /\ 0 <= n
    BY <1>1, PlusAlgebra
  <2> QED
    BY <1>1, <1>4, <2>1, Recursion
<1>6. ASSUME NEW m \in 1 .. n
      PROVE  f[m] = Plus(f[m - 1], h[m])
  <2>1. m \in 0 + 1 .. n /\ m - 1 \in 0 .. n
    BY <1>1
  <2> QED
    BY <1>3, <1>5, <2>1 DEF Stepwise
<1>7. Built(f)
  <2>1. \A i \in 0 .. n : i # 0 => i \in 1 .. n
    BY <1>1
  <2>2. f[0] = 0
    BY <1>5 DEF Stepwise
  <2>3. \A i \in 0 .. n : f[i] = IF i = 0 THEN 0 ELSE Plus(f[i - 1], h[i])
    BY <1>6, <2>1, <2>2
  <2> QED
    BY <1>5, <2>3
<1>8. Built(sums)
  BY <1>7
<1> HIDE DEF sums
<1>9. sums[0] = 0 /\ \A m \in 1 .. n : sums[m] = Plus(sums[m - 1], h[m])
  <2>1. 0 \in 0 .. n
    BY <1>1
  <2>2. sums[0] = 0
    BY <1>8, <2>1
  <2>3. ASSUME NEW m \in 1 .. n PROVE sums[m] = Plus(sums[m - 1], h[m])
    <3>1. m \in 0 .. n /\ m # 0
      OBVIOUS
    <3> QED
      BY <1>8, <3>1
  <2> QED
    BY <2>2, <2>3
<1> DEFINE S == {m \in Nat : m <= n => sums[m] \in Length}
<1>10. 0 \in S
  BY <1>9, PlusAlgebra
<1>11. ASSUME NEW m \in Nat, m \in S
       PROVE  m + 1 \in S
  <2> SUFFICES ASSUME m + 1 <= n PROVE sums[m + 1] \in Length
    OBVIOUS
  <2>1. m + 1 \in 1 .. n /\ m <= n /\ m + 1 - 1 = m
    BY <1>1
  <2>2. sums[m + 1] = Plus(sums[m], h[m + 1])
    BY <1>9, <2>1
  <2>3. sums[m] \in Length
    <3>1. m <= n => sums[m] \in Length
      BY <1>11
    <3> QED
      BY <2>1, <3>1
  <2>4. h[m + 1] \in Length
    <3>1. PICK k : k = m + 1
      OBVIOUS
    <3> HIDE DEF n
    <3>2. h[k] \in Length
      BY <1>1, <2>1, <3>1
    <3> QED
      BY <3>1, <3>2
  <2>5. Plus(sums[m], h[m + 1]) \in Length
    <3> HIDE DEF n
    <3>1. PICK x, y : x = sums[m] /\ y = h[m + 1]
      OBVIOUS
    <3>2. x \in Length /\ y \in Length
      BY <2>3, <2>4, <3>1
    <3>3. Plus(x, y) \in Length
      BY <3>2, PlusAlgebra
    <3> QED
      BY <3>1, <3>3
  <2> QED
    BY <2>2, <2>5
<1> HIDE DEF S
<1>12. Nat \subseteq S
  BY <1>10, <1>11, StepByStep
<1>13. \A m \in 0 .. n : sums[m] \in Length
  BY <1>1, <1>12 DEF S
<1> QED
  BY <1>2, <1>9, <1>13 DEF n

LEMMA AddedEmpty == Added(<< >>) = 0
<1>1. << >> \in Seq(Length) /\ Len(<< >>) = 0
  OBVIOUS
<1> QED
  BY <1>1, AddedSteps

LEMMA AddedAppend ==
  ASSUME NEW h \in Seq(Length), NEW x \in Length
  PROVE  Added(h) \in Length /\ Added(Append(h, x)) = Plus(Added(h), x)
<1> DEFINE n == Len(h)
           g == Append(h, x)
<1>1. /\ g \in Seq(Length) /\ Len(g) = n + 1 /\ n \in Nat /\ g[n + 1] = x
      /\ \A m \in 1 .. n : g[m] = h[m]
  OBVIOUS
<1> HIDE DEF g
<1>2. PICK f : /\ f[0] = 0 /\ \A m \in 1 .. n : f[m] = Plus(f[m - 1], h[m])
               /\ \A m \in 0 .. n : f[m] \in Length
               /\ Added(h) = f[n]
  BY AddedSteps
<1>3. PICK e : /\ e[0] = 0 /\ \A m \in 1 .. n + 1 : e[m] = Plus(e[m - 1], g[m])
               /\ Added(g) = e[n + 1]
  BY <1>1, AddedSteps
<1> DEFINE S == {m \in Nat : m <= n => e[m] = f[m]}
<1>4. 0 \in S
  BY <1>2, <1>3
<1>5. ASSUME NEW m \in Nat, m \in S
      PROVE  m + 1 \in S
  <2> SUFFICES ASSUME m + 1 <= n PROVE e[m + 1] = f[m + 1]
    OBVIOUS
  <2>1. PICK k : k = m + 1
    OBVIOUS
  <2>2. k \in 1 .. n /\ k \in 1 .. n + 1 /\ m <= n /\ k - 1 = m
    BY <1>1, <2>1
  <2> QED
    BY <1>1, <1>2, <1>3, <1>5, <2>1, <2>2
<1> HIDE DEF S
<1>6. e[n] = f[n]
  <2>1. Nat \subseteq S
    BY <1>4, <1>5, StepByStep
  <2> QED
    BY <1>1, <2>1 DEF S
<1>7. n + 1 \in 1 .. n + 1 /\ n + 1 - 1 = n /\ n \in 0 .. n
  BY <1>1
<1>8. e[n + 1] = Plus(e[n], x)
  <2>1. PICK k : k = n + 1
    OBVIOUS
  <2>2. e[k] = Plus(e[k - 1], g[k])
    BY <1>3, <1>7, <2>1
  <2> QED
    BY <1>1, <1>7, <2>1, <2>2
<1> QED
  BY <1>2, <1>3, <1>6, <1>7, <1>8 DEF g

LEMMA AddedConcat ==
  ASSUME NEW a \in Seq(Length)
  PROVE  \A b \in Seq(Length) : Added(a \o b) = Plus(Added(a), Added(b))
<1> DEFINE S == {n \in Nat : \A b \in Seq(Length) : Len(b) = n =>
                   Added(a \o b) = Plus(Added(a), Added(b))}
<1>1. Added(a) \in Length
  BY AddedAppend, PlusAlgebra
<1>2. 0 \in S
  <2>1. ASSUME NEW b \in Seq(Length), Len(b) = 0
        PROVE  Added(a \o b) = Plus(Added(a), Added(b))
    <3>1. b = << >> /\ a \o << >> = a
      BY <2>1, ConcatEmptySeq, EmptySeq
    <3> QED
      BY <1>1, <3>1, AddedEmpty, PlusAlgebra
  <2> QED
    BY <2>1
<1>3. ASSUME NEW n \in Nat, n \in S
      PROVE  n + 1 \in S
  <2>1. ASSUME NEW b \in Seq(Length), Len(b) = n + 1
        PROVE  Added(a \o b) = Plus(Added(a), Added(b))
    <3>1. b # << >>
      BY <2>1
    <3>2. PICK c \in Seq(Length), x \in Length : b = Append(c, x)
      BY <3>1, SequenceEmptyOrAppend
    <3>3. Len(c) = n /\ a \o c \in Seq(Length)
      BY <2>1, <3>2
    <3>4. a \o b = Append(a \o c, x)
      BY <3>2
    <3>5. Added(a \o c) = Plus(Added(a), Added(c))
      BY <1>3, <3>3
    <3>6. /\ Added(a \o b) = Plus(Added(a \o c), x)
          /\ Added(b) = Plus(Added(c), x) /\ Added(c) \in Length
      BY <3>2, <3>3, <3>4, AddedAppend
    <3> QED
      BY <1>1, <3>5, <3>6, PlusAlgebra
  <2> QED
    BY <2>1
<1> HIDE DEF S
<1>4. Nat \subseteq S
  BY <1>2, <1>3, StepByStep
<1>5. \A b \in Seq(Length) : Len(b) \in S
  BY <1>4
<1> QED
  BY <1>5 DEF S

LEMMA AddedReverse ==
  \A h \in Seq(Length) : Reverse(h) \in Seq(Length) /\ Added(Reverse(h)) = Added(h)
<1> DEFINE S == {n \in Nat : \A h \in Seq(Length) : Len(h) = n =>
                   Reverse(h) \in Seq(Length) /\ Added(Reverse(h)) = Added(h)}
<1>1. 0 \in S
  <2>1. ASSUME NEW h \in Seq(Length), Len(h) = 0
        PROVE  Reverse(h) \in Seq(Length) /\ Added(Reverse(h)) = Added(h)
    <3>1. h = << >> /\ Reverse(h) = << >>
      BY <2>1 DEF Reverse
    <3> QED
      BY <2>1, <3>1
  <2> QED
    BY <2>1
<1>2. ASSUME NEW n \in Nat, n \in S
      PROVE  n + 1 \in S
  <2>1. ASSUME NEW h \in Seq(Length), Len(h) = n + 1
        PROVE  Reverse(h) \in Seq(Length) /\ Added(Reverse(h)) = Added(h)
    <3>1. h # << >>
      BY <2>1
    <3>2. PICK g \in Seq(Length), x \in Length : h = Append(g, x)
      BY <3>1, SequenceEmptyOrAppend
    <3>3. Len(g) = n
      BY <2>1, <3>2
    <3>4. Reverse(g) \in Seq(Length) /\ Added(Reverse(g)) = Added(g)
      BY <1>2, <3>3
    <3>5. Reverse(h) = <<x>> \o Reverse(g)
      <4> DEFINE R == Reverse(h)
                 L == <<x>> \o Reverse(g)
      <4>1. /\ h[n + 1] = x /\ \A i \in 1 .. n : h[i] = g[i] /\ g[i] \in Length
            /\ \A i \in 1 .. n + 1 : h[i] \in Length
        BY <2>1, <3>2, <3>3
      <4>2. /\ R \in Seq(Length) /\ Len(R) = n + 1
            /\ \A i \in 1 .. n + 1 : R[i] = h[n + 1 - i + 1]
        <5>1. \A i \in 1 .. n + 1 : n + 1 - i + 1 \in 1 .. n + 1
          OBVIOUS
        <5>2. R = [i \in 1 .. n + 1 |-> h[n + 1 - i + 1]]
          BY <2>1 DEF Reverse
        <5> QED
          BY <4>1, <5>1, <5>2
      <4>3. /\ Len(Reverse(g)) = n
            /\ \A i \in 1 .. n : Reverse(g)[i] = g[n - i + 1]
        BY <3>3 DEF Reverse
      <4>4. /\ L \in Seq(Length) /\ Len(L) = n + 1 /\ L[1] = x
            /\ \A i \in 1 .. n : L[i + 1] = Reverse(g)[i]
        BY <3>4, <4>3
      <4> HIDE DEF R, L
      <4>5. ASSUME NEW i \in 1 .. n + 1 PROVE R[i] = L[i]
        <5>1. CASE i = 1
          BY <4>1, <4>2, <4>4, <5>1
        <5>2. CASE i # 1
          <6>1. PICK k : k = i - 1
            OBVIOUS
          <6>2. k \in 1 .. n /\ i = k + 1 /\ n + 1 - i + 1 = n - k + 1 /\ n - k + 1 \in 1 .. n
            BY <5>2, <6>1
          <6>3. L[i] = g[n - k + 1]
            BY <4>3, <4>4, <6>2
          <6>4. R[i] = h[n - k + 1]
            BY <4>2, <6>2
          <6> QED
            BY <4>1, <6>2, <6>3, <6>4
        <5> QED
          BY <5>1, <5>2
      <4>6. R = L
        BY <4>2, <4>4, <4>5, SeqEqual
      <4> QED
        BY <4>6 DEF R, L
    <3>6. <<x>> \in Seq(Length) /\ <<x>> = Append(<< >>, x) /\ << >> \in Seq(Length)
      OBVIOUS
    <3>7. Added(<<x>>) = x
      <4>1. PICK none \in Seq(Length) : none = << >>
        BY <3>6
      <4>2. Added(Append(none, x)) = Plus(Added(none), x)
        BY AddedAppend
      <4>3. Append(none, x) = <<x>>
        BY <4>1
      <4> QED
        BY <4>1, <4>2, <4>3, AddedEmpty, PlusAlgebra
    <3>8. Added(Reverse(h)) = Plus(x, Added(g))
      <4>1. Added(<<x>> \o Reverse(g)) = Plus(Added(<<x>>), Added(Reverse(g)))
        BY <3>4, <3>6, AddedConcat
      <4> QED
        BY <3>4, <3>5, <3>7, <4>1
    <3>9. Added(h) = Plus(Added(g), x) /\ Added(g) \in Length
      BY <3>2, AddedAppend
    <3> QED
      BY <3>4, <3>5, <3>6, <3>8, <3>9, PlusAlgebra
  <2> QED
    BY <2>1
<1> HIDE DEF S
<1>3. Nat \subseteq S
  BY <1>1, <1>2, StepByStep
<1>4. \A h \in Seq(Length) : Len(h) \in S
  BY <1>3
<1> QED
  BY <1>4 DEF S

\* Timetable's way to add them up, from the first stop on.
LEMMA AlongIsAdded ==
  ASSUME NEW h \in Seq(Length), NEW n \in Nat,
         n = Len(h) + 1 \/ (n = 0 /\ h = << >>)
  PROVE  Along(h, 1, n) = Added(h)
<1> DEFINE Built(f) == f = [k \in 0 .. n |-> IF k <= 1 THEN 0 ELSE f[k - 1] + h[k - 1]]
           total == CHOOSE f : Built(f)
           known == ~ \E k \in 1 .. n - 1 : h[k] = NaN
<1>1. Along(h, 1, n) = IF known THEN total[n] ELSE NaN
  BY DEF Along
<1>2. PICK f : /\ f[0] = 0 /\ \A m \in 1 .. Len(h) : f[m] = Plus(f[m - 1], h[m])
               /\ \A m \in 0 .. Len(h) : f[m] \in Length
               /\ Added(h) = f[Len(h)]
  BY AddedSteps
<1>3. /\ Len(h) \in Nat /\ \A k \in 1 .. Len(h) : h[k] \in Length
      /\ 1 .. n - 1 = 1 .. Len(h)
  OBVIOUS
<1> HIDE DEF total
<1>4. CASE known
  <2> DEFINE S == {m \in Nat : m <= Len(h) => f[m] \in Nat}
             g == [k \in 0 .. n |-> IF k = 0 THEN 0 ELSE f[k - 1]]
  <2>0. \A m \in 1 .. Len(h) : h[m] \in Nat
    BY <1>3, <1>4 DEF Length
  <2>1. 0 \in S
    BY <1>2
  <2>2. ASSUME NEW m \in Nat, m \in S
        PROVE  m + 1 \in S
    <3> SUFFICES ASSUME m + 1 <= Len(h) PROVE f[m + 1] \in Nat
      OBVIOUS
    <3>1. PICK k : k = m + 1
      OBVIOUS
    <3>2. k \in 1 .. Len(h) /\ k - 1 = m /\ m <= Len(h)
      BY <1>3, <3>1
    <3>3. f[k] = Plus(f[m], h[k]) /\ f[m] \in Nat /\ h[k] \in Nat
      BY <1>2, <2>0, <2>2, <3>2
    <3> QED
      BY <3>1, <3>3, GeometryAssumption DEF Plus
  <2> HIDE DEF S
  <2>3. Nat \subseteq S
    BY <2>1, <2>2, StepByStep
  <2>4. \A m \in 0 .. Len(h) : f[m] \in Nat
    BY <1>3, <2>3 DEF S
  <2>5. \A m \in 1 .. Len(h) : f[m] = f[m - 1] + h[m]
    <3> TAKE m \in 1 .. Len(h)
    <3>1. m - 1 \in 0 .. Len(h) /\ m \in 0 .. Len(h)
      BY <1>3
    <3>2. f[m] = Plus(f[m - 1], h[m]) /\ f[m - 1] \in Nat /\ h[m] \in Nat
      BY <1>2, <2>0, <2>4, <3>1
    <3> QED
      BY <3>2, GeometryAssumption DEF Plus
  <2>6. Built(g)
    <3>1. ASSUME NEW k \in 0 .. n
          PROVE  g[k] = IF k <= 1 THEN 0 ELSE g[k - 1] + h[k - 1]
      <4>1. CASE k = 0
        BY <4>1
      <4>2. CASE k = 1
        BY <1>2, <4>2
      <4>3. CASE k # 0 /\ k # 1
        <5>1. PICK m : m = k - 1
          OBVIOUS
        <5>2. m \in 1 .. Len(h) /\ m # 0 /\ m \in 0 .. n /\ ~ (k <= 1)
          BY <1>3, <4>3, <5>1
        <5>3. g[k] = f[m] /\ g[m] = f[m - 1]
          BY <4>3, <5>1, <5>2
        <5> QED
          BY <2>5, <5>1, <5>2, <5>3
      <4> QED
        BY <4>1, <4>2, <4>3
    <3> QED
      BY <3>1
  <2>7. Built(total)
    BY <2>6 DEF total
  <2> DEFINE T == {m \in Nat : m <= n => total[m] = g[m]}
  <2>8. 0 \in T
    <3>1. 0 \in 0 .. n /\ 0 <= 1
      OBVIOUS
    <3>2. total[0] = 0
      BY <2>7, <3>1
    <3> QED
      BY <3>1, <3>2
  <2>9. ASSUME NEW m \in Nat, m \in T
        PROVE  m + 1 \in T
    <3> SUFFICES ASSUME m + 1 <= n PROVE total[m + 1] = g[m + 1]
      OBVIOUS
    <3>1. PICK k : k = m + 1
      OBVIOUS
    <3>2. k \in 0 .. n /\ k - 1 = m /\ m <= n
      BY <3>1
    <3>3. total[k] = IF k <= 1 THEN 0 ELSE total[m] + h[m]
      BY <2>7, <3>2
    <3>4. g[k] = IF k <= 1 THEN 0 ELSE g[m] + h[m]
      BY <2>6, <3>2
    <3> QED
      BY <2>9, <3>1, <3>2, <3>3, <3>4
  <2> HIDE DEF T
  <2>10. total[n] = g[n]
    <3>1. Nat \subseteq T
      BY <2>8, <2>9, StepByStep
    <3>2. n \in T /\ n <= n
      BY <3>1
    <3> QED
      BY <3>2 DEF T
  <2>11. g[n] = f[Len(h)]
    BY <1>2, <1>3
  <2> QED
    BY <1>1, <1>2, <1>4, <2>10, <2>11
<1>5. CASE ~ known
  <2> DEFINE S == {m \in Nat : m <= Len(h) =>
                     ((\E k \in 1 .. m : h[k] = NaN) => f[m] = NaN)}
  <2>1. 0 \in S
    OBVIOUS
  <2>2. ASSUME NEW m \in Nat, m \in S
        PROVE  m + 1 \in S
    <3> SUFFICES ASSUME m + 1 <= Len(h), NEW k \in 1 .. m + 1, h[k] = NaN
                 PROVE  f[m + 1] = NaN
      OBVIOUS
    <3>1. PICK l : l = m + 1
      OBVIOUS
    <3>2. l \in 1 .. Len(h) /\ l - 1 = m /\ m <= Len(h)
      BY <1>3, <3>1
    <3>3. f[l] = Plus(f[m], h[l])
      BY <1>2, <3>2
    <3>4. k = l \/ k \in 1 .. m
      BY <3>1
    <3>5. h[l] = NaN \/ f[m] = NaN
      BY <2>2, <3>2, <3>4
    <3> QED
      BY <3>1, <3>3, <3>5 DEF Plus
  <2> HIDE DEF S
  <2>3. Nat \subseteq S
    BY <2>1, <2>2, StepByStep
  <2>4. f[Len(h)] = NaN
    <3>1. \E k \in 1 .. Len(h) : h[k] = NaN
      BY <1>3, <1>5
    <3>2. Len(h) \in S
      BY <1>3, <2>3
    <3> QED
      BY <1>3, <3>1, <3>2 DEF S
  <2> QED
    BY <1>1, <1>2, <1>5, <2>4
<1> QED
  BY <1>4, <1>5

-----------------------------------------------------------------------------
(***************************************************************************)
(* The answers about buses.  A map d has the length from each stop to each *)
(* other; the hops of a run are the lengths it adds up.                    *)
(***************************************************************************)
Hops(d, run) == [k \in 1 .. Len(run) - 1 |-> d[run[k]][run[k + 1]]]

LEMMA HopsType ==
  ASSUME NEW d \in [StopName -> [StopName -> Length]], NEW run \in Seq(StopName)
  PROVE  /\ Hops(d, run) \in Seq(Length)
         /\ Len(Hops(d, run)) = IF run = << >> THEN 0 ELSE Len(run) - 1
         /\ \A k \in 1 .. Len(run) - 1 : Hops(d, run)[k] = d[run[k]][run[k + 1]]
<1> DEFINE n == Len(run)
<1>1. n \in Nat /\ \A k \in 1 .. n : run[k] \in StopName
  OBVIOUS
<1>2. \A k \in 1 .. n - 1 : d[run[k]][run[k + 1]] \in Length
  <2> TAKE k \in 1 .. n - 1
  <2>1. run[k] \in StopName /\ run[k + 1] \in StopName
    BY <1>1
  <2> QED
    BY <2>1
<1>3. CASE run = << >>
  <2>1. Len(run) = 0 /\ 1 .. Len(run) - 1 = {}
    BY <1>3
  <2>2. Hops(d, run) = << >>
    BY <2>1 DEF Hops
  <2>3. << >> \in Seq(Length) /\ Len(<< >>) = 0
    OBVIOUS
  <2>4. Hops(d, run) \in Seq(Length) /\ Len(Hops(d, run)) = 0
    BY <2>2, <2>3
  <2>5. \A k \in 1 .. Len(run) - 1 : Hops(d, run)[k] = d[run[k]][run[k + 1]]
    BY <2>1
  <2> QED
    BY <1>3, <2>4, <2>5
<1>4. CASE run # << >>
  <2>1. n - 1 \in Nat
    BY <1>1, <1>4
  <2> QED
    BY <1>2, <1>4, <2>1 DEF Hops
<1> QED
  BY <1>3, <1>4

LEMMA ReverseFacts ==
  ASSUME NEW S, NEW run \in Seq(S)
  PROVE  /\ Reverse(run) \in Seq(S) /\ Len(Reverse(run)) = Len(run)
         /\ \A k \in 1 .. Len(run) : Reverse(run)[k] = run[Len(run) - k + 1]
<1>1. \A k \in 1 .. Len(run) : Len(run) - k + 1 \in 1 .. Len(run)
  OBVIOUS
<1> QED
  BY <1>1 DEF Reverse

LEMMA JoinedParts ==
  ASSUME NEW S, NEW s \in Seq(S), NEW t \in Seq(S)
  PROVE  /\ s \o t \in Seq(S) /\ Len(s \o t) = Len(s) + Len(t)
         /\ \A k \in 1 .. Len(s) : (s \o t)[k] = s[k]
         /\ \A k \in 1 .. Len(t) : (s \o t)[Len(s) + k] = t[k]
OBVIOUS

\* The way back of a bus, stop by stop.
LEMMA WayBack ==
  ASSUME NEW run \in Seq(StopName), run # << >>
  PROVE  /\ run \o Tail(Reverse(run)) \in Seq(StopName)
         /\ Len(run \o Tail(Reverse(run))) = 2 * Len(run) - 1
         /\ \A k \in 1 .. Len(run) : (run \o Tail(Reverse(run)))[k] = run[k]
         /\ \A k \in 1 .. Len(run) :
              (run \o Tail(Reverse(run)))[Len(run) + k - 1] = run[Len(run) - k + 1]
<1> DEFINE n == Len(run)
           back == Reverse(run)
           trip == run \o Tail(back)
<1>1. n \in Nat /\ n >= 1
  OBVIOUS
<1>2. /\ back \in Seq(StopName) /\ Len(back) = n
      /\ \A k \in 1 .. n : back[k] = run[n - k + 1]
  BY ReverseFacts
<1> HIDE DEF back
<1>3. /\ Tail(back) \in Seq(StopName) /\ Len(Tail(back)) = n - 1
      /\ \A k \in 1 .. n - 1 : Tail(back)[k] = back[k + 1]
  BY <1>1, <1>2
<1>4. /\ trip \in Seq(StopName) /\ Len(trip) = n + (n - 1)
      /\ \A k \in 1 .. n : trip[k] = run[k]
      /\ \A k \in 1 .. n - 1 : trip[n + k] = Tail(back)[k]
  BY <1>1, <1>3
<1> HIDE DEF trip
<1>5. ASSUME NEW k \in 1 .. n
      PROVE  trip[n + k - 1] = run[n - k + 1]
  <2>1. CASE k = 1
    BY <1>1, <1>4, <2>1
  <2>2. CASE k # 1
    <3>1. PICK l : l = k - 1
      OBVIOUS
    <3>2. l \in 1 .. n - 1 /\ k = l + 1 /\ n + k - 1 = n + l
      BY <1>1, <2>2, <3>1
    <3>3. trip[n + l] = back[k]
      BY <1>3, <1>4, <3>2
    <3> QED
      BY <1>2, <3>2, <3>3
  <2> QED
    BY <2>1, <2>2
<1>6. Len(trip) = 2 * n - 1
  BY <1>1, <1>4
<1> QED
  BY <1>4, <1>5, <1>6 DEF trip, back

\* A trip there and back adds up the hops there and the hops back.
LEMMA TripHops ==
  ASSUME NEW d \in [StopName -> [StopName -> Length]],
         NEW run \in Seq(StopName), run # << >>
  PROVE  Hops(d, run \o Tail(Reverse(run))) = Hops(d, run) \o Hops(d, Reverse(run))
<1> DEFINE n == Len(run)
           back == Reverse(run)
           trip == run \o Tail(back)
           there == Hops(d, run)
           thence == Hops(d, back)
           hops == Hops(d, trip)
<1>1. n \in Nat /\ n >= 1
  OBVIOUS
<1>2. /\ back \in Seq(StopName) /\ Len(back) = n /\ back # << >>
      /\ \A k \in 1 .. n : back[k] = run[n - k + 1]
  BY <1>1, ReverseFacts
<1>3. /\ trip \in Seq(StopName) /\ Len(trip) = 2 * n - 1
      /\ \A k \in 1 .. n : trip[k] = run[k]
      /\ \A k \in 1 .. n : trip[n + k - 1] = run[n - k + 1]
  BY WayBack
<1> HIDE DEF back, trip
<1>4. trip # << >>
  BY <1>1, <1>3
<1>5. /\ there \in Seq(Length) /\ Len(there) = n - 1
      /\ \A k \in 1 .. n - 1 : there[k] = d[run[k]][run[k + 1]]
  BY HopsType
<1>6. /\ thence \in Seq(Length) /\ Len(thence) = n - 1
      /\ \A k \in 1 .. n - 1 : thence[k] = d[back[k]][back[k + 1]]
  BY <1>2, HopsType
<1>7. /\ hops \in Seq(Length) /\ Len(hops) = 2 * n - 2
      /\ \A k \in 1 .. 2 * n - 2 : hops[k] = d[trip[k]][trip[k + 1]]
  <2>1. Len(trip) - 1 = 2 * n - 2
    BY <1>1, <1>3
  <2>2. /\ hops \in Seq(Length) /\ Len(hops) = Len(trip) - 1
        /\ \A k \in 1 .. Len(trip) - 1 : hops[k] = d[trip[k]][trip[k + 1]]
    BY <1>3, <1>4, HopsType
  <2> HIDE DEF hops, n
  <2> QED
    BY <2>1, <2>2
<1> HIDE DEF there, thence, hops, n
<1>8. /\ there \o thence \in Seq(Length) /\ Len(there \o thence) = 2 * n - 2
      /\ \A k \in 1 .. n - 1 : (there \o thence)[k] = there[k]
      /\ \A k \in 1 .. n - 1 : (there \o thence)[n - 1 + k] = thence[k]
  <2>1. /\ there \o thence \in Seq(Length)
        /\ Len(there \o thence) = Len(there) + Len(thence)
        /\ \A k \in 1 .. Len(there) : (there \o thence)[k] = there[k]
        /\ \A k \in 1 .. Len(thence) : (there \o thence)[Len(there) + k] = thence[k]
    <3>1. there \in Seq(Length) /\ thence \in Seq(Length)
      BY <1>5, <1>6
    <3> QED
      BY <3>1, JoinedParts
  <2>2. Len(there) = n - 1 /\ Len(thence) = n - 1 /\ n - 1 + (n - 1) = 2 * n - 2
    BY <1>1, <1>5, <1>6
  <2> QED
    BY <2>1, <2>2
<1>9. ASSUME NEW k \in 1 .. 2 * n - 2
      PROVE  hops[k] = (there \o thence)[k]
  <2>1. CASE k \in 1 .. n - 1
    <3>1. k \in 1 .. n /\ k + 1 \in 1 .. n
      BY <1>1, <2>1
    <3>2. trip[k] = run[k] /\ trip[k + 1] = run[k + 1]
      BY <1>3, <3>1
    <3>3. hops[k] = d[run[k]][run[k + 1]]
      BY <1>7, <3>2
    <3> QED
      BY <1>5, <1>8, <2>1, <3>3
  <2>2. CASE k \notin 1 .. n - 1
    <3>1. PICK l : l = k - (n - 1)
      OBVIOUS
    <3>2. /\ l \in 1 .. n - 1 /\ k = n - 1 + l /\ l \in 1 .. n /\ l + 1 \in 1 .. n
          /\ k = n + l - 1 /\ k + 1 = n + (l + 1) - 1
      BY <1>1, <2>2, <3>1
    <3>3. trip[k] = run[n - l + 1] /\ trip[k + 1] = run[n - (l + 1) + 1]
      BY <1>3, <3>2
    <3>4. back[l] = run[n - l + 1] /\ back[l + 1] = run[n - (l + 1) + 1]
      BY <1>2, <3>2
    <3>5. hops[k] = d[trip[k]][trip[k + 1]]
      BY <1>7
    <3>6. thence[l] = d[back[l]][back[l + 1]]
      BY <1>6, <3>2
    <3>7. (there \o thence)[k] = thence[l]
      BY <1>8, <3>2
    <3> QED
      BY <3>3, <3>4, <3>5, <3>6, <3>7
  <2> QED
    BY <2>1, <2>2
<1>10. hops = there \o thence
  BY <1>1, <1>7, <1>8, <1>9, SeqEqual
<1> QED
  BY <1>10 DEF hops, there, thence, trip, back

\* Where a length is the same both ways, so is the length of a run.
LEMMA BackAsLong ==
  ASSUME NEW d \in [StopName -> [StopName -> Length]],
         \A a, b \in StopName : d[a][b] = d[b][a],
         NEW run \in Seq(StopName)
  PROVE  Added(Hops(d, Reverse(run))) = Added(Hops(d, run))
<1> DEFINE n == Len(run)
           back == Reverse(run)
           there == Hops(d, run)
           thence == Hops(d, back)
<1>1. n \in Nat /\ \A k \in 1 .. n : run[k] \in StopName
  OBVIOUS
<1>2. /\ back \in Seq(StopName) /\ Len(back) = n
      /\ \A k \in 1 .. n : back[k] = run[n - k + 1]
  BY <1>1, ReverseFacts
<1> HIDE DEF back
<1>3. /\ there \in Seq(Length) /\ Len(there) = IF n = 0 THEN 0 ELSE n - 1
      /\ \A k \in 1 .. n - 1 : there[k] = d[run[k]][run[k + 1]]
  BY <1>1, HopsType
<1>4. /\ thence \in Seq(Length) /\ Len(thence) = IF n = 0 THEN 0 ELSE n - 1
      /\ \A k \in 1 .. n - 1 : thence[k] = d[back[k]][back[k + 1]]
  <2>1. back = << >> <=> n = 0
    BY <1>2
  <2> QED
    BY <1>2, <2>1, HopsType
<1> HIDE DEF there, thence, n
<1>5. /\ Reverse(there) \in Seq(Length) /\ Len(Reverse(there)) = Len(there)
      /\ \A k \in 1 .. Len(there) : Reverse(there)[k] = there[Len(there) - k + 1]
  BY <1>3, ReverseFacts
<1>6. ASSUME NEW k \in 1 .. Len(there)
      PROVE  thence[k] = Reverse(there)[k]
  <2>1. /\ Len(there) = n - 1 /\ k \in 1 .. n - 1 /\ k \in 1 .. n /\ k + 1 \in 1 .. n
        /\ n - k \in 1 .. n - 1 /\ Len(there) - k + 1 = n - k
        /\ n - k + 1 \in 1 .. n /\ n - k \in 1 .. n /\ n - (k + 1) + 1 = n - k
    BY <1>1, <1>3
  <2>2. thence[k] = d[run[n - k + 1]][run[n - k]]
    <3>1. back[k] = run[n - k + 1] /\ back[k + 1] = run[n - k]
      BY <1>2, <2>1
    <3> QED
      BY <1>4, <2>1, <3>1
  <2>3. Reverse(there)[k] = d[run[n - k]][run[n - k + 1]]
    BY <1>3, <1>5, <2>1
  <2> QED
    BY <1>1, <2>1, <2>2, <2>3
<1>7. thence = Reverse(there)
  BY <1>3, <1>4, <1>5, <1>6, SeqEqual
<1>8. Added(thence) = Added(there)
  BY <1>3, <1>7, AddedReverse
<1> QED
  BY <1>8 DEF thence, there, back

\* The roads and the flights of the timetable are what the program looks up.
Roads == [a \in StopName |-> [b \in StopName |-> Road(a, b)]]

Flights == [a \in StopName |-> [b \in StopName |-> Flight(a, b)]]

LEMMA RoadsAndFlights ==
  ASSUME Sound, NoRepeatedStop
  PROVE  /\ Roads \in [StopName -> [StopName -> Length]]
         /\ Flights \in [StopName -> [StopName -> Length]]
         /\ \A a, b \in StopName : Flights[a][b] = Flights[b][a]
         /\ \A a, b \in StopName : RouteDistance(a, b) = Roads[a][b]
         /\ \A a, b \in StopName : HaversineDistance(a, b) = Flights[a][b]
<1>1. ASSUME NEW a \in StopName, NEW b \in StopName
      PROVE  RouteDistance(a, b) = Road(a, b) /\ Road(a, b) \in Length
  <2>1. RouteDistance(a, b) = Road(a, b)
    BY RouteDistanceIsRoad DEF Sound
  <2>2. RouteDistance(a, b) \in Length
    BY RouteDistanceType DEF Sound
  <2> QED
    BY <2>1, <2>2
<1>2. \A a \in StopName : place_[a] = Position(a) /\ place_[a] \in Place
  BY PlaceIsPosition DEF Sound, TypeOK
<1>3. ASSUME NEW a \in StopName, NEW b \in StopName
      PROVE  /\ HaversineDistance(a, b) = Flight(a, b)
             /\ Flight(a, b) \in Length /\ Flight(a, b) = Flight(b, a)
  <2>1. HaversineDistance(a, b) = Flight(a, b)
    BY <1>2 DEF HaversineDistance, Flight
  <2>2. Flight(a, b) \in Length
    BY <1>2, GeometryAssumption DEF Flight
  <2>3. Flight(a, b) = Flight(b, a)
    BY <1>2, SymmetryAssumption DEF Flight
  <2> QED
    BY <2>1, <2>2, <2>3
<1> QED
  BY <1>1, <1>3 DEF Roads, Flights

LEMMA LengthIsTotal ==
  ASSUME Sound, NoRepeatedStop, NEW run \in Seq(StopName)
  PROVE  /\ CalculateLength(RouteDistance, run) = Added(Hops(Roads, run))
         /\ CalculateLength(HaversineDistance, run) = Added(Hops(Flights, run))
         /\ Total(Road, run, 1, Len(run)) = Added(Hops(Roads, run))
         /\ Total(Flight, run, 1, Len(run)) = Added(Hops(Flights, run))
<1> DEFINE n == Len(run)
<1>1. n \in Nat /\ \A k \in 1 .. n - 1 : run[k] \in StopName /\ run[k + 1] \in StopName
  OBVIOUS
<1>2. /\ [k \in 1 .. n - 1 |-> RouteDistance(run[k], run[k + 1])] = Hops(Roads, run)
      /\ [k \in 1 .. n - 1 |-> HaversineDistance(run[k], run[k + 1])] = Hops(Flights, run)
  BY <1>1, RoadsAndFlights DEF Hops
<1>3. /\ [k \in 1 .. n - 1 |-> Road(run[k], run[k + 1])] = Hops(Roads, run)
      /\ [k \in 1 .. n - 1 |-> Flight(run[k], run[k + 1])] = Hops(Flights, run)
  BY <1>1 DEF Hops, Roads, Flights
<1>4. ASSUME NEW d \in [StopName -> [StopName -> Length]]
      PROVE  Along(Hops(d, run), 1, n) = Added(Hops(d, run))
  <2>1. /\ Hops(d, run) \in Seq(Length)
        /\ Len(Hops(d, run)) = IF run = << >> THEN 0 ELSE n - 1
    BY HopsType
  <2> DEFINE h == Hops(d, run)
  <2>2. run = << >> => n = 0
    OBVIOUS
  <2>3. n = Len(h) + 1 \/ (n = 0 /\ h = << >>)
    <3> HIDE DEF h
    <3>1. h \in Seq(Length) /\ Len(h) = IF run = << >> THEN 0 ELSE n - 1
      BY <2>1 DEF h
    <3> HIDE DEF n
    <3> QED
      BY <1>1, <2>2, <3>1
  <2> HIDE DEF h, n
  <2>4. Along(h, 1, n) = Added(h)
    BY <1>1, <2>1, <2>3, AlongIsAdded DEF h
  <2> QED
    BY <2>4 DEF h
<1> QED
  BY <1>2, <1>3, <1>4, RoadsAndFlights DEF CalculateLength, Total

\* A trip of a bus there and back is its run, and the run back.
LEMMA TripLength ==
  ASSUME NEW d \in [StopName -> [StopName -> Length]],
         NEW r, r.type = "Linear", r.stops \in Seq(StopName)
  PROVE  /\ Trip(r) \in Seq(StopName)
         /\ Added(Hops(d, Trip(r)))
              = Plus(Added(Hops(d, r.stops)), Added(Hops(d, Reverse(r.stops))))
         /\ Len(Trip(r)) = IF r.stops = << >> THEN 0 ELSE 2 * Len(r.stops) - 1
<1> DEFINE run == r.stops
<1>1. Reverse(run) \in Seq(StopName)
  BY ReverseFacts
<1>2. Hops(d, run) \in Seq(Length) /\ Hops(d, Reverse(run)) \in Seq(Length)
  BY <1>1, HopsType
<1>3. CASE run = << >>
  <2>1. Trip(r) = << >> /\ Reverse(run) = << >>
    <3>1. Len(Reverse(run)) = 0
      BY <1>3, ReverseFacts
    <3> QED
      BY <1>1, <1>3, <3>1 DEF Trip
  <2>2. Hops(d, << >>) = << >>
    BY DEF Hops
  <2>3. Added(<< >>) = 0 /\ Plus(0, 0) = 0
    BY AddedEmpty, PlusAlgebra
  <2> QED
    BY <1>3, <2>1, <2>2, <2>3
<1>4. CASE run # << >>
  <2>1. Trip(r) = run \o Tail(Reverse(run))
    BY <1>4 DEF Trip
  <2>2. Trip(r) \in Seq(StopName) /\ Len(Trip(r)) = 2 * Len(run) - 1
    BY <1>4, <2>1, WayBack
  <2>3. Hops(d, Trip(r)) = Hops(d, run) \o Hops(d, Reverse(run))
    BY <1>4, <2>1, TripHops
  <2> QED
    BY <1>2, <1>4, <2>2, <2>3, AddedConcat
<1> QED
  BY <1>3, <1>4

\* An answer about a bus has counts and lengths, and is no error.
LEMMA BusInfoType ==
  ASSUME Sound, NEW r \in AddBusRequest
  PROVE  BusInfo(r) \in [stop_count : Nat, unique_stop_count : Nat,
                         route_length : Length, geom_length : Length]
<1>1. r.type \in {"Linear", "Circular"} /\ r.stops \in Seq(StopName)
  BY BusRequestAssumption
<1> DEFINE run == r.stops
           roads == [a \in StopName |-> [b \in StopName |-> RouteDistance(a, b)]]
           flights == [a \in StopName |-> [b \in StopName |-> HaversineDistance(a, b)]]
<1>2. /\ roads \in [StopName -> [StopName -> Length]]
      /\ flights \in [StopName -> [StopName -> Length]]
  BY RouteDistanceType, GeometryAssumption DEF Sound, TypeOK, HaversineDistance
<1>3. ASSUME NEW way \in Seq(StopName)
      PROVE  /\ CalculateLength(RouteDistance, way) = Added(Hops(roads, way))
             /\ CalculateLength(HaversineDistance, way) = Added(Hops(flights, way))
  <2>1. \A k \in 1 .. Len(way) - 1 : way[k] \in StopName /\ way[k + 1] \in StopName
    OBVIOUS
  <2>2. /\ [k \in 1 .. Len(way) - 1 |-> RouteDistance(way[k], way[k + 1])] = Hops(roads, way)
        /\ [k \in 1 .. Len(way) - 1 |-> HaversineDistance(way[k], way[k + 1])]
             = Hops(flights, way)
    BY <2>1 DEF Hops
  <2> QED
    BY <2>2 DEF CalculateLength
<1> HIDE DEF roads, flights
<1>4. ASSUME NEW way \in Seq(StopName)
      PROVE  /\ CalculateLength(RouteDistance, way) \in Length
             /\ CalculateLength(HaversineDistance, way) \in Length
  <2>1. Hops(roads, way) \in Seq(Length) /\ Hops(flights, way) \in Seq(Length)
    BY <1>2, HopsType
  <2>2. ASSUME NEW h \in Seq(Length) PROVE Added(h) \in Length
    <3>1. PICK f : /\ \A m \in 0 .. Len(h) : f[m] \in Length
                   /\ Added(h) = f[Len(h)]
      BY AddedSteps
    <3> QED
      BY <3>1
  <2> QED
    BY <1>3, <2>1, <2>2
<1>5. Reverse(run) \in Seq(StopName)
  BY <1>1, ReverseFacts
<1> HIDE DEF run
<1>6. GetRouteLength(r) \in Length /\ GetGeomLength(r) \in Length
  <2>1. /\ CalculateLength(RouteDistance, run) \in Length
        /\ CalculateLength(RouteDistance, Reverse(run)) \in Length
        /\ CalculateLength(HaversineDistance, run) \in Length
    BY <1>1, <1>4, <1>5 DEF run
  <2>2. \A x, y \in Length : Plus(x, y) \in Length
    BY PlusAlgebra
  <2> QED
    BY <2>1, <2>2 DEF GetRouteLength, GetGeomLength, run
<1>7. run \in Seq(StopName)
  BY <1>1 DEF run
<1>8. GetStopsOnRoute(r) \in Nat
  <2>1. Len(run) \in Nat /\ (run # << >> => Len(run) >= 1)
    BY <1>7
  <2>2. run # << >> => 2 * Len(run) - 1 \in Nat
    BY <2>1
  <2> QED
    BY <2>1, <2>2 DEF GetStopsOnRoute, run
<1>9. Cardinality(Route(r)) \in Nat
  <2>1. /\ Len(run) \in Nat
        /\ DOMAIN run = 1 .. Len(run)
        /\ run = [i \in 1 .. Len(run) |-> run[i]]
    BY <1>7
  <2>2. Route(r) = {run[i] : i \in 1 .. Len(run)}
    BY <2>1 DEF Route, run
  <2>3. run \in [1 .. Len(run) -> Route(r)]
    BY <2>1, <2>2
  <2>4. run \in Surjection(1 .. Len(run), Route(r))
    BY <2>2, <2>3 DEF Surjection
  <2> QED
    BY <2>1, <2>4, FS_NatSurjection, FS_CardinalityType DEF ExistsSurjection
<1> QED
  BY <1>6, <1>8, <1>9 DEF BusInfo

LEMMA BusIsRight ==
  ASSUME Sound, NoRepeatedStop, NEW b \in BusName
  PROVE  IF BusRequests(b) = {}
           THEN BusAnswer(b) = NotFound
           ELSE \E r \in BusRequests(b) :
                  BusAnswer(b) =
                    [stop_count |-> Len(Trip(r)),
                     unique_stop_count |-> Cardinality(Route(r)),
                     route_length |-> Total(Road, Trip(r), 1, Len(Trip(r))),
                     geom_length |-> Total(Flight, Trip(r), 1, Len(Trip(r)))]
<1>1. CASE BusRequests(b) = {}
  BY <1>1 DEF BusAnswer, Sound, IndexHoldsRequests
<1>2. CASE BusRequests(b) # {}
  <2> DEFINE r == bus_index_[b]
  <2>1. r \in BusRequests(b) /\ BusAnswer(b) = BusInfo(r)
    BY <1>2, SentinelAssumption DEF BusAnswer, Sound, IndexHoldsRequests, BusRequests
  <2> HIDE DEF r
  <2>2. r.type \in {"Linear", "Circular"} /\ r.stops \in Seq(StopName)
    BY <2>1, BusRequestAssumption DEF BusRequests
  <2>3. CASE r.type = "Circular"
    <3>1. Trip(r) = r.stops
      BY <2>3 DEF Trip
    <3>2. /\ GetRouteLength(r) = Total(Road, r.stops, 1, Len(r.stops))
          /\ GetGeomLength(r) = Total(Flight, r.stops, 1, Len(r.stops))
          /\ GetStopsOnRoute(r) = Len(r.stops)
      BY <2>2, <2>3, LengthIsTotal DEF GetRouteLength, GetGeomLength, GetStopsOnRoute
    <3> QED
      BY <1>2, <2>1, <3>1, <3>2 DEF BusInfo
  <2>4. CASE r.type = "Linear"
    <3> DEFINE run == r.stops
               trip == Trip(r)
    <3>1. Reverse(run) \in Seq(StopName)
      BY <2>2, ReverseFacts
    <3>2. /\ trip \in Seq(StopName) /\ Len(trip) = GetStopsOnRoute(r)
          /\ Added(Hops(Roads, trip))
               = Plus(Added(Hops(Roads, run)), Added(Hops(Roads, Reverse(run))))
          /\ Added(Hops(Flights, trip))
               = Plus(Added(Hops(Flights, run)), Added(Hops(Flights, Reverse(run))))
      BY <2>2, <2>4, TripLength, RoadsAndFlights DEF GetStopsOnRoute
    <3>3. Added(Hops(Flights, Reverse(run))) = Added(Hops(Flights, run))
      BY <2>2, BackAsLong, RoadsAndFlights
    <3> HIDE DEF trip
    <3>4. GetRouteLength(r) = Total(Road, trip, 1, Len(trip))
      <4>1. GetRouteLength(r) = Plus(Added(Hops(Roads, run)), Added(Hops(Roads, Reverse(run))))
        BY <2>2, <2>4, <3>1, LengthIsTotal DEF GetRouteLength
      <4>2. Total(Road, trip, 1, Len(trip)) = Added(Hops(Roads, trip))
        BY <3>2, LengthIsTotal
      <4> QED
        BY <3>2, <4>1, <4>2
    <3>5. GetGeomLength(r) = Total(Flight, trip, 1, Len(trip))
      <4>1. GetGeomLength(r) = Plus(Added(Hops(Flights, run)), Added(Hops(Flights, run)))
        BY <2>2, <2>4, LengthIsTotal DEF GetGeomLength
      <4>2. Total(Flight, trip, 1, Len(trip)) = Added(Hops(Flights, trip))
        BY <3>2, LengthIsTotal
      <4> QED
        BY <3>2, <3>3, <4>1, <4>2
    <3> QED
      BY <1>2, <2>1, <3>2, <3>4, <3>5 DEF BusInfo, trip
  <2> QED
    BY <2>2, <2>3, <2>4
<1> QED
  BY <1>1, <1>2

-----------------------------------------------------------------------------
(***************************************************************************)
(* The answers about stops, and that there is one answer only.             *)
(***************************************************************************)
LEMMA StopIsRight ==
  ASSUME Sound, ListedOrDangling, NEW s \in StopName, ~ (s \in stop_index_ /\ Dangling(s))
  PROVE  IF s \notin Mentioned
           THEN StopAnswer(s) = NotFound
           ELSE StopAnswer(s) = {r.name : r \in {q \in done \cap AddBusRequest : s \in Route(q)}}
<1>1. stop_index_ = Mentioned
  BY DEF Sound, StopsKnownOnceMentioned
<1>2. CASE s \notin Mentioned
  BY <1>1, <1>2 DEF StopAnswer
<1>3. CASE s \in Mentioned
  <2> DEFINE calling == {q \in done \cap AddBusRequest : s \in Route(q)}
  <2>1. ~ Dangling(s)
    BY <1>1, <1>3
  <2>2. buses_[s] \subseteq calling
    BY DEF ListedOrDangling
  <2>3. \A r \in calling : \E v \in buses_[s] : v.name = r.name
    BY <2>1 DEF ListedOrDangling, HasView
  <2>4. {v.name : v \in buses_[s]} = {r.name : r \in calling}
    BY <2>2, <2>3
  <2> QED
    BY <1>1, <1>3, <2>4 DEF StopAnswer
<1> QED
  BY <1>2, <1>3

\* The state settles what a request is answered.
LEMMA OneAnswer ==
  ASSUME NEW q, NEW x, NEW y, AnswersRequest(q, x), AnswersRequest(q, y)
  PROVE  x = y
<1>1. q \in ReadRequest /\ q.type \in {"Bus", "Stop", "Route"}
  BY RequestTypes DEF AnswersRequest
<1>2. CASE q.type # "Route"
  BY <1>1, <1>2 DEF AnswersRequest
<1>3. CASE q.type = "Route"
  <2> DEFINE pair == <<q.from, q.to>>
  <2>1. RouteReply(pair, x) /\ RouteReply(pair, y)
    BY <1>3 DEF AnswersRequest
  <2> HIDE DEF pair
  <2>2. ASSUME NEW id, NEW path, Stored(pair, id, path)
        PROVE  /\ route_cache_[pair] # {}
               /\ \A id2, path2 : Stored(pair, id2, path2) => path2 = path
    <3>1. route_cache_[pair] = {InfoOf(id, path)} /\ InfoOf(id, path).id = id
          /\ expanded_routes_cache_[id] = path
      BY <2>2 DEF Stored, InfoOf
    <3>2. ASSUME NEW id2, NEW path2, Stored(pair, id2, path2)
          PROVE  path2 = path
      <4>1. route_cache_[pair] = {InfoOf(id2, path2)} /\ InfoOf(id2, path2).id = id2
            /\ expanded_routes_cache_[id2] = path2
        BY <3>2 DEF Stored, InfoOf
      <4> QED
        BY <3>1, <4>1
    <3> QED
      BY <3>1, <3>2
  <2> QED
    BY <2>1, <2>2 DEF RouteReply
<1> QED
  BY <1>2, <1>3

-----------------------------------------------------------------------------
(***************************************************************************)
(* The answers about routes.  The buses of bus_index_ are the fleet, and   *)
(* the graph has a ride of its timetable between two vertices exactly      *)
(* where it has an edge from a vertex on board.                            *)
(***************************************************************************)
Fleet == {r \in done \cap AddBusRequest : bus_index_[r.name] = r}

RideOf(id, ride) ==
  /\ graph_.edges[id].from = OnBoard(ride.from)
  /\ graph_.edges[id].to = Waiting(ride.to)
  /\ graph_.edges[id].weight = ride.weight

\* Where the router was built, no bus takes a road of unknown length.
LEMMA RoadsFollow ==
  ASSUME Sound, pc = "ready", NoRepeatedStop
  PROVE  RoadsAreKnown
<1>1. /\ TypeOK /\ NumberInv /\ IndexHoldsRequests /\ StopsKnownOnceMentioned
      /\ DeclaredDistancesWin /\ ManagerInv /\ GraphBuilt
  BY DEF Sound, Managed, GraphBuilt
<1>2. StepsNotNegative
  <2>1. WeightsNotNegative
    BY <1>1 DEF ManagerInv
  <2> QED
    BY <1>1, <2>1, WaitsAndSteps
<1> SUFFICES ASSUME NEW b \in Buses, NEW run \in Runs(bus_index_[b]),
                    NEW k \in 1 .. Len(run) - 1
             PROVE  Road(run[k], run[k + 1]) # NaN
  BY DEF RoadsAreKnown
<1>3. run \in Seq(stop_index_)
  BY <1>1, BusesAreKnown, RunsFacts
<1>4. run[k] \in StopName /\ run[k + 1] \in StopName
  BY <1>1, <1>3 DEF TypeOK
<1>5. RouteDistance(run[k], run[k + 1]) = Road(run[k], run[k + 1])
  BY <1>1, <1>4, RouteDistanceIsRoad
<1>6. RouteDistance(run[k], run[k + 1]) # NaN
  <2>1. NotNegative(Over(RouteDistance(run[k], run[k + 1])))
    BY <1>2 DEF StepsNotNegative, StepTime
  <2>2. \A x : NotNegative(Over(x)) => x # NaN
    BY DEF NotNegative, Over
  <2> QED
    BY <2>1, <2>2
<1> QED
  BY <1>5, <1>6

LEMMA GraphIsTimetable ==
  ASSUME Sound, pc = "ready", NoRepeatedStop
  PROVE  /\ \A ride \in Timetable(Fleet) :
              /\ ride.from \in stop_index_ /\ ride.to \in stop_index_
              /\ ride.weight.time \in Duration /\ ride.weight.span \in Nat
              /\ wait_time_ \in Nat
              /\ ride.weight.route \in BusName
              /\ \E id \in EdgeIds(graph_) : RideOf(id, ride)
              /\ \E id \in EdgeIds(graph_) : WaitEdge(id, ride.from)
         /\ \A id \in EdgeIds(graph_) :
              \/ \E s \in stop_index_ : WaitEdge(id, s)
              \/ \E ride \in Timetable(Fleet) : RideOf(id, ride)
<1>1. /\ TypeOK /\ NumberInv /\ IndexHoldsRequests /\ StopsKnownOnceMentioned
      /\ DeclaredDistancesWin /\ ManagerInv /\ GraphBuilt
  BY DEF Sound, Managed, GraphBuilt
<1>2. \A e : e \in Elements(graph_.edges) <=> \E id \in EdgeIds(graph_) : e = graph_.edges[id]
  BY DEF Elements, EdgeIds
<1>3. RoadsAreKnown
  BY RoadsFollow
\* A ride of a bus, in the timetable and in the graph.
<1>4. ASSUME NEW b \in Buses, NEW run \in Runs(bus_index_[b]), NEW p \in Pairs(Len(run))
      PROVE  LET e == Ride(run, PartialSums(run), b, p[1], p[2])
                 ride == Planned(bus_index_[b], run, p[1], p[2])
             IN  /\ ride \in Timetable(Fleet)
                 /\ ride.from \in stop_index_ /\ ride.to \in stop_index_
                 /\ ride.weight.span \in Nat /\ ride.weight.route = b
                 /\ e.from = OnBoard(ride.from) /\ e.to = Waiting(ride.to)
                 /\ e.weight = ride.weight
                 /\ e \in Elements(graph_.edges)
                 /\ Boarding(ride.from) \in Elements(graph_.edges)
  <2> DEFINE r == bus_index_[b]
             e == Ride(run, PartialSums(run), b, p[1], p[2])
             ride == Planned(r, run, p[1], p[2])
  <2>1. r \in done \cap AddBusRequest /\ r.name = b /\ r.stops \in Seq(stop_index_)
    BY <1>1, BusesAreKnown
  <2>2. run \in Seq(stop_index_)
    BY <2>1, RunsFacts
  <2>3. p[1] \in 1 .. Len(run) /\ p[2] \in 1 .. Len(run) /\ p[1] < p[2]
    BY <2>2, PairsFacts
  <2>4. ride.from = run[p[1]] /\ ride.to = run[p[2]]
        /\ ride.weight.span = p[2] - p[1] /\ ride.weight.route = b
    BY <2>1 DEF Planned
  <2>5. ride.from \in stop_index_ /\ ride.to \in stop_index_ /\ ride.weight.span \in Nat
    BY <2>2, <2>3, <2>4
  <2>6. ride \in Timetable(Fleet)
    <3>1. r \in Fleet
      BY <1>1, RunningBuses DEF Fleet
    <3>2. ride \in RidesOf(r)
      BY RidesOfFacts
    <3> HIDE DEF r, ride
    <3> QED
      BY <3>1, <3>2 DEF Timetable
  <2>7. Shown(e) = ride
    BY <1>1, <1>3, RideShown
  <2>8. e.weight = ride.weight /\ e.from = OnBoard(ride.from) /\ e.to = Waiting(ride.to)
    <3>1. e.from = OnBoard(run[p[1]]) /\ e.to = Waiting(run[p[2]])
      BY DEF Ride, OnBoard, Waiting
    <3>2. Shown(e).weight = e.weight
      BY DEF Shown
    <3> HIDE DEF e, ride
    <3> QED
      BY <2>4, <2>7, <3>1, <3>2
  <2>9. IsRide(e, r)
    <3>1. /\ Start(e) = AtStop(run[p[1]], "BUS") /\ Finish(e) = AtStop(run[p[2]], "WAIT")
      BY <1>1, RideEnds
    <3> QED
      BY <2>1, <3>1 DEF IsRide
  <2>10. e \in Elements(graph_.edges)
    BY <1>1, <2>9, BuiltGraph
  <2>11. Boarding(ride.from) \in Elements(graph_.edges)
    <3>1. ride.from \in Route(r)
      <4>1. r.type \in {"Linear", "Circular"} /\ r.stops \in Seq(StopName)
        BY <2>1, BusRequestAssumption
      <4>2. \A k \in 1 .. Len(run) : run[k] \in Route(r)
        <5>1. CASE run = r.stops
          BY <4>1, <5>1 DEF Route
        <5>2. CASE run = Reverse(r.stops)
          <6>1. /\ Len(run) = Len(r.stops)
                /\ \A k \in 1 .. Len(r.stops) : run[k] = r.stops[Len(r.stops) - k + 1]
            BY <4>1, <5>2, ReverseFacts
          <6>2. \A k \in 1 .. Len(r.stops) : Len(r.stops) - k + 1 \in DOMAIN r.stops
            BY <4>1
          <6> QED
            BY <6>1, <6>2 DEF Route
        <5> QED
          BY <5>1, <5>2 DEF Runs
      <4> QED
        BY <2>3, <2>4, <4>2
    <3>2. Boarding(ride.from) \in EdgeSet(r)
      BY <3>1 DEF EdgeSet
    <3>3. IsWait(Boarding(ride.from), r) \/ IsRide(Boarding(ride.from), r)
      BY <1>1, <3>2, EdgeKinds DEF GraphBuilt
    <3> QED
      BY <1>1, <3>3, BuiltGraph
  <2> QED
    BY <2>4, <2>5, <2>6, <2>8, <2>10, <2>11
<1>5. ASSUME NEW ride \in Timetable(Fleet)
      PROVE  /\ ride.from \in stop_index_ /\ ride.to \in stop_index_
             /\ ride.weight.time \in Duration /\ ride.weight.span \in Nat
             /\ wait_time_ \in Nat
             /\ ride.weight.route \in BusName
             /\ \E id \in EdgeIds(graph_) : RideOf(id, ride)
             /\ \E id \in EdgeIds(graph_) : WaitEdge(id, ride.from)
  <2>1. PICK r \in Fleet : ride \in RidesOf(r)
    BY DEF Timetable
  <2>2. PICK b \in Buses : r = bus_index_[b]
    BY <1>1, <2>1, RunningBuses DEF Fleet
  <2>3. PICK run \in Runs(r) : \E p \in Pairs(Len(run)) : ride = Planned(r, run, p[1], p[2])
    BY <2>1, RidesOfFacts
  <2>4. PICK p \in Pairs(Len(run)) : ride = Planned(r, run, p[1], p[2])
    BY <2>3
  <2> DEFINE e == Ride(run, PartialSums(run), b, p[1], p[2])
  <2>5. /\ ride.from \in stop_index_ /\ ride.to \in stop_index_
        /\ ride.weight.span \in Nat /\ ride.weight.route = b
        /\ e.from = OnBoard(ride.from) /\ e.to = Waiting(ride.to)
        /\ e.weight = ride.weight
        /\ e \in Elements(graph_.edges) /\ Boarding(ride.from) \in Elements(graph_.edges)
    BY <1>4, <2>2, <2>4
  <2> HIDE DEF e
  <2>6. PICK id \in EdgeIds(graph_) : e = graph_.edges[id]
    BY <1>2, <2>5
  <2>7. PICK id2 \in EdgeIds(graph_) : Boarding(ride.from) = graph_.edges[id2]
    BY <1>2, <2>5
  <2>8. RideOf(id, ride)
    BY <2>5, <2>6 DEF RideOf
  <2>9. ride.weight.time \in Duration
    BY <2>8, TimesOfGraph DEF RideOf, Time
  <2>10. WaitEdge(id2, ride.from)
    BY <2>7 DEF WaitEdge
  <2>11. wait_time_ \in Nat
    <3>1. Time(id2) \in Duration
      BY TimesOfGraph
    <3>2. Boarding(ride.from).weight.time = wait_time_
      BY DEF Boarding
    <3>3. wait_time_ \in Duration
      BY <2>7, <3>1, <3>2 DEF Time
    <3> QED
      BY <3>3, SettingsAssumption DEF Duration
  <2> QED
    BY <2>5, <2>8, <2>9, <2>10, <2>11 DEF Buses
<1>6. ASSUME NEW id \in EdgeIds(graph_), ~ \E s \in stop_index_ : WaitEdge(id, s)
      PROVE  \E ride \in Timetable(Fleet) : RideOf(id, ride)
  <2> DEFINE e == graph_.edges[id]
  <2>1. e \in Elements(graph_.edges)
    BY <1>2
  <2>2. PICK b \in Buses : IsWait(e, bus_index_[b]) \/ IsRide(e, bus_index_[b])
    BY <1>1, <2>1, BuiltGraph
  <2> HIDE DEF e
  <2> DEFINE r == bus_index_[b]
  <2>3. r.name = b /\ r.stops \in Seq(stop_index_)
    BY <1>1, BusesAreKnown
  <2>4. ~ IsWait(e, r)
    <3>1. Route(r) \subseteq stop_index_
      BY <2>3 DEF Route
    <3> HIDE DEF r
    <3> QED
      BY <1>6, <3>1 DEF IsWait, WaitEdge, e
  <2>5. IsRide(e, r)
    BY <2>2, <2>4
  <2>6. PICK run \in Runs(r) : \E p \in Pairs(Len(run)) :
          e = Ride(run, PartialSums(run), r.name, p[1], p[2])
    BY <2>5 DEF IsRide
  <2>7. PICK p \in Pairs(Len(run)) : e = Ride(run, PartialSums(run), r.name, p[1], p[2])
    BY <2>6
  <2> DEFINE ride == Planned(r, run, p[1], p[2])
  <2>8. /\ ride \in Timetable(Fleet) /\ e.from = OnBoard(ride.from)
        /\ e.to = Waiting(ride.to) /\ e.weight = ride.weight
    BY <1>4, <2>3, <2>7
  <2> HIDE DEF ride
  <2>9. RideOf(id, ride)
    BY <2>8 DEF RideOf, e
  <2> QED
    BY <2>8, <2>9
<1> QED
  BY <1>5, <1>6

\* The planner's timetable is this one.
LEMMA SameTimetable ==
  /\ Planner!Mentioned = Mentioned
  /\ \A b : Planner!BusRequests(b) = BusRequests(b)
  /\ \A r : Planner!Route(r) = Route(r) /\ Planner!Trip(r) = Trip(r)
  /\ \A fleet : Planner!Timetable(fleet) = Timetable(fleet)
  /\ \A run, i, j : /\ Planner!Total(Planner!Road, run, i, j) = Total(Road, run, i, j)
                    /\ Planner!Total(Planner!Flight, run, i, j) = Total(Flight, run, i, j)
<1>1. Planner!Mentioned = Mentioned
  BY DEF Planner!Mentioned, Mentioned, Planner!Route, Route
<1>2. ASSUME NEW b
      PROVE  Planner!BusRequests(b) = BusRequests(b)
  BY DEF Planner!BusRequests, BusRequests
<1>3. ASSUME NEW r
      PROVE  Planner!Route(r) = Route(r) /\ Planner!Trip(r) = Trip(r)
  BY DEF Planner!Route, Route, Planner!Trip, Trip,
         Planner!Reverse, Reverse
<1>4. ASSUME NEW fleet
      PROVE  Planner!Timetable(fleet) = Timetable(fleet)
  BY DEF Planner!Timetable, Timetable, Planner!RidesOf, RidesOf, Planner!Runs, Runs,
         Planner!Reverse, Reverse, Planner!Over, Over,
         Planner!Total, Total, Planner!Along, Along, Planner!Road, Road,
         Planner!Flight, Flight, Planner!Position, Position,
         Planner!Declared, Declared, Planner!StopRequests, StopRequests
<1>5. ASSUME NEW run, NEW i, NEW j
      PROVE  /\ Planner!Total(Planner!Road, run, i, j) = Total(Road, run, i, j)
             /\ Planner!Total(Planner!Flight, run, i, j) = Total(Flight, run, i, j)
  BY DEF Planner!Total, Total, Planner!Along, Along, Planner!Road, Road,
         Planner!Flight, Flight, Planner!Position, Position,
         Planner!Declared, Declared, Planner!StopRequests, StopRequests
<1> QED
  BY <1>1, <1>2, <1>3, <1>4, <1>5

\* So are the operators of the modules it extends.
LEMMA SameCardinality ==
  ASSUME NEW S
  PROVE  Planner!Cardinality(S) = Cardinality(S)
BY DEF Planner!Cardinality, Cardinality

-----------------------------------------------------------------------------
(***************************************************************************)
(* Travel times, by their recursion: the rows are the times in at most so  *)
(* many rides.                                                             *)
(***************************************************************************)
NoTravel(from) == [s \in Mentioned |-> IF s = from THEN {0} ELSE {}]

NextTimes(row) ==
  [s \in Mentioned |->
     row[s] \cup
     UNION {{Later(Later(t, wait_time_), ride.weight.time) : t \in row[ride.from]} :
            ride \in {r \in Timetable(Fleet) : r.to = s}}]

TimeRows == [Mentioned -> SUBSET Duration]

TravelRows(T, from, n) ==
  /\ T[0] = NoTravel(from)
  /\ \A m \in 1 .. n : T[m] = NextTimes(T[m - 1])
  /\ \A m \in 0 .. n : T[m] \in TimeRows

\* What the proofs need of the timetable: rides join stops that are mentioned, and
\* arrive at some time, if only at infinity.
RidesKnown ==
  \A ride \in Timetable(Fleet) :
    /\ ride.from \in Mentioned /\ ride.to \in Mentioned
    /\ ride.weight.time \in Duration /\ wait_time_ \in Duration

\* Times are added up and ordered as numbers are, the infinite ones last.
LEMMA LaterFacts ==
  ASSUME NEW t \in Duration, NEW u \in Duration
  PROVE  /\ Later(t, u) \in Duration
         /\ NoLater(t, Later(t, u)) /\ NoLater(t, t) /\ NoLater(0, t)
         /\ \A v \in Duration :
              /\ NoLater(t, u) /\ NoLater(u, v) => NoLater(t, v)
              /\ NoLater(t, u) => NoLater(Later(t, v), Later(u, v))
<1>1. Infinity \notin Int
  BY SettingsAssumption
<1>2. \A x, y \in Nat : Later(x, y) = x + y /\ (NoLater(x, y) <=> x <= y)
  BY <1>1 DEF Later, NoLater
<1>3. /\ \A x : Later(x, Infinity) = Infinity /\ Later(Infinity, x) = Infinity
      /\ \A x : NoLater(x, Infinity)
      /\ \A x \in Nat : ~ NoLater(Infinity, x)
  BY <1>1 DEF Later, NoLater
<1>4. \A x \in Duration : x = Infinity \/ x \in Nat
  BY DEF Duration
<1>5. Infinity \in Duration /\ Nat \subseteq Duration
  BY DEF Duration
<1>6. Later(t, u) \in Duration /\ NoLater(t, Later(t, u))
  <2>1. CASE t \in Nat /\ u \in Nat
    <3>1. t + u \in Nat /\ t <= t + u
      BY <2>1
    <3> QED
      BY <1>2, <1>5, <2>1, <3>1
  <2>2. CASE t = Infinity \/ u = Infinity
    BY <1>3, <1>5, <2>2
  <2> QED
    BY <1>4, <2>1, <2>2
<1>7. NoLater(t, t) /\ NoLater(0, t)
  <2>1. CASE t \in Nat
    BY <1>2, <2>1
  <2>2. CASE t = Infinity
    BY <1>3, <2>2
  <2> QED
    BY <1>4, <2>1, <2>2
<1>8. ASSUME NEW v \in Duration, NoLater(t, u), NoLater(u, v)
      PROVE  NoLater(t, v)
  <2>1. CASE v = Infinity
    BY <1>3, <2>1
  <2>2. CASE v \in Nat
    <3>1. u \in Nat
      BY <1>3, <1>4, <1>8, <2>2
    <3>2. t \in Nat
      BY <1>3, <1>4, <1>8, <3>1
    <3>3. t <= u /\ u <= v
      BY <1>2, <1>8, <2>2, <3>1, <3>2
    <3>4. t <= v
      BY <2>2, <3>1, <3>2, <3>3
    <3> QED
      BY <1>2, <2>2, <3>2, <3>4
  <2> QED
    BY <1>4, <2>1, <2>2
<1>9. ASSUME NEW v \in Duration, NoLater(t, u)
      PROVE  NoLater(Later(t, v), Later(u, v))
  <2>1. CASE v = Infinity \/ u = Infinity
    BY <1>3, <2>1
  <2>2. CASE v \in Nat /\ u \in Nat
    <3>1. t \in Nat
      BY <1>3, <1>4, <1>9, <2>2
    <3>2. t <= u
      BY <1>2, <1>9, <2>2, <3>1
    <3>3. t + v \in Nat /\ u + v \in Nat /\ t + v <= u + v
      BY <2>2, <3>1, <3>2
    <3> QED
      BY <1>2, <2>2, <3>1, <3>3
  <2> QED
    BY <1>4, <2>1, <2>2
<1> QED
  BY <1>6, <1>7, <1>8, <1>9

LEMMA NoLaterTransitive ==
  ASSUME NEW t \in Duration, NEW u \in Duration, NEW v \in Duration,
         NoLater(t, u), NoLater(u, v)
  PROVE  NoLater(t, v)
BY LaterFacts

LEMMA LaterKeepsOrder ==
  ASSUME NEW t \in Duration, NEW u \in Duration, NEW v \in Duration, NoLater(t, u)
  PROVE  NoLater(Later(t, v), Later(u, v))
BY LaterFacts

LEMMA LeastTime ==
  ASSUME NEW times, times \subseteq Duration, times # {}
  PROVE  \E t \in times : \A u \in times : NoLater(t, u)
<1> DEFINE numbers == times \cap Nat
<1>1. \A u \in times : u = Infinity \/ u \in numbers
  BY DEF Duration
<1>2. \A x : NoLater(x, Infinity)
  BY DEF NoLater
<1>3. CASE numbers = {}
  BY <1>1, <1>2, <1>3
<1>4. CASE numbers # {}
  <2>1. numbers \in SUBSET Nat
    OBVIOUS
  <2>2. PICK t \in numbers : \A u \in numbers : t <= u
    BY <1>4, <2>1, LeastNatural
  <2>3. \A u \in numbers : NoLater(t, u)
    BY <2>2, SettingsAssumption DEF NoLater
  <2> QED
    BY <1>1, <1>2, <2>3
<1> QED
  BY <1>3, <1>4

LEMMA NextTimesType ==
  ASSUME RidesKnown, NEW row \in TimeRows
  PROVE  NextTimes(row) \in TimeRows
<1> SUFFICES ASSUME NEW s \in Mentioned, NEW w \in NextTimes(row)[s]
             PROVE  w \in Duration
  BY DEF NextTimes, TimeRows
<1>1. CASE w \in row[s]
  BY <1>1 DEF TimeRows
<1>2. CASE w \notin row[s]
  <2>1. PICK ride \in Timetable(Fleet) :
          \E t \in row[ride.from] : w = Later(Later(t, wait_time_), ride.weight.time)
    BY <1>2 DEF NextTimes
  <2>2. PICK t \in row[ride.from] : w = Later(Later(t, wait_time_), ride.weight.time)
    BY <2>1
  <2>3. t \in Duration /\ wait_time_ \in Duration /\ ride.weight.time \in Duration
    BY <2>2 DEF RidesKnown, TimeRows
  <2> QED
    BY <2>2, <2>3, LaterFacts
<1> QED
  BY <1>1, <1>2

LEMMA TravelRowsExist ==
  ASSUME RidesKnown, NEW from, NEW n \in Nat
  PROVE  \E T : TravelRows(T, from, n) /\ Planner!TravelTimes(Fleet, from, n) = T[n]
<1> DEFINE Built(f) ==
             f = [m \in 0 .. n |-> IF m = 0 THEN NoTravel(from) ELSE NextTimes(f[m - 1])]
           times == CHOOSE f : Built(f)
           op == [m \in 1 .. n |-> [row \in TimeRows |-> NextTimes(row)]]
<1>1. Planner!TravelTimes(Fleet, from, n) = times[n]
  BY SameTimetable DEF Planner!TravelTimes, NoTravel, NextTimes, Planner!Later, Later
<1>2. NoTravel(from) \in TimeRows
  <2>1. 0 \in Duration
    BY DEF Duration
  <2> QED
    BY <2>1 DEF NoTravel, TimeRows
<1>3. \A m \in 1 .. n : \A row \in TimeRows : op[m][row] = NextTimes(row)
  OBVIOUS
<1> HIDE DEF op
<1>4. StepsWithin(op, TimeRows, 0, n)
  <2>1. ASSUME NEW m \in 0 + 1 .. n, NEW row \in TimeRows PROVE op[m][row] \in TimeRows
    <3>1. m \in 1 .. n
      OBVIOUS
    <3> QED
      BY <1>3, <3>1, NextTimesType
  <2> QED
    BY <2>1 DEF StepsWithin
<1>5. PICK f \in [0 .. n -> TimeRows] : Stepwise(f, NoTravel(from), op, 0, n)
  <2>1. 0 \in Nat /\ 0 <= n
    OBVIOUS
  <2> QED
    BY <1>2, <1>4, <2>1, Recursion
<1>6. ASSUME NEW m \in 1 .. n
      PROVE  f[m] = NextTimes(f[m - 1])
  <2>1. m \in 0 + 1 .. n /\ m - 1 \in 0 .. n
    OBVIOUS
  <2> QED
    BY <1>3, <1>5, <2>1 DEF Stepwise
<1>7. Built(f)
  <2>1. \A i \in 0 .. n : i # 0 => i \in 1 .. n
    OBVIOUS
  <2>2. f[0] = NoTravel(from)
    BY <1>5 DEF Stepwise
  <2>3. \A i \in 0 .. n : f[i] = IF i = 0 THEN NoTravel(from) ELSE NextTimes(f[i - 1])
    BY <1>6, <2>1, <2>2
  <2> QED
    BY <1>5, <2>3
<1>8. Built(times)
  BY <1>7
<1> HIDE DEF times
<1>9. times[0] = NoTravel(from) /\ \A m \in 1 .. n : times[m] = NextTimes(times[m - 1])
  <2>1. 0 \in 0 .. n
    OBVIOUS
  <2>2. times[0] = NoTravel(from)
    BY <1>8, <2>1
  <2>3. ASSUME NEW m \in 1 .. n PROVE times[m] = NextTimes(times[m - 1])
    <3>1. m \in 0 .. n /\ m # 0
      OBVIOUS
    <3> QED
      BY <1>8, <3>1
  <2> QED
    BY <2>2, <2>3
<1> HIDE DEF Built
<1> DEFINE S == {m \in Nat : m <= n => times[m] \in TimeRows}
<1>10. 0 \in S
  BY <1>2, <1>9
<1>11. ASSUME NEW m \in Nat, m \in S
       PROVE  m + 1 \in S
  <2> SUFFICES ASSUME m + 1 <= n PROVE times[m + 1] \in TimeRows
    OBVIOUS
  <2>1. m + 1 \in 1 .. n /\ m <= n /\ m + 1 - 1 = m
    OBVIOUS
  <2>2. times[m + 1] = NextTimes(times[m]) /\ times[m] \in TimeRows
    BY <1>9, <1>11, <2>1
  <2> QED
    BY <2>2, NextTimesType
<1> HIDE DEF S
<1>12. Nat \subseteq S
  BY <1>10, <1>11, StepByStep
<1>13. \A m \in 0 .. n : times[m] \in TimeRows
  BY <1>12 DEF S
<1> QED
  BY <1>1, <1>9, <1>13 DEF TravelRows

\* A row has the times of the row before it, and those of one ride more.
LEMMA TravelStep ==
  ASSUME RidesKnown, NEW from, NEW n \in Nat, NEW T, TravelRows(T, from, n),
         NEW m \in 0 .. n, m < n, NEW s \in Mentioned
  PROVE  \A w : w \in T[m + 1][s] <=>
                  \/ w \in T[m][s]
                  \/ \E r \in Timetable(Fleet) : \E y \in T[m][r.from] :
                       r.to = s /\ w = Later(Later(y, wait_time_), r.weight.time)
<1>1. m + 1 \in 1 .. n /\ m + 1 - 1 = m
  OBVIOUS
<1>2. T[m + 1] = NextTimes(T[m])
  BY <1>1 DEF TravelRows
<1>3. T[m + 1][s] = T[m][s] \cup
        UNION {{Later(Later(t, wait_time_), ride.weight.time) : t \in T[m][ride.from]} :
               ride \in {r \in Timetable(Fleet) : r.to = s}}
  BY <1>2 DEF NextTimes
<1> QED
  BY <1>3

LEMMA LaterTimes ==
  ASSUME RidesKnown, NEW from, NEW n \in Nat, NEW T, TravelRows(T, from, n),
         NEW m \in Nat, m < n
  PROVE  \A ride \in Timetable(Fleet) : \A t \in T[m][ride.from] :
           Later(Later(t, wait_time_), ride.weight.time) \in T[m + 1][ride.to]
<1>1. m + 1 \in 1 .. n /\ m + 1 - 1 = m
  OBVIOUS
<1>2. T[m + 1] = NextTimes(T[m])
  BY <1>1 DEF TravelRows
<1>3. ASSUME NEW ride \in Timetable(Fleet), NEW t \in T[m][ride.from]
      PROVE  Later(Later(t, wait_time_), ride.weight.time) \in T[m + 1][ride.to]
  <2>1. ride.to \in Mentioned
    BY DEF RidesKnown
  <2>2. Later(Later(t, wait_time_), ride.weight.time) \in NextTimes(T[m])[ride.to]
    BY <2>1 DEF NextTimes
  <2> QED
    BY <1>2, <2>2
<1> QED
  BY <1>3

LEMMA TravelTimesKept ==
  ASSUME RidesKnown, NEW from, NEW n \in Nat, NEW T, TravelRows(T, from, n),
         NEW s \in Mentioned
  PROVE  \A m \in 0 .. n : T[m][s] \subseteq T[n][s]
<1> DEFINE S == {k \in Nat : k <= n => T[n - k][s] \subseteq T[n][s]}
<1>1. 0 \in S
  OBVIOUS
<1>2. ASSUME NEW k \in Nat, k \in S
      PROVE  k + 1 \in S
  <2> SUFFICES ASSUME k + 1 <= n PROVE T[n - (k + 1)][s] \subseteq T[n][s]
    OBVIOUS
  <2>1. PICK m : m = n - (k + 1)
    OBVIOUS
  <2>2. m \in 0 .. n /\ m < n /\ m + 1 = n - k /\ k <= n
    BY <2>1
  <2>3. T[m][s] \subseteq T[m + 1][s]
    BY <2>2, TravelStep
  <2>4. T[n - k][s] \subseteq T[n][s]
    BY <1>2, <2>2
  <2> QED
    BY <2>1, <2>2, <2>3, <2>4
<1> HIDE DEF S
<1>3. Nat \subseteq S
  BY <1>1, <1>2, StepByStep
<1>4. ASSUME NEW m \in 0 .. n
      PROVE  T[m][s] \subseteq T[n][s]
  <2>1. PICK k : k = n - m
    OBVIOUS
  <2>2. k \in Nat /\ k <= n /\ n - k = m
    BY <2>1
  <2> QED
    BY <1>3, <2>2 DEF S
<1> QED
  BY <1>4

-----------------------------------------------------------------------------
(***************************************************************************)
(* Simple paths of the graph against travel times: for each of them there  *)
(* is one of the others that takes no longer.                              *)
(***************************************************************************)
Served == Sound /\ pc = "ready" /\ NoRepeatedStop

Simple(from) == SimplePathsFrom(graph_, from)

Weight(p) == PathTime(graph_, p)

LEMMA WeightEmpty == Weight(<< >>) = 0
<1>1. DOMAIN << >> = {}
  OBVIOUS
<1> QED
  BY <1>1, PathWeightEmpty DEF Weight, PathTime

LEMMA ServedFacts ==
  ASSUME Served
  PROVE  /\ RidesKnown
         /\ Mentioned = stop_index_ /\ Mentioned \subseteq StopName
         /\ Cardinality(Mentioned) \in Nat
         /\ graph_.vertex_count = 2 * Cardinality(Mentioned)
         /\ \A s \in Mentioned : Waiting(s) \in Nodes /\ OnBoard(s) \in Nodes
         /\ \A s, t \in Mentioned : /\ Waiting(s) = Waiting(t) => s = t
                                    /\ OnBoard(s) = OnBoard(t) => s = t
                                    /\ Waiting(s) # OnBoard(t)
<1>1. Sound /\ pc = "ready" /\ NoRepeatedStop
  BY DEF Served
<1>2. Mentioned = stop_index_ /\ stop_index_ \subseteq StopName
  BY <1>1 DEF Sound, StopsKnownOnceMentioned, TypeOK
<1>3. RidesKnown
  <2>1. Nat \subseteq Duration
    BY DEF Duration
  <2> QED
    BY <1>1, <1>2, <2>1, GraphIsTimetable DEF RidesKnown
<1>4. Cardinality(Mentioned) \in Nat
  BY <1>2, FiniteNamesAssumption, FS_Subset, FS_CardinalityType
<1>5. ASSUME NEW s \in Mentioned, NEW t \in Mentioned
      PROVE  /\ Waiting(s) = Waiting(t) => s = t
             /\ OnBoard(s) = OnBoard(t) => s = t
             /\ Waiting(s) # OnBoard(t)
  <2>1. /\ reverse_index_[Waiting(s)] = AtStop(s, "WAIT")
        /\ reverse_index_[Waiting(t)] = AtStop(t, "WAIT")
        /\ reverse_index_[OnBoard(s)] = AtStop(s, "BUS")
        /\ reverse_index_[OnBoard(t)] = AtStop(t, "BUS")
    BY <1>1, <1>2, BuiltVertices
  <2> QED
    BY <2>1 DEF AtStop
<1> QED
  BY <1>1, <1>2, <1>3, <1>4, <1>5, BuiltVertices

\* A simple path with an edge more, if it leads to a new vertex.
LEMMA OneEdgeMore ==
  ASSUME Served, NEW from \in Nodes, NEW p \in Simple(from), NEW id \in EdgeIds(graph_),
         graph_.edges[id].from = EndOf(from, p),
         graph_.edges[id].to \notin VisitedBy(from, p)
  PROVE  /\ Append(p, id) \in Simple(from)
         /\ EndOf(from, Append(p, id)) = graph_.edges[id].to
         /\ VisitedBy(from, Append(p, id)) = VisitedBy(from, p) \cup {graph_.edges[id].to}
         /\ Weight(Append(p, id)) = Later(Weight(p), Time(id))
<1>1. Sound /\ pc = "ready"
  BY DEF Served
<1>2. p \in Seq(EdgeIds(graph_)) /\ GoodPath(from, Len(p), p) /\ Len(p) \in Nat
  BY <1>1, SimplePaths DEF Simple
<1>3. id \in IncidentEdges(graph_, EndOf(from, p))
  BY DEF IncidentEdges
<1>4. Append(p, id) \in Simple(from)
  BY <1>1, <1>3, SimplePaths DEF Simple
<1>5. /\ EndOf(from, Append(p, id)) = graph_.edges[id].to
      /\ VisitedBy(from, Append(p, id)) = VisitedBy(from, p) \cup {graph_.edges[id].to}
  BY <1>1, <1>2, <1>3, LongerPath
<1>6. Weight(Append(p, id)) = Later(Weight(p), Time(id))
  BY <1>1, <1>2, PathTimeLast DEF Weight
<1> QED
  BY <1>4, <1>5, <1>6

LEMMA SimplePathFacts ==
  ASSUME Served, NEW from \in Nodes, NEW p \in Simple(from)
  PROVE  /\ p \in Seq(EdgeIds(graph_)) /\ Len(p) \in Nat
         /\ Len(p) < 2 * Cardinality(Mentioned)
         /\ IsPath(graph_, p, from, EndOf(from, p))
         /\ Weight(p) \in Duration
<1>1. Sound /\ pc = "ready"
  BY DEF Served
<1>2. /\ p \in Seq(EdgeIds(graph_)) /\ GoodPath(from, Len(p), p)
      /\ Len(p) < graph_.vertex_count
  BY <1>1, SimplePaths DEF Simple
<1> QED
  BY <1>1, <1>2, ServedFacts, PathTimeFacts DEF GoodPath, Weight

LEMMA TimesAreDurations ==
  ASSUME Served, NEW id \in EdgeIds(graph_)
  PROVE  Time(id) \in Duration
BY ServedFacts, TimesOfGraph DEF Served

\* Each vertex of a path is the end of one that is not longer.
LEMMA PathToVisited ==
  ASSUME Served, NEW from \in Nodes
  PROVE  \A p \in Simple(from) : \A v \in VisitedBy(from, p) :
           \E q \in Simple(from) : EndOf(from, q) = v /\ NoLater(Weight(q), Weight(p))
<1> DEFINE Reaches(p, v) ==
             \E q \in Simple(from) : EndOf(from, q) = v /\ NoLater(Weight(q), Weight(p))
           S == {p \in Simple(from) : \A v \in VisitedBy(from, p) : Reaches(p, v)}
<1>1. Sound /\ pc = "ready"
  BY DEF Served
<1>2. << >> \in S
  <2>1. /\ << >> \in Simple(from) /\ EndOf(from, << >>) = from
        /\ VisitedBy(from, << >>) = {from}
    BY <1>1, SimplePaths, EmptyPath DEF Simple
  <2>2. Weight(<< >>) \in Duration
    BY <2>1, SimplePathFacts
  <2>3. NoLater(Weight(<< >>), Weight(<< >>))
    BY <2>2, LaterFacts
  <2> QED
    BY <2>1, <2>3
<1>3. ASSUME NEW p \in S, NEW id \in EdgeIds(graph_),
             id \in IncidentEdges(graph_, EndOf(from, p)),
             graph_.edges[id].to \notin VisitedBy(from, p)
      PROVE  Append(p, id) \in S
  <2> DEFINE r == Append(p, id)
  <2>1. /\ r \in Simple(from) /\ EndOf(from, r) = graph_.edges[id].to
        /\ VisitedBy(from, r) = VisitedBy(from, p) \cup {graph_.edges[id].to}
        /\ Weight(r) = Later(Weight(p), Time(id))
    BY <1>3, OneEdgeMore DEF IncidentEdges
  <2> HIDE DEF r
  <2>2. Weight(p) \in Duration /\ Time(id) \in Duration /\ Weight(r) \in Duration
    BY <1>3, <2>1, SimplePathFacts, TimesAreDurations
  <2>3. NoLater(Weight(p), Weight(r)) /\ NoLater(Weight(r), Weight(r))
    BY <2>1, <2>2, LaterFacts
  <2>4. ASSUME NEW v \in VisitedBy(from, p)
        PROVE  Reaches(r, v)
    <3>1. PICK q \in Simple(from) : EndOf(from, q) = v /\ NoLater(Weight(q), Weight(p))
      BY <1>3
    <3>2. Weight(q) \in Duration
      BY SimplePathFacts
    <3>3. NoLater(Weight(q), Weight(r))
      BY <2>2, <2>3, <3>1, <3>2, NoLaterTransitive
    <3> QED
      BY <3>1, <3>3
  <2>5. Reaches(r, graph_.edges[id].to)
    BY <2>1, <2>3
  <2>6. r \in S
    BY <2>1, <2>4, <2>5
  <2> QED
    BY <2>6 DEF r
<1> HIDE DEF S
<1>4. Simple(from) \subseteq S
  BY <1>1, <1>2, <1>3, SimplePathsInduct DEF Simple
<1> QED
  BY <1>4 DEF S

LEMMA PathOverEdge ==
  ASSUME Served, NEW from \in Nodes, NEW p \in Simple(from), NEW id \in EdgeIds(graph_),
         graph_.edges[id].from = EndOf(from, p)
  PROVE  \E q \in Simple(from) : /\ EndOf(from, q) = graph_.edges[id].to
                                 /\ NoLater(Weight(q), Later(Weight(p), Time(id)))
<1>1. Weight(p) \in Duration /\ Time(id) \in Duration
  BY SimplePathFacts, TimesAreDurations
<1>2. CASE graph_.edges[id].to \in VisitedBy(from, p)
  <2>1. PICK q \in Simple(from) :
          EndOf(from, q) = graph_.edges[id].to /\ NoLater(Weight(q), Weight(p))
    BY <1>2, PathToVisited
  <2>2. Weight(q) \in Duration
    BY SimplePathFacts
  <2>3. /\ NoLater(Weight(p), Later(Weight(p), Time(id)))
        /\ Later(Weight(p), Time(id)) \in Duration
    BY <1>1, LaterFacts
  <2>4. NoLater(Weight(q), Later(Weight(p), Time(id)))
    BY <1>1, <2>1, <2>2, <2>3, NoLaterTransitive
  <2> QED
    BY <2>1, <2>4
<1>3. CASE graph_.edges[id].to \notin VisitedBy(from, p)
  <2>1. /\ Append(p, id) \in Simple(from)
        /\ EndOf(from, Append(p, id)) = graph_.edges[id].to
        /\ Weight(Append(p, id)) = Later(Weight(p), Time(id))
    BY <1>3, OneEdgeMore
  <2>2. NoLater(Later(Weight(p), Time(id)), Later(Weight(p), Time(id)))
    BY <1>1, LaterFacts
  <2> QED
    BY <2>1, <2>2
<1> QED
  BY <1>2, <1>3

\* Whatever the passenger does, there is a path that is not slower.
LEMMA PathForTravelTime ==
  ASSUME Served, NEW from \in Mentioned, NEW n \in Nat, NEW T, TravelRows(T, from, n)
  PROVE  \A m \in 0 .. n : \A s \in Mentioned : \A t \in T[m][s] :
           \E p \in Simple(Waiting(from)) :
             EndOf(Waiting(from), p) = Waiting(s) /\ NoLater(Weight(p), t)
<1> DEFINE v == Waiting(from)
           Reached(s, t) ==
             \E p \in Simple(v) : EndOf(v, p) = Waiting(s) /\ NoLater(Weight(p), t)
           S == {m \in Nat : m <= n =>
                   \A s \in Mentioned : \A t \in T[m][s] : Reached(s, t)}
<1>1. Sound /\ pc = "ready" /\ RidesKnown /\ v \in Nodes
  BY ServedFacts DEF Served
<1> HIDE DEF v
<1>2. 0 \in S
  <2> SUFFICES ASSUME NEW s \in Mentioned, NEW t \in T[0][s] PROVE Reached(s, t)
    OBVIOUS
  <2>1. s = from /\ t = 0
    BY DEF TravelRows, NoTravel
  <2>2. << >> \in Simple(v) /\ EndOf(v, << >>) = v
    BY <1>1, SimplePaths, EmptyPath DEF Simple
  <2>3. Weight(<< >>) = 0
    BY WeightEmpty
  <2>4. NoLater(Weight(<< >>), t)
    <3>1. t \in Duration
      BY <2>1 DEF Duration
    <3> QED
      BY <2>1, <2>3, <3>1, LaterFacts
  <2> QED
    BY <2>1, <2>2, <2>4 DEF v
<1>3. ASSUME NEW m \in Nat, m \in S
      PROVE  m + 1 \in S
  <2> SUFFICES ASSUME m + 1 <= n, NEW s \in Mentioned, NEW t \in T[m + 1][s]
               PROVE  Reached(s, t)
    OBVIOUS
  <2>1. m \in 0 .. n /\ m < n /\ m <= n
    OBVIOUS
  <2>2. \A x \in Mentioned : \A y \in T[m][x] : Reached(x, y)
    BY <1>3, <2>1
  <2>3. CASE t \in T[m][s]
    BY <2>2, <2>3
  <2>4. CASE t \notin T[m][s]
    <3>1. PICK ride \in Timetable(Fleet) : \E y \in T[m][ride.from] :
            ride.to = s /\ t = Later(Later(y, wait_time_), ride.weight.time)
      <4>1. \A w : w \in T[m + 1][s] <=>
                    \/ w \in T[m][s]
                    \/ \E r \in Timetable(Fleet) : \E y \in T[m][r.from] :
                         r.to = s /\ w = Later(Later(y, wait_time_), r.weight.time)
        BY <1>1, <2>1, TravelStep
      <4> QED
        BY <2>4, <4>1
    <3>2. PICK y \in T[m][ride.from] :
            ride.to = s /\ t = Later(Later(y, wait_time_), ride.weight.time)
      BY <3>1
    <3>3. ride.from \in Mentioned /\ ride.weight.time \in Duration
          /\ wait_time_ \in Duration
      BY <1>1 DEF RidesKnown
    <3>4. y \in Duration
      BY <2>1, <3>2, <3>3 DEF TravelRows, TimeRows
    <3>5. PICK p \in Simple(v) : EndOf(v, p) = Waiting(ride.from) /\ NoLater(Weight(p), y)
      BY <2>2, <3>2, <3>3
    <3>6. PICK id \in EdgeIds(graph_) : WaitEdge(id, ride.from)
      BY GraphIsTimetable DEF Served
    <3>7. PICK id2 \in EdgeIds(graph_) : RideOf(id2, ride)
      BY GraphIsTimetable DEF Served
    <3>8. /\ graph_.edges[id].from = Waiting(ride.from)
          /\ graph_.edges[id].to = OnBoard(ride.from) /\ Time(id) = wait_time_
      <4>1. graph_.edges[id] = Boarding(ride.from)
        BY <3>6 DEF WaitEdge
      <4>2. \A x : /\ Boarding(x).from = Waiting(x) /\ Boarding(x).to = OnBoard(x)
                   /\ Boarding(x).weight.time = wait_time_
        BY DEF Boarding, Waiting, OnBoard
      <4> QED
        BY <4>1, <4>2 DEF Time
    <3>9. /\ graph_.edges[id2].from = OnBoard(ride.from)
          /\ graph_.edges[id2].to = Waiting(s) /\ Time(id2) = ride.weight.time
      BY <3>2, <3>7 DEF RideOf, Time
    <3>10. PICK q \in Simple(v) : /\ EndOf(v, q) = OnBoard(ride.from)
                                  /\ NoLater(Weight(q), Later(Weight(p), wait_time_))
      BY <1>1, <3>5, <3>8, PathOverEdge
    <3>11. PICK r \in Simple(v) : /\ EndOf(v, r) = Waiting(s)
                                  /\ NoLater(Weight(r), Later(Weight(q), ride.weight.time))
      BY <1>1, <3>9, <3>10, PathOverEdge
    <3>12. Weight(p) \in Duration /\ Weight(q) \in Duration /\ Weight(r) \in Duration
      BY <1>1, SimplePathFacts
    <3>13. NoLater(Weight(r), t)
      <4> DEFINE boarded == Later(Weight(p), wait_time_)
                 left == Later(y, wait_time_)
                 arrived == Later(Weight(q), ride.weight.time)
      <4>1. boarded \in Duration /\ left \in Duration
        BY <3>3, <3>4, <3>12, LaterFacts
      <4>2. NoLater(boarded, left)
        BY <3>3, <3>4, <3>5, <3>12, LaterKeepsOrder
      <4>3. NoLater(Weight(q), boarded)
        BY <3>10
      <4> HIDE DEF boarded, left
      <4>4. NoLater(Weight(q), left)
        BY <3>12, <4>1, <4>2, <4>3, NoLaterTransitive
      <4>5. arrived \in Duration /\ Later(left, ride.weight.time) \in Duration
        BY <3>3, <3>12, <4>1, LaterFacts
      <4>6. NoLater(arrived, Later(left, ride.weight.time))
        BY <3>3, <3>12, <4>1, <4>4, LaterKeepsOrder
      <4>7. t = Later(left, ride.weight.time) /\ NoLater(Weight(r), arrived)
        BY <3>2, <3>11 DEF left
      <4> HIDE DEF arrived
      <4> QED
        BY <3>12, <4>5, <4>6, <4>7, NoLaterTransitive
    <3> QED
      BY <3>11, <3>13
  <2> QED
    BY <2>3, <2>4
<1> HIDE DEF S
<1>4. Nat \subseteq S
  BY <1>2, <1>3, StepByStep
<1>5. \A m \in 0 .. n : \A s \in Mentioned : \A t \in T[m][s] : Reached(s, t)
  BY <1>4 DEF S
<1> QED
  BY <1>5 DEF v

-----------------------------------------------------------------------------
(***************************************************************************)
(* Simple paths as itineraries: waits and rides in turn.                   *)
(***************************************************************************)
\* What RouteInterpreter makes of an edge.
LEMMA WaitItems ==
  ASSUME Served, NEW id \in EdgeIds(graph_), NEW s \in Mentioned, WaitEdge(id, s)
  PROVE  /\ GetItem(graph_.edges[id]) = Planner!Wait(s)
         /\ graph_.edges[id].from = Waiting(s) /\ graph_.edges[id].to = OnBoard(s)
         /\ Time(id) = wait_time_
<1>1. graph_.edges[id] = Boarding(s)
  BY DEF WaitEdge
<1>2. /\ Boarding(s).from = Waiting(s) /\ Boarding(s).to = OnBoard(s)
      /\ Boarding(s).weight.time = wait_time_
  BY DEF Boarding, Waiting, OnBoard
<1>3. reverse_index_[Waiting(s)] = AtStop(s, "WAIT")
  BY ServedFacts, BuiltVertices DEF Served
<1>4. reverse_index_[Waiting(s)].type = "WAIT" /\ reverse_index_[Waiting(s)].name = s
  BY <1>3 DEF AtStop
<1> QED
  BY <1>1, <1>2, <1>4 DEF GetItem, WaitItem, Planner!Wait, Time

LEMMA RideItems ==
  ASSUME Served, NEW id \in EdgeIds(graph_), NEW ride \in Timetable(Fleet), RideOf(id, ride)
  PROVE  /\ GetItem(graph_.edges[id]) = Planner!Ride(ride)
         /\ graph_.edges[id].from = OnBoard(ride.from)
         /\ graph_.edges[id].to = Waiting(ride.to)
         /\ Time(id) = ride.weight.time
         /\ ride.from \in Mentioned /\ ride.to \in Mentioned
<1>1. ride.from \in Mentioned /\ ride.to \in Mentioned
  BY ServedFacts DEF RidesKnown
<1>2. reverse_index_[OnBoard(ride.from)] = AtStop(ride.from, "BUS")
  BY <1>1, ServedFacts, BuiltVertices DEF Served
<1>3. reverse_index_[OnBoard(ride.from)].type = "BUS"
  BY <1>2 DEF AtStop
<1>4. /\ graph_.edges[id].from = OnBoard(ride.from) /\ graph_.edges[id].to = Waiting(ride.to)
      /\ graph_.edges[id].weight = ride.weight
  BY DEF RideOf
<1>5. GetItem(graph_.edges[id]) = BusItem(ride.weight)
  BY <1>3, <1>4 DEF GetItem
<1>6. BusItem(ride.weight) = Planner!Ride(ride)
  BY DEF BusItem, Planner!Ride
<1> QED
  BY <1>1, <1>4, <1>5, <1>6 DEF Time

LEMMA EdgeFromWaiting ==
  ASSUME Served, NEW id \in EdgeIds(graph_), NEW s \in Mentioned,
         graph_.edges[id].from = Waiting(s)
  PROVE  WaitEdge(id, s)
<1>1. CASE \E r \in stop_index_ : WaitEdge(id, r)
  <2>1. PICK r \in Mentioned : WaitEdge(id, r)
    BY <1>1, ServedFacts
  <2>2. r = s
    BY <2>1, ServedFacts, WaitItems
  <2> QED
    BY <2>1, <2>2
<1>2. CASE \E ride \in Timetable(Fleet) : RideOf(id, ride)
  BY <1>2, ServedFacts, RideItems
<1> QED
  BY <1>1, <1>2, GraphIsTimetable DEF Served

LEMMA EdgeFromBoard ==
  ASSUME Served, NEW id \in EdgeIds(graph_), NEW s \in Mentioned,
         graph_.edges[id].from = OnBoard(s)
  PROVE  \E ride \in Timetable(Fleet) : RideOf(id, ride) /\ ride.from = s
<1>1. CASE \E r \in stop_index_ : WaitEdge(id, r)
  <2>1. PICK r \in Mentioned : WaitEdge(id, r)
    BY <1>1, ServedFacts
  <2>2. graph_.edges[id].from = Waiting(r)
    BY <2>1, WaitItems
  <2> QED
    BY <2>2, ServedFacts
<1>2. CASE \E ride \in Timetable(Fleet) : RideOf(id, ride)
  <2>1. PICK ride \in Timetable(Fleet) : RideOf(id, ride)
    BY <1>2
  <2>2. ride.from \in Mentioned /\ OnBoard(ride.from) = OnBoard(s)
    BY <2>1, RideItems
  <2> QED
    BY <2>1, <2>2, ServedFacts
<1> QED
  BY <1>1, <1>2, GraphIsTimetable DEF Served

\* A path of m waits and rides, with a last wait or without, by way of stops.
Leg(p, k, stops) ==
  /\ GetItem(graph_.edges[p[2 * k - 1]]) = Planner!Wait(stops[k])
  /\ \E ride \in Timetable(Fleet) :
       /\ ride.from = stops[k] /\ ride.to = stops[k + 1]
       /\ GetItem(graph_.edges[p[2 * k]]) = Planner!Ride(ride)

Legs(p, m, stops) == \A k \in 1 .. m : Leg(p, k, stops)

Arrived(p, m, stops, from, T) ==
  /\ Len(p) = 2 * m
  /\ EndOf(Waiting(from), p) = Waiting(stops[m + 1])
  /\ Weight(p) \in T[m][stops[m + 1]]

Boarded(p, m, stops, from, T) ==
  /\ Len(p) = 2 * m + 1
  /\ EndOf(Waiting(from), p) = OnBoard(stops[m + 1])
  /\ GetItem(graph_.edges[p[2 * m + 1]]) = Planner!Wait(stops[m + 1])
  /\ \E t \in T[m][stops[m + 1]] : Weight(p) = Later(t, wait_time_)

IsTrip(p, m, stops, from, T) ==
  /\ stops[1] = from
  /\ Legs(p, m, stops)
  /\ Arrived(p, m, stops, from, T) \/ Boarded(p, m, stops, from, T)

LEMMA BoardTrip ==
  ASSUME Served, NEW from \in Mentioned, NEW N \in Nat, N = Cardinality(Mentioned),
         NEW T, TravelRows(T, from, N),
         NEW p \in Simple(Waiting(from)), NEW m \in Nat, m <= N,
         NEW stops \in [Nat -> Mentioned], IsTrip(p, m, stops, from, T),
         Arrived(p, m, stops, from, T),
         NEW id \in EdgeIds(graph_), graph_.edges[id].from = EndOf(Waiting(from), p),
         graph_.edges[id].to \notin VisitedBy(Waiting(from), p)
  PROVE  IsTrip(Append(p, id), m, stops, from, T)
<1> DEFINE v == Waiting(from)
           q == Append(p, id)
           s == stops[m + 1]
<1>1. v \in Nodes /\ s \in Mentioned
  BY ServedFacts
<1>2. p \in Seq(EdgeIds(graph_)) /\ Len(p) = 2 * m
  BY <1>1, SimplePathFacts DEF Arrived
<1>3. /\ EndOf(v, q) = graph_.edges[id].to /\ Weight(q) = Later(Weight(p), Time(id))
  BY <1>1, OneEdgeMore
<1>4. WaitEdge(id, s)
  BY <1>1, EdgeFromWaiting DEF Arrived
<1>5. /\ GetItem(graph_.edges[id]) = Planner!Wait(s) /\ graph_.edges[id].to = OnBoard(s)
      /\ Time(id) = wait_time_
  BY <1>1, <1>4, WaitItems
<1>6. /\ Len(q) = 2 * m + 1 /\ q[2 * m + 1] = id
      /\ \A k \in 1 .. 2 * m : q[k] = p[k]
  BY <1>2
<1> HIDE DEF q, v
<1>7. Boarded(q, m, stops, from, T)
  <2>1. \E t \in T[m][s] : Weight(q) = Later(t, wait_time_)
    BY <1>3, <1>5 DEF Arrived
  <2> QED
    BY <1>3, <1>5, <1>6, <2>1 DEF Boarded, v
<1>8. Legs(q, m, stops)
  <2> SUFFICES ASSUME NEW k \in 1 .. m PROVE Leg(q, k, stops)
    BY DEF Legs
  <2>1. 2 * k - 1 \in 1 .. 2 * m /\ 2 * k \in 1 .. 2 * m
    OBVIOUS
  <2>2. q[2 * k - 1] = p[2 * k - 1] /\ q[2 * k] = p[2 * k]
    BY <1>6, <2>1
  <2>3. Leg(p, k, stops)
    BY DEF IsTrip, Legs
  <2> QED
    BY <2>2, <2>3 DEF Leg
<1>9. IsTrip(q, m, stops, from, T)
  BY <1>7, <1>8 DEF IsTrip
<1> QED
  BY <1>9 DEF q

LEMMA RideTrip ==
  ASSUME Served, NEW from \in Mentioned, NEW N \in Nat, N = Cardinality(Mentioned),
         NEW T, TravelRows(T, from, N),
         NEW p \in Simple(Waiting(from)), NEW m \in Nat, m <= N,
         NEW stops \in [Nat -> Mentioned], IsTrip(p, m, stops, from, T),
         Boarded(p, m, stops, from, T),
         NEW id \in EdgeIds(graph_), graph_.edges[id].from = EndOf(Waiting(from), p),
         graph_.edges[id].to \notin VisitedBy(Waiting(from), p)
  PROVE  /\ m + 1 <= N
         /\ \E stops2 \in [Nat -> Mentioned] :
              IsTrip(Append(p, id), m + 1, stops2, from, T)
<1> DEFINE v == Waiting(from)
           q == Append(p, id)
           s == stops[m + 1]
<1>1. v \in Nodes /\ s \in Mentioned /\ RidesKnown
  BY ServedFacts
<1>2. p \in Seq(EdgeIds(graph_)) /\ Len(p) = 2 * m + 1 /\ Len(p) < 2 * N
  BY <1>1, SimplePathFacts DEF Boarded
<1>3. m < N /\ m + 1 <= N /\ m \in 0 .. N
  BY <1>2
<1>4. /\ EndOf(v, q) = graph_.edges[id].to /\ Weight(q) = Later(Weight(p), Time(id))
  BY <1>1, OneEdgeMore
<1>5. PICK ride \in Timetable(Fleet) : RideOf(id, ride) /\ ride.from = s
  BY <1>1, EdgeFromBoard DEF Boarded
<1>6. /\ GetItem(graph_.edges[id]) = Planner!Ride(ride)
      /\ graph_.edges[id].to = Waiting(ride.to)
      /\ Time(id) = ride.weight.time /\ ride.to \in Mentioned
  BY <1>5, RideItems
<1>7. /\ Len(q) = 2 * (m + 1) /\ q[2 * (m + 1)] = id
      /\ \A k \in 1 .. 2 * m + 1 : q[k] = p[k]
  BY <1>2
<1> DEFINE stops2 == [stops EXCEPT ![m + 2] = ride.to]
<1>8. /\ stops2 \in [Nat -> Mentioned] /\ stops2[m + 2] = ride.to
      /\ \A k \in 1 .. m + 1 : stops2[k] = stops[k]
  BY <1>6
<1> HIDE DEF q, v, stops2
<1>9. Arrived(q, m + 1, stops2, from, T)
  <2>1. PICK t \in T[m][s] : Weight(p) = Later(t, wait_time_)
    BY DEF Boarded
  <2>2. m < N /\ t \in T[m][ride.from]
    BY <1>3, <1>5, <2>1
  <2>3. Later(Later(t, wait_time_), ride.weight.time) \in T[m + 1][ride.to]
    BY <1>1, <2>2, LaterTimes
  <2>4. Weight(q) = Later(Later(t, wait_time_), ride.weight.time)
    BY <1>4, <1>6, <2>1
  <2>5. m + 1 + 1 = m + 2
    OBVIOUS
  <2> QED
    BY <1>4, <1>6, <1>7, <1>8, <2>3, <2>4, <2>5 DEF Arrived, v
<1>10. Legs(q, m + 1, stops2)
  <2> SUFFICES ASSUME NEW k \in 1 .. m + 1 PROVE Leg(q, k, stops2)
    BY DEF Legs
  <2>1. CASE k \in 1 .. m
    <3>1. /\ 2 * k - 1 \in 1 .. 2 * m + 1 /\ 2 * k \in 1 .. 2 * m + 1
          /\ k \in 1 .. m + 1 /\ k + 1 \in 1 .. m + 1
      BY <2>1
    <3>2. /\ q[2 * k - 1] = p[2 * k - 1] /\ q[2 * k] = p[2 * k]
          /\ stops2[k] = stops[k] /\ stops2[k + 1] = stops[k + 1]
      BY <1>7, <1>8, <3>1
    <3>3. Leg(p, k, stops)
      BY <2>1 DEF IsTrip, Legs
    <3> QED
      BY <3>2, <3>3 DEF Leg
  <2>2. CASE k = m + 1
    <3>1. 2 * k - 1 = 2 * m + 1 /\ 2 * m + 1 \in 1 .. 2 * m + 1 /\ k + 1 = m + 2
      BY <2>2
    <3>2. /\ q[2 * k - 1] = p[2 * m + 1] /\ q[2 * k] = id
          /\ stops2[k] = s /\ stops2[k + 1] = ride.to
      BY <1>7, <1>8, <2>2, <3>1
    <3>3. GetItem(graph_.edges[p[2 * m + 1]]) = Planner!Wait(s)
      BY DEF Boarded
    <3> QED
      BY <1>5, <1>6, <3>2, <3>3 DEF Leg
  <2> QED
    BY <2>1, <2>2
<1>11. IsTrip(q, m + 1, stops2, from, T)
  <2>1. stops2[1] = from
    <3>1. 1 \in 1 .. m + 1
      OBVIOUS
    <3> QED
      BY <1>8, <3>1 DEF IsTrip
  <2> QED
    BY <1>9, <1>10, <2>1 DEF IsTrip
<1> QED
  BY <1>3, <1>8, <1>11 DEF q

LEMMA PathsAreTrips ==
  ASSUME Served, NEW from \in Mentioned, NEW N \in Nat, N = Cardinality(Mentioned),
         NEW T, TravelRows(T, from, N)
  PROVE  \A p \in Simple(Waiting(from)) :
           \E m \in 0 .. N : \E stops \in [Nat -> Mentioned] :
             IsTrip(p, m, stops, from, T)
<1> DEFINE v == Waiting(from)
           Told(p) == \E m \in 0 .. N : \E stops \in [Nat -> Mentioned] :
                        IsTrip(p, m, stops, from, T)
           S == {p \in Simple(v) : Told(p)}
<1>1. Sound /\ pc = "ready" /\ v \in Nodes
  BY ServedFacts DEF Served
<1>2. << >> \in S
  <2>1. << >> \in Simple(v) /\ EndOf(v, << >>) = v
    BY <1>1, SimplePaths, EmptyPath DEF Simple
  <2> DEFINE stops == [k \in Nat |-> from]
  <2>2. stops \in [Nat -> Mentioned] /\ stops[1] = from /\ stops[0 + 1] = from
    OBVIOUS
  <2> HIDE DEF stops
  <2>3. Weight(<< >>) = 0 /\ 0 \in T[0][from]
    BY WeightEmpty DEF TravelRows, NoTravel
  <2>4. Arrived(<< >>, 0, stops, from, T)
    BY <2>1, <2>2, <2>3 DEF Arrived
  <2>5. IsTrip(<< >>, 0, stops, from, T)
    BY <2>2, <2>4 DEF IsTrip, Legs
  <2>6. 0 \in 0 .. N
    OBVIOUS
  <2> QED
    BY <2>1, <2>2, <2>5, <2>6
<1>3. ASSUME NEW p \in S, NEW id \in EdgeIds(graph_),
             id \in IncidentEdges(graph_, EndOf(v, p)),
             graph_.edges[id].to \notin VisitedBy(v, p)
      PROVE  Append(p, id) \in S
  <2>1. p \in Simple(v) /\ graph_.edges[id].from = EndOf(v, p)
    BY <1>3 DEF IncidentEdges
  <2>2. Append(p, id) \in Simple(v)
    BY <1>1, <1>3, <2>1, OneEdgeMore
  <2>3. PICK m \in 0 .. N, stops \in [Nat -> Mentioned] : IsTrip(p, m, stops, from, T)
    BY <1>3
  <2>4. m \in Nat /\ m <= N
    OBVIOUS
  <2>5. CASE Arrived(p, m, stops, from, T)
    <3>1. IsTrip(Append(p, id), m, stops, from, T)
      BY <1>3, <2>1, <2>3, <2>4, <2>5, BoardTrip
    <3> QED
      BY <2>2, <3>1
  <2>6. CASE Boarded(p, m, stops, from, T)
    <3>1. /\ m + 1 <= N
          /\ \E stops2 \in [Nat -> Mentioned] :
               IsTrip(Append(p, id), m + 1, stops2, from, T)
      BY <1>3, <2>1, <2>3, <2>4, <2>6, RideTrip
    <3>2. m + 1 \in 0 .. N
      BY <2>4, <3>1
    <3> QED
      BY <2>2, <3>1, <3>2
  <2> QED
    BY <2>3, <2>5, <2>6 DEF IsTrip
<1> HIDE DEF S
<1>4. Simple(v) \subseteq S
  BY <1>1, <1>2, <1>3, SimplePathsInduct DEF Simple
<1> QED
  BY <1>4 DEF S

\* The items of a reply are those of the path, as the planner lists them.
Items(p) == [n \in 1 .. Len(p) |-> GetItem(graph_.edges[p[n]])]

LEMMA ItemsType ==
  ASSUME Served, NEW p \in Seq(EdgeIds(graph_))
  PROVE  Items(p) \in Seq(Item) /\ Len(Items(p)) = Len(p)
<1>1. ASSUME NEW id \in EdgeIds(graph_)
      PROVE  GetItem(graph_.edges[id]) \in Item
  <2>1. CASE \E s \in stop_index_ : WaitEdge(id, s)
    <3>1. PICK s \in Mentioned : WaitEdge(id, s)
      BY <2>1, ServedFacts
    <3>2. GetItem(graph_.edges[id]) = Planner!Wait(s) /\ s \in StopName
      BY <3>1, WaitItems, ServedFacts
    <3>3. Planner!Wait(s) \in [type : {"Wait"}, stop_name : StopName, time : {wait_time_}]
      BY <3>2 DEF Planner!Wait
    <3> QED
      BY <3>2, <3>3 DEF Item
  <2>2. CASE \E ride \in Timetable(Fleet) : RideOf(id, ride)
    <3>1. PICK ride \in Timetable(Fleet) : RideOf(id, ride)
      BY <2>2
    <3>2. GetItem(graph_.edges[id]) = Planner!Ride(ride)
      BY <3>1, RideItems
    <3>3. /\ ride.weight.time \in Duration /\ ride.weight.span \in Nat
          /\ ride.weight.route \in BusName
      BY GraphIsTimetable DEF Served
    <3>4. Planner!Ride(ride)
            \in [type : {"Bus"}, bus : BusName, time : Duration, span_count : Nat]
      BY <3>3 DEF Planner!Ride
    <3> QED
      BY <3>2, <3>4 DEF Item
  <2> QED
    BY <2>1, <2>2, GraphIsTimetable DEF Served
<1>2. \A n \in 1 .. Len(p) : p[n] \in EdgeIds(graph_)
  OBVIOUS
<1>3. \A n \in 1 .. Len(p) : Items(p)[n] \in Item
  BY <1>1, <1>2 DEF Items
<1>4. Len(p) \in Nat
  OBVIOUS
<1>5. Items(p) \in [1 .. Len(p) -> Item]
  BY <1>3 DEF Items
<1> HIDE DEF Items
<1> QED
  BY <1>4, <1>5

LEMMA ItemsTime ==
  ASSUME Served, NEW p \in Seq(EdgeIds(graph_))
  PROVE  Planner!TotalTime(Items(p)) = Weight(p)
<1> DEFINE n == Len(p)
           time(k) == Items(p)[k].time
           S(f) == f = [k \in 0 .. n |-> IF k = 0 THEN 0 ELSE Later(f[k - 1], time(k))]
           total == CHOOSE f : S(f)
           part == [k \in 0 .. n |-> Weight(SubSeq(p, 1, k))]
<1>1. n \in Nat /\ Len(Items(p)) = n
  BY ItemsType
<1>2. \A k \in 1 .. n : p[k] \in EdgeIds(graph_) /\ time(k) = Time(p[k])
  <2> TAKE k \in 1 .. n
  <2>1. GetItem(graph_.edges[p[k]]).time = graph_.edges[p[k]].weight.time
    BY DEF GetItem, WaitItem, BusItem
  <2> QED
    BY <2>1 DEF Items, Time
<1>3. Planner!TotalTime(Items(p)) = total[n]
  BY <1>1 DEF Planner!TotalTime, Planner!Later, Later
<1> HIDE DEF time
\* The weights of the parts the path begins with solve the recursion.
<1>4. part[0] = 0
  <2>1. SubSeq(p, 1, 0) = << >>
    BY SubSeqEmpty
  <2>2. Weight(SubSeq(p, 1, 0)) = 0
    BY <2>1, WeightEmpty
  <2>3. 0 \in 0 .. n
    BY <1>1
  <2> QED
    BY <2>2, <2>3
<1>5. ASSUME NEW k \in 1 .. n
      PROVE  part[k] = Later(part[k - 1], time(k))
  <2>1. PICK q : q = SubSeq(p, 1, k - 1)
    OBVIOUS
  <2>2. q \in Seq(EdgeIds(graph_))
    <3>1. k - 1 \in Int /\ \A i \in 1 .. k - 1 : p[i] \in EdgeIds(graph_)
      BY <1>1, <1>2
    <3> QED
      BY <2>1, <3>1, SubSeqProperties
  <2>3. SubSeq(p, 1, k) = q \o <<p[k]>>
    <3>1. 1 \in 1 .. Len(p) /\ k \in 1 .. Len(p)
      BY <1>1
    <3> QED
      BY <2>1, <3>1, SubSeqRecursiveSecond
  <2>4. q \o <<p[k]>> = Append(q, p[k])
    BY <1>2, <2>2
  <2>5. Weight(SubSeq(p, 1, k)) = Later(Weight(q), Time(p[k]))
    BY <1>2, <2>2, <2>3, <2>4, PathTimeLast DEF Served, Weight
  <2>6. k \in 0 .. n /\ k - 1 \in 0 .. n
    BY <1>1
  <2> QED
    BY <1>2, <2>1, <2>5, <2>6
<1>6. part[n] = Weight(p)
  <2>1. SubSeq(p, 1, n) = p /\ n \in 0 .. n
    BY <1>1, SubSeqFull
  <2> QED
    BY <2>1
<1>7. S(part)
  <2>1. \A k \in 0 .. n : k # 0 => k \in 1 .. n
    BY <1>1
  <2>2. \A k \in 0 .. n : part[k] = IF k = 0 THEN 0 ELSE Later(part[k - 1], time(k))
    BY <1>4, <1>5, <2>1
  <2>3. part = [k \in 0 .. n |-> part[k]]
    OBVIOUS
  <2> HIDE DEF part, n
  <2> QED
    BY <2>2, <2>3
<1> HIDE DEF part, n
<1>8. S(total)
  BY <1>7
<1> HIDE DEF total
<1>9. /\ total[0] = 0
      /\ \A k \in 1 .. n : total[k] = Later(total[k - 1], time(k))
  <2>1. 0 \in 0 .. n /\ \A k \in 1 .. n : k \in 0 .. n /\ k # 0
    BY <1>1
  <2> QED
    BY <1>8, <2>1
<1> HIDE DEF S
<1> DEFINE Same == {k \in Nat : k <= n => total[k] = part[k]}
<1>10. 0 \in Same
  BY <1>4, <1>9
<1>11. ASSUME NEW k \in Nat, k \in Same
       PROVE  k + 1 \in Same
  <2> SUFFICES ASSUME k + 1 <= n PROVE total[k + 1] = part[k + 1]
    OBVIOUS
  <2>1. PICK l : l = k + 1
    OBVIOUS
  <2>2. l \in 1 .. n /\ l - 1 = k /\ k <= n
    BY <1>1, <2>1
  <2>3. total[l] = Later(total[k], time(l)) /\ part[l] = Later(part[k], time(l))
    BY <1>5, <1>9, <2>2
  <2> QED
    BY <1>11, <2>1, <2>2, <2>3
<1> HIDE DEF Same
<1>12. n \in Same
  BY <1>1, <1>10, <1>11, StepByStep
<1> QED
  BY <1>1, <1>3, <1>6, <1>12 DEF Same

LEMMA ItemsOfTrip ==
  ASSUME Served, NEW from \in Mentioned, NEW T, NEW p \in Seq(EdgeIds(graph_)),
         NEW m \in Nat, NEW stops \in [Nat -> Mentioned],
         IsTrip(p, m, stops, from, T), Arrived(p, m, stops, from, T)
  PROVE  Planner!Itinerary(Fleet, Items(p), from, stops[m + 1])
<1> DEFINE to == stops[m + 1]
           stop(k) == IF k = m + 1 THEN to ELSE Items(p)[2 * k - 1].stop_name
<1>1. Len(Items(p)) = 2 * m /\ Len(p) = 2 * m /\ (2 * m) \div 2 = m
  BY ItemsType DEF Arrived
<1>2. ASSUME NEW k \in 1 .. m
      PROVE  /\ Items(p)[2 * k - 1] = Planner!Wait(stops[k])
             /\ \E ride \in Timetable(Fleet) :
                  /\ ride.from = stops[k] /\ ride.to = stops[k + 1]
                  /\ Items(p)[2 * k] = Planner!Ride(ride)
             /\ stop(k) = stops[k]
  <2>1. 2 * k - 1 \in 1 .. Len(p) /\ 2 * k \in 1 .. Len(p) /\ k # m + 1
    BY <1>1
  <2>2. /\ Items(p)[2 * k - 1] = GetItem(graph_.edges[p[2 * k - 1]])
        /\ Items(p)[2 * k] = GetItem(graph_.edges[p[2 * k]])
    BY <2>1 DEF Items
  <2>3. Leg(p, k, stops)
    BY DEF IsTrip, Legs
  <2>4. Items(p)[2 * k - 1].stop_name = stops[k]
    BY <2>2, <2>3 DEF Leg, Planner!Wait
  <2> QED
    BY <2>1, <2>2, <2>3, <2>4 DEF Leg
<1> HIDE DEF to
<1>3. \A k \in 1 .. m + 1 : stop(k) = stops[k]
  <2>1. \A k \in 1 .. m + 1 : k \in 1 .. m \/ k = m + 1
    OBVIOUS
  <2> QED
    BY <1>2, <2>1 DEF to
<1> HIDE DEF stop
<1>4. stop(1) = from
  <2>1. 1 \in 1 .. m + 1
    OBVIOUS
  <2> QED
    BY <1>3, <2>1 DEF IsTrip
<1>5. ASSUME NEW k \in 1 .. m
      PROVE  /\ Items(p)[2 * k - 1] = Planner!Wait(stop(k))
             /\ \E ride \in Timetable(Fleet) :
                  /\ ride.from = stop(k) /\ ride.to = stop(k + 1)
                  /\ Items(p)[2 * k] = Planner!Ride(ride)
  <2>1. k \in 1 .. m + 1 /\ k + 1 \in 1 .. m + 1
    OBVIOUS
  <2> QED
    BY <1>2, <1>3, <2>1
<1>6. Planner!Itinerary(Fleet, Items(p), from, to)
  <2> DEFINE at(items, n, k) == IF k = n + 1 THEN to ELSE items[2 * k - 1].stop_name
             Leaves(items, n, k) ==
               \E ride \in Planner!Timetable(Fleet) :
                 /\ ride.from = at(items, n, k) /\ ride.to = at(items, n, k + 1)
                 /\ items[2 * k] = Planner!Ride(ride)
             Turns(items, n) ==
               /\ Len(items) = 2 * n
               /\ at(items, n, 1) = from
               /\ \A k \in 1 .. n :
                    items[2 * k - 1] = Planner!Wait(at(items, n, k)) /\ Leaves(items, n, k)
  <2>1. \A items : Planner!Itinerary(Fleet, items, from, to)
                     <=> Turns(items, Len(items) \div 2)
    BY Zenon DEF Planner!Itinerary
  <2>2. \A k : at(Items(p), m, k) = stop(k)
    BY DEF stop
  <2>3. \A k \in 1 .. m : Leaves(Items(p), m, k)
    BY <1>5, <2>2, SameTimetable
  <2> HIDE DEF Leaves, at
  <2>4. Turns(Items(p), m)
    BY <1>1, <1>4, <1>5, <2>2, <2>3
  <2> HIDE DEF Turns
  <2> QED
    BY <1>1, <2>1, <2>4
<1> QED
  BY <1>6 DEF to

LEMMA ArrivalTime ==
  ASSUME Served, NEW from \in Mentioned, NEW to \in Mentioned,
         NEW N \in Nat, N = Cardinality(Mentioned), NEW T, TravelRows(T, from, N),
         NEW p \in Simple(Waiting(from)), EndOf(Waiting(from), p) = Waiting(to)
  PROVE  /\ Weight(p) \in T[N][to]
         /\ Planner!Itinerary(Fleet, Items(p), from, to)
<1>1. /\ RidesKnown
      /\ \A s \in Mentioned : Waiting(s) \in Nodes
      /\ \A s, t \in Mentioned : /\ Waiting(s) = Waiting(t) => s = t
                                 /\ Waiting(s) # OnBoard(t)
  BY ServedFacts
<1>2. p \in Seq(EdgeIds(graph_))
  BY <1>1, SimplePathFacts
<1>3. PICK m \in 0 .. N : \E stops \in [Nat -> Mentioned] : IsTrip(p, m, stops, from, T)
  BY PathsAreTrips
<1>4. PICK stops \in [Nat -> Mentioned] : IsTrip(p, m, stops, from, T)
  BY <1>3
<1>5. m \in Nat /\ m + 1 \in Nat
  BY <1>3
<1>6. stops[m + 1] \in Mentioned
  BY <1>5
<1>7. Arrived(p, m, stops, from, T)
  BY <1>1, <1>4, <1>6 DEF IsTrip, Boarded
<1>8. stops[m + 1] = to
  BY <1>1, <1>6, <1>7 DEF Arrived
<1>9. Weight(p) \in T[m][to]
  BY <1>7, <1>8 DEF Arrived
<1>10. Weight(p) \in T[N][to]
  BY <1>1, <1>3, <1>9, TravelTimesKept
<1>11. Planner!Itinerary(Fleet, Items(p), from, stops[m + 1])
  BY <1>2, <1>4, <1>5, <1>7, ItemsOfTrip
<1> QED
  BY <1>8, <1>10, <1>11

\* CheapestPaths has the paths of least weight, if there are paths.
LEMMA CheapestFacts ==
  ASSUME Served, NEW from \in Mentioned, NEW to \in Mentioned,
         NEW pair, pair = <<from, to>>
  PROVE  /\ \A p \in CheapRoutes(pair) :
              /\ p \in Simple(Waiting(from)) /\ EndOf(Waiting(from), p) = Waiting(to)
              /\ \A q \in Simple(Waiting(from)) :
                   EndOf(Waiting(from), q) = Waiting(to) => NoLater(Weight(p), Weight(q))
         /\ \A q \in Simple(Waiting(from)) :
              EndOf(Waiting(from), q) = Waiting(to) => CheapRoutes(pair) # {}
<1> DEFINE src == Waiting(from)
           paths == {p \in Simple(src) : EndOf(src, p) = Waiting(to)}
<1>1. src \in Nodes
  BY ServedFacts
<1>2. \A p \in Simple(src) : IsPath(graph_, p, src, EndOf(src, p)) /\ Weight(p) \in Duration
  BY <1>1, SimplePathFacts
<1> HIDE DEF src
<1>3. \A p \in Simple(src) :
        IsPath(graph_, p, src, Waiting(to)) <=> EndOf(src, p) = Waiting(to)
  <2> TAKE p \in Simple(src)
  <2>1. IsPath(graph_, p, src, Waiting(to)) => EndOf(src, p) = Waiting(to)
    BY DEF IsPath, EndOf
  <2> QED
    BY <1>2, <2>1
<1>4. CheapRoutes(pair)
        = {p \in paths : \A q \in paths : NoLater(Weight(p), Weight(q))}
  <2>1. {p \in SimplePathsFrom(graph_, src) : IsPath(graph_, p, src, Waiting(to))} = paths
    BY <1>3 DEF Simple
  <2>2. CheapRoutes(pair) = CheapestPaths(graph_, src, Waiting(to))
    BY DEF CheapRoutes, src
  <2> HIDE DEF paths
  <2> QED
    BY <2>1, <2>2 DEF CheapestPaths, Weight
<1>5. ASSUME NEW q \in Simple(src), EndOf(src, q) = Waiting(to)
      PROVE  CheapRoutes(pair) # {}
  <2> DEFINE weights == {Weight(p) : p \in paths}
  <2>1. weights \subseteq Duration /\ weights # {}
    BY <1>2, <1>5
  <2>2. PICK w \in weights : \A v \in weights : NoLater(w, v)
    BY <2>1, LeastTime
  <2>3. PICK p \in paths : w = Weight(p)
    BY <2>2
  <2>4. \A r \in paths : NoLater(Weight(p), Weight(r))
    BY <2>2, <2>3
  <2> HIDE DEF paths
  <2> QED
    BY <1>4, <2>3, <2>4
<1> QED
  BY <1>4, <1>5 DEF src

LEMMA RouteIsRight ==
  ASSUME Served, NEW from \in Mentioned, NEW to \in Mentioned, NEW reply,
         NEW pair, pair = <<from, to>>,
         \/ CheapRoutes(pair) = {} /\ reply = NotFound
         \/ \E path \in CheapRoutes(pair) : reply = Plan(path)
  PROVE  Planner!RightRoute(Fleet, from, to, reply)
<1> DEFINE src == Waiting(from)
           N == Cardinality(Mentioned)
<1>1. RidesKnown /\ N \in Nat /\ src \in Nodes
  BY ServedFacts
<1>2. PICK T : TravelRows(T, from, N) /\ Planner!TravelTimes(Fleet, from, N) = T[N]
  BY <1>1, TravelRowsExist
<1> DEFINE times == T[N][to]
<1>3. Planner!TravelTimes(Fleet, from, Planner!Cardinality(Planner!Mentioned))[to] = times
  BY <1>2, SameTimetable, SameCardinality
<1>4. times \subseteq Duration
  <2>1. N \in 0 .. N
    BY <1>1
  <2>2. T[N] \in TimeRows
    BY <1>2, <2>1 DEF TravelRows
  <2> QED
    BY <2>2 DEF TimeRows
<1> HIDE DEF N, src
<1>5. \A p \in Simple(src) : EndOf(src, p) = Waiting(to) =>
        Weight(p) \in times /\ Planner!Itinerary(Fleet, Items(p), from, to)
  BY <1>1, <1>2, ArrivalTime DEF N, src
<1>6. \A t \in times : \E p \in Simple(src) :
        EndOf(src, p) = Waiting(to) /\ NoLater(Weight(p), t)
  <2>1. N \in 0 .. N
    BY <1>1
  <2> QED
    BY <1>1, <1>2, <2>1, PathForTravelTime DEF src
<1> HIDE DEF times
<1>7. CASE CheapRoutes(pair) = {} /\ reply = NotFound
  <2>1. times = {}
    BY <1>6, <1>7, CheapestFacts DEF src
  <2> QED
    BY <1>3, <1>7, <2>1 DEF Planner!RightRoute
<1>8. ASSUME NEW path \in CheapRoutes(pair), reply = Plan(path)
      PROVE  Planner!RightRoute(Fleet, from, to, reply)
  <2>1. /\ path \in Simple(src) /\ EndOf(src, path) = Waiting(to)
        /\ \A q \in Simple(src) :
             EndOf(src, q) = Waiting(to) => NoLater(Weight(path), Weight(q))
    BY CheapestFacts DEF src
  <2>2. path \in Seq(EdgeIds(graph_)) /\ Weight(path) \in Duration
    BY <1>1, <2>1, SimplePathFacts
  <2>3. Weight(path) \in times /\ Planner!Itinerary(Fleet, Items(path), from, to)
    BY <1>5, <2>1
  <2>4. \A t \in times : NoLater(Weight(path), t)
    <3> TAKE t \in times
    <3>1. PICK p \in Simple(src) : EndOf(src, p) = Waiting(to) /\ NoLater(Weight(p), t)
      BY <1>6
    <3>2. NoLater(Weight(path), Weight(p)) /\ Weight(p) \in Duration /\ t \in Duration
      BY <1>1, <1>4, <2>1, <3>1, SimplePathFacts
    <3> QED
      BY <2>2, <3>1, <3>2, NoLaterTransitive
  <2>5. \A t \in times : Planner!NoLater(Weight(path), t)
    BY <2>4 DEF Planner!NoLater, NoLater
  <2>6. Items(path) \in Seq(Item) /\ Planner!TotalTime(Items(path)) = Weight(path)
    BY <2>2, ItemsType, ItemsTime
  <2>7. reply = [items |-> Items(path), total_time |-> Weight(path)]
    BY <1>8 DEF Plan, Items, Weight
  <2>8. reply # NotFound
    BY <2>2, <2>6, <2>7, NotFoundAssumption
  <2> QED
    BY <1>3, <2>3, <2>5, <2>6, <2>7, <2>8 DEF Planner!RightRoute
<1> QED
  BY <1>7, <1>8

-----------------------------------------------------------------------------
(***************************************************************************)
(* Each step of the program is one of the planner's, or none.              *)
(***************************************************************************)
LEMMA FleetRuns ==
  ASSUME IndexHoldsRequests
  PROVE  Fleet \in Planner!Fleets
<1>1. ASSUME NEW q \in done \cap AddBusRequest
      PROVE  Planner!Cardinality({r \in Fleet : r.name = q.name}) = 1
  <2>1. q.name \in BusName /\ q \in BusRequests(q.name)
    BY BusRequestAssumption DEF BusRequests
  <2>2. bus_index_[q.name] \in BusRequests(q.name)
    BY <2>1 DEF IndexHoldsRequests
  <2>3. {r \in Fleet : r.name = q.name} = {bus_index_[q.name]}
    BY <2>2 DEF Fleet, BusRequests
  <2> QED
    BY <2>3, FS_Singleton, SameCardinality
<1>2. Fleet \in SUBSET (done \cap AddBusRequest)
  BY DEF Fleet
<1> QED
  BY <1>1, <1>2 DEF Planner!Fleets

LEMMA KnownStops ==
  ASSUME Sound, pc = "ready", NEW s \in StopName, IsKnown(s)
  PROVE  s \in Mentioned
<1>1. NumberInv /\ Visited = Mentioned
  BY DEF Sound, Managed, StopsKnownOnceMentioned, Visited
<1> QED
  BY <1>1 DEF NumberInv, Unnumbered, IsKnown, NodeType

\* The reply is a cheapest path, or there is none.
CheapReply(pair, reply) ==
  \/ CheapRoutes(pair) = {} /\ reply = NotFound
  \/ \E path \in CheapRoutes(pair) : reply = Plan(path)

LEMMA HeldReply ==
  ASSUME ReplyInv, NEW pair \in DOMAIN route_cache_, NEW reply, RouteReply(pair, reply)
  PROVE  /\ pair \in StopName \X StopName /\ IsKnown(pair[1]) /\ IsKnown(pair[2])
         /\ CheapReply(pair, reply)
<1>1. Cached(pair)
  BY DEF ReplyInv
<1>2. CASE route_cache_[pair] = {} /\ CheapRoutes(pair) = {}
  <2>1. \A id, path : ~ Stored(pair, id, path)
    BY <1>2 DEF Stored
  <2> QED
    BY <1>1, <1>2, <2>1 DEF RouteReply, Cached, CheapReply
<1>3. ASSUME NEW id, NEW path \in CheapRoutes(pair), Stored(pair, id, path)
      PROVE  CheapReply(pair, reply)
  <2>1. /\ route_cache_[pair] = {InfoOf(id, path)} /\ InfoOf(id, path).id = id
        /\ expanded_routes_cache_[id] = path
    BY <1>3 DEF Stored, InfoOf
  <2>2. PICK id2, path2 : Stored(pair, id2, path2) /\ reply = Plan(path2)
    BY <2>1 DEF RouteReply
  <2>3. /\ route_cache_[pair] = {InfoOf(id2, path2)} /\ InfoOf(id2, path2).id = id2
        /\ expanded_routes_cache_[id2] = path2
    BY <2>2 DEF Stored, InfoOf
  <2>4. path2 = path
    BY <2>1, <2>3
  <2> QED
    BY <2>2, <2>4 DEF CheapReply
<1> QED
  BY <1>1, <1>2, <1>3 DEF Cached, CheapReply

LEMMA RightBusReply ==
  ASSUME Sound, NoRepeatedStop, NEW q \in ReadRequest, q.type = "Bus"
  PROVE  Planner!RightReply(q, BusAnswer(q.name))
<1>1. q.name \in BusName
  BY RequestTypes
<1> DEFINE b == q.name
           reply == BusAnswer(b)
<1>2. IF BusRequests(b) = {}
        THEN reply = NotFound
        ELSE \E r \in BusRequests(b) :
               reply = [stop_count |-> Len(Trip(r)),
                        unique_stop_count |-> Cardinality(Route(r)),
                        route_length |-> Total(Road, Trip(r), 1, Len(Trip(r))),
                        geom_length |-> Total(Flight, Trip(r), 1, Len(Trip(r)))]
  BY <1>1, BusIsRight
<1> HIDE DEF b, reply
<1>3. Planner!RightBus(b, reply)
  <2>1. CASE BusRequests(b) = {}
    BY <1>2, <2>1, SameTimetable DEF Planner!RightBus
  <2>2. ASSUME NEW r \in BusRequests(b),
               reply = [stop_count |-> Len(Trip(r)),
                        unique_stop_count |-> Cardinality(Route(r)),
                        route_length |-> Total(Road, Trip(r), 1, Len(Trip(r))),
                        geom_length |-> Total(Flight, Trip(r), 1, Len(Trip(r)))]
        PROVE  Planner!RightBus(b, reply)
    <3>1. /\ Planner!Trip(r) = Trip(r) /\ r \in Planner!BusRequests(b)
          /\ Planner!Cardinality(Planner!Route(r)) = Cardinality(Route(r))
          /\ Planner!Total(Planner!Road, Trip(r), 1, Len(Trip(r)))
               = Total(Road, Trip(r), 1, Len(Trip(r)))
          /\ Planner!Total(Planner!Flight, Trip(r), 1, Len(Trip(r)))
               = Total(Flight, Trip(r), 1, Len(Trip(r)))
      BY <2>2, SameTimetable, SameCardinality
    <3> QED
      BY <2>2, <3>1 DEF Planner!RightBus
  <2> QED
    BY <1>2, <2>1, <2>2
<1> QED
  BY <1>3 DEF Planner!RightReply, b, reply

LEMMA RightStopReply ==
  ASSUME Sound, ListedOrDangling, NEW q \in ReadRequest, q.type = "Stop",
         ~ (q.name \in stop_index_ /\ Dangling(q.name))
  PROVE  Planner!RightReply(q, StopAnswer(q.name))
<1>1. q.name \in StopName
  BY RequestTypes
<1> DEFINE s == q.name
           reply == StopAnswer(s)
<1>2. IF s \notin Mentioned
        THEN reply = NotFound
        ELSE reply = {r.name : r \in {p \in done \cap AddBusRequest : s \in Route(p)}}
  BY <1>1, StopIsRight
<1> HIDE DEF s, reply
<1>3. {p \in done \cap AddBusRequest : s \in Planner!Route(p)}
        = {p \in done \cap AddBusRequest : s \in Route(p)}
  BY SameTimetable
<1>4. Planner!RightStop(s, reply)
  BY <1>2, <1>3, SameTimetable DEF Planner!RightStop
<1> QED
  BY <1>4 DEF Planner!RightReply, s, reply

LEMMA RightRouteReply ==
  ASSUME Served, NEW q \in ReadRequest, q.type = "Route",
         IsKnown(q.from), IsKnown(q.to),
         NEW pair, pair = <<q.from, q.to>>, NEW reply, CheapReply(pair, reply)
  PROVE  Planner!RightReply(q, reply)
<1>1. /\ q.from \in StopName /\ q.to \in StopName
      /\ Sound /\ pc = "ready" /\ IndexHoldsRequests
  BY RequestTypes DEF Served, Sound
<1>2. q.from \in Mentioned /\ q.to \in Mentioned
  BY <1>1, KnownStops
<1>3. Planner!RightRoute(Fleet, q.from, q.to, reply)
  BY <1>2, RouteIsRight DEF CheapReply
<1>4. Fleet \in Planner!Fleets /\ {q.from, q.to} \subseteq Planner!Mentioned
  BY <1>1, <1>2, FleetRuns, SameTimetable
<1> QED
  BY <1>3, <1>4 DEF Planner!RightReply

\* An answer that is right, and the same as before, is a step of the planner.
LEMMA AnswerStep ==
  ASSUME pc = "ready", pc' = "ready", UNCHANGED done, CacheInv, ReplyInv,
         NEW q \in ReadRequest, NEW reply,
         Reply(q, reply), Planner!RightReply(q, reply),
         \A x : AnswersRequest(q, x) => x = reply
  PROVE  Planner!Answer(q)
<1> DEFINE a == [request |-> q, reply |-> reply]
<1>1. answers' = Append(answers, a)
  BY DEF Reply
<1>2. a.request = q /\ a.reply = reply
  OBVIOUS
<1>3. ASSUME NEW n \in DOMAIN answers, answers[n].request = q
      PROVE  answers[n].reply = reply
  <2>1. PICK p, r : answers[n] = [request |-> p, reply |-> r] /\ AnswersRequest(p, r)
    BY DEF ReplyInv
  <2>2. p = q /\ answers[n].reply = r
    BY <1>3, <2>1
  <2> QED
    BY <2>1, <2>2
<1> HIDE DEF a
<1>4. a \in Planner!Range(answers')
  <2>1. \E n \in DOMAIN Append(answers, a) : Append(answers, a)[n] = a
    BY AppendGrows DEF CacheInv
  <2> QED
    BY <1>1, <2>1 DEF Planner!Range
<1> QED
  BY <1>1, <1>2, <1>3, <1>4 DEF Planner!Answer

LEMMA ReadIsAnswered ==
  ASSUME Served, CacheInv, ReplyInv, ListedOrDangling,
         NEW q \in ReadRequest, Read(q)
  PROVE  Planner!Answer(q) \/ UNCHANGED Planner!serviceVars
<1>1. CASE GetBusInfo(q)
  <2>1. /\ pc = "ready" /\ pc' = "ready" /\ UNCHANGED done /\ q.type = "Bus"
        /\ Reply(q, BusAnswer(q.name))
    BY <1>1 DEF GetBusInfo, Reading, managerVars, vars, graphVars
  <2>2. \A x : AnswersRequest(q, x) => x = BusAnswer(q.name)
    BY <2>1 DEF AnswersRequest
  <2> QED
    BY <2>1, <2>2, RightBusReply, AnswerStep DEF Served
<1>2. CASE GetStopInfo(q)
  <2>1. pc = "ready" /\ q.type = "Stop"
    BY <1>2 DEF GetStopInfo, Reading
  <2>2. CASE q.name \in stop_index_ /\ Dangling(q.name)
    <3>1. pc' = "undefined" /\ UNCHANGED <<done, answers>>
      BY <1>2, <2>2 DEF GetStopInfo, Undefined, vars
    <3> QED
      BY <2>1, <3>1 DEF Planner!serviceVars
  <2>3. CASE ~ (q.name \in stop_index_ /\ Dangling(q.name))
    <3>1. pc' = "ready" /\ UNCHANGED done /\ Reply(q, StopAnswer(q.name))
      BY <1>2, <2>1, <2>3 DEF GetStopInfo, managerVars, vars, graphVars
    <3>2. \A x : AnswersRequest(q, x) => x = StopAnswer(q.name)
      BY <2>1 DEF AnswersRequest
    <3> QED
      BY <2>1, <2>3, <3>1, <3>2, RightStopReply, AnswerStep DEF Served
  <2> QED
    BY <2>2, <2>3
<1>3. CASE GetCachedRoute(q)
  <2>1. PICK pair : pair = <<q.from, q.to>>
    OBVIOUS
  <2>2. PICK reply : reply = RouteAnswer(route_cache_[pair], expanded_routes_cache_)
    OBVIOUS
  <2>3. /\ pc = "ready" /\ pc' = "ready" /\ UNCHANGED done /\ q.type = "Route"
        /\ pair \in DOMAIN route_cache_ /\ Reply(q, reply)
    BY <1>3, <2>1, <2>2 DEF GetCachedRoute, Reading, managerVars, vars, graphVars
  <2>4. RouteReply(pair, reply)
    BY <2>2, <2>3, CachedReply
  <2>5. IsKnown(pair[1]) /\ IsKnown(pair[2]) /\ CheapReply(pair, reply)
    BY <2>3, <2>4, HeldReply
  <2>6. Planner!RightReply(q, reply)
    BY <2>1, <2>3, <2>5, RightRouteReply
  <2>7. AnswersRequest(q, reply)
    BY <2>1, <2>3, <2>4 DEF AnswersRequest
  <2>8. \A x : AnswersRequest(q, x) => x = reply
    BY <2>7, OneAnswer
  <2> QED
    BY <2>3, <2>6, <2>8, AnswerStep
\* A question the cache has no answer to was never answered.
<1>4. ASSUME FindNoRoute(q) \/ BuildNewRoute(q)
      PROVE  Planner!Answer(q)
  <2>1. PICK pair : pair = <<q.from, q.to>>
    OBVIOUS
  <2>2. NewRoute(q) /\ IsKnown(q.from) /\ IsKnown(q.to)
        /\ UNCHANGED managerVars
    BY <1>4 DEF FindNoRoute, BuildNewRoute
  <2>3. /\ pc = "ready" /\ q.type = "Route" /\ pair \notin DOMAIN route_cache_
        /\ Paths(q) = CheapRoutes(pair)
    BY <2>1, <2>2, NewQuestion
  <2>4. pc' = "ready" /\ UNCHANGED done
    BY <2>2, <2>3 DEF managerVars, vars, graphVars
  <2>5. \A x : ~ AnswersRequest(q, x)
    BY <2>1, <2>3 DEF AnswersRequest
  <2>6. PICK reply : Reply(q, reply) /\ CheapReply(pair, reply)
    <3>1. CASE FindNoRoute(q)
      BY <2>3, <3>1 DEF FindNoRoute, CheapReply
    <3>2. CASE BuildNewRoute(q)
      <4>1. PICK path \in CheapRoutes(pair) : StoreRoute(q, path)
        BY <2>3, <3>2 DEF BuildNewRoute
      <4>2. PICK id : id = next_route_id_
        OBVIOUS
      <4>3. PICK expanded : expanded = expanded_routes_cache_'
        OBVIOUS
      <4>4. Reply(q, RouteAnswer({InfoOf(id, path)}, expanded))
        BY <4>1, <4>2, <4>3 DEF StoreRoute, InfoOf
      <4>5. expanded[id] = path
        BY <4>1, <4>2, <4>3 DEF StoreRoute
      <4>6. RouteAnswer({InfoOf(id, path)}, expanded) = Plan(path)
        BY <4>5, PlanOfRoute
      <4> QED
        BY <4>1, <4>4, <4>6 DEF CheapReply
    <3> QED
      BY <1>4, <3>1, <3>2
  <2>7. Planner!RightReply(q, reply)
    BY <2>1, <2>2, <2>3, <2>6, RightRouteReply
  <2> QED
    BY <2>3, <2>4, <2>5, <2>6, <2>7, AnswerStep
<1>5. CASE BuildUnknownRoute(q)
  <2>1. pc = "ready" /\ pc' = "undefined" /\ UNCHANGED <<done, answers>>
    BY <1>5 DEF BuildUnknownRoute, NewRoute, Reading, Undefined, vars
  <2> QED
    BY <2>1 DEF Planner!serviceVars
<1> QED
  BY <1>1, <1>2, <1>3, <1>4, <1>5 DEF Read

LEMMA ManageIsPlanned ==
  ASSUME Manage
  PROVE  \/ \E r \in AddStopRequest \cup AddBusRequest : Planner!Submit(r)
         \/ Planner!Open
         \/ UNCHANGED Planner!serviceVars
<1>1. UNCHANGED answers /\ ManagerNext
  BY DEF Manage
<1>2. CASE ProcessModifyRequest
  <2>1. pc = "requests" /\ pc' = "requests" /\ Next
    BY <1>2 DEF ProcessModifyRequest, graphVars
  <2>2. PICK r \in AddStopRequest \cup AddBusRequest : r \notin done /\ done' = done \cup {r}
    BY <2>1 DEF Next, AddBus, AddStop
  <2>3. Planner!Submit(r)
    BY <1>1, <2>1, <2>2 DEF Planner!Submit
  <2> QED
    BY <2>3
<1>3. CASE EmplaceRouter
  <2>1. pc = "buses" /\ pc' \in {"ready", "aborted"} /\ UNCHANGED done
    BY <1>3 DEF EmplaceRouter, vars
  <2> QED
    BY <1>1, <2>1 DEF Planner!Open, Planner!serviceVars
<1>4. CASE InitializeRouter \/ (\E s \in StopName : NumberStop(s)) \/ CreateGraph
             \/ (\E b \in BusName : AddBusEdges(b))
  <2>1. /\ pc \notin {"ready", "undefined"} /\ pc' \notin {"ready", "undefined"}
        /\ UNCHANGED done
    BY <1>4 DEF InitializeRouter, NumberStop, CreateGraph, AddBusEdges, vars
  <2> QED
    BY <1>1, <2>1 DEF Planner!serviceVars
<1> QED
  BY <1>1, <1>2, <1>3, <1>4 DEF ManagerNext

\* Input whose answers do not depend on its order: one request for each stop.
ProperInput == GraphBuilt => NoRepeatedStop

\* Every answer of the program, to any input like that, follows from the base
\* requests as TripPlanner says: a bus has the lengths of its trip, a stop the
\* buses that call at it, and a route is a quickest itinerary of the timetable
\* (BusManagerWithRouter, GetBusInfoRequest, GetStopInfoRequest,
\* GetRouteInfoRequest, RouteInterpreter). Where the router does not take a wait
\* or a ride, because it is negative or a NaN, nothing is answered; at the velocity 0
\* every ride takes forever, and so do the itineraries with one.
THEOREM ProgramAnswersRight == ReadSpec /\ []ProperInput => PlansTrips
<1>1. ReadInit => Planner!Init
  BY DEF ReadInit, ManagerInit, Init, Planner!Init
<1>2. ASSUME Sound, CacheInv, ReplyInv, ListedOrDangling, ProperInput,
             [ReadNext]_readVars
      PROVE  [Planner!Next]_(Planner!serviceVars)
  <2>1. CASE Manage
    BY <2>1, ManageIsPlanned DEF Planner!Next
  <2>2. ASSUME NEW q \in ReadRequest, Read(q)
        PROVE  [Planner!Next]_(Planner!serviceVars)
    <3>1. pc = "ready"
      BY <2>2 DEF Read, GetBusInfo, GetStopInfo, GetCachedRoute, FindNoRoute,
                  BuildNewRoute, BuildUnknownRoute, NewRoute, Reading
    <3>2. Served
      BY <1>2, <3>1 DEF ProperInput, GraphBuilt, Served
    <3> QED
      BY <1>2, <2>2, <3>2, ReadIsAnswered DEF Planner!Next
  <2>3. CASE UNCHANGED readVars
    BY <2>3 DEF readVars, managerVars, vars, graphVars, Planner!serviceVars
  <2> QED
    BY <1>2, <2>1, <2>2, <2>3 DEF ReadNext
<1>3. ReadSpec => []ListedOrDangling
  BY ReadsKeepCatalogue, StopsListOrDangle, PTL
<1> QED
  BY <1>1, <1>2, <1>3, ReplyInvariant, PTL DEF ReadSpec, PlansTrips, Planner!Spec

=============================================================================
