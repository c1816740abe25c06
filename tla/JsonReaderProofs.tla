-------------------------- MODULE JsonReaderProofs --------------------------
(***************************************************************************)
(* Json::Load reads what Json::Print has written, proved for every set of  *)
(* documents, every number of digits and every depth.                      *)
(*                                                                         *)
(* Where the text of a node stands is a fact about the file (Occurs), and  *)
(* the text of an array or a map is put together from rows, one item       *)
(* longer each (RowOf).  So wherever the reader is there is a chain of     *)
(* nodes of the document, one for each call that has not returned          *)
(* (Inside), and each call holds the items of its node that are behind     *)
(* the stream (Taken).  The invariant (ReadsInv) says that; the lemmas     *)
(* before it say what one step of the stream, of LoadDouble, LoadString,   *)
(* LoadBool and of a loop does where the text of a node stands.            *)
(*                                                                         *)
(* The documents are the plain ones (PlainDocuments): strings without      *)
(* quotes, numbers that are printed with all their digits and without an   *)
(* exponent, no deeper than Depth.  With others the file is read as        *)
(* something else, as a run shows.                                         *)
(***************************************************************************)
EXTENDS JsonReader, GraphProofs, SequenceTheorems

-----------------------------------------------------------------------------
(***************************************************************************)
(* Numbers and their digits.                                               *)
(***************************************************************************)
\* The equations of the powers of ten that the printer shifts a magnitude by.
LEMMA PowerSteps ==
  /\ Power[0] = 1
  /\ \A n \in Nat : Power[n + 1] = 10 * Power[n]
  /\ \A n \in Nat : Power[n] \in Nat \ {0}
<1> DEFINE Steps(f) == f[0] = 1 /\ \A n \in Nat : f[n + 1] = 10 * f[n]
           IsPower(f) == f = [digits \in Nat |-> IF digits = 0 THEN 1 ELSE 10 * f[digits - 1]]
           op == [m \in Nat |-> [x \in Nat |-> 10 * x]]
           Upto(f, n) == f \in [0 .. n -> Nat] /\ Stepwise(f, 1, op, 0, n)
           some == [n \in Nat |-> CHOOSE f : Upto(f, n)]
           g == [n \in Nat |-> some[n][n]]
<1>1. ASSUME NEW n \in Nat
      PROVE  Upto(some[n], n)
  <2>1. StepsWithin(op, Nat, 0, n)
    BY DEF StepsWithin
  <2>2. 0 <= n /\ 0 \in Nat /\ 1 \in Nat
    OBVIOUS
  <2> HIDE DEF op
  <2>3. \E f : Upto(f, n)
    BY <2>1, <2>2, Recursion
  <2> HIDE DEF Upto
  <2> QED
    BY <2>3
<1>2. ASSUME NEW n \in Nat
      PROVE  g[n] \in Nat
  <2>1. Upto(some[n], n) /\ n \in 0 .. n /\ g[n] = some[n][n]
    <3> HIDE DEF Upto
    <3> QED
      BY <1>1
  <2> HIDE DEF some, g
  <2> QED
    BY <2>1
<1>3. g[0] = 1
  <2>1. Upto(some[0], 0) /\ g[0] = some[0][0]
    BY <1>1
  <2> HIDE DEF some, g
  <2> QED
    BY <2>1 DEF Stepwise
<1>4. ASSUME NEW n \in Nat
      PROVE  g[n + 1] = 10 * g[n]
  <2> DEFINE a == some[n]
             b == some[n + 1]
             same == {k \in Nat : k <= n => a[k] = b[k]}
  <2>1. n + 1 \in Nat /\ Upto(a, n) /\ Upto(b, n + 1)
    <3> HIDE DEF some, Upto
    <3>1. n + 1 \in Nat
      OBVIOUS
    <3> QED
      BY <1>1, <3>1
  <2>7. g[n] = a[n] /\ g[n + 1] = b[n + 1]
    BY <2>1
  <2> HIDE DEF a, b, g
  <2>2. 0 \in same
    BY <2>1 DEF Stepwise
  <2>3. ASSUME NEW k \in Nat, k \in same
        PROVE  k + 1 \in same
    <3> SUFFICES ASSUME k + 1 <= n PROVE a[k + 1] = b[k + 1]
      OBVIOUS
    <3>1. k + 1 \in 0 + 1 .. n /\ k + 1 \in 0 + 1 .. n + 1 /\ k + 1 - 1 = k /\ k <= n
      OBVIOUS
    <3>2. a[k + 1] = op[k + 1][a[k]] /\ b[k + 1] = op[k + 1][b[k]]
      <4> HIDE DEF op
      <4> QED
        BY <2>1, <3>1 DEF Stepwise
    <3> QED
      BY <2>3, <3>1, <3>2
  <2> HIDE DEF same
  <2>4. n \in same
    BY <2>2, <2>3, StepByStep
  <2>5. a[n] = b[n] /\ a[n] \in Nat
    BY <2>1, <2>4, n \in 0 .. n DEF same
  <2>6. b[n + 1] = op[n + 1][b[n]]
    <3>1. n + 1 \in 0 + 1 .. n + 1 /\ n + 1 - 1 = n
      OBVIOUS
    <3> HIDE DEF op
    <3> QED
      BY <2>1, <3>1 DEF Stepwise
  <2> QED
    BY <2>5, <2>6, <2>7
<1> HIDE DEF g
<1>5. IsPower(g)
  <2>1. \A n \in Nat : g[n] = IF n = 0 THEN 1 ELSE 10 * g[n - 1]
    <3> TAKE n \in Nat
    <3>1. CASE n = 0
      BY <1>3, <3>1
    <3>2. CASE n # 0
      <4>1. n - 1 \in Nat /\ n - 1 + 1 = n
        BY <3>2
      <4> QED
        BY <1>4, <3>2, <4>1
    <3> QED
      BY <3>1, <3>2
  <2>2. g = [n \in Nat |-> g[n]]
    BY DEF g
  <2> QED
    BY <2>1, <2>2
<1>6. IsPower(Power)
  <2>1. Power = CHOOSE f : IsPower(f)
    BY DEF Power
  <2> HIDE DEF IsPower
  <2> QED
    BY <1>5, <2>1
<1>7. Steps(Power)
  <2>1. \A n \in Nat : n + 1 \in Nat /\ n + 1 # 0 /\ n + 1 - 1 = n
    OBVIOUS
  <2> QED
    BY <1>6, <2>1
<1> DEFINE S == {n \in Nat : Power[n] \in Nat \ {0}}
<1>8. Nat \subseteq S
  <2>1. 0 \in S /\ \A n \in Nat : n \in S => n + 1 \in S
    BY <1>7
  <2> HIDE DEF S
  <2> QED
    BY <2>1, StepByStep
<1> QED
  BY <1>7, <1>8

\* Every number has some number of digits.
LEMMA PowerAbove ==
  ASSUME NEW n \in Nat
  PROVE  n < Power[n]
<1> DEFINE S == {k \in Nat : k < Power[k]}
<1>1. 0 \in S /\ \A k \in Nat : k \in S => k + 1 \in S
  BY PowerSteps
<1> HIDE DEF S
<1>2. n \in S
  BY <1>1, StepByStep
<1> QED
  BY <1>2 DEF S

\* Division with a remainder.
LEMMA Division ==
  ASSUME NEW n \in Nat, NEW d \in Nat \ {0}
  PROVE  /\ n \div d \in Nat
         /\ n % d \in 0 .. d - 1
         /\ n = d * (n \div d) + (n % d)
OBVIOUS

\* A quotient and a remainder are found by the number they make.
LEMMA DivisionIs ==
  ASSUME NEW d \in Nat \ {0}, NEW q \in Nat, NEW r \in 0 .. d - 1
  PROVE  (d * q + r) \div d = q /\ (d * q + r) % d = r
<1> DEFINE n == d * q + r
           k == n \div d
           m == n % d
<1>1. n \in Nat
  <2>1. d * q \in Nat /\ r \in Nat
    OBVIOUS
  <2> QED
    BY <2>1
<1>2. k \in Nat /\ m \in 0 .. d - 1 /\ n = d * k + m
  BY <1>1, Division
<1> HIDE DEF k, m
<1>3. d * k + m = d * q + r
  BY <1>2
<1> HIDE DEF n
<1>4. k = q
  <2>1. ASSUME NEW a \in Nat, NEW b \in Nat, a < b PROVE d * a + d <= d * b
    <3>1. b - a \in Nat /\ b - a >= 1 /\ b = a + (b - a)
      BY <2>1
    <3>2. d * b = d * a + d * (b - a)
      BY <3>1
    <3>3. d * (b - a) >= d
      BY <3>1
    <3>4. d * a \in Nat /\ d * (b - a) \in Nat
      BY <3>1
    <3> QED
      BY <3>2, <3>3, <3>4
  <2>2. d * k \in Nat /\ d * q \in Nat
    BY <1>2
  <2>3. ~ (k < q)
    BY <1>2, <1>3, <2>1, <2>2
  <2>4. ~ (q < k)
    BY <1>2, <1>3, <2>1, <2>2
  <2> QED
    BY <1>2, <2>3, <2>4
<1>5. m = r
  BY <1>2, <1>3, <1>4
<1> QED
  BY <1>4, <1>5 DEF k, m, n

\* Dividing by ten more leaves out the last digit.
LEMMA DivisionTwice ==
  ASSUME NEW n \in Nat, NEW d \in Nat \ {0}
  PROVE  n \div d = 10 * (n \div (10 * d)) + ((n \div d) % 10)
<1> DEFINE a == n \div d
           r == n % d
           b == a \div 10
           c == a % 10
<1>1. a \in Nat /\ r \in 0 .. d - 1 /\ n = d * a + r
  BY Division
<1> HIDE DEF a, r
<1>2. b \in Nat /\ c \in 0 .. 9 /\ a = 10 * b + c
  BY <1>1
<1> HIDE DEF b, c
<1>3. n = (10 * d) * b + (d * c + r)
  <2>1. d * a = d * (10 * b) + d * c
    BY <1>1, <1>2
  <2>2. d * (10 * b) = (10 * d) * b
    BY <1>2
  <2>3. d * a \in Nat /\ d * c \in Nat /\ (10 * d) * b \in Nat
    BY <1>1, <1>2
  <2> QED
    BY <1>1, <2>1, <2>2, <2>3
<1>4. d * c + r \in 0 .. 10 * d - 1
  <2>1. d * c <= d * 9 /\ d * c \in Nat
    BY <1>2
  <2> QED
    BY <1>1, <2>1
<1>5. 10 * d \in Nat \ {0}
  OBVIOUS
<1>6. n \div (10 * d) = b
  <2> DEFINE e == 10 * d
             s == d * c + r
  <2>1. e \in Nat \ {0} /\ s \in 0 .. e - 1 /\ n = e * b + s
    BY <1>3, <1>4, <1>5
  <2> HIDE DEF e, s
  <2>2. n \div e = b
    BY <1>2, <2>1, DivisionIs
  <2> QED
    BY <2>2 DEF e
<1> QED
  BY <1>2, <1>6 DEF a, b, c

\* A number fits into the digits it is printed with.
LEMMA WidthSteps ==
  /\ \A n \in Nat : Width[n] \in Nat \ {0} /\ n < Power[Width[n]]
<1> DEFINE IsWidth(f) == f = [n \in Nat |-> IF n < 10 THEN 1 ELSE 1 + f[n \div 10]]
           wide(n) == {w \in Nat \ {0} : n < Power[w]}
           Least(n, w) == w \in wide(n) /\ \A v \in wide(n) : w <= v
           g == [n \in Nat |-> CHOOSE w \in Nat : Least(n, w)]
<1>1. ASSUME NEW n \in Nat
      PROVE  g[n] \in Nat /\ Least(n, g[n])
  <2>1. n + 1 \in wide(n)
    BY PowerAbove, PowerSteps
  <2>2. \E w \in wide(n) : \A v \in wide(n) : w <= v
    BY <2>1, LeastNatural
  <2>3. \E w \in Nat : Least(n, w)
    BY <2>2
  <2>4. g[n] = CHOOSE w \in Nat : Least(n, w)
    OBVIOUS
  <2> HIDE DEF Least, g
  <2> QED
    BY <2>3, <2>4
<1>2. ASSUME NEW n \in Nat, n < 10
      PROVE  g[n] = 1
  <2>1. Power[1] = 10
    <3>1. Power[0 + 1] = 10 * Power[0] /\ Power[0] = 1
      BY PowerSteps
    <3> QED
      BY <3>1
  <2>2. 1 \in wide(n)
    BY <1>2, <2>1
  <2> HIDE DEF g
  <2> QED
    BY <1>1, <2>2
<1>3. ASSUME NEW n \in Nat, ~ (n < 10)
      PROVE  g[n] = 1 + g[n \div 10]
  <2> DEFINE m == n \div 10
  <2>1. m \in Nat /\ n = 10 * m + (n % 10) /\ n % 10 \in 0 .. 9 /\ 10 \in Nat \ {0}
    OBVIOUS
  <2> HIDE DEF m, g
  <2>2. ASSUME NEW w \in Nat \ {0}
        PROVE  w + 1 \in wide(n) <=> w \in wide(m)
    <3>1. w \in Nat /\ Power[w + 1] = 10 * Power[w] /\ Power[w] \in Nat
      BY PowerSteps
    <3> QED
      BY <2>1, <3>1
  <2>3. 1 \notin wide(n)
    <3>1. Power[0 + 1] = 10 * Power[0] /\ Power[0] = 1
      BY PowerSteps
    <3> QED
      BY <1>3, <3>1
  <2>4. g[m] + 1 \in wide(n)
    BY <1>1, <2>1, <2>2
  <2>5. g[n] # 1 /\ g[n] \in Nat \ {0}
    BY <1>1, <2>3
  <2>6. g[n] - 1 \in Nat \ {0} /\ g[n] - 1 + 1 = g[n]
    BY <2>5
  <2>7. g[n] - 1 \in wide(m)
    <3>1. g[n] \in wide(n)
      BY <1>1
    <3> HIDE DEF wide
    <3> QED
      BY <2>2, <2>6, <3>1
  <2>8. g[n] <= g[m] + 1 /\ g[m] <= g[n] - 1 /\ g[m] \in Nat
    BY <1>1, <2>1, <2>4, <2>7
  <2> QED
    BY <2>5, <2>8 DEF m
<1>4. IsWidth(g)
  <2>1. \A n \in Nat : g[n] = IF n < 10 THEN 1 ELSE 1 + g[n \div 10]
    <3> HIDE DEF g
    <3> QED
      BY <1>2, <1>3
  <2>2. g = [n \in Nat |-> g[n]]
    OBVIOUS
  <2> HIDE DEF g
  <2> QED
    BY <2>1, <2>2
<1>5. IsWidth(Width)
  <2>1. Width = CHOOSE f : IsWidth(f)
    BY DEF Width
  <2> HIDE DEF IsWidth, g
  <2> QED
    BY <1>4, <2>1
<1> DEFINE wrong == {n \in Nat : Width[n] # g[n]}
<1>6. wrong = {}
  <2> SUFFICES ASSUME wrong # {} PROVE FALSE
    OBVIOUS
  <2>1. PICK n \in wrong : \A k \in wrong : n <= k
    BY LeastNatural
  <2>2. ~ (n < 10)
    BY <1>2, <1>5, <2>1
  <2>3. n \div 10 \in Nat /\ n \div 10 < n
    BY <2>1, <2>2
  <2>4. Width[n \div 10] = g[n \div 10]
    <3>1. n \div 10 \notin wrong
      BY <2>1, <2>3
    <3> HIDE DEF g
    <3> QED
      BY <2>3, <3>1
  <2>5. Width[n] = 1 + Width[n \div 10]
    BY <1>5, <2>1, <2>2
  <2> HIDE DEF g
  <2> QED
    BY <1>3, <2>1, <2>2, <2>4, <2>5
<1> HIDE DEF g
<1> QED
  BY <1>1, <1>6

\* The digit that stands for n.
LEMMA OneDigit ==
  ASSUME NEW n \in 0 .. 9
  PROVE  /\ DigitChars[n + 1] \in Digit
         /\ (CHOOSE m \in 0 .. 9 : DigitChars[m + 1] = DigitChars[n + 1]) = n
<1>1. DOMAIN DigitChars = 1 .. 10
  BY DEF DigitChars
<1>2. n + 1 \in 1 .. 10
  OBVIOUS
<1>3. ASSUME NEW m \in 0 .. 9, DigitChars[m + 1] = DigitChars[n + 1]
      PROVE  m = n
  BY <1>3 DEF DigitChars
<1>4. DigitChars[n + 1] \in Digit
  BY <1>1, <1>2 DEF Digit
<1> QED
  BY <1>3, <1>4

Char == {Characters[n] : n \in DOMAIN Characters}

\* s stands in the file from p on.
Occurs(p, s) ==
  /\ p + Len(s) <= Len(text)
  /\ \A n \in 1 .. Len(s) : text[p + n] = s[n]

Stops(q) == q = Len(text) \/ text[q + 1] \in {",", " ", "]", "}"}

\* A joined text stands in the file if its halves stand one behind the other.
LEMMA OccursJoined ==
  ASSUME NEW S, NEW s \in Seq(S), NEW t \in Seq(S), NEW p \in Nat
  PROVE  Occurs(p, s \o t) <=> Occurs(p, s) /\ Occurs(p + Len(s), t)
<1> DEFINE u == s \o t
<1>1. /\ Len(u) = Len(s) + Len(t) /\ Len(s) \in Nat /\ Len(t) \in Nat
      /\ \A n \in 1 .. Len(s) : u[n] = s[n]
      /\ \A n \in 1 .. Len(t) : u[Len(s) + n] = t[n]
  OBVIOUS
<1> HIDE DEF u
<1>2. ASSUME Occurs(p, u) PROVE Occurs(p, s) /\ Occurs(p + Len(s), t)
  <2>1. p + Len(s) <= Len(text) /\ p + Len(s) + Len(t) <= Len(text)
    BY <1>1, <1>2 DEF Occurs
  <2>2. ASSUME NEW n \in 1 .. Len(s) PROVE text[p + n] = s[n]
    BY <1>1, <1>2 DEF Occurs
  <2>3. ASSUME NEW n \in 1 .. Len(t) PROVE text[p + Len(s) + n] = t[n]
    <3>1. Len(s) + n \in 1 .. Len(u) /\ p + (Len(s) + n) = p + Len(s) + n
      BY <1>1
    <3>2. text[p + (Len(s) + n)] = u[Len(s) + n]
      BY <1>2, <3>1 DEF Occurs
    <3> QED
      BY <1>1, <3>1, <3>2
  <2> QED
    BY <2>1, <2>2, <2>3 DEF Occurs
<1>3. ASSUME Occurs(p, s), Occurs(p + Len(s), t) PROVE Occurs(p, u)
  <2>1. p + Len(u) <= Len(text)
    BY <1>1, <1>3 DEF Occurs
  <2>2. ASSUME NEW n \in 1 .. Len(u) PROVE text[p + n] = u[n]
    <3>1. CASE n <= Len(s)
      BY <1>1, <1>3, <3>1 DEF Occurs
    <3>2. CASE ~ (n <= Len(s))
      <4>1. /\ n - Len(s) \in 1 .. Len(t)
            /\ Len(s) + (n - Len(s)) = n /\ p + Len(s) + (n - Len(s)) = p + n
        BY <1>1, <3>2
      <4>2. text[p + Len(s) + (n - Len(s))] = t[n - Len(s)]
        BY <1>3, <4>1 DEF Occurs
      <4>3. u[Len(s) + (n - Len(s))] = t[n - Len(s)]
        BY <1>1, <4>1
      <4> QED
        BY <4>1, <4>2, <4>3
    <3> QED
      BY <3>1, <3>2
  <2> QED
    BY <2>1, <2>2 DEF Occurs
<1> QED
  BY <1>2, <1>3 DEF u

\* A run of characters ends where the first other character is.
LEMMA EndOfRunIs ==
  ASSUME NEW p \in Nat, NEW q \in Nat, p <= q, q <= Len(text), Len(text) \in Nat, NEW set,
         \A r \in p + 1 .. q : text[r] \in set,
         q = Len(text) \/ text[q + 1] \notin set
  PROVE  EndOfRun(p, set) = q
<1> DEFINE Ends(e) == /\ e = Len(text) \/ text[e + 1] \notin set
                      /\ \A r \in p .. e - 1 : text[r + 1] \in set
<1>1. q \in p .. Len(text) /\ Ends(q)
  <2>1. \A r \in p .. q - 1 : r + 1 \in p + 1 .. q
    OBVIOUS
  <2> QED
    BY <2>1
<1>2. ASSUME NEW e \in p .. Len(text), Ends(e) PROVE e = q
  <2>1. CASE e < q
    <3>1. e + 1 \in p + 1 .. q /\ e # Len(text)
      BY <2>1
    <3> QED
      BY <1>2, <3>1
  <2>2. CASE q < e
    <3>1. q \in p .. e - 1 /\ q # Len(text)
      BY <2>2
    <3> QED
      BY <1>2, <3>1
  <2> QED
    BY <2>1, <2>2
<1>3. EndOfRun(p, set) = CHOOSE e \in p .. Len(text) : Ends(e)
  BY DEF EndOfRun
<1> HIDE DEF Ends
<1> QED
  BY <1>1, <1>2, <1>3

\* There is an end, whatever the text is.
LEMMA EndOfRunType ==
  ASSUME NEW p \in Nat, Len(text) \in Nat, p <= Len(text), NEW set
  PROVE  /\ EndOfRun(p, set) \in p .. Len(text)
         /\ \/ EndOfRun(p, set) = Len(text)
            \/ text[EndOfRun(p, set) + 1] \notin set
<1> DEFINE ends == {q \in Nat : p <= q /\ (q = Len(text) \/ text[q + 1] \notin set)}
<1>1. Len(text) \in ends
  OBVIOUS
<1>2. PICK q \in ends : \A e \in ends : q <= e
  BY <1>1, LeastNatural
<1>3. q \in Nat /\ p <= q /\ q <= Len(text) /\ (q = Len(text) \/ text[q + 1] \notin set)
  BY <1>1, <1>2
<1>4. ASSUME NEW r \in p + 1 .. q PROVE text[r] \in set
  <2>1. r - 1 \in Nat /\ p <= r - 1 /\ r - 1 + 1 = r /\ ~ (q <= r - 1) /\ r - 1 # Len(text)
    BY <1>3
  <2>2. r - 1 \notin ends
    BY <1>2, <2>1
  <2> QED
    BY <2>1, <2>2
<1>5. EndOfRun(p, set) = q
  BY <1>3, <1>4, EndOfRunIs
<1> QED
  BY <1>3, <1>5

\* LoadDouble's loop computes the number whose digits have been printed.
LEMMA DigitsRead ==
  ASSUME NEW n \in Nat, NEW w \in Nat, n < Power[w], SizeLimit \in Nat \ {0}, n < SizeLimit,
         NEW p \in Nat, Occurs(p, Digits(n, w))
  PROVE  Integer(p, p + w) = n
<1> DEFINE value(c) == CHOOSE k \in 0 .. 9 : DigitChars[k + 1] = c
           part(q) == n \div Power[w - (q - p)]
           Adds(f, q) == IF q <= p THEN 0 ELSE (10 * f[q - 1] + value(text[q])) % SizeLimit
           Adding(f) == f = [q \in 0 .. p + w |-> Adds(f, q)]
           g == [q \in 0 .. p + w |-> IF q <= p THEN 0 ELSE part(q)]
           integer == CHOOSE f : Adding(f)
<1>1. part(p) = 0
  <2>1. w - (p - p) = w /\ Power[w] \in Nat \ {0}
    BY PowerSteps
  <2>2. \A d \in Nat \ {0} : n < d => n \div d = 0
    <3> TAKE d \in Nat \ {0}
    <3> HAVE n < d
    <3>1. n = d * 0 + n /\ 0 \in Nat /\ n \in 0 .. d - 1
      OBVIOUS
    <3> QED
      BY <3>1, DivisionIs
  <2> QED
    BY <2>1, <2>2
<1>2. ASSUME NEW q \in p + 1 .. p + w
      PROVE  part(q) = (10 * part(q - 1) + value(text[q])) % SizeLimit
  <2> DEFINE i == q - p
             e == w - i
             digit == (n \div Power[e]) % 10
  <2>1. i \in 1 .. w /\ e \in Nat /\ p + i = q /\ w - (q - 1 - p) = e + 1
    OBVIOUS
  <2>2. Power[e] \in Nat \ {0} /\ Power[e + 1] = 10 * Power[e]
    BY <2>1, PowerSteps
  <2>3. part(q) = 10 * part(q - 1) + digit
    <3> DEFINE d == Power[e]
    <3>1. d \in Nat \ {0} /\ Power[e + 1] = 10 * d /\ part(q - 1) = n \div Power[e + 1]
      BY <2>1, <2>2
    <3> HIDE DEF d
    <3>2. n \div d = 10 * (n \div (10 * d)) + ((n \div d) % 10)
      BY <3>1, DivisionTwice
    <3> QED
      BY <3>1, <3>2 DEF d
  <2>4. digit \in 0 .. 9
    <3>1. n \div Power[e] \in Nat
      BY <2>2, Division
    <3> QED
      BY <3>1
  <2>5. text[q] = DigitChars[digit + 1]
    <3>1. Len(Digits(n, w)) = w /\ Digits(n, w)[i] = DigitChars[digit + 1]
      BY <2>1 DEF Digits
    <3> QED
      BY <2>1, <3>1 DEF Occurs
  <2>6. value(text[q]) = digit
    BY <2>4, <2>5, OneDigit
  <2>7. part(q) \in Nat /\ part(q) <= n
    <3> DEFINE d == Power[e]
               a == n \div d
    <3>1. d \in Nat \ {0} /\ a \in Nat /\ n % d \in Nat /\ n = d * a + (n % d)
      <4>1. d \in Nat \ {0}
        BY <2>2
      <4> HIDE DEF d
      <4>2. a \in Nat /\ n % d \in 0 .. d - 1 /\ n = d * a + (n % d)
        BY <4>1, Division
      <4> HIDE DEF a
      <4> QED
        BY <4>1, <4>2
    <3> HIDE DEF d, a
    <3>2. d * a >= a /\ d * a \in Nat
      BY <3>1
    <3>3. a <= n
      BY <3>1, <3>2
    <3> QED
      BY <3>1, <3>3 DEF d, a
  <2>8. part(q) % SizeLimit = part(q)
    <3> DEFINE a == part(q)
    <3>1. a \in 0 .. SizeLimit - 1 /\ a = SizeLimit * 0 + a /\ 0 \in Nat
      BY <2>7
    <3> HIDE DEF a
    <3>2. a % SizeLimit = a
      BY <3>1, DivisionIs
    <3> QED
      BY <3>2 DEF a
  <2> QED
    BY <2>3, <2>6, <2>8
<1> HIDE DEF part, value
<1>3. Adding(g)
  <2>1. ASSUME NEW q \in 0 .. p + w
        PROVE  g[q] = Adds(g, q)
    <3>1. CASE q <= p
      BY <3>1
    <3>2. CASE ~ (q <= p)
      <4>1. q \in p + 1 .. p + w /\ q - 1 \in 0 .. p + w /\ (q - 1 <= p => q - 1 = p)
        BY <3>2
      <4>2. g[q - 1] = part(q - 1)
        BY <1>1, <4>1
      <4>3. g[q] = part(q)
        BY <3>2
      <4> QED
        BY <1>2, <3>2, <4>1, <4>2, <4>3
    <3> QED
      BY <3>1, <3>2
  <2>2. g = [q \in 0 .. p + w |-> g[q]]
    OBVIOUS
  <2> HIDE DEF g, Adds
  <2> QED
    BY <2>1, <2>2
<1>4. Adding(integer)
  <2> HIDE DEF Adding, g
  <2> QED
    BY <1>3
<1> DEFINE same == {k \in Nat : k <= p + w => integer[k] = g[k]}
<1> HIDE DEF integer
<1>5. 0 \in same
  <2>1. 0 \in 0 .. p + w /\ 0 <= p
    OBVIOUS
  <2> QED
    BY <1>4, <2>1
<1>6. ASSUME NEW k \in Nat, k \in same
      PROVE  k + 1 \in same
  <2> SUFFICES ASSUME k + 1 <= p + w PROVE integer[k + 1] = g[k + 1]
    OBVIOUS
  <2>1. k + 1 \in 0 .. p + w /\ k + 1 - 1 = k /\ k \in 0 .. p + w
    OBVIOUS
  <2>2. integer[k + 1] = Adds(integer, k + 1) /\ g[k + 1] = Adds(g, k + 1)
    <3> HIDE DEF g, Adds
    <3> QED
      BY <1>3, <1>4, <2>1
  <2>3. integer[k] = g[k]
    BY <1>6, <2>1
  <2> HIDE DEF g
  <2> QED
    BY <2>1, <2>2, <2>3
<1>7. integer[p + w] = g[p + w]
  <2> HIDE DEF same
  <2>1. p + w \in Nat
    OBVIOUS
  <2>2. p + w \in same
    BY <1>5, <1>6, <2>1, StepByStep
  <2> QED
    BY <2>1, <2>2 DEF same
<1>8. g[p + w] = n
  <2>1. CASE w = 0
    <3>1. n = 0
      BY <2>1, PowerSteps
    <3> QED
      BY <2>1, <3>1
  <2>2. CASE w # 0
    <3>1. w - (p + w - p) = 0 /\ Power[0] = 1 /\ n \div 1 = n /\ ~ (p + w <= p) /\ p + w \in 0 .. p + w
      BY <2>2, PowerSteps
    <3> QED
      BY <3>1 DEF part
  <2> QED
    BY <2>1, <2>2
<1>9. Integer(p, p + w) = integer[p + w]
  BY DEF Integer, integer, value
<1> QED
  BY <1>7, <1>8, <1>9

\* Without digits the loop leaves 0.
LEMMA NothingRead ==
  ASSUME NEW p \in Nat
  PROVE  Integer(p + 1, p) = 0
<1> DEFINE value(c) == CHOOSE k \in 0 .. 9 : DigitChars[k + 1] = c
           Adds(f, q) == IF q <= p + 1 THEN 0 ELSE (10 * f[q - 1] + value(text[q])) % SizeLimit
           Adding(f) == f = [q \in 0 .. p |-> Adds(f, q)]
           g == [q \in 0 .. p |-> 0]
           integer == CHOOSE f : Adding(f)
<1>1. Adding(g)
  OBVIOUS
<1>2. Adding(integer)
  <2> HIDE DEF Adding, g
  <2> QED
    BY <1>1
<1> HIDE DEF integer
<1>3. integer[p] = 0
  BY <1>2
<1> QED
  BY <1>3 DEF Integer, integer

\* Moving the point by a and by b places moves it by a + b.
LEMMA PowersMultiply ==
  ASSUME NEW a \in Nat, NEW b \in Nat
  PROVE  Power[a + b] = Power[a] * Power[b]
<1> DEFINE S == {n \in Nat : Power[a + n] = Power[a] * Power[n]}
<1>1. Power[a] \in Nat
  BY PowerSteps
<1>2. 0 \in S
  BY <1>1, PowerSteps
<1>3. ASSUME NEW n \in Nat, n \in S
      PROVE  n + 1 \in S
  <2>1. a + n \in Nat /\ a + (n + 1) = a + n + 1
    OBVIOUS
  <2>2. /\ Power[a + (n + 1)] = 10 * Power[a + n]
        /\ Power[n + 1] = 10 * Power[n] /\ Power[n] \in Nat
    BY <2>1, PowerSteps
  <2>3. Power[a] * (10 * Power[n]) = 10 * (Power[a] * Power[n])
    BY <1>1, <2>2
  <2> QED
    BY <1>3, <2>2, <2>3
<1> HIDE DEF S
<1>4. b \in S
  BY <1>2, <1>3, StepByStep
<1> QED
  BY <1>4 DEF S

\* A fraction is printed without the zeros at its end, and without a point when
\* nothing is left of it.
LEMMA DecimalIs ==
  ASSUME NEW whole \in Nat, NEW fraction \in Nat, NEW places \in Nat,
         fraction < Power[places]
  PROVE  \E kept \in 0 .. places, f \in Nat :
           /\ f < Power[kept]
           /\ kept = 0 => f = 0
           /\ fraction = f * Power[places - kept]
           /\ Decimal(whole, fraction, places) =
                Digits(whole, Width[whole]) \o
                  (IF kept = 0 THEN << >> ELSE <<".">> \o Digits(f, kept))
<1> DEFINE Kept(k) == /\ fraction % Power[places - k] = 0
                      /\ k > 0 => fraction % Power[places - k + 1] # 0
           exact == {k \in Nat : k <= places /\ fraction % Power[places - k] = 0}
           kept == CHOOSE k \in 0 .. places : Kept(k)
           f == fraction \div Power[places - kept]
<1>1. kept \in 0 .. places /\ fraction % Power[places - kept] = 0
  <2>1. places \in exact
    <3>1. places - places = 0 /\ Power[0] = 1
      BY PowerSteps
    <3>2. fraction % 1 = 0
      OBVIOUS
    <3> QED
      BY <3>1, <3>2
  <2>2. PICK k \in exact : \A l \in exact : k <= l
    <3> HIDE DEF exact
    <3>1. exact \subseteq Nat
      BY DEF exact
    <3> QED
      BY <2>1, <3>1, LeastNatural
  <2>3. k \in 0 .. places /\ fraction % Power[places - k] = 0
    OBVIOUS
  <2>4. ASSUME k > 0 PROVE fraction % Power[places - k + 1] # 0
    <3>1. k - 1 \in Nat /\ k - 1 <= places /\ ~ (k <= k - 1) /\ places - (k - 1) = places - k + 1
      BY <2>3, <2>4
    <3>2. k - 1 \notin exact
      BY <2>2, <3>1
    <3> QED
      BY <3>1, <3>2
  <2>5. \E l \in 0 .. places : Kept(l)
    BY <2>3, <2>4
  <2>6. kept \in 0 .. places /\ Kept(kept)
    <3> HIDE DEF Kept
    <3> QED
      BY <2>5
  <2> HIDE DEF kept
  <2> QED
    BY <2>6
<1>2. Decimal(whole, fraction, places) =
        Digits(whole, Width[whole]) \o
          (IF kept = 0 THEN << >> ELSE <<".">> \o Digits(f, kept))
  BY DEF Decimal
<1> HIDE DEF kept
<1>3. /\ places - kept \in Nat /\ Power[places - kept] \in Nat \ {0} /\ kept \in Nat
      /\ kept + (places - kept) = places /\ Power[kept] \in Nat \ {0}
  BY <1>1, PowerSteps
<1>4. f \in Nat /\ fraction = Power[places - kept] * f
  <2> DEFINE d == Power[places - kept]
  <2>1. d \in Nat \ {0} /\ fraction % d = 0
    BY <1>1, <1>3
  <2> HIDE DEF d
  <2>2. fraction \div d \in Nat /\ fraction = d * (fraction \div d) + (fraction % d)
    BY <2>1, Division
  <2>3. d * (fraction \div d) \in Nat
    BY <2>1, <2>2
  <2> QED
    BY <2>1, <2>2, <2>3 DEF d
<1> HIDE DEF f
<1>5. fraction = f * Power[places - kept]
  BY <1>3, <1>4
<1>6. f < Power[kept]
  <2>1. Power[places] = Power[kept] * Power[places - kept]
    BY <1>3, PowersMultiply
  <2> DEFINE a == Power[kept]
             b == Power[places - kept]
  <2>2. f * b < a * b /\ a \in Nat /\ b \in Nat \ {0}
    BY <1>3, <1>5, <2>1
  <2> HIDE DEF a, b
  <2>3. ASSUME a <= f PROVE FALSE
    <3>1. a * b <= f * b
      BY <1>4, <2>2, <2>3
    <3>2. a * b \in Nat /\ f * b \in Nat
      BY <1>4, <2>2
    <3> QED
      BY <2>2, <3>1, <3>2
  <2>4. f < a
    BY <1>4, <2>2, <2>3
  <2> QED
    BY <2>4 DEF a
<1>7. kept = 0 => f = 0
  BY <1>4, <1>6, PowerSteps
<1> QED
  BY <1>1, <1>2, <1>4, <1>5, <1>6, <1>7

\* A magnitude that is printed in full: it has no more digits than are printed,
\* is printed without an exponent, and each side of the point fits into a size_t.
PlainMagnitude(m) ==
  /\ m \in Nat
  /\ m \div Power[Places] < SizeLimit /\ m % Power[Places] < SizeLimit
  /\ Width[m] > Precision => m % Power[Width[m] - Precision] = 0
  /\ m = 0 \/ Width[m] - 1 - Places \in -4 .. Precision - 1

Sign(negative) == IF negative THEN <<"-">> ELSE << >>

\* A plain number is printed as its sign, its whole part and its fraction: nothing
\* is rounded and there is no exponent.
LEMMA PlainText ==
  ASSUME NEW negative, NEW m, PlainMagnitude(m)
  PROVE  DoubleToJson(DoubleNode(negative, m)) =
           Sign(negative) \o Decimal(m \div Power[Places], m % Power[Places], Places)
<1> DEFINE node == DoubleNode(negative, m)
           surplus == Width[m] - Precision
           rounded == IF surplus <= 0 THEN m ELSE Rounded(m, Power[surplus])
<1>1. node.magnitude = m /\ node.negative = negative
  BY DEF DoubleNode
<1>2. rounded = m
  <2>1. CASE surplus <= 0
    BY <2>1
  <2>2. CASE ~ (surplus <= 0)
    <3>1. m \in Nat /\ Width[m] \in Nat
      BY WidthSteps DEF PlainMagnitude
    <3>2. surplus \in Nat /\ Width[m] > Precision
      BY <2>2, <3>1, JsonAssumption
    <3> DEFINE d == Power[surplus]
    <3>3. d \in Nat \ {0} /\ m % d = 0
      BY <3>2, PowerSteps DEF PlainMagnitude
    <3> HIDE DEF d
    <3>4. Rounded(m, d) = m
      BY <3>1, <3>3 DEF Rounded
    <3> QED
      BY <2>2, <3>4 DEF d
  <2> QED
    BY <2>1, <2>2
<1> HIDE DEF rounded, node
<1>3. rounded = 0 \/ Width[rounded] - 1 - Places \in -4 .. Precision - 1
  BY <1>2 DEF PlainMagnitude
<1>4. DoubleToJson(node) =
        Sign(negative) \o
        (IF rounded = 0 \/ Width[rounded] - 1 - Places \in -4 .. Precision - 1
           THEN Decimal(rounded \div Power[Places], rounded % Power[Places], Places)
           ELSE Decimal(rounded \div Power[Width[rounded] - 1],
                        rounded % Power[Width[rounded] - 1], Width[rounded] - 1)
                  \o Exponent(Width[rounded] - 1 - Places))
  BY <1>1, Zenon DEF DoubleToJson, rounded, Sign
<1>5. DoubleToJson(node) = Sign(negative) \o Decimal(m \div Power[Places], m % Power[Places], Places)
  BY <1>2, <1>3, <1>4, Zenon
<1> QED
  BY <1>5 DEF node

\* No digit is a sign, a point or a character that LoadNode or a loop goes by.
LEMMA DigitsApart ==
  Digit \cap {"-", ".", ",", " ", "]", "}", "[", "{", "\"", "t", "f", "a"} = {}
<1>1. DOMAIN DigitChars = 1 .. 10
  BY DEF DigitChars
<1>2. \A n \in 1 .. 10 : DigitChars[n] \in {"0", "1", "2", "3", "4", "5", "6", "7", "8", "9"}
  BY DEF DigitChars
<1> QED
  BY <1>1, <1>2 DEF Digit

\* Digits prints as many digits as it is asked for.
LEMMA DigitsType ==
  ASSUME NEW n \in Nat, NEW w \in Nat
  PROVE  /\ Digits(n, w) \in Seq(Digit)
         /\ Len(Digits(n, w)) = w
<1>1. ASSUME NEW i \in 1 .. w
      PROVE  DigitChars[((n \div Power[w - i]) % 10) + 1] \in Digit
  <2>1. w - i \in Nat
    OBVIOUS
  <2>2. Power[w - i] \in Nat \ {0}
    BY <2>1, PowerSteps
  <2>3. n \div Power[w - i] \in Nat
    BY <2>2, Division
  <2>4. (n \div Power[w - i]) % 10 \in 0 .. 9
    BY <2>3
  <2> QED
    BY <2>4, OneDigit
<1>2. Digits(n, w) \in [1 .. w -> Digit]
  BY <1>1 DEF Digits
<1> QED
  BY <1>2

\* A number printed as s: `whole`, of w digits, and f, of `kept` digits.
Printed(s, negative, m, w, whole, kept, f) ==
  /\ whole < Power[w] /\ whole < SizeLimit
  /\ f < Power[kept] /\ f < SizeLimit
  /\ kept = 0 => f = 0
  /\ m = whole * Power[Places] + f * Power[Places - kept]
  /\ s = Sign(negative) \o (Digits(whole, w) \o
           (IF kept = 0 THEN << >> ELSE <<".">> \o Digits(f, kept)))

\* The text of a plain number in its parts.
LEMMA PlainParts ==
  ASSUME NEW negative \in BOOLEAN, NEW m, PlainMagnitude(m)
  PROVE  \E w \in Nat \ {0}, whole \in Nat, kept \in 0 .. Places, f \in Nat :
           Printed(DoubleToJson(DoubleNode(negative, m)), negative, m, w, whole, kept, f)
<1> DEFINE d == Power[Places]
           whole == m \div d
           fraction == m % d
<1>1. d \in Nat \ {0} /\ m \in Nat
  BY PowerSteps, PlacesAssumption DEF PlainMagnitude
<1>7. whole < SizeLimit /\ fraction < SizeLimit
  BY DEF PlainMagnitude
<1>2. whole \in Nat /\ fraction \in 0 .. d - 1 /\ m = d * whole + fraction
  <2> HIDE DEF d
  <2> QED
    BY <1>1, Division
<1>3. DoubleToJson(DoubleNode(negative, m)) = Sign(negative) \o Decimal(whole, fraction, Places)
  BY PlainText
<1> HIDE DEF whole, fraction
<1>4. fraction \in Nat /\ fraction < Power[Places]
  BY <1>1, <1>2
<1>5. PICK kept \in 0 .. Places, f \in Nat :
           /\ f < Power[kept]
           /\ kept = 0 => f = 0
           /\ fraction = f * Power[Places - kept]
           /\ Decimal(whole, fraction, Places) =
                Digits(whole, Width[whole]) \o
                  (IF kept = 0 THEN << >> ELSE <<".">> \o Digits(f, kept))
  BY <1>2, <1>4, DecimalIs, PlacesAssumption
<1>6. Width[whole] \in Nat \ {0} /\ whole < Power[Width[whole]]
  BY <1>2, WidthSteps
<1>8. f <= fraction
  <2>1. Places - kept \in Nat
    BY <1>5, PlacesAssumption
  <2> DEFINE e == Power[Places - kept]
  <2>2. e \in Nat \ {0} /\ fraction = f * e
    BY <1>5, <2>1, PowerSteps
  <2> HIDE DEF e
  <2>3. f * e >= f
    BY <2>2
  <2> QED
    BY <2>2, <2>3
<1>9. whole < SizeLimit /\ f < SizeLimit
  <2>1. \A a, b \in Nat : a <= b /\ b < SizeLimit /\ SizeLimit \in Nat => a < SizeLimit
    OBVIOUS
  <2> HIDE DEF d
  <2> QED
    BY <1>4, <1>5, <1>7, <1>8, SizeAssumption
<1>10. m = whole * Power[Places] + f * Power[Places - kept]
  <2>1. d * whole = whole * d
    BY <1>1, <1>2
  <2> QED
    BY <1>2, <1>5, <2>1
<1> QED
  <2>1. DoubleToJson(DoubleNode(negative, m)) = Sign(negative) \o (Digits(whole, Width[whole]) \o
           (IF kept = 0 THEN << >> ELSE <<".">> \o Digits(f, kept)))
    BY <1>3, <1>5
  <2>2. Printed(DoubleToJson(DoubleNode(negative, m)), negative, m, Width[whole], whole, kept, f)
    BY <1>5, <1>6, <1>9, <1>10, <2>1 DEF Printed
  <2> QED
    BY <1>2, <1>6, <2>2

\* A sequence over a set is one over every larger set.
LEMMA WiderSeq ==
  ASSUME NEW S, NEW T, S \subseteq T, NEW s \in Seq(S)
  PROVE  s \in Seq(T)
<1>1. Len(s) \in Nat /\ s \in [1 .. Len(s) -> S]
  OBVIOUS
<1>2. s \in [1 .. Len(s) -> T]
  BY <1>1
<1> QED
  BY <1>1, <1>2

\* Joining three sequences, the first two first or the last two.
LEMMA JoinedTwice ==
  ASSUME NEW S, NEW s \in Seq(S), NEW t \in Seq(S), NEW u \in Seq(S)
  PROVE  (s \o t) \o u = s \o (t \o u)
  OBVIOUS

\* What is known of two sequences that are joined.
LEMMA JoinedSeq ==
  ASSUME NEW S, NEW s \in Seq(S), NEW t \in Seq(S)
  PROVE  /\ s \o t \in Seq(S)
         /\ Len(s \o t) = Len(s) + Len(t) /\ Len(s) \in Nat /\ Len(t) \in Nat
         /\ \A n \in 1 .. Len(s) : (s \o t)[n] = s[n]
         /\ \A n \in 1 .. Len(t) : (s \o t)[Len(s) + n] = t[n]
OBVIOUS

\* LoadDouble: where a plain number stands, and a character of no number or the end
\* is behind it, that number is read and the stream is left behind it.
LEMMA DoubleRead ==
  ASSUME NEW negative \in BOOLEAN, NEW m, PlainMagnitude(m), Len(text) \in Nat, NEW p \in Nat,
         Occurs(p, DoubleToJson(DoubleNode(negative, m))),
         Stops(p + Len(DoubleToJson(DoubleNode(negative, m))))
  PROVE  LoadDouble(p) = [node |-> DoubleNode(negative, m),
                          pos |-> p + Len(DoubleToJson(DoubleNode(negative, m)))]
<1> DEFINE s == DoubleToJson(DoubleNode(negative, m))
<1>1. PICK w \in Nat \ {0}, whole \in Nat, kept \in 0 .. Places, f \in Nat :
           Printed(s, negative, m, w, whole, kept, f)
  BY PlainParts
<1> HIDE DEF s
<1> DEFINE sign == Sign(negative)
           number == Digits(whole, w)
           rest == IF kept = 0 THEN << >> ELSE <<".">> \o Digits(f, kept)
           X == Digit \cup {"-", "."}
           start == p + Len(sign)
           dot == start + w
           end == p + Len(s)
<1>2. /\ sign \in Seq(X) /\ number \in Seq(X) /\ Digits(f, kept) \in Seq(X)
      /\ number \in Seq(Digit) /\ Digits(f, kept) \in Seq(Digit)
      /\ Len(number) = w /\ Len(Digits(f, kept)) = kept
  <2>1. kept \in Nat
    BY PlacesAssumption
  <2>2. /\ number \in Seq(Digit) /\ Digits(f, kept) \in Seq(Digit)
        /\ Len(number) = w /\ Len(Digits(f, kept)) = kept
    BY <2>1, DigitsType
  <2>3. Digit \subseteq X
    OBVIOUS
  <2>4. sign \in Seq(X)
    <3>1. <<"-">> \in Seq(X) /\ << >> \in Seq(X)
      OBVIOUS
    <3> HIDE DEF X
    <3> QED
      BY <3>1 DEF Sign
  <2> HIDE DEF X, number, sign
  <2> QED
    BY <2>2, <2>3, <2>4, WiderSeq
<1>3. rest \in Seq(X) /\ Len(rest) = (IF kept = 0 THEN 0 ELSE kept + 1)
  <2>1. <<".">> \in Seq(X) /\ Len(<<".">>) = 1
    OBVIOUS
  <2>2. << >> \in Seq(X) /\ Len(<< >>) = 0
    OBVIOUS
  <2> HIDE DEF X
  <2>3. CASE kept = 0
    BY <2>2, <2>3
  <2>4. CASE kept # 0
    <3>1. rest = <<".">> \o Digits(f, kept)
      BY <2>4
    <3> HIDE DEF rest
    <3> QED
      BY <1>2, <2>1, <2>4, <3>1
  <2> QED
    BY <2>3, <2>4
<1> HIDE DEF X, rest, number, sign
<1>4. sign \o (number \o rest) = s /\ number \o rest \in Seq(X)
  <2>1. sign \o (number \o rest) = s
    BY <1>1 DEF sign, number, rest, Printed
  <2> QED
    BY <1>2, <1>3, <2>1, JoinedSeq
<1>5. Occurs(p, sign) /\ Occurs(start, number \o rest)
  <2>1. Occurs(p, s)
    BY DEF s
  <2> QED
    BY <1>2, <1>4, <2>1, OccursJoined
<1>6. /\ start \in Nat /\ dot \in Nat
      /\ start = (IF negative THEN p + 1 ELSE p)
      /\ end = dot + Len(rest)
      /\ end = (IF kept = 0 THEN dot ELSE dot + 1 + kept)
      /\ end <= Len(text)
  <2>1. Len(sign) = IF negative THEN 1 ELSE 0
    BY DEF Sign, sign
  <2>2. Len(s) = Len(sign) + (w + Len(rest))
    <3>1. Len(number \o rest) = Len(number) + Len(rest)
      BY <1>2, <1>3, JoinedSeq
    <3>2. Len(sign \o (number \o rest)) = Len(sign) + Len(number \o rest)
      BY <1>2, <1>4, JoinedSeq
    <3> QED
      BY <1>2, <1>4, <3>1, <3>2
  <2>3. end <= Len(text)
    BY DEF Occurs, s
  <2> QED
    <3>1. w \in Nat /\ kept \in Nat /\ negative \in BOOLEAN
      BY PlacesAssumption
    <3>2. start = IF negative THEN p + 1 ELSE p
      BY <2>1
    <3>3. start \in Nat /\ dot \in Nat
      BY <3>1, <3>2
    <3>4. end = dot + Len(rest)
      BY <2>1, <2>2, <3>1, <1>3
    <3> QED
      BY <1>3, <2>3, <3>1, <3>2, <3>3, <3>4
<1> HIDE DEF end, dot, start
<1>7. Occurs(start, number) /\ Occurs(dot, rest)
  BY <1>2, <1>3, <1>5, <1>6, OccursJoined DEF dot
<1>8. (IF Peeks(p, "-") THEN p + 1 ELSE p) = start
  <2>1. CASE negative
    BY <1>5, <1>6, <2>1 DEF Occurs, Peeks, Sign, sign
  <2>2. CASE ~ negative
    <3>1. 1 \in 1 .. Len(number) /\ number[1] \in Digit
      BY <1>2
    <3>2. text[p + 1] \in Digit
      BY <1>6, <1>7, <2>2, <3>1 DEF Occurs
    <3>3. ~ Peeks(p, "-")
      BY <3>2, DigitsApart DEF Peeks
    <3> QED
      BY <1>6, <2>2, <3>3
  <2> QED
    BY <2>1, <2>2
<1>9. end = Len(text) \/ text[end + 1] \in {",", " ", "]", "}"}
  BY DEF Stops, end, s
<1>10. dot = Len(text) \/ text[dot + 1] \notin Digit
  <2>1. CASE kept = 0
    BY <1>6, <1>9, <2>1, DigitsApart
  <2>2. CASE kept # 0
    <3>1. 1 \in 1 .. Len(rest) /\ rest[1] = "."
      BY <1>2, <1>3, <2>2 DEF rest
    <3>2. text[dot + 1] = "."
      BY <1>7, <3>1 DEF Occurs
    <3> QED
      BY <3>2, DigitsApart
  <2> QED
    BY <2>1, <2>2
<1>11. EndOfRun(start, Digit) = dot
  <2>1. ASSUME NEW r \in start + 1 .. dot PROVE text[r] \in Digit
    <3>1. r - start \in 1 .. Len(number) /\ start + (r - start) = r
      BY <1>2, <1>6 DEF dot
    <3>2. text[start + (r - start)] = number[r - start] /\ number[r - start] \in Digit
      BY <1>2, <1>7, <3>1 DEF Occurs
    <3> QED
      BY <3>1, <3>2
  <2>2. start <= dot /\ dot <= Len(text)
    BY <1>2, <1>6, <1>7 DEF dot, Occurs
  <2> QED
    BY <1>6, <1>10, <2>1, <2>2, EndOfRunIs
<1>12. Integer(start, dot) = whole
  <2>1. whole < Power[w] /\ whole < SizeLimit /\ Occurs(start, Digits(whole, w))
    BY <1>1, <1>7 DEF number, Printed
  <2> QED
    BY <1>6, <2>1, DigitsRead, SizeAssumption DEF dot
<1>13. CASE kept = 0
  <2>1. end = dot /\ ~ Peeks(dot, ".")
    <3>1. end = dot
      BY <1>6, <1>13
    <3> QED
      <4>1. dot = Len(text) \/ text[dot + 1] # "."
        BY <1>9, <3>1
      <4> QED
        BY <1>6, <3>1, <4>1 DEF Peeks
  <2>2. Integer(dot + 1, dot) = 0 /\ f = 0
    BY <1>1, <1>6, <1>13, NothingRead DEF Printed
  <2>3. LoadDouble(p) = [node |-> DoubleNode(start > p, whole * Power[Places] + 0 * Power[Places - 0]),
                         pos |-> dot]
    <3>1. (IF Peeks(dot, ".") THEN EndOfRun(dot + 1, Digit) ELSE dot) = dot
      BY <2>1
    <3>2. (IF dot > dot THEN dot - dot - 1 ELSE 0) = 0
      BY <1>6
    <3> QED
      BY <1>8, <1>11, <1>12, <2>1, <2>2, <3>1, <3>2, Zenon DEF LoadDouble
  <2>4. whole * Power[Places] + 0 * Power[Places - 0] = m
    BY <1>1, <1>13, <2>2 DEF Printed
  <2>5. (start > p) = negative
    BY <1>6
  <2> QED
    BY <2>1, <2>3, <2>4, <2>5 DEF end, s
<1>14. CASE kept # 0
  <2>1. rest = <<".">> \o Digits(f, kept) /\ Len(rest) = kept + 1 /\ end = dot + 1 + kept
    BY <1>3, <1>6, <1>14 DEF rest
  <2>2. Peeks(dot, ".") /\ Occurs(dot + 1, Digits(f, kept))
    <3>1. <<".">> \in Seq(X) /\ Len(<<".">>) = 1 /\ <<".">>[1] = "."
      BY DEF X
    <3>2. Occurs(dot, <<".">>) /\ Occurs(dot + 1, Digits(f, kept))
      BY <1>2, <1>6, <1>7, <2>1, <3>1, OccursJoined
    <3> QED
      BY <1>6, <3>1, <3>2 DEF Occurs, Peeks
  <2>3. kept \in Nat /\ kept >= 1 /\ end <= Len(text)
    BY <1>6, <1>14, PlacesAssumption
  <2>4. EndOfRun(dot + 1, Digit) = end
    <3>1. ASSUME NEW r \in dot + 2 .. end PROVE text[r] \in Digit
      <4>1. /\ r - (dot + 1) \in 1 .. Len(Digits(f, kept))
            /\ dot + 1 + (r - (dot + 1)) = r
        BY <1>2, <1>6, <2>1, <2>3
      <4>2. /\ text[dot + 1 + (r - (dot + 1))] = Digits(f, kept)[r - (dot + 1)]
            /\ Digits(f, kept)[r - (dot + 1)] \in Digit
        BY <1>2, <2>2, <4>1 DEF Occurs
      <4> QED
        BY <4>1, <4>2
    <3>2. end = Len(text) \/ text[end + 1] \notin Digit
      BY <1>9, DigitsApart
    <3>3. dot + 1 \in Nat /\ end \in Nat /\ dot + 1 <= end /\ dot + 2 = dot + 1 + 1
      BY <1>6, <2>1, <2>3
    <3> QED
      BY <2>3, <3>1, <3>2, <3>3, EndOfRunIs
  <2>5. Integer(dot + 1, end) = f
    <3>1. dot + 1 \in Nat
      BY <1>6
    <3> QED
      BY <1>1, <2>1, <2>2, <2>3, <3>1, DigitsRead, SizeAssumption DEF Printed
  <2>6. end > dot /\ end - dot - 1 = kept
    BY <1>6, <2>1, <2>3
  <2>7. LoadDouble(p) = [node |-> DoubleNode(start > p, whole * Power[Places] + f * Power[Places - kept]),
                         pos |-> end]
    BY <1>8, <1>11, <1>12, <2>2, <2>4, <2>5, <2>6 DEF LoadDouble
  <2>8. (start > p) = negative
    BY <1>6
  <2> QED
    BY <1>1, <2>7, <2>8 DEF end, s, Printed
<1> QED
  BY <1>13, <1>14

-----------------------------------------------------------------------------
(***************************************************************************)
(* The order of the keys.                                                  *)
(***************************************************************************)
Rank(c) == CHOOSE n \in DOMAIN Characters : Characters[n] = c

\* A character is compared by its code.
LEMMA RankOf ==
  ASSUME NEW c \in Char
  PROVE  Rank(c) \in Nat /\ Characters[Rank(c)] = c
<1>1. \E n \in DOMAIN Characters : Characters[n] = c
  BY DEF Char
<1>2. Rank(c) \in DOMAIN Characters /\ Characters[Rank(c)] = c
  BY <1>1 DEF Rank
<1> QED
  BY <1>2, JsonAssumption

\* The n-th character decides.
BeforeAt(k, l, n) ==
  /\ n <= Len(k) + 1 /\ \A m \in 1 .. n - 1 : k[m] = l[m]
  /\ n <= Len(k) => Rank(k[n]) < Rank(l[n])

\* Comparing two keys: some character decides.
LEMMA BeforeIs ==
  ASSUME NEW k, NEW l
  PROVE  Before(k, l) <=> \E n \in 1 .. Len(l) : BeforeAt(k, l, n)
BY DEF Before, BeforeAt, Rank

\* No key comes before itself.
LEMMA NotBeforeItself ==
  ASSUME NEW k \in Seq(Char)
  PROVE  ~ Before(k, k)
<1> SUFFICES ASSUME NEW n \in 1 .. Len(k), BeforeAt(k, k, n) PROVE FALSE
  BY BeforeIs
<1>1. k[n] \in Char /\ n <= Len(k)
  OBVIOUS
<1>2. Rank(k[n]) \in Nat /\ Rank(k[n]) < Rank(k[n])
  BY <1>1, RankOf DEF BeforeAt
<1> QED
  BY <1>2

\* Of two different keys one comes first.
LEMMA BeforeTotal ==
  ASSUME NEW k \in Seq(Char), NEW l \in Seq(Char), k # l
  PROVE  Before(k, l) \/ Before(l, k)
<1> DEFINE differ == {n \in Nat : n >= 1 /\ (n > Len(k) \/ n > Len(l) \/ k[n] # l[n])}
<1>1. Len(k) \in Nat /\ Len(l) \in Nat
  OBVIOUS
<1>2. Len(k) + 1 \in differ
  BY <1>1
<1>3. PICK n \in differ : \A m \in differ : n <= m
  <2>1. differ \subseteq Nat
    OBVIOUS
  <2> HIDE DEF differ
  <2> QED
    BY <1>2, <2>1, LeastNatural
<1>4. n \in Nat /\ n >= 1 /\ (n > Len(k) \/ n > Len(l) \/ k[n] # l[n])
  OBVIOUS
<1>5. ASSUME NEW m \in 1 .. n - 1
      PROVE  m <= Len(k) /\ m <= Len(l) /\ k[m] = l[m]
  <2>1. m \in Nat /\ m >= 1 /\ ~ (n <= m)
    BY <1>4
  <2>2. m \notin differ
    BY <1>3, <2>1
  <2> QED
    BY <1>1, <2>1, <2>2
<1> HIDE DEF differ
<1>6. n <= Len(k) + 1 /\ n <= Len(l) + 1
  <2>1. n = 1 \/ n - 1 \in 1 .. n - 1
    BY <1>4
  <2> QED
    BY <1>1, <1>4, <1>5, <2>1
<1>7. CASE n > Len(k) /\ n > Len(l)
  <2>1. Len(k) = n - 1 /\ Len(l) = n - 1
    BY <1>1, <1>4, <1>6, <1>7
  <2>2. k = l
    BY <1>5, <2>1
  <2> QED
    BY <2>2
<1>8. CASE n > Len(k) /\ ~ (n > Len(l))
  <2>1. n \in 1 .. Len(l) /\ BeforeAt(k, l, n)
    BY <1>1, <1>4, <1>5, <1>6, <1>8 DEF BeforeAt
  <2> QED
    BY <2>1, BeforeIs
<1>9. CASE n > Len(l) /\ ~ (n > Len(k))
  <2>1. n \in 1 .. Len(k) /\ BeforeAt(l, k, n)
    BY <1>1, <1>4, <1>5, <1>6, <1>9 DEF BeforeAt
  <2> QED
    BY <2>1, BeforeIs
<1>10. CASE ~ (n > Len(l)) /\ ~ (n > Len(k))
  <2>1. n \in 1 .. Len(k) /\ n \in 1 .. Len(l) /\ k[n] # l[n]
    BY <1>1, <1>4, <1>10
  <2>2. k[n] \in Char /\ l[n] \in Char
    BY <2>1
  <2>3. Rank(k[n]) \in Nat /\ Rank(l[n]) \in Nat /\ Rank(k[n]) # Rank(l[n])
    BY <2>1, <2>2, RankOf
  <2>4. CASE Rank(k[n]) < Rank(l[n])
    <3>1. BeforeAt(k, l, n)
      BY <1>5, <1>6, <2>4 DEF BeforeAt
    <3> QED
      BY <2>1, <3>1, BeforeIs
  <2>5. CASE Rank(l[n]) < Rank(k[n])
    <3>1. BeforeAt(l, k, n)
      BY <1>5, <1>6, <2>5 DEF BeforeAt
    <3> QED
      BY <2>1, <3>1, BeforeIs
  <2> QED
    BY <2>3, <2>4, <2>5
<1> QED
  BY <1>7, <1>8, <1>9, <1>10

\* The order of the keys is an order.
LEMMA BeforeTransitive ==
  ASSUME NEW k \in Seq(Char), NEW l \in Seq(Char), NEW m \in Seq(Char),
         Before(k, l), Before(l, m)
  PROVE  Before(k, m)
<1>1. PICK i \in 1 .. Len(l) : BeforeAt(k, l, i)
  BY BeforeIs
<1>2. PICK j \in 1 .. Len(m) : BeforeAt(l, m, j)
  BY BeforeIs
<1>3. Len(k) \in Nat /\ Len(l) \in Nat /\ Len(m) \in Nat /\ i \in Nat /\ j \in Nat
  OBVIOUS
<1>4. CASE i < j
  <2>1. i \in 1 .. Len(m) /\ i \in 1 .. j - 1 /\ i <= Len(k) + 1
    BY <1>1, <1>3, <1>4 DEF BeforeAt
  <2>2. \A a \in 1 .. i - 1 : k[a] = m[a]
    <3> TAKE a \in 1 .. i - 1
    <3>1. a \in 1 .. j - 1
      BY <1>4
    <3> QED
      BY <1>1, <1>2, <3>1 DEF BeforeAt
  <2>3. m[i] = l[i]
    BY <1>2, <2>1 DEF BeforeAt
  <2>4. BeforeAt(k, m, i)
    BY <1>1, <2>1, <2>2, <2>3 DEF BeforeAt
  <2> QED
    BY <2>1, <2>4, BeforeIs
<1>5. CASE j < i
  <2>1. j \in 1 .. i - 1 /\ j <= Len(l) /\ j <= Len(k)
    BY <1>1, <1>3, <1>5 DEF BeforeAt
  <2>2. \A a \in 1 .. j - 1 : k[a] = m[a]
    <3> TAKE a \in 1 .. j - 1
    <3>1. a \in 1 .. i - 1
      BY <1>5
    <3> QED
      BY <1>1, <1>2, <3>1 DEF BeforeAt
  <2>3. k[j] = l[j]
    BY <1>1, <2>1 DEF BeforeAt
  <2>4. BeforeAt(k, m, j)
    BY <1>2, <1>3, <2>1, <2>2, <2>3 DEF BeforeAt
  <2> QED
    BY <2>4, BeforeIs
<1>6. CASE i = j
  <2>1. \A a \in 1 .. i - 1 : k[a] = m[a]
    BY <1>1, <1>2, <1>6 DEF BeforeAt
  <2>2. i <= Len(k) => Rank(k[i]) < Rank(m[i])
    <3> HAVE i <= Len(k)
    <3>1. k[i] \in Char /\ l[i] \in Char /\ m[i] \in Char
      BY <1>6
    <3>2. Rank(k[i]) \in Nat /\ Rank(l[i]) \in Nat /\ Rank(m[i]) \in Nat
      BY <3>1, RankOf
    <3>3. Rank(k[i]) < Rank(l[i]) /\ Rank(l[i]) < Rank(m[i])
      BY <1>1, <1>2, <1>6 DEF BeforeAt
    <3> QED
      BY <3>2, <3>3
  <2>3. BeforeAt(k, m, i)
    BY <1>1, <2>1, <2>2 DEF BeforeAt
  <2> QED
    BY <1>6, <2>3, BeforeIs
<1> QED
  BY <1>3, <1>4, <1>5, <1>6

\* A strict total order on a set.
Orders(R, S) ==
  /\ \A x, y \in S : x # y => <<x, y>> \in R \/ <<y, x>> \in R
  /\ \A x, y, z \in S : <<x, y>> \in R /\ <<y, z>> \in R => <<x, z>> \in R

\* A finite set has a last element in an order.
LEMMA LastInOrder ==
  ASSUME NEW S, IsFiniteSet(S), S # {}, NEW R, Orders(R, S)
  PROVE  \E x \in S : \A y \in S \ {x} : <<y, x>> \in R
<1> DEFINE HasLast(T) == \E x \in T : \A y \in T \ {x} : <<y, x>> \in R
           sizes == {n \in Nat : \A T \in SUBSET S : Cardinality(T) = n + 1 => HasLast(T)}
<1>1. \A T \in SUBSET S : IsFiniteSet(T) /\ Cardinality(T) \in Nat
  BY FS_Subset, FS_CardinalityType
<1>2. 0 \in sizes
  <2> SUFFICES ASSUME NEW T \in SUBSET S, Cardinality(T) = 1 PROVE HasLast(T)
    OBVIOUS
  <2>1. PICK x : T = {x}
    BY <1>1, FS_Singleton
  <2> QED
    BY <2>1
<1>3. ASSUME NEW n \in Nat, n \in sizes
      PROVE  n + 1 \in sizes
  <2> SUFFICES ASSUME NEW T \in SUBSET S, Cardinality(T) = n + 1 + 1 PROVE HasLast(T)
    OBVIOUS
  <2>1. T # {}
    BY FS_EmptySet
  <2>2. PICK y \in T : TRUE
    BY <2>1
  <2> DEFINE U == T \ {y}
  <2>3. U \in SUBSET S /\ Cardinality(U) = n + 1
    BY <1>1, FS_RemoveElement
  <2>4. PICK x \in U : \A z \in U \ {x} : <<z, x>> \in R
    BY <1>3, <2>3
  <2>5. x \in S /\ y \in S /\ x # y
    BY <2>3
  <2>6. CASE <<y, x>> \in R
    BY <2>4, <2>6
  <2>7. CASE <<x, y>> \in R
    <3>1. \A z \in U : <<z, y>> \in R
      BY <2>3, <2>4, <2>5, <2>7 DEF Orders
    <3> QED
      BY <3>1
  <2> QED
    BY <2>5, <2>6, <2>7 DEF Orders
<1> HIDE DEF sizes, HasLast
<1>4. Cardinality(S) # 0
  BY FS_EmptySet
<1>5. Cardinality(S) - 1 \in Nat /\ Cardinality(S) - 1 + 1 = Cardinality(S)
  BY <1>1, <1>4
<1>6. Cardinality(S) - 1 \in sizes
  BY <1>2, <1>3, <1>5, StepByStep
<1> QED
  BY <1>5, <1>6 DEF sizes, HasLast

\* f lists a set in an order.
Lists(f, S, R) ==
  /\ f \in [1 .. Cardinality(S) -> S]
  /\ \A m, n \in 1 .. Cardinality(S) : m < n => <<f[m], f[n]>> \in R

\* A finite set is listed in an order.
LEMMA OrderedList ==
  ASSUME NEW S, IsFiniteSet(S), NEW R, Orders(R, S)
  PROVE  \E f : Lists(f, S, R)
<1> DEFINE sizes == {n \in Nat : \A T \in SUBSET S : Cardinality(T) = n => \E f : Lists(f, T, R)}
<1>1. \A T \in SUBSET S : IsFiniteSet(T) /\ Cardinality(T) \in Nat /\ Orders(R, T)
  BY FS_Subset, FS_CardinalityType DEF Orders
<1>2. 0 \in sizes
  <2> SUFFICES ASSUME NEW T \in SUBSET S, Cardinality(T) = 0 PROVE \E f : Lists(f, T, R)
    OBVIOUS
  <2> DEFINE f == [i \in 1 .. 0 |-> {}]
  <2>1. Lists(f, T, R)
    BY DEF Lists
  <2> QED
    BY <2>1
<1>3. ASSUME NEW n \in Nat, n \in sizes
      PROVE  n + 1 \in sizes
  <2> SUFFICES ASSUME NEW T \in SUBSET S, Cardinality(T) = n + 1
               PROVE  \E f : Lists(f, T, R)
    OBVIOUS
  <2>1. T # {}
    BY FS_EmptySet
  <2>2. PICK x \in T : \A y \in T \ {x} : <<y, x>> \in R
    BY <1>1, <2>1, LastInOrder
  <2> DEFINE U == T \ {x}
  <2>3. U \in SUBSET S /\ Cardinality(U) = n
    <3>1. IsFiniteSet(T) /\ x \in T /\ Cardinality(T) - 1 = n
      BY <1>1
    <3>2. Cardinality(T \ {x}) = Cardinality(T) - 1
      BY <3>1, FS_RemoveElement
    <3> QED
      BY <3>1, <3>2
  <2>4. PICK f : Lists(f, U, R)
    BY <1>3, <2>3
  <2> DEFINE g == [i \in 1 .. n + 1 |-> IF i = n + 1 THEN x ELSE f[i]]
  <2>5. \A i \in 1 .. n : f[i] \in U
    BY <2>3, <2>4 DEF Lists
  <2>6. \A i \in 1 .. n + 1 : g[i] = (IF i = n + 1 THEN x ELSE f[i]) /\ (i # n + 1 => i \in 1 .. n)
    OBVIOUS
  <2>7. g \in [1 .. n + 1 -> T]
    BY <2>5, <2>6
  <2>8. ASSUME NEW i \in 1 .. n + 1, NEW j \in 1 .. n + 1, i < j
        PROVE  <<g[i], g[j]>> \in R
    <3>1. i \in 1 .. n /\ g[i] = f[i] /\ f[i] \in U
      BY <2>5, <2>6, <2>8
    <3>2. CASE j = n + 1
      BY <2>2, <2>6, <3>1, <3>2
    <3>3. CASE j # n + 1
      BY <2>3, <2>4, <2>6, <2>8, <3>1, <3>3 DEF Lists
    <3> QED
      BY <3>2, <3>3
  <2> HIDE DEF g
  <2>9. Lists(g, T, R)
    BY <2>7, <2>8 DEF Lists
  <2> QED
    BY <2>9
<1> HIDE DEF sizes
<1>4. Cardinality(S) \in sizes
  BY <1>1, <1>2, <1>3, StepByStep
<1> QED
  BY <1>4 DEF sizes

\* A map of the program: finitely many keys, each a sequence of characters.
LEMMA KeysAre ==
  ASSUME NEW entries, IsFiniteSet(DOMAIN entries), DOMAIN entries \subseteq Seq(Char)
  PROVE  /\ Cardinality(DOMAIN entries) \in Nat
         /\ Keys(entries) \in [1 .. Cardinality(DOMAIN entries) -> DOMAIN entries]
         /\ \A m, n \in 1 .. Cardinality(DOMAIN entries) :
              Keys(entries)[m] = Keys(entries)[n] => m = n
         /\ DOMAIN entries = {Keys(entries)[n] : n \in 1 .. Cardinality(DOMAIN entries)}
<1> DEFINE S == DOMAIN entries
           size == Cardinality(S)
           R == {p \in S \X S : Before(p[1], p[2])}
           Sorted(keys) == \A m, n \in DOMAIN keys : m < n => Before(keys[m], keys[n])
           keys == CHOOSE k \in [1 .. size -> S] : Sorted(k)
<1>1. size \in Nat
  BY FS_CardinalityType
<1>2. \A k, l \in S : <<k, l>> \in R <=> Before(k, l)
  OBVIOUS
<1>3. Orders(R, S)
  <2> HIDE DEF R, S
  <2>1. S \subseteq Seq(Char)
    BY DEF S
  <2>2. ASSUME NEW x \in S, NEW y \in S, x # y PROVE <<x, y>> \in R \/ <<y, x>> \in R
    BY <1>2, <2>1, <2>2, BeforeTotal
  <2>3. ASSUME NEW x \in S, NEW y \in S, NEW z \in S, <<x, y>> \in R, <<y, z>> \in R
        PROVE  <<x, z>> \in R
    <3>1. Before(x, y) /\ Before(y, z) /\ x \in Seq(Char) /\ y \in Seq(Char) /\ z \in Seq(Char)
      BY <1>2, <2>1, <2>3
    <3>2. Before(x, z)
      BY <3>1, BeforeTransitive
    <3> QED
      BY <1>2, <3>2
  <2> QED
    BY <2>2, <2>3 DEF Orders
<1>4. PICK f : Lists(f, S, R)
  <2>1. IsFiniteSet(S)
    OBVIOUS
  <2> HIDE DEF R, S
  <2> QED
    BY <1>3, <2>1, OrderedList
<1>5. f \in [1 .. size -> S] /\ Sorted(f)
  <2> HIDE DEF R, S
  <2>1. f \in [1 .. size -> S]
    BY <1>4 DEF Lists
  <2> QED
    BY <1>2, <1>4, <2>1 DEF Lists
<1>6. keys \in [1 .. size -> S] /\ Sorted(keys)
  <2> HIDE DEF Sorted, S
  <2> QED
    BY <1>5
<1>7. Keys(entries) = keys
  BY DEF Keys
<1> HIDE DEF keys
<1>8. ASSUME NEW m \in 1 .. size, NEW n \in 1 .. size, keys[m] = keys[n]
      PROVE  m = n
  <2>1. keys[m] \in Seq(Char)
    BY <1>6
  <2>2. ~ (m < n) /\ ~ (n < m)
    <3>1. m \in DOMAIN keys /\ n \in DOMAIN keys
      BY <1>6
    <3> QED
      BY <1>6, <1>8, <2>1, <3>1, NotBeforeItself
  <2> QED
    BY <1>1, <2>2
<1>9. S = {keys[n] : n \in 1 .. size}
  <2>1. IsFiniteSet(S)
    OBVIOUS
  <2> HIDE DEF S
  <2> QED
    BY <1>6, <1>8, <2>1, Numbering
<1> QED
  BY <1>1, <1>6, <1>7, <1>8, <1>9

-----------------------------------------------------------------------------
(***************************************************************************)
(* What ToJson prints.                                                     *)
(***************************************************************************)
Doc == Parts(Documents)

Wider(nodes) ==
  nodes \cup UNION {{Items(m)[i] : i \in DOMAIN Items(m)} : m \in nodes}

\* The documents are among the nodes that are printed.
LEMMA PartsContain == Documents \subseteq Doc
<1> DEFINE Upto(f, n) == f = [m \in 0 .. n |-> IF m = 0 THEN Documents ELSE Wider(f[m - 1])]
           S == {n \in Nat : \E f : Upto(f, n)}
           within == CHOOSE f : Upto(f, Depth)
<1>1. 0 \in S
  <2> DEFINE f == [m \in 0 .. 0 |-> Documents]
  <2>1. Upto(f, 0)
    OBVIOUS
  <2> QED
    BY <2>1
<1>2. ASSUME NEW n \in Nat, n \in S
      PROVE  n + 1 \in S
  <2>1. PICK f : Upto(f, n)
    BY <1>2
  <2> DEFINE g == [m \in 0 .. n + 1 |-> IF m = n + 1 THEN Wider(f[n]) ELSE f[m]]
  <2>2. ASSUME NEW m \in 0 .. n + 1
        PROVE  g[m] = IF m = 0 THEN Documents ELSE Wider(g[m - 1])
    <3>1. CASE m = n + 1
      <4>1. m # 0 /\ m - 1 = n /\ n \in 0 .. n + 1 /\ n # n + 1
        BY <3>1
      <4>2. g[n] = f[n]
        BY <4>1
      <4> QED
        BY <3>1, <4>1, <4>2
    <3>2. CASE m # n + 1
      <4>1. m \in 0 .. n /\ (m # 0 => m - 1 \in 0 .. n + 1 /\ m - 1 # n + 1)
        BY <3>2
      <4>2. f[m] = IF m = 0 THEN Documents ELSE Wider(f[m - 1])
        BY <2>1, <4>1
      <4> QED
        BY <3>2, <4>1, <4>2
    <3> QED
      BY <3>1, <3>2
  <2>3. Upto(g, n + 1)
    <3>1. g = [m \in 0 .. n + 1 |-> g[m]]
      OBVIOUS
    <3> HIDE DEF g
    <3> QED
      BY <2>2, <3>1
  <2>4. n + 1 \in Nat
    OBVIOUS
  <2> HIDE DEF Upto
  <2> QED
    BY <2>3, <2>4
<1>3. \E f : Upto(f, Depth)
  <2> HIDE DEF S
  <2>1. Depth \in S
    BY <1>1, <1>2, StepByStep, JsonAssumption
  <2> QED
    BY <2>1 DEF S
<1>4. Upto(within, Depth)
  <2> HIDE DEF Upto
  <2> QED
    BY <1>3
<1>5. Doc = within[Depth]
  BY DEF Doc, Parts, Wider
<1> HIDE DEF within
<1> DEFINE T == {n \in Nat : n <= Depth => Documents \subseteq within[n]}
<1>6. 0 \in T
  BY <1>4, JsonAssumption
<1>7. ASSUME NEW n \in Nat, n \in T
      PROVE  n + 1 \in T
  <2> SUFFICES ASSUME n + 1 <= Depth PROVE Documents \subseteq within[n + 1]
    OBVIOUS
  <2>1. n + 1 \in 0 .. Depth /\ n + 1 # 0 /\ n + 1 - 1 = n /\ n <= Depth
    BY JsonAssumption
  <2>2. within[n + 1] = Wider(within[n])
    BY <1>4, <2>1
  <2> QED
    BY <1>7, <2>1, <2>2 DEF Wider
<1>8. Depth \in T
  <2> HIDE DEF T
  <2> QED
    BY <1>6, <1>7, StepByStep, JsonAssumption
<1> QED
  BY <1>5, <1>8, JsonAssumption

\* What is printed of one item more.
NextRow(row, n, node, printed, blank) ==
  row \o (IF n = 1 THEN << >> ELSE <<",">>) \o blank
    \o Label(node, n, blank) \o printed[Items(node)[n]]

\* The rows of an array or a map, item by item.
LEMMA RowSteps ==
  ASSUME NEW open, NEW node, NEW printed, NEW blank, Len(Items(node)) \in Nat
  PROVE  /\ Row(open, node, printed, blank)[0] = <<open>>
         /\ \A n \in 1 .. Len(Items(node)) :
              Row(open, node, printed, blank)[n] =
                NextRow(Row(open, node, printed, blank)[n - 1], n, node, printed, blank)
<1> DEFINE size == Len(Items(node))
           op(x, n) == NextRow(x, n, node, printed, blank)
           Upto(f, n) == f = [m \in 0 .. n |-> IF m = 0 THEN <<open>> ELSE op(f[m - 1], m)]
           S == {n \in Nat : \E f : Upto(f, n)}
           row == CHOOSE f : Upto(f, size)
<1>1. Row(open, node, printed, blank) = row
  BY DEF Row, NextRow
<1> HIDE DEF op, row
<1>2. 0 \in S
  <2> DEFINE f == [m \in 0 .. 0 |-> <<open>>]
  <2>1. Upto(f, 0)
    OBVIOUS
  <2> QED
    BY <2>1
<1>3. ASSUME NEW n \in Nat, n \in S
      PROVE  n + 1 \in S
  <2>1. PICK f : Upto(f, n)
    BY <1>3
  <2> DEFINE g == [m \in 0 .. n + 1 |-> IF m = n + 1 THEN op(f[n], n + 1) ELSE f[m]]
  <2>2. ASSUME NEW m \in 0 .. n + 1
        PROVE  g[m] = IF m = 0 THEN <<open>> ELSE op(g[m - 1], m)
    <3>1. CASE m = n + 1
      <4>1. m # 0 /\ m - 1 = n /\ n \in 0 .. n + 1 /\ n # n + 1
        BY <3>1
      <4>2. g[n] = f[n]
        BY <4>1
      <4> QED
        BY <3>1, <4>1, <4>2
    <3>2. CASE m # n + 1
      <4>1. m \in 0 .. n /\ (m # 0 => m - 1 \in 0 .. n + 1 /\ m - 1 # n + 1)
        BY <3>2
      <4>2. f[m] = IF m = 0 THEN <<open>> ELSE op(f[m - 1], m)
        BY <2>1, <4>1
      <4> QED
        BY <3>2, <4>1, <4>2
    <3> QED
      BY <3>1, <3>2
  <2>3. Upto(g, n + 1)
    <3>1. g = [m \in 0 .. n + 1 |-> g[m]]
      OBVIOUS
    <3> HIDE DEF g
    <3> QED
      BY <2>2, <3>1
  <2>4. n + 1 \in Nat
    OBVIOUS
  <2> HIDE DEF Upto
  <2> QED
    BY <2>3, <2>4
<1>4. \E f : Upto(f, size)
  <2> HIDE DEF S
  <2>1. size \in S
    BY <1>2, <1>3, StepByStep
  <2> QED
    BY <2>1 DEF S
<1>5. Upto(row, size)
  <2> HIDE DEF Upto
  <2> QED
    BY <1>4 DEF row
<1>6. row[0] = <<open>>
  BY <1>5
<1>7. ASSUME NEW n \in 1 .. size
      PROVE  row[n] = op(row[n - 1], n)
  <2>1. n \in 0 .. size /\ n # 0
    OBVIOUS
  <2> QED
    BY <1>5, <2>1
<1> QED
  BY <1>1, <1>6, <1>7 DEF op

\* What is printed of a node depends on what is printed of its items only.
LEMMA RowSame ==
  ASSUME NEW open, NEW node, Len(Items(node)) \in Nat, NEW blank, NEW f, NEW g,
         \A n \in 1 .. Len(Items(node)) : f[Items(node)[n]] = g[Items(node)[n]]
  PROVE  \A n \in 0 .. Len(Items(node)) :
           Row(open, node, f, blank)[n] = Row(open, node, g, blank)[n]
<1> DEFINE size == Len(Items(node))
           a == Row(open, node, f, blank)
           b == Row(open, node, g, blank)
           S == {n \in Nat : n <= size => a[n] = b[n]}
<1>3. a[0] = <<open>> /\ b[0] = <<open>>
  BY RowSteps
<1>4. ASSUME NEW k \in 1 .. size
      PROVE  /\ a[k] = NextRow(a[k - 1], k, node, f, blank)
             /\ b[k] = NextRow(b[k - 1], k, node, g, blank)
  BY RowSteps
<1> HIDE DEF a, b
<1>1. 0 \in S
  BY <1>3
<1>2. ASSUME NEW n \in Nat, n \in S
      PROVE  n + 1 \in S
  <2> SUFFICES ASSUME n + 1 <= size PROVE a[n + 1] = b[n + 1]
    OBVIOUS
  <2> DEFINE k == n + 1
  <2>1. k \in 1 .. size /\ k - 1 = n /\ a[n] = b[n]
    BY <1>2
  <2> HIDE DEF k
  <2>2. f[Items(node)[k]] = g[Items(node)[k]]
    BY <2>1
  <2>3. a[k] = b[k]
    <3>1. a[k] = NextRow(a[n], k, node, f, blank) /\ b[k] = NextRow(b[n], k, node, g, blank)
      BY <1>4, <2>1
    <3>2. NextRow(a[n], k, node, f, blank) = NextRow(b[n], k, node, g, blank)
      BY <2>1, <2>2, Zenon DEF NextRow
    <3> QED
      BY <3>1, <3>2
  <2> QED
    BY <2>3 DEF k
<1>5. Nat \subseteq S
  <2> HIDE DEF S
  <2> QED
    BY <1>1, <1>2, StepByStep
<1> QED
  BY <1>5 DEF a, b

\* Printing a node asks for nothing but the texts of its items.
LEMMA PrintsSame ==
  ASSUME NEW node, Len(Items(node)) \in Nat, NEW blank, NEW f, NEW g,
         \A n \in 1 .. Len(Items(node)) : f[Items(node)[n]] = g[Items(node)[n]]
  PROVE  NodeToJson(node, f, blank) = NodeToJson(node, g, blank)
<1>1. \A open : Row(open, node, f, blank)[Len(Items(node))] =
                  Row(open, node, g, blank)[Len(Items(node))]
  BY RowSame
<1>2. \A open, close : Enclosed(open, node, close, f, blank) =
                         Enclosed(open, node, close, g, blank)
  BY <1>1 DEF Enclosed
<1> QED
  BY <1>2 DEF NodeToJson

\* The nodes are nested, and not endlessly.
Nested(rank) ==
  /\ rank \in [Doc -> 0 .. Depth]
  /\ \A node \in Doc :
       /\ Len(Items(node)) \in Nat /\ DOMAIN Items(node) = 1 .. Len(Items(node))
       /\ \A n \in 1 .. Len(Items(node)) :
            Items(node)[n] \in Doc /\ rank[Items(node)[n]] < rank[node]

\* ToJson calls itself for the items: the depth that is counted never runs out.
LEMMA PrintedSteps ==
  ASSUME NEW rank, Nested(rank), NEW blank
  PROVE  \A node \in Doc :
           ToJson(Documents, blank)[node] =
             NodeToJson(node, ToJson(Documents, blank), blank)
<1> DEFINE Right(f, n) == \A node \in Doc : rank[node] < n => f[node] = NodeToJson(node, f, blank)
           S == {n \in Nat : \E f : Right(f, n)}
           Prints(f) == f = [node \in Doc |-> NodeToJson(node, f, blank)]
           printed == CHOOSE f : Prints(f)
<1>1. \A node \in Doc : rank[node] \in Nat /\ rank[node] < Depth + 1
  BY JsonAssumption DEF Nested
<1>2. 0 \in S
  BY <1>1
<1>3. ASSUME NEW n \in Nat, n \in S
      PROVE  n + 1 \in S
  <2>1. PICK f : Right(f, n)
    BY <1>3
  <2> DEFINE g == [node \in Doc |-> IF rank[node] < n THEN f[node] ELSE NodeToJson(node, f, blank)]
  <2>2. ASSUME NEW node \in Doc, rank[node] < n + 1
        PROVE  g[node] = NodeToJson(node, g, blank)
    <3>1. g[node] = NodeToJson(node, f, blank)
      BY <2>1
    <3>2. \A k \in 1 .. Len(Items(node)) : g[Items(node)[k]] = f[Items(node)[k]]
      <4> TAKE k \in 1 .. Len(Items(node))
      <4>1. Items(node)[k] \in Doc /\ rank[Items(node)[k]] < rank[node]
        BY DEF Nested
      <4>2. rank[Items(node)[k]] < n
        BY <1>1, <2>2, <4>1
      <4> QED
        BY <4>1, <4>2
    <3> HIDE DEF g
    <3>3. NodeToJson(node, g, blank) = NodeToJson(node, f, blank)
      <4>1. Len(Items(node)) \in Nat
        BY DEF Nested
      <4> QED
        BY <3>2, <4>1, PrintsSame
    <3> QED
      BY <3>1, <3>3
  <2> HIDE DEF g
  <2>3. Right(g, n + 1)
    BY <2>2
  <2>4. n + 1 \in Nat
    OBVIOUS
  <2> HIDE DEF Right
  <2> QED
    BY <2>3, <2>4
<1>4. PICK f : Right(f, Depth + 1)
  <2> HIDE DEF S
  <2>1. Depth + 1 \in Nat
    BY JsonAssumption
  <2>2. Depth + 1 \in S
    BY <1>2, <1>3, <2>1, StepByStep
  <2> QED
    BY <2>2 DEF S
<1> DEFINE g == [node \in Doc |-> f[node]]
<1>5. Prints(g)
  <2>1. ASSUME NEW node \in Doc
        PROVE  g[node] = NodeToJson(node, g, blank)
    <3>1. f[node] = NodeToJson(node, f, blank)
      BY <1>1, <1>4
    <3>2. Len(Items(node)) \in Nat
      BY DEF Nested
    <3>3. \A k \in 1 .. Len(Items(node)) : g[Items(node)[k]] = f[Items(node)[k]]
      BY DEF Nested
    <3>5. g[node] = f[node]
      OBVIOUS
    <3> HIDE DEF g
    <3>4. NodeToJson(node, g, blank) = NodeToJson(node, f, blank)
      BY <3>2, <3>3, PrintsSame
    <3> QED
      BY <3>1, <3>4, <3>5
  <2>2. g = [node \in Doc |-> g[node]]
    OBVIOUS
  <2> HIDE DEF g
  <2> QED
    BY <2>1, <2>2
<1>6. Prints(printed)
  <2> HIDE DEF Prints, g
  <2> QED
    BY <1>5
<1>7. ToJson(Documents, blank) = printed
  BY DEF ToJson, Doc
<1> HIDE DEF printed
<1> QED
  BY <1>6, <1>7

Quote == "\""

String == Seq(Char \ {Quote})

\* The nodes of a document as Node makes them: the items of arrays and maps are
\* parts of the documents as well, strings and keys have no quotes, which are
\* printed without an escape, and numbers are printed in full.
PlainNode(node) ==
  \/ Holds(node, "array") /\ node = ArrayNode(node.array) /\ node.array \in Seq(Doc)
  \/ /\ Holds(node, "map") /\ node = MapNode(node.map)
     /\ IsFiniteSet(DOMAIN node.map) /\ DOMAIN node.map \subseteq String
     /\ node.map \in [DOMAIN node.map -> Doc]
  \/ Holds(node, "string") /\ node = StringNode(node.string) /\ node.string \in String
  \/ Holds(node, "bool") /\ node = BoolNode(node.bool) /\ node.bool \in BOOLEAN
  \/ /\ Holds(node, "magnitude") /\ node = DoubleNode(node.negative, node.magnitude)
     /\ node.negative \in BOOLEAN /\ PlainMagnitude(node.magnitude)

\* ... nested, and not endlessly.
PlainDocuments ==
  /\ \A node \in Doc : PlainNode(node)
  /\ \E rank \in [Doc -> 0 .. Depth] :
       \A node \in Doc : \A n \in DOMAIN Items(node) : rank[Items(node)[n]] < rank[node]

\* An array is printed in square brackets; its items are its elements.
LEMMA ArrayKind ==
  ASSUME NEW items, NEW f, NEW blank
  PROVE  /\ Holds(ArrayNode(items), "array") /\ ~ Holds(ArrayNode(items), "map")
         /\ ArrayNode(items).array = items /\ Items(ArrayNode(items)) = items
         /\ NodeToJson(ArrayNode(items), f, blank) =
              Enclosed("[", ArrayNode(items), "]", f, blank)
<1>1. DOMAIN ArrayNode(items) = {"array"} /\ ArrayNode(items).array = items
  BY DEF ArrayNode
<1>2. Holds(ArrayNode(items), "array") /\ ~ Holds(ArrayNode(items), "map")
  BY <1>1 DEF Holds
<1>3. Items(ArrayNode(items)) = items
  BY <1>1, <1>2 DEF Items
<1> DEFINE node == ArrayNode(items)
<1>4. /\ ~ Holds(node, "string") /\ ~ Holds(node, "magnitude") /\ ~ Holds(node, "bool")
  BY <1>1 DEF Holds
<1> HIDE DEF node
<1>5. NodeToJson(node, f, blank) = Enclosed("[", node, "]", f, blank)
  BY <1>2, <1>4 DEF NodeToJson, node
<1> QED
  BY <1>1, <1>2, <1>3, <1>5 DEF node

\* A map is printed in curly brackets; its items come in the order of its keys.
LEMMA MapKind ==
  ASSUME NEW entries, NEW f, NEW blank
  PROVE  /\ Holds(MapNode(entries), "map") /\ ~ Holds(MapNode(entries), "array")
         /\ MapNode(entries).map = entries
         /\ Items(MapNode(entries)) = [n \in DOMAIN Keys(entries) |-> entries[Keys(entries)[n]]]
         /\ NodeToJson(MapNode(entries), f, blank) =
              Enclosed("{", MapNode(entries), "}", f, blank)
<1> DEFINE node == MapNode(entries)
<1>1. DOMAIN node = {"map"} /\ node.map = entries
  BY DEF MapNode
<1>2. /\ Holds(node, "map") /\ ~ Holds(node, "array") /\ ~ Holds(node, "string")
      /\ ~ Holds(node, "magnitude") /\ ~ Holds(node, "bool")
  BY <1>1 DEF Holds
<1> HIDE DEF node
<1>3. Items(node) = [n \in DOMAIN Keys(entries) |-> entries[Keys(entries)[n]]]
  BY <1>1, <1>2 DEF Items
<1>4. NodeToJson(node, f, blank) = Enclosed("{", node, "}", f, blank)
  BY <1>2 DEF NodeToJson
<1> QED
  BY <1>1, <1>2, <1>3, <1>4 DEF node

\* A string, a bool or a number has no items.
LEMMA LeafKinds ==
  ASSUME NEW node, NEW f, NEW blank,
         ~ Holds(node, "array"), ~ Holds(node, "map")
  PROVE  Items(node) = << >>
BY DEF Items

\* A string is printed in quotes.
LEMMA StringKind ==
  ASSUME NEW s, NEW f, NEW blank
  PROVE  /\ ~ Holds(StringNode(s), "array") /\ ~ Holds(StringNode(s), "map")
         /\ NodeToJson(StringNode(s), f, blank) = Quoted(s)
<1> DEFINE node == StringNode(s)
<1>1. DOMAIN node = {"string"} /\ node.string = s
  BY DEF StringNode
<1>2. /\ ~ Holds(node, "map") /\ ~ Holds(node, "array") /\ Holds(node, "string")
      /\ ~ Holds(node, "magnitude") /\ ~ Holds(node, "bool")
  BY <1>1 DEF Holds
<1> HIDE DEF node
<1>3. NodeToJson(node, f, blank) = Quoted(s)
  BY <1>1, <1>2 DEF NodeToJson
<1> QED
  BY <1>2, <1>3 DEF node

\* A bool is printed as a word.
LEMMA BoolKind ==
  ASSUME NEW b, NEW f, NEW blank
  PROVE  /\ ~ Holds(BoolNode(b), "array") /\ ~ Holds(BoolNode(b), "map")
         /\ NodeToJson(BoolNode(b), f, blank) = BoolToJson(b)
<1> DEFINE node == BoolNode(b)
<1>1. DOMAIN node = {"bool"} /\ node.bool = b
  BY DEF BoolNode
<1>2. /\ ~ Holds(node, "map") /\ ~ Holds(node, "array") /\ Holds(node, "bool")
      /\ ~ Holds(node, "magnitude") /\ ~ Holds(node, "string")
  BY <1>1 DEF Holds
<1> HIDE DEF node
<1>3. NodeToJson(node, f, blank) = BoolToJson(b)
  BY <1>1, <1>2 DEF NodeToJson
<1> QED
  BY <1>2, <1>3 DEF node

\* A number is printed as DoubleToJson prints it.
LEMMA DoubleKind ==
  ASSUME NEW b, NEW m, NEW f, NEW blank
  PROVE  /\ ~ Holds(DoubleNode(b, m), "array") /\ ~ Holds(DoubleNode(b, m), "map")
         /\ NodeToJson(DoubleNode(b, m), f, blank) = DoubleToJson(DoubleNode(b, m))
<1> DEFINE node == DoubleNode(b, m)
<1>1. DOMAIN node = {"negative", "magnitude"}
  BY DEF DoubleNode
<1>2. /\ ~ Holds(node, "map") /\ ~ Holds(node, "array") /\ Holds(node, "magnitude")
      /\ ~ Holds(node, "bool") /\ ~ Holds(node, "string")
  BY <1>1 DEF Holds
<1> HIDE DEF node
<1>3. NodeToJson(node, f, blank) = DoubleToJson(node)
  BY <1>2 DEF NodeToJson
<1> QED
  BY <1>2, <1>3 DEF node

\* A plain node was made by one of Node's constructors.
LEMMA PlainKinds ==
  ASSUME NEW node, PlainNode(node)
  PROVE  \/ \E items \in Seq(Doc) : node = ArrayNode(items)
         \/ \E entries : /\ IsFiniteSet(DOMAIN entries) /\ DOMAIN entries \subseteq String
                         /\ entries \in [DOMAIN entries -> Doc]
                         /\ node = MapNode(entries)
         \/ \E s \in String : node = StringNode(s)
         \/ \E b \in BOOLEAN : node = BoolNode(b)
         \/ \E b \in BOOLEAN : \E m : PlainMagnitude(m) /\ node = DoubleNode(b, m)
<1>1. CASE Holds(node, "array") /\ node = ArrayNode(node.array) /\ node.array \in Seq(Doc)
  BY <1>1
<1>2. CASE /\ Holds(node, "map") /\ node = MapNode(node.map)
           /\ IsFiniteSet(DOMAIN node.map) /\ DOMAIN node.map \subseteq String
           /\ node.map \in [DOMAIN node.map -> Doc]
  <2> DEFINE entries == node.map
  <2>1. /\ IsFiniteSet(DOMAIN entries) /\ DOMAIN entries \subseteq String
        /\ entries \in [DOMAIN entries -> Doc] /\ node = MapNode(entries)
    BY <1>2
  <2> HIDE DEF entries
  <2> QED
    BY <2>1
<1>3. CASE Holds(node, "string") /\ node = StringNode(node.string) /\ node.string \in String
  BY <1>3
<1>4. CASE Holds(node, "bool") /\ node = BoolNode(node.bool) /\ node.bool \in BOOLEAN
  BY <1>4
<1>5. CASE /\ Holds(node, "magnitude") /\ node = DoubleNode(node.negative, node.magnitude)
           /\ node.negative \in BOOLEAN /\ PlainMagnitude(node.magnitude)
  BY <1>5
<1> QED
  BY <1>1, <1>2, <1>3, <1>4, <1>5 DEF PlainNode

\* A map's keys are strings, so they are read in the order of their codes.
LEMMA MapItems ==
  ASSUME NEW entries, IsFiniteSet(DOMAIN entries), DOMAIN entries \subseteq String,
         NEW D, entries \in [DOMAIN entries -> D]
  PROVE  LET node == MapNode(entries)
             size == Cardinality(DOMAIN entries)
         IN  /\ size \in Nat /\ Items(node) \in Seq(D) /\ Len(Items(node)) = size
             /\ Keys(entries) \in [1 .. size -> DOMAIN entries]
             /\ \A n \in 1 .. size : Items(node)[n] = entries[Keys(entries)[n]]
             /\ \A m, n \in 1 .. size : Keys(entries)[m] = Keys(entries)[n] => m = n
             /\ DOMAIN entries = {Keys(entries)[n] : n \in 1 .. size}
<1> DEFINE size == Cardinality(DOMAIN entries)
<1>1. DOMAIN entries \subseteq Seq(Char)
  <2>1. Char \ {Quote} \subseteq Char
    OBVIOUS
  <2> QED
    BY <2>1, WiderSeq DEF String
<1>2. /\ size \in Nat
      /\ Keys(entries) \in [1 .. size -> DOMAIN entries]
      /\ \A m, n \in 1 .. size : Keys(entries)[m] = Keys(entries)[n] => m = n
      /\ DOMAIN entries = {Keys(entries)[n] : n \in 1 .. size}
  BY <1>1, KeysAre
<1> HIDE DEF size
<1>3. Items(MapNode(entries)) = [n \in 1 .. size |-> entries[Keys(entries)[n]]]
  <2>1. DOMAIN Keys(entries) = 1 .. size
    BY <1>2
  <2> QED
    BY <2>1, MapKind
<1>4. Items(MapNode(entries)) \in [1 .. size -> D]
  BY <1>2, <1>3
<1>5. Items(MapNode(entries)) \in Seq(D) /\ Len(Items(MapNode(entries))) = size
  BY <1>2, <1>4
<1> QED
  BY <1>2, <1>3, <1>5 DEF size

\* The items of a plain node are a sequence of nodes of the documents.
LEMMA PlainItems ==
  ASSUME NEW node, PlainNode(node)
  PROVE  /\ Items(node) \in Seq(Doc)
         /\ Len(Items(node)) \in Nat /\ DOMAIN Items(node) = 1 .. Len(Items(node))
         /\ \A n \in 1 .. Len(Items(node)) : Items(node)[n] \in Doc
<1>1. Items(node) \in Seq(Doc)
  <2>1. CASE \E items \in Seq(Doc) : node = ArrayNode(items)
    BY <2>1, ArrayKind
  <2>2. CASE \E entries : /\ IsFiniteSet(DOMAIN entries) /\ DOMAIN entries \subseteq String
                          /\ entries \in [DOMAIN entries -> Doc]
                          /\ node = MapNode(entries)
    BY <2>2, MapItems
  <2>3. << >> \in Seq(Doc)
    OBVIOUS
  <2>4. CASE \/ \E s \in String : node = StringNode(s)
             \/ \E b \in BOOLEAN : node = BoolNode(b)
             \/ \E b \in BOOLEAN : \E m : PlainMagnitude(m) /\ node = DoubleNode(b, m)
    <3>1. ~ Holds(node, "array") /\ ~ Holds(node, "map")
      BY <2>4, StringKind, BoolKind, DoubleKind
    <3> QED
      BY <2>3, <3>1, LeafKinds
  <2> QED
    BY <2>1, <2>2, <2>4, PlainKinds
<1> QED
  BY <1>1

\* The depth of plain documents is bounded, so that they can be printed.
LEMMA PlainNested ==
  ASSUME PlainDocuments
  PROVE  \E rank : Nested(rank)
<1>1. PICK rank \in [Doc -> 0 .. Depth] :
        \A node \in Doc : \A n \in DOMAIN Items(node) : rank[Items(node)[n]] < rank[node]
  BY DEF PlainDocuments
<1>2. ASSUME NEW node \in Doc
      PROVE  /\ Len(Items(node)) \in Nat /\ DOMAIN Items(node) = 1 .. Len(Items(node))
             /\ \A n \in 1 .. Len(Items(node)) :
                  Items(node)[n] \in Doc /\ rank[Items(node)[n]] < rank[node]
  BY <1>1, PlainItems DEF PlainDocuments
<1>3. Nested(rank)
  BY <1>1, <1>2 DEF Nested
<1> QED
  BY <1>3

\* The characters of the syntax can be written.
LEMMA SyntaxChars ==
  /\ {" ", Quote, ",", "-", ".", ":", "[", "]", "{", "}", "a", "e", "f", "l", "r", "s", "t", "u"}
       \subseteq Char
  /\ Digit \subseteq Char
BY JsonAssumption DEF Syntax, Char, Digit, Quote

\* A sequence of one character.
LEMMA OneChar ==
  ASSUME NEW S, NEW c \in S
  PROVE  <<c>> \in Seq(S) /\ Len(<<c>>) = 1 /\ <<c>>[1] = c
OBVIOUS

\* The empty sequence.
LEMMA NoChar ==
  ASSUME NEW S
  PROVE  << >> \in Seq(S) /\ Len(<< >>) = 0
OBVIOUS

\* A string of the documents is a sequence of characters without quotes.
LEMMA StringType ==
  ASSUME NEW s \in String
  PROVE  /\ s \in Seq(Char) /\ Len(s) \in Nat
         /\ \A n \in 1 .. Len(s) : s[n] # Quote
<1>1. Char \ {Quote} \subseteq Char
  OBVIOUS
<1>2. s \in Seq(Char)
  BY <1>1, WiderSeq DEF String
<1>3. s \in Seq(Char \ {Quote})
  BY DEF String
<1>4. \A n \in 1 .. Len(s) : s[n] \in Char \ {Quote}
  BY <1>3
<1> QED
  BY <1>2, <1>4

\* A string in its quotes.
LEMMA QuotedType ==
  ASSUME NEW s \in String
  PROVE  /\ Quoted(s) = <<Quote>> \o (s \o <<Quote>>)
         /\ Quoted(s) \in Seq(Char) /\ s \o <<Quote>> \in Seq(Char)
         /\ Len(Quoted(s)) = Len(s) + 2
<1>1. s \in Seq(Char) /\ <<Quote>> \in Seq(Char) /\ Len(<<Quote>>) = 1
  BY StringType, SyntaxChars, OneChar
<1>2. Quoted(s) = <<Quote>> \o s \o <<Quote>>
  BY DEF Quoted, Quote
<1>3. /\ s \o <<Quote>> \in Seq(Char) /\ Len(s \o <<Quote>>) = Len(s) + 1
      /\ <<Quote>> \o (s \o <<Quote>>) \in Seq(Char)
      /\ Len(<<Quote>> \o (s \o <<Quote>>)) = 1 + (Len(s) + 1)
      /\ Len(s) \in Nat
  BY <1>1, JoinedSeq
<1>4. <<Quote>> \o s \o <<Quote>> = <<Quote>> \o (s \o <<Quote>>)
  BY <1>1
<1> QED
  BY <1>2, <1>3, <1>4

\* A blank is one space or none.
LEMMA BlankType ==
  ASSUME NEW blank \in Blanks
  PROVE  blank \in Seq(Char) /\ (blank = <<" ">> \/ blank = << >>)
BY SyntaxChars, OneChar, NoChar DEF Blanks

\* The text of a plain number, and what it starts with.
LEMMA DoubleType ==
  ASSUME NEW negative \in BOOLEAN, NEW m, PlainMagnitude(m)
  PROVE  LET s == DoubleToJson(DoubleNode(negative, m))
         IN  /\ s \in Seq(Char)
             /\ Len(s) >= 1 /\ s[1] \in Digit \cup {"-"}
<1> DEFINE s == DoubleToJson(DoubleNode(negative, m))
<1>1. PICK w \in Nat \ {0}, whole \in Nat, kept \in 0 .. Places, f \in Nat :
           Printed(s, negative, m, w, whole, kept, f)
  BY PlainParts
<1> DEFINE sign == Sign(negative)
           number == Digits(whole, w)
           rest == IF kept = 0 THEN << >> ELSE <<".">> \o Digits(f, kept)
<1>2. s = sign \o (number \o rest)
  BY <1>1 DEF Printed
<1> HIDE DEF s
<1>3. number \in Seq(Char) /\ number \in Seq(Digit) /\ Len(number) = w
  BY DigitsType, SyntaxChars, WiderSeq
<1>4. rest \in Seq(Char)
  <2>1. kept \in Nat
    BY PlacesAssumption
  <2>2. Digits(f, kept) \in Seq(Char) /\ <<".">> \in Seq(Char)
    BY <2>1, DigitsType, SyntaxChars, WiderSeq, OneChar
  <2>3. <<".">> \o Digits(f, kept) \in Seq(Char)
    BY <2>2, JoinedSeq
  <2>4. << >> \in Seq(Char)
    BY NoChar
  <2> QED
    BY <2>3, <2>4
<1> HIDE DEF number, rest
<1>5. number \o rest \in Seq(Char) /\ Len(number \o rest) >= 1 /\ (number \o rest)[1] \in Digit
  <2>1. number[1] \in Digit /\ 1 \in 1 .. Len(number)
    BY <1>3
  <2> QED
    BY <1>3, <1>4, <2>1, JoinedSeq
<1>6. CASE negative
  <2>1. sign = <<"-">>
    BY <1>6 DEF Sign
  <2>2. sign \in Seq(Char) /\ Len(sign) = 1 /\ sign[1] = "-"
    BY <2>1, SyntaxChars, OneChar
  <2> HIDE DEF sign
  <2> DEFINE t == number \o rest
  <2>3. t \in Seq(Char) /\ Len(t) >= 1
    BY <1>5
  <2> HIDE DEF t
  <2>4. s = sign \o t
    BY <1>2 DEF t
  <2>5. s \in Seq(Char) /\ Len(s) = Len(sign) + Len(t) /\ s[1] = sign[1]
    <3>1. 1 \in 1 .. Len(sign)
      BY <2>2
    <3>2. /\ sign \o t \in Seq(Char) /\ Len(sign \o t) = Len(sign) + Len(t)
          /\ (sign \o t)[1] = sign[1]
      BY <2>2, <2>3, <3>1, JoinedSeq, ZenonT(40)
    <3> QED
      BY <2>4, <3>2
  <2>6. Len(t) \in Nat
    BY <2>3
  <2> QED
    BY <2>2, <2>3, <2>5, <2>6 DEF s
<1>7. CASE ~ negative
  <2>1. sign = << >>
    BY <1>7 DEF Sign
  <2>2. s = number \o rest
    BY <1>2, <1>5, <2>1
  <2> QED
    BY <1>5, <2>2 DEF s
<1> QED
  BY <1>6, <1>7

\* An array or a map.
Nests(node) == Holds(node, "array") \/ Holds(node, "map")

\* Arrays, maps and the rest are told apart.
LEMMA KindsApart ==
  /\ \A x : Holds(ArrayNode(x), "array") /\ ~ Holds(ArrayNode(x), "map")
  /\ \A x : Holds(MapNode(x), "map") /\ ~ Holds(MapNode(x), "array")
  /\ \A x : ~ Holds(StringNode(x), "array") /\ ~ Holds(StringNode(x), "map")
  /\ \A x : ~ Holds(BoolNode(x), "array") /\ ~ Holds(BoolNode(x), "map")
  /\ \A x, y : ~ Holds(DoubleNode(x, y), "array") /\ ~ Holds(DoubleNode(x, y), "map")
BY ArrayKind, MapKind, StringKind, BoolKind, DoubleKind

\* What a plain node is, by whether it is an array, a map or neither.
LEMMA NestKinds ==
  ASSUME NEW node, PlainNode(node)
  PROVE  /\ Holds(node, "array") => \E items \in Seq(Doc) : node = ArrayNode(items)
         /\ Holds(node, "map") =>
              \E entries : /\ IsFiniteSet(DOMAIN entries) /\ DOMAIN entries \subseteq String
                          /\ entries \in [DOMAIN entries -> Doc]
                          /\ node = MapNode(entries)
         /\ ~ Nests(node) =>
              \/ \E s \in String : node = StringNode(s)
              \/ \E b \in BOOLEAN : node = BoolNode(b)
              \/ \E b \in BOOLEAN : \E m : PlainMagnitude(m) /\ node = DoubleNode(b, m)
<1>1. CASE \E items \in Seq(Doc) : node = ArrayNode(items)
  BY <1>1, KindsApart DEF Nests
<1>2. CASE \E entries : /\ IsFiniteSet(DOMAIN entries) /\ DOMAIN entries \subseteq String
                        /\ entries \in [DOMAIN entries -> Doc]
                        /\ node = MapNode(entries)
  <2>1. ~ Holds(node, "array") /\ Holds(node, "map")
    BY <1>2, KindsApart
  <2> QED
    BY <1>2, <2>1 DEF Nests
<1>3. CASE \/ \E s \in String : node = StringNode(s)
           \/ \E b \in BOOLEAN : node = BoolNode(b)
           \/ \E b \in BOOLEAN : \E m : PlainMagnitude(m) /\ node = DoubleNode(b, m)
  <2>1. ~ Holds(node, "array") /\ ~ Holds(node, "map")
    BY <1>3, KindsApart
  <2> QED
    BY <1>3, <2>1 DEF Nests
<1> QED
  BY <1>1, <1>2, <1>3, PlainKinds

\* The label of an item: its key, in quotes, and a colon; an array has none.
LEMMA LabelType ==
  ASSUME NEW node, PlainNode(node), NEW n \in 1 .. Len(Items(node)), NEW blank \in Blanks
  PROVE  /\ Label(node, n, blank) \in Seq(Char)
         /\ Holds(node, "map") =>
              /\ Keys(node.map)[n] \in String
              /\ Label(node, n, blank) = Quoted(Keys(node.map)[n]) \o (<<":">> \o blank)
<1>1. CASE ~ Holds(node, "map")
  BY <1>1, NoChar DEF Label
<1>2. CASE Holds(node, "map")
  <2>1. PICK entries : /\ IsFiniteSet(DOMAIN entries) /\ DOMAIN entries \subseteq String
                       /\ entries \in [DOMAIN entries -> Doc]
                       /\ node = MapNode(entries)
    BY <1>2, NestKinds
  <2> DEFINE key == Keys(entries)[n]
  <2>2. node.map = entries /\ n \in 1 .. Cardinality(DOMAIN entries)
    BY <2>1, MapKind, MapItems
  <2>3. key \in String
    BY <2>1, <2>2, MapItems
  <2> HIDE DEF key
  <2>4. Label(node, n, blank) = Quoted(key) \o <<":">> \o blank
    BY <1>2, <2>2 DEF Label, key
  <2>5. Quoted(key) \in Seq(Char) /\ <<":">> \in Seq(Char) /\ blank \in Seq(Char)
    BY <2>3, QuotedType, OneChar, SyntaxChars, BlankType
  <2>6. Quoted(key) \o <<":">> \o blank = Quoted(key) \o (<<":">> \o blank)
    BY <2>5
  <2>7. Quoted(key) \o (<<":">> \o blank) \in Seq(Char)
    BY <2>5, JoinedSeq
  <2> QED
    BY <2>2, <2>3, <2>4, <2>6, <2>7 DEF key
<1> QED
  BY <1>1, <1>2

\* The text between an item and the one before.
Comma(n) == IF n = 1 THEN << >> ELSE <<",">>

\* An item with what comes before it.
Piece(n, node, printed, blank) ==
  Comma(n) \o (blank \o (Label(node, n, blank) \o printed[Items(node)[n]]))

\* The text of an item and of what comes before it is made of characters.
LEMMA PieceType ==
  ASSUME NEW node, PlainNode(node), NEW n \in 1 .. Len(Items(node)), NEW blank \in Blanks,
         NEW printed, printed[Items(node)[n]] \in Seq(Char)
  PROVE  /\ Label(node, n, blank) \o printed[Items(node)[n]] \in Seq(Char)
         /\ blank \o (Label(node, n, blank) \o printed[Items(node)[n]]) \in Seq(Char)
         /\ Comma(n) \in Seq(Char)
         /\ Piece(n, node, printed, blank) \in Seq(Char)
<1> DEFINE item == printed[Items(node)[n]]
           label == Label(node, n, blank)
           comma == Comma(n)
<1>1. /\ label \in Seq(Char) /\ blank \in Seq(Char) /\ item \in Seq(Char)
      /\ comma \in Seq(Char)
  BY LabelType, BlankType, OneChar, NoChar, SyntaxChars DEF Comma
<1> HIDE DEF item, label, comma
<1>2. label \o item \in Seq(Char)
  BY <1>1, JoinedSeq
<1>3. blank \o (label \o item) \in Seq(Char)
  BY <1>1, <1>2, JoinedSeq
<1>4. comma \o (blank \o (label \o item)) \in Seq(Char)
  BY <1>1, <1>3, JoinedSeq
<1> QED
  BY <1>1, <1>2, <1>3, <1>4 DEF item, label, comma, Piece

\* A row is the row before and the text of one item more.
LEMMA NextRowIs ==
  ASSUME NEW node, PlainNode(node), NEW n \in 1 .. Len(Items(node)), NEW blank \in Blanks,
         NEW row \in Seq(Char), NEW printed, printed[Items(node)[n]] \in Seq(Char)
  PROVE  /\ NextRow(row, n, node, printed, blank) = row \o Piece(n, node, printed, blank)
         /\ NextRow(row, n, node, printed, blank) \in Seq(Char)
<1> DEFINE item == printed[Items(node)[n]]
           label == Label(node, n, blank)
           comma == Comma(n)
<1>1. /\ label \in Seq(Char) /\ blank \in Seq(Char) /\ item \in Seq(Char)
      /\ comma \in Seq(Char)
  BY LabelType, BlankType, OneChar, NoChar, SyntaxChars DEF Comma
<1>2. NextRow(row, n, node, printed, blank) = row \o comma \o blank \o label \o item
  BY DEF NextRow, Comma
<1>5. Piece(n, node, printed, blank) = comma \o (blank \o (label \o item))
  BY DEF Piece
<1>6. Piece(n, node, printed, blank) \in Seq(Char)
  BY PieceType
<1> HIDE DEF item, label, comma
<1>4. row \o comma \o blank \o label \o item = row \o (comma \o (blank \o (label \o item)))
  <2>1. row \in Seq(Char)
    OBVIOUS
  <2> DEFINE x == row \o comma
             t == label \o item
             u == blank \o t
  <2>2. x \in Seq(Char) /\ t \in Seq(Char)
    BY <1>1, <2>1, JoinedSeq
  <2>3. row \o (comma \o (blank \o t)) = x \o (blank \o t)
    <3> HIDE DEF t
    <3>1. u \in Seq(Char)
      BY <1>1, <2>2, JoinedSeq
    <3> HIDE DEF u
    <3>2. row \in Seq(Char) /\ comma \in Seq(Char) /\ u \in Seq(Char)
      BY <1>1, <2>1, <3>1
    <3>3. row \o (comma \o u) = x \o u
      BY <3>2, JoinedTwice, SMTT(30)
    <3> QED
      BY <3>3 DEF u
  <2> HIDE DEF x
  <2>4. x \o blank \in Seq(Char)
    BY <1>1, <2>2, JoinedSeq
  <2>5. (x \o blank) \o label \o item = (x \o blank) \o t
    <3> DEFINE y == x \o blank
    <3>1. y \in Seq(Char)
      BY <2>4
    <3> HIDE DEF y
    <3>2. y \in Seq(Char) /\ label \in Seq(Char) /\ item \in Seq(Char)
      BY <1>1, <3>1
    <3>3. (y \o label) \o item = y \o (label \o item)
      BY <3>2, JoinedTwice, SMTT(30)
    <3> QED
      BY <3>3 DEF y
  <2>6. (x \o blank) \o t = x \o (blank \o t)
    <3> HIDE DEF t
    <3>1. x \in Seq(Char) /\ blank \in Seq(Char) /\ t \in Seq(Char)
      BY <1>1, <2>2
    <3> QED
      BY <3>1, JoinedTwice, SMTT(30)
  <2> QED
    BY <2>3, <2>5, <2>6 DEF x
<1>7. row \o Piece(n, node, printed, blank) \in Seq(Char)
  BY <1>6, JoinedSeq
<1> QED
  BY <1>2, <1>4, <1>5, <1>7

\* The rows are made of characters.
LEMMA RowType ==
  ASSUME NEW node, PlainNode(node), NEW blank \in Blanks, NEW open \in Char,
         NEW printed, \A n \in 1 .. Len(Items(node)) : printed[Items(node)[n]] \in Seq(Char)
  PROVE  \A n \in 0 .. Len(Items(node)) : Row(open, node, printed, blank)[n] \in Seq(Char)
<1> DEFINE row == Row(open, node, printed, blank)
           size == Len(Items(node))
           S == {n \in Nat : n <= size => row[n] \in Seq(Char)}
<1>1. size \in Nat
  BY PlainItems
<1>2. row[0] = <<open>> /\ \A n \in 1 .. size : row[n] = NextRow(row[n - 1], n, node, printed, blank)
  BY <1>1, RowSteps
<1> HIDE DEF row
<1>3. 0 \in S
  BY <1>2, OneChar
<1>4. ASSUME NEW n \in Nat, n \in S
      PROVE  n + 1 \in S
  <2> SUFFICES ASSUME n + 1 <= size PROVE row[n + 1] \in Seq(Char)
    OBVIOUS
  <2>1. n + 1 \in 1 .. size /\ n + 1 - 1 = n /\ row[n] \in Seq(Char)
    BY <1>1, <1>4
  <2> DEFINE k == n + 1
  <2>2. k \in 1 .. size /\ row[k] = NextRow(row[n], k, node, printed, blank)
    BY <1>2, <2>1
  <2> HIDE DEF k
  <2>3. printed[Items(node)[k]] \in Seq(Char)
    BY <2>2
  <2>4. row[k] \in Seq(Char)
    <3>1. NextRow(row[n], k, node, printed, blank) \in Seq(Char)
      BY <2>1, <2>2, <2>3, NextRowIs
    <3> QED
      BY <2>2, <3>1
  <2> QED
    BY <2>4 DEF k
<1>5. Nat \subseteq S
  <2> HIDE DEF S
  <2> QED
    BY <1>3, <1>4, StepByStep
<1> QED
  BY <1>1, <1>5 DEF row

\* The end of an array or a map.
Ending(node, close, blank) == (IF Items(node) = << >> THEN << >> ELSE blank) \o <<close>>

\* The end of an array or a map is made of characters.
LEMMA EndingType ==
  ASSUME NEW node, NEW blank \in Blanks, NEW close \in Char
  PROVE  /\ Ending(node, close, blank) \in Seq(Char)
         /\ (IF Items(node) = << >> THEN << >> ELSE blank) \in Seq(Char)
         /\ <<close>> \in Seq(Char)
<1> DEFINE end == IF Items(node) = << >> THEN << >> ELSE blank
<1>1. end \in Seq(Char) /\ <<close>> \in Seq(Char)
  BY BlankType, NoChar, OneChar
<1> HIDE DEF end
<1>2. end \o <<close>> \in Seq(Char)
  BY <1>1, JoinedSeq
<1> QED
  BY <1>1, <1>2 DEF end, Ending

\* The text of an array or a map is its last row and its end.
LEMMA EnclosedIs ==
  ASSUME NEW node, PlainNode(node), NEW blank \in Blanks, NEW open \in Char, NEW close \in Char,
         NEW printed, \A n \in 1 .. Len(Items(node)) : printed[Items(node)[n]] \in Seq(Char)
  PROVE  /\ Enclosed(open, node, close, printed, blank) =
              Row(open, node, printed, blank)[Len(Items(node))] \o Ending(node, close, blank)
         /\ Enclosed(open, node, close, printed, blank) \in Seq(Char)
<1> DEFINE end == IF Items(node) = << >> THEN << >> ELSE blank
           row == Row(open, node, printed, blank)[Len(Items(node))]
<1>1. end \in Seq(Char) /\ <<close>> \in Seq(Char)
  BY EndingType
<1>2. row \in Seq(Char)
  <2>1. Len(Items(node)) \in 0 .. Len(Items(node))
    BY PlainItems
  <2> QED
    BY <2>1, RowType
<1>3. Enclosed(open, node, close, printed, blank) = row \o end \o <<close>>
  BY DEF Enclosed
<1> HIDE DEF row, end
<1>4. end \o <<close>> \in Seq(Char) /\ row \o (end \o <<close>>) \in Seq(Char)
  BY <1>1, <1>2, JoinedSeq
<1>5. row \o end \o <<close>> = row \o (end \o <<close>>)
  BY <1>1, <1>2
<1> QED
  BY <1>1, <1>3, <1>4, <1>5 DEF row, end, Ending

\* The words for the bools are made of characters.
LEMMA BoolType ==
  ASSUME NEW b \in BOOLEAN
  PROVE  BoolToJson(b) \in Seq(Char)
<1>0. /\ "t" \in Char /\ "r" \in Char /\ "u" \in Char /\ "e" \in Char
      /\ "f" \in Char /\ "a" \in Char /\ "l" \in Char /\ "s" \in Char
  BY SyntaxChars
<1>1. <<"t", "r", "u", "e">> \in Seq(Char)
  BY <1>0
<1>2. <<"f", "a", "l", "s", "e">> \in Seq(Char)
  BY <1>0
<1> QED
  BY <1>1, <1>2 DEF BoolToJson

\* The text of a node is made of characters, if those of its items are.
LEMMA NodeType ==
  ASSUME NEW node, PlainNode(node), NEW blank \in Blanks,
         NEW printed, \A n \in 1 .. Len(Items(node)) : printed[Items(node)[n]] \in Seq(Char)
  PROVE  NodeToJson(node, printed, blank) \in Seq(Char)
<1>1. CASE Nests(node)
  <2>1. "[" \in Char /\ "]" \in Char /\ "{" \in Char /\ "}" \in Char
    BY SyntaxChars
  <2>2. CASE Holds(node, "array")
    <3>1. NodeToJson(node, printed, blank) = Enclosed("[", node, "]", printed, blank)
      BY <2>2, NestKinds, ArrayKind
    <3>2. Enclosed("[", node, "]", printed, blank) \in Seq(Char)
      BY <2>1, EnclosedIs
    <3> QED
      BY <3>1, <3>2
  <2>3. CASE Holds(node, "map")
    <3>1. NodeToJson(node, printed, blank) = Enclosed("{", node, "}", printed, blank)
      <4>1. PICK entries : node = MapNode(entries)
        BY <2>3, NestKinds
      <4> QED
        BY <4>1, MapKind
    <3>2. Enclosed("{", node, "}", printed, blank) \in Seq(Char)
      BY <2>1, EnclosedIs
    <3> QED
      BY <3>1, <3>2
  <2> QED
    BY <1>1, <2>2, <2>3 DEF Nests
<1>2. CASE ~ Nests(node)
  <2>1. CASE \E s \in String : node = StringNode(s)
    BY <2>1, StringKind, QuotedType
  <2>2. CASE \E b \in BOOLEAN : node = BoolNode(b)
    BY <2>2, BoolKind, BoolType
  <2>3. CASE \E b \in BOOLEAN : \E m : PlainMagnitude(m) /\ node = DoubleNode(b, m)
    BY <2>3, DoubleKind, DoubleType
  <2> QED
    BY <1>2, <2>1, <2>2, <2>3, NestKinds
<1> QED
  BY <1>1, <1>2

\* The text of every node of the documents is made of characters.
LEMMA TextType ==
  ASSUME PlainDocuments, NEW blank \in Blanks
  PROVE  \A node \in Doc : ToJson(Documents, blank)[node] \in Seq(Char)
<1> DEFINE J == ToJson(Documents, blank)
<1>1. PICK rank : Nested(rank)
  BY PlainNested
<1> DEFINE S == {n \in Nat : \A node \in Doc : rank[node] < n => J[node] \in Seq(Char)}
<1>2. \A node \in Doc : rank[node] \in Nat /\ rank[node] < Depth + 1
  BY <1>1, JsonAssumption DEF Nested
<1>3. \A node \in Doc : J[node] = NodeToJson(node, J, blank)
  BY <1>1, PrintedSteps
<1> HIDE DEF J
<1>4. 0 \in S
  BY <1>2
<1>5. ASSUME NEW n \in Nat, n \in S
      PROVE  n + 1 \in S
  <2> SUFFICES ASSUME NEW node \in Doc, rank[node] < n + 1
               PROVE  J[node] \in Seq(Char)
    OBVIOUS
  <2>1. ASSUME NEW k \in 1 .. Len(Items(node))
        PROVE  J[Items(node)[k]] \in Seq(Char)
    <3>1. Items(node)[k] \in Doc /\ rank[Items(node)[k]] < rank[node]
      BY <1>1 DEF Nested
    <3>2. rank[Items(node)[k]] < n
      BY <1>2, <3>1
    <3> QED
      BY <1>5, <3>1, <3>2
  <2>2. PlainNode(node)
    BY DEF PlainDocuments
  <2> QED
    BY <1>3, <2>1, <2>2, NodeType
<1> HIDE DEF S
<1>6. Depth + 1 \in Nat
  BY JsonAssumption
<1>7. Depth + 1 \in S
  BY <1>4, <1>5, <1>6, StepByStep
<1> QED
  BY <1>2, <1>7 DEF S, J

Space == " "

\* The space under its name: where the stream skips it, and where it is written.
LEMMA SpaceIs ==
  /\ \A p : Skip(p) = EndOfRun(p, {Space})
  /\ Blanks = {<<Space>>, << >>}
  /\ \A q : Stops(q) <=> q = Len(text) \/ text[q + 1] \in {",", Space, "]", "}"}
  /\ Space \in Char
<1>1. \A p : Skip(p) = EndOfRun(p, {Space})
  BY Zenon DEF Skip, Space
<1>2. Blanks = {<<Space>>, << >>}
  BY Zenon DEF Blanks, Space
<1>3. \A q : Stops(q) <=> q = Len(text) \/ text[q + 1] \in {",", Space, "]", "}"}
  BY Zenon DEF Stops, Space
<1>4. Space \in Char
  BY SyntaxChars, Zenon DEF Space
<1> QED
  BY <1>1, <1>2, <1>3, <1>4

\* No other character of the syntax is a blank.
LEMMA SpaceApart ==
  /\ \A c \in {",", "[", "]", "{", "}", ":", "-", "a", "e", "f", "l", "r", "s", "t", "u", Quote} : c # Space
  /\ Space \notin Digit
<1>1. \A c \in {",", "[", "]", "{", "}", ":", "-", "a", "e", "f", "l", "r", "s", "t", "u", Quote} : c # Space
  BY Zenon DEF Space, Quote
<1>2. Digit = {"0", "1", "2", "3", "4", "5", "6", "7", "8", "9"}
  BY DEF Digit, DigitChars
<1>3. Space \notin Digit
  BY <1>2, Zenon DEF Space
<1> QED
  BY <1>1, <1>3

\* A blank and its length.
LEMMA BlankIs ==
  ASSUME NEW blank \in Blanks
  PROVE  \/ blank = << >> /\ Len(blank) = 0
         \/ blank = <<Space>> /\ Len(blank) = 1 /\ blank[1] = Space
<1>1. blank = << >> \/ blank = <<Space>>
  BY SpaceIs
<1> QED
  BY <1>1

-----------------------------------------------------------------------------
(***************************************************************************)
(* The stream, where the next character is known.                          *)
(***************************************************************************)
LEMMA SkipTo ==
  ASSUME Len(text) \in Nat, NEW p \in Nat, NEW q \in Nat, p <= q, q < Len(text),
         \A r \in p + 1 .. q : text[r] = Space, text[q + 1] # Space
  PROVE  /\ Skip(p) = q /\ ~ AtEnd(p) /\ After(p) = q + 1
         /\ Fetched(p) = {text[q + 1]}
<1>1. EndOfRun(p, {Space}) = q
  BY EndOfRunIs
<1>2. Skip(p) = q
  BY <1>1, SpaceIs
<1>3. ~ AtEnd(p)
  BY <1>2 DEF AtEnd
<1> QED
  BY <1>2, <1>3 DEF After, Fetched

\* Nothing is skipped where there is no space.
LEMMA Here ==
  ASSUME Len(text) \in Nat, NEW p \in Nat, p < Len(text), text[p + 1] # Space
  PROVE  /\ Skip(p) = p /\ ~ AtEnd(p) /\ After(p) = p + 1
         /\ Fetched(p) = {text[p + 1]}
<1>1. \A r \in p + 1 .. p : text[r] = Space
  OBVIOUS
<1> QED
  BY <1>1, SkipTo

\* The stream skips the blank that was written.
LEMMA BehindBlank ==
  ASSUME Len(text) \in Nat, NEW p \in Nat, NEW blank \in Blanks, Occurs(p, blank),
         NEW q, q = p + Len(blank), q < Len(text), text[q + 1] # Space
  PROVE  /\ Skip(p) = q /\ ~ AtEnd(p) /\ After(p) = q + 1
         /\ Fetched(p) = {text[q + 1]}
<1>1. CASE blank = << >>
  BY <1>1, Here
<1>2. CASE blank = <<Space>>
  <2>1. q = p + 1 /\ q \in Nat /\ text[p + 1] = Space
    BY <1>2 DEF Occurs
  <2>2. \A r \in p + 1 .. q : text[r] = Space
    BY <2>1
  <2> QED
    BY <2>1, <2>2, SkipTo
<1> QED
  BY <1>1, <1>2, BlankIs

\* LoadString: where a string and its closing quote stand, the string is read up to
\* that quote.
LEMMA StringRead ==
  ASSUME text \in Seq(Char), NEW p \in Nat, NEW s \in String, Occurs(p, s \o <<Quote>>)
  PROVE  LoadString(p) = [node |-> StringNode(s), pos |-> p + Len(s) + 1]
<1> DEFINE end == p + Len(s)
           set == {text[n] : n \in DOMAIN text} \ {Quote}
<1>1. /\ s \in Seq(Char) /\ Len(s) \in Nat /\ \A n \in 1 .. Len(s) : s[n] # Quote
      /\ Len(text) \in Nat /\ DOMAIN text = 1 .. Len(text)
  BY StringType
<1>2. <<Quote>> \in Seq(Char) /\ Len(<<Quote>>) = 1 /\ <<Quote>>[1] = Quote
  BY SyntaxChars, OneChar
<1>3. Occurs(p, s) /\ Occurs(end, <<Quote>>)
  BY <1>1, <1>2, OccursJoined
<1>4. end \in Nat /\ p <= end /\ end < Len(text) /\ text[end + 1] = Quote
  BY <1>1, <1>2, <1>3 DEF Occurs
<1>5. ASSUME NEW r \in p + 1 .. end
      PROVE  text[r] \in set
  <2>1. r - p \in 1 .. Len(s) /\ p + (r - p) = r /\ r \in DOMAIN text
    BY <1>1, <1>4
  <2>2. text[p + (r - p)] = s[r - p]
    BY <1>3, <2>1 DEF Occurs
  <2> QED
    BY <1>1, <2>1, <2>2
<1>6. EndOfRun(p, set) = end
  <2>1. text[end + 1] \notin set /\ end <= Len(text)
    BY <1>1, <1>4
  <2> HIDE DEF set, end
  <2> QED
    BY <1>1, <1>4, <1>5, <2>1, EndOfRunIs
<1>7. SubSeq(text, p + 1, end) = s
  <2>1. SubSeq(text, p + 1, end) = [n \in 1 .. Len(s) |-> text[p + n]]
    <3>1. p + 1 \in 1 .. Len(text) + 1 /\ end \in p .. Len(text)
      BY <1>1, <1>4
    <3>2. /\ SubSeq(text, p + 1, end) \in Seq(Char)
          /\ Len(SubSeq(text, p + 1, end)) = Len(s)
          /\ \A n \in 1 .. Len(s) : SubSeq(text, p + 1, end)[n] = text[p + 1 + n - 1]
      BY <1>1, <3>1, SubSeqProperties
    <3>3. \A n \in 1 .. Len(s) : p + 1 + n - 1 = p + n
      OBVIOUS
    <3> QED
      BY <3>2, <3>3
  <2>2. \A n \in 1 .. Len(s) : text[p + n] = s[n]
    BY <1>3 DEF Occurs
  <2>3. s = [n \in 1 .. Len(s) |-> s[n]]
    BY <1>1
  <2> QED
    BY <2>1, <2>2, <2>3
<1>8. Peeks(end, Quote)
  BY <1>4 DEF Peeks
<1>9. LoadString(p) = [node |-> StringNode(SubSeq(text, p + 1, EndOfRun(p, set))),
                       pos |-> IF Peeks(EndOfRun(p, set), Quote) THEN EndOfRun(p, set) + 1
                                                                 ELSE EndOfRun(p, set)]
  BY DEF LoadString, Quote
<1> QED
  BY <1>6, <1>7, <1>8, <1>9

\* The stream takes the character that is there.
LEMMA OneTaken ==
  ASSUME Len(text) \in Nat, NEW p \in Nat, NEW q \in Nat, q = p + 1, q <= Len(text),
         NEW c, text[q] = c, c # Space
  PROVE  After(p) = q /\ Fetched(p) = {c}
<1>1. p < Len(text) /\ text[p + 1] = c
  OBVIOUS
<1> QED
  BY <1>1, Here

\* LoadBool: where a bool stands, its word is read and no character behind it.
LEMMA BoolRead ==
  ASSUME Len(text) \in Nat, NEW p \in Nat, NEW b \in BOOLEAN, Occurs(p, BoolToJson(b))
  PROVE  /\ p < Len(text) /\ text[p + 1] = (IF b THEN "t" ELSE "f")
         /\ LoadBool(After(p)) = {[node |-> BoolNode(b), pos |-> p + Len(BoolToJson(b))]}
<1>1. CASE b
  <2>1. BoolToJson(b) = <<"t", "r", "u", "e">> /\ Len(BoolToJson(b)) = 4
    BY <1>1 DEF BoolToJson
  <2>2. /\ p + 4 <= Len(text)
        /\ text[p + 1] = "t" /\ text[p + 2] = "r" /\ text[p + 3] = "u" /\ text[p + 4] = "e"
    BY <2>1 DEF Occurs
  <2>3. p + 1 \in Nat /\ p + 2 \in Nat /\ p + 3 \in Nat /\ p + 4 \in Nat
    OBVIOUS
  <2>4. PICK q \in Nat, r \in Nat, s \in Nat, t \in Nat :
          /\ q = p + 1 /\ r = p + 2 /\ s = p + 3 /\ t = p + 4
          /\ text[q] = "t" /\ text[r] = "r" /\ text[s] = "u" /\ text[t] = "e"
    BY <2>2, <2>3
  <2>5. After(p) = q /\ Fetched(p) = {"t"}
    <3>1. q = p + 1 /\ q <= Len(text)
      BY <2>2, <2>4
    <3>2. text[q] = "t" /\ "t" # Space
      BY <2>4, SpaceApart
    <3> QED
      BY <3>1, <3>2, OneTaken
  <2>6. After(q) = r /\ Fetched(q) = {"r"}
    <3>1. r = q + 1 /\ r <= Len(text)
      BY <2>2, <2>4
    <3>2. text[r] = "r" /\ "r" # Space
      BY <2>4, SpaceApart
    <3> QED
      BY <3>1, <3>2, OneTaken
  <2>7. After(r) = s /\ Fetched(r) = {"u"}
    <3>1. s = r + 1 /\ s <= Len(text)
      BY <2>2, <2>4
    <3>2. text[s] = "u" /\ "u" # Space
      BY <2>4, SpaceApart
    <3> QED
      BY <3>1, <3>2, OneTaken
  <2>8. After(s) = t /\ Fetched(s) = {"e"}
    <3>1. t = s + 1 /\ t <= Len(text)
      BY <2>2, <2>4
    <3>2. text[t] = "e" /\ "e" # Space
      BY <2>4, SpaceApart
    <3> QED
      BY <3>1, <3>2, OneTaken
  <2>9. LoadBool(q) = {[node |-> BoolNode(TRUE), pos |-> t]}
    BY <2>6, <2>7, <2>8 DEF LoadBool
  <2>10. p < Len(text)
    BY <2>2
  <2> QED
    BY <1>1, <2>1, <2>2, <2>4, <2>5, <2>9, <2>10
<1>2. CASE ~ b
  <2>1. BoolToJson(b) = <<"f", "a", "l", "s", "e">> /\ Len(BoolToJson(b)) = 5
    BY <1>2 DEF BoolToJson
  <2>2. /\ p + 5 <= Len(text)
        /\ text[p + 1] = "f" /\ text[p + 2] = "a" /\ text[p + 3] = "l" /\ text[p + 4] = "s" /\ text[p + 5] = "e"
    BY <2>1 DEF Occurs
  <2>3. p + 1 \in Nat /\ p + 2 \in Nat /\ p + 3 \in Nat /\ p + 4 \in Nat /\ p + 5 \in Nat
    OBVIOUS
  <2>4. PICK q \in Nat, r \in Nat, s \in Nat, t \in Nat, u \in Nat :
          /\ q = p + 1 /\ r = p + 2 /\ s = p + 3 /\ t = p + 4 /\ u = p + 5
          /\ text[q] = "f" /\ text[r] = "a" /\ text[s] = "l" /\ text[t] = "s" /\ text[u] = "e"
    BY <2>2, <2>3
  <2>5. After(p) = q /\ Fetched(p) = {"f"}
    <3>1. q = p + 1 /\ q <= Len(text)
      BY <2>2, <2>4
    <3>2. text[q] = "f" /\ "f" # Space
      BY <2>4, SpaceApart
    <3> QED
      BY <3>1, <3>2, OneTaken
  <2>6. After(q) = r /\ Fetched(q) = {"a"}
    <3>1. r = q + 1 /\ r <= Len(text)
      BY <2>2, <2>4
    <3>2. text[r] = "a" /\ "a" # Space
      BY <2>4, SpaceApart
    <3> QED
      BY <3>1, <3>2, OneTaken
  <2>7. After(r) = s /\ Fetched(r) = {"l"}
    <3>1. s = r + 1 /\ s <= Len(text)
      BY <2>2, <2>4
    <3>2. text[s] = "l" /\ "l" # Space
      BY <2>4, SpaceApart
    <3> QED
      BY <3>1, <3>2, OneTaken
  <2>8. After(s) = t /\ Fetched(s) = {"s"}
    <3>1. t = s + 1 /\ t <= Len(text)
      BY <2>2, <2>4
    <3>2. text[t] = "s" /\ "s" # Space
      BY <2>4, SpaceApart
    <3> QED
      BY <3>1, <3>2, OneTaken
  <2>9. After(t) = u /\ Fetched(t) = {"e"}
    <3>1. u = t + 1 /\ u <= Len(text)
      BY <2>2, <2>4
    <3>2. text[u] = "e" /\ "e" # Space
      BY <2>4, SpaceApart
    <3> QED
      BY <3>1, <3>2, OneTaken
  <2>10. LoadBool(q) = {[node |-> BoolNode(FALSE), pos |-> u]}
    BY <2>6, <2>7, <2>8, <2>9 DEF LoadBool
  <2>11. p < Len(text)
    BY <2>2
  <2> QED
    BY <1>2, <2>1, <2>2, <2>4, <2>5, <2>10, <2>11
<1> QED
  BY <1>1, <1>2

-----------------------------------------------------------------------------
(***************************************************************************)
(* Where the items of an array or a map stand in the file.                 *)
(***************************************************************************)
TextOf(node, blank) == ToJson(Documents, blank)[node]

Opening(node) == IF Holds(node, "array") THEN "[" ELSE "{"

Closing(node) == IF Holds(node, "array") THEN "]" ELSE "}"

RowOf(node, blank) == Row(Opening(node), node, ToJson(Documents, blank), blank)

PieceOf(n, node, blank) == Piece(n, node, ToJson(Documents, blank), blank)

\* What is known of a node of the documents.
LEMMA DocIs ==
  ASSUME PlainDocuments, NEW node \in Doc, NEW blank \in Blanks
  PROVE  /\ PlainNode(node) /\ TextOf(node, blank) \in Seq(Char)
         /\ TextOf(node, blank) = NodeToJson(node, ToJson(Documents, blank), blank)
         /\ Len(Items(node)) \in Nat /\ DOMAIN Items(node) = 1 .. Len(Items(node))
         /\ \A n \in 1 .. Len(Items(node)) :
              /\ Items(node)[n] \in Doc
              /\ TextOf(Items(node)[n], blank) \in Seq(Char)
              /\ ToJson(Documents, blank)[Items(node)[n]] \in Seq(Char)
<1>1. PlainNode(node)
  BY DEF PlainDocuments
<1>2. \A m \in Doc : TextOf(m, blank) \in Seq(Char)
  BY TextType DEF TextOf
<1>3. TextOf(node, blank) = NodeToJson(node, ToJson(Documents, blank), blank)
  BY PlainNested, PrintedSteps DEF TextOf
<1>4. /\ Len(Items(node)) \in Nat /\ DOMAIN Items(node) = 1 .. Len(Items(node))
      /\ \A n \in 1 .. Len(Items(node)) : Items(node)[n] \in Doc
  BY <1>1, PlainItems
<1> QED
  BY <1>1, <1>2, <1>3, <1>4 DEF TextOf

\* A bracket is a character, and no space.
LEMMA Brackets ==
  ASSUME NEW node
  PROVE  /\ Opening(node) \in Char /\ Closing(node) \in Char
         /\ Opening(node) # Space /\ Closing(node) # Space
         /\ Closing(node) \in {"]", "}"}
BY SyntaxChars, SpaceApart DEF Opening, Closing

\* The rows of a node of the documents: its opening bracket, then item by item.
LEMMA RowOfSteps ==
  ASSUME PlainDocuments, NEW node \in Doc, NEW blank \in Blanks
  PROVE  /\ \A n \in 0 .. Len(Items(node)) : RowOf(node, blank)[n] \in Seq(Char)
         /\ RowOf(node, blank)[0] = <<Opening(node)>>
         /\ \A n \in 1 .. Len(Items(node)) :
              /\ PieceOf(n, node, blank) \in Seq(Char)
              /\ RowOf(node, blank)[n] = RowOf(node, blank)[n - 1] \o PieceOf(n, node, blank)
<1> DEFINE J == ToJson(Documents, blank)
           size == Len(Items(node))
           row == RowOf(node, blank)
<1>1. /\ PlainNode(node) /\ size \in Nat
      /\ \A n \in 1 .. size : J[Items(node)[n]] \in Seq(Char)
  BY DocIs
<1> HIDE DEF J
<1>2. \A n \in 0 .. size : row[n] \in Seq(Char)
  BY <1>1, RowType, Brackets DEF RowOf, J
<1>3. /\ row[0] = <<Opening(node)>>
      /\ \A n \in 1 .. size : row[n] = NextRow(row[n - 1], n, node, J, blank)
  BY <1>1, RowSteps DEF RowOf, J
<1>4. ASSUME NEW n \in 1 .. size
      PROVE  PieceOf(n, node, blank) \in Seq(Char) /\ row[n] = row[n - 1] \o PieceOf(n, node, blank)
  <2>1. n - 1 \in 0 .. size
    BY <1>1
  <2>2. row[n - 1] \in Seq(Char)
    BY <1>2, <2>1
  <2>3. J[Items(node)[n]] \in Seq(Char)
    BY <1>1
  <2>4. Piece(n, node, J, blank) \in Seq(Char)
    BY <1>1, <2>3, PieceType
  <2>5. NextRow(row[n - 1], n, node, J, blank) = row[n - 1] \o Piece(n, node, J, blank)
    BY <1>1, <2>2, <2>3, NextRowIs
  <2> QED
    BY <1>3, <2>4, <2>5 DEF PieceOf, J
<1> QED
  BY <1>2, <1>3, <1>4

\* The text of an array or a map of the documents.
LEMMA NestText ==
  ASSUME PlainDocuments, NEW node \in Doc, NEW blank \in Blanks, Nests(node)
  PROVE  TextOf(node, blank) =
           RowOf(node, blank)[Len(Items(node))] \o Ending(node, Closing(node), blank)
<1> DEFINE J == ToJson(Documents, blank)
<1>1. /\ PlainNode(node) /\ \A n \in 1 .. Len(Items(node)) : J[Items(node)[n]] \in Seq(Char)
      /\ TextOf(node, blank) = NodeToJson(node, J, blank)
  BY DocIs
<1> HIDE DEF J
<1>2. NodeToJson(node, J, blank) = Enclosed(Opening(node), node, Closing(node), J, blank)
  <2>1. CASE Holds(node, "array")
    <3>1. Opening(node) = "[" /\ Closing(node) = "]"
      BY <2>1 DEF Opening, Closing
    <3>2. PICK items : node = ArrayNode(items)
      BY <1>1, <2>1, NestKinds
    <3> QED
      BY <3>1, <3>2, ArrayKind
  <2>2. CASE Holds(node, "map")
    <3>2. PICK entries : node = MapNode(entries)
      BY <1>1, <2>2, NestKinds
    <3>1. Opening(node) = "{" /\ Closing(node) = "}"
      BY <3>2, MapKind DEF Opening, Closing
    <3>3. NodeToJson(node, J, blank) = Enclosed("{", node, "}", J, blank)
      BY <3>2, MapKind
    <3> QED
      BY <3>1, <3>3
  <2> QED
    BY <2>1, <2>2 DEF Nests
<1>3. Enclosed(Opening(node), node, Closing(node), J, blank) =
        Row(Opening(node), node, J, blank)[Len(Items(node))] \o Ending(node, Closing(node), blank)
  BY <1>1, EnclosedIs, Brackets
<1> QED
  BY <1>1, <1>2, <1>3 DEF RowOf, J

\* Every row of it stands where the text starts, and the ending behind the last.
LEMMA RowsOccur ==
  ASSUME PlainDocuments, NEW node \in Doc, NEW blank \in Blanks, Nests(node),
         NEW at \in Nat, Occurs(at, TextOf(node, blank))
  PROVE  /\ \A n \in 0 .. Len(Items(node)) : Occurs(at, RowOf(node, blank)[n])
         /\ Occurs(at + Len(RowOf(node, blank)[Len(Items(node))]),
                   Ending(node, Closing(node), blank))
         /\ \A n \in 1 .. Len(Items(node)) :
              Occurs(at + Len(RowOf(node, blank)[n - 1]), PieceOf(n, node, blank))
<1> DEFINE size == Len(Items(node))
           row == RowOf(node, blank)
           end == Ending(node, Closing(node), blank)
<1>1. /\ size \in Nat
      /\ \A n \in 0 .. size : row[n] \in Seq(Char)
      /\ \A n \in 1 .. size : /\ PieceOf(n, node, blank) \in Seq(Char)
                              /\ row[n] = row[n - 1] \o PieceOf(n, node, blank)
  BY DocIs, RowOfSteps
<1>2. end \in Seq(Char)
  BY EndingType, Brackets
<1>3. TextOf(node, blank) = row[size] \o end
  BY NestText
<1> HIDE DEF row, end
<1> DEFINE S == {k \in Nat : k <= size => Occurs(at, row[size - k])}
<1>4. Occurs(at, row[size]) /\ Occurs(at + Len(row[size]), end)
  <2>1. row[size] \in Seq(Char)
    BY <1>1
  <2> QED
    BY <1>2, <1>3, <2>1, OccursJoined
<1>5. 0 \in S
  <2>1. size - 0 = size
    BY <1>1
  <2> QED
    BY <1>4, <2>1
<1>6. ASSUME NEW n \in 1 .. size, Occurs(at, row[n])
      PROVE  Occurs(at, row[n - 1]) /\ Occurs(at + Len(row[n - 1]), PieceOf(n, node, blank))
  <2>1. n - 1 \in 0 .. size
    BY <1>1
  <2>2. row[n - 1] \in Seq(Char) /\ PieceOf(n, node, blank) \in Seq(Char)
    BY <1>1, <2>1
  <2>3. Occurs(at, row[n - 1] \o PieceOf(n, node, blank))
    BY <1>1, <1>6
  <2> QED
    BY <2>2, <2>3, OccursJoined
<1>7. ASSUME NEW k \in Nat, k \in S
      PROVE  k + 1 \in S
  <2> SUFFICES ASSUME k + 1 <= size PROVE Occurs(at, row[size - (k + 1)])
    OBVIOUS
  <2> DEFINE n == size - k
  <2>1. n \in 1 .. size /\ n - 1 = size - (k + 1) /\ Occurs(at, row[n])
    BY <1>1, <1>7
  <2> HIDE DEF n
  <2>2. Occurs(at, row[n - 1])
    BY <1>6, <2>1
  <2> QED
    BY <2>1, <2>2
<1>8. Nat \subseteq S
  <2> HIDE DEF S
  <2> QED
    BY <1>5, <1>7, StepByStep
<1>9. ASSUME NEW n \in 0 .. size
      PROVE  Occurs(at, row[n])
  <2>1. size - n \in Nat /\ size - n <= size /\ size - (size - n) = n
    BY <1>1
  <2>2. size - n \in S
    BY <1>8, <2>1
  <2> QED
    BY <2>1, <2>2
<1>10. \A n \in 1 .. size : Occurs(at + Len(row[n - 1]), PieceOf(n, node, blank))
  <2> TAKE n \in 1 .. size
  <2>1. n \in 0 .. size
    BY <1>1
  <2> QED
    BY <1>6, <1>9, <2>1
<1> QED
  BY <1>4, <1>9, <1>10 DEF row, end

\* Where the text of the n-th item starts.
ItemStart(node, at, n, blank) ==
  at + Len(RowOf(node, blank)[n - 1]) + Len(Comma(n)) + Len(blank) + Len(Label(node, n, blank))

\* Where an array or a map stands each of its items stands at its place, with its
\* comma, blank and label before it.
LEMMA ItemOccurs ==
  ASSUME PlainDocuments, NEW node \in Doc, NEW blank \in Blanks, Nests(node),
         NEW at \in Nat, Occurs(at, TextOf(node, blank)), NEW n \in 1 .. Len(Items(node)),
         NEW p, p = at + Len(RowOf(node, blank)[n - 1])
  PROVE  /\ p \in Nat /\ Len(blank) \in Nat /\ Len(Comma(n)) \in Nat
         /\ Len(Label(node, n, blank)) \in Nat
         /\ Occurs(p, Comma(n))
         /\ Occurs(p + Len(Comma(n)), blank)
         /\ Occurs(p + Len(Comma(n)) + Len(blank), Label(node, n, blank))
         /\ Occurs(ItemStart(node, at, n, blank), TextOf(Items(node)[n], blank))
         /\ ItemStart(node, at, n, blank) \in Nat
         /\ ItemStart(node, at, n, blank) + Len(TextOf(Items(node)[n], blank)) =
              at + Len(RowOf(node, blank)[n])
<1> DEFINE item == TextOf(Items(node)[n], blank)
           label == Label(node, n, blank)
           comma == Comma(n)
           before == RowOf(node, blank)[n - 1]
           a == label \o item
           b == blank \o a
           c == comma \o b
<1>1. PlainNode(node) /\ item \in Seq(Char) /\ ToJson(Documents, blank)[Items(node)[n]] \in Seq(Char)
  BY DocIs
<1>2. label \in Seq(Char) /\ blank \in Seq(Char) /\ comma \in Seq(Char)
  BY <1>1, LabelType, BlankType, PieceType
<1>3. PieceOf(n, node, blank) = c
  BY DEF PieceOf, Piece, TextOf
<1>4. /\ before \in Seq(Char) /\ RowOf(node, blank)[n] = before \o PieceOf(n, node, blank)
  <2>1. n - 1 \in 0 .. Len(Items(node))
    BY DocIs
  <2> QED
    BY <2>1, RowOfSteps
<1>5. Occurs(p, PieceOf(n, node, blank))
  BY RowsOccur
<1>6. ItemStart(node, at, n, blank) = p + Len(comma) + Len(blank) + Len(label)
  BY DEF ItemStart
<1> HIDE DEF item, label, comma, before
<1>7. a \in Seq(Char) /\ Len(a) = Len(label) + Len(item)
  BY <1>1, <1>2, JoinedSeq
<1> HIDE DEF a
<1>8. b \in Seq(Char) /\ Len(b) = Len(blank) + Len(a)
  BY <1>2, <1>7, JoinedSeq
<1> HIDE DEF b
<1>9. c \in Seq(Char) /\ Len(c) = Len(comma) + Len(b)
  BY <1>2, <1>8, JoinedSeq
<1>10. Len(RowOf(node, blank)[n]) = Len(before) + Len(c)
  BY <1>3, <1>4, <1>9, JoinedSeq
<1>11. /\ Len(before) \in Nat /\ Len(comma) \in Nat /\ Len(blank) \in Nat /\ Len(label) \in Nat
       /\ Len(item) \in Nat /\ p = at + Len(before)
  BY <1>1, <1>2, <1>4 DEF before
<1> DEFINE q == p + Len(comma)
           r == q + Len(blank)
           s == r + Len(label)
<1>12. p \in Nat /\ q \in Nat /\ r \in Nat /\ s \in Nat
  BY <1>11
<1>13. Occurs(p, comma) /\ Occurs(q, b)
  BY <1>2, <1>3, <1>5, <1>8, <1>12, OccursJoined
<1> HIDE DEF q
<1>14. Occurs(q, blank) /\ Occurs(r, a)
  BY <1>2, <1>7, <1>12, <1>13, OccursJoined DEF b
<1> HIDE DEF r
<1>15. Occurs(r, label) /\ Occurs(s, item)
  BY <1>1, <1>2, <1>12, <1>14, OccursJoined DEF a
<1> HIDE DEF c
<1>16. s + Len(item) = at + Len(RowOf(node, blank)[n])
  <2>1. Len(c) = Len(comma) + (Len(blank) + (Len(label) + Len(item)))
    BY <1>7, <1>8, <1>9
  <2>2. s + Len(item) = at + Len(before) + Len(comma) + Len(blank) + Len(label) + Len(item)
    BY <1>11 DEF q, r
  <2>3. Len(before) + Len(c) = Len(before) + Len(comma) + Len(blank) + Len(label) + Len(item)
    BY <1>11, <2>1
  <2> HIDE DEF s
  <2> QED
    BY <1>10, <1>11, <2>2, <2>3
<1> QED
  BY <1>6, <1>11, <1>12, <1>13, <1>14, <1>15, <1>16 DEF q, r, item, label, comma

\* A comma, or a blank or a bracket, comes behind an item.
LEMMA EndingOccurs ==
  ASSUME PlainDocuments, text \in Seq(Char), NEW node \in Doc, NEW blank \in Blanks, Nests(node),
         NEW at \in Nat, Occurs(at, TextOf(node, blank)),
         NEW p, p = at + Len(RowOf(node, blank)[Len(Items(node))])
  PROVE  /\ p \in Nat /\ Stops(p)
         /\ ~ AtEnd(p) /\ Peeks(Skip(p), Closing(node))
         /\ After(p) = at + Len(TextOf(node, blank))
<1> DEFINE row == RowOf(node, blank)[Len(Items(node))]
           some == IF Items(node) = << >> THEN << >> ELSE blank
           close == Closing(node)
           q == p + Len(some)
<1>1. row \in Seq(Char) /\ Len(row) \in Nat
  <2>1. Len(Items(node)) \in 0 .. Len(Items(node))
    BY DocIs
  <2>2. row \in Seq(Char)
    BY <2>1, RowOfSteps
  <2> QED
    BY <2>2
<1>2. /\ Ending(node, close, blank) \in Seq(Char) /\ some \in Seq(Char) /\ <<close>> \in Seq(Char)
  BY Brackets, EndingType
<1>3. Ending(node, close, blank) = some \o <<close>>
  BY DEF Ending
<1>4. TextOf(node, blank) = row \o Ending(node, close, blank)
  BY NestText
<1>5. Occurs(p, Ending(node, close, blank))
  BY RowsOccur
<1>6. some \in Blanks
  BY SpaceIs
<1>7. close # Space /\ close \in {"]", "}"}
  BY Brackets
<1>0. p = at + Len(row)
  OBVIOUS
<1> HIDE DEF row, some, close
<1>8. p \in Nat /\ Len(some) \in Nat /\ Len(<<close>>) = 1 /\ q \in Nat /\ Len(text) \in Nat
  BY <1>0, <1>1, <1>2
<1>9. Occurs(p, some) /\ Occurs(q, <<close>>)
  <2> DEFINE end == <<close>>
  <2>1. Occurs(p, some \o end) /\ end \in Seq(Char)
    BY <1>2, <1>3, <1>5
  <2> HIDE DEF end
  <2>2. Occurs(p, some) /\ Occurs(p + Len(some), end)
    BY <1>2, <1>8, <2>1, OccursJoined
  <2> QED
    BY <2>2 DEF end
<1>10. q < Len(text) /\ text[q + 1] = close
  <2> HIDE DEF q
  <2>1. q + 1 <= Len(text) /\ text[q + 1] = <<close>>[1]
    BY <1>8, <1>9 DEF Occurs
  <2> QED
    BY <1>8, <2>1
<1>11. Skip(p) = q /\ ~ AtEnd(p) /\ After(p) = q + 1
  BY <1>6, <1>7, <1>8, <1>9, <1>10, BehindBlank
<1>12. Len(TextOf(node, blank)) = Len(row) + (Len(some) + 1)
  <2>1. Len(some \o <<close>>) = Len(some) + 1
    BY <1>2, <1>8, JoinedSeq
  <2> QED
    BY <1>1, <1>2, <1>3, <1>4, <2>1, JoinedSeq
<1>13. q + 1 = at + Len(TextOf(node, blank))
  <2> DEFINE e == Len(some)
             l == Len(row)
  <2>1. e \in Nat /\ l \in Nat /\ q = at + l + e /\ Len(TextOf(node, blank)) = l + (e + 1)
    BY <1>0, <1>1, <1>8, <1>12
  <2> HIDE DEF e, l, q
  <2> QED
    BY <2>1
<1>14. Stops(p)
  <2>1. CASE Len(some) = 0
    <3>1. text[p + 1] = close
      BY <1>8, <1>10, <2>1
    <3> QED
      BY <1>7, <3>1, SpaceIs
  <2>2. CASE Len(some) # 0
    <3>1. Len(some) = 1 /\ some[1] = Space
      BY <1>6, <2>2, BlankIs
    <3>2. text[p + 1] = Space
      BY <1>9, <3>1 DEF Occurs
    <3> QED
      BY <3>2, SpaceIs
  <2> QED
    BY <2>1, <2>2
<1> HIDE DEF q
<1>15. Peeks(q, close)
  BY <1>10 DEF Peeks
<1> QED
  BY <1>8, <1>11, <1>13, <1>14, <1>15 DEF close

\* An item is followed by a comma, a blank or a bracket, none of which a number
\* can be continued by.
LEMMA ItemStops ==
  ASSUME PlainDocuments, text \in Seq(Char), NEW node \in Doc, NEW blank \in Blanks, Nests(node),
         NEW at \in Nat, Occurs(at, TextOf(node, blank)), NEW n \in 1 .. Len(Items(node))
  PROVE  Stops(at + Len(RowOf(node, blank)[n]))
<1> DEFINE size == Len(Items(node))
           p == at + Len(RowOf(node, blank)[n])
<1>1. size \in Nat
  BY DocIs
<1>2. CASE n = size
  BY <1>2, EndingOccurs
<1>3. CASE n # size
  <2> DEFINE m == n + 1
  <2>1. m \in 1 .. size /\ m - 1 = n /\ m # 1
    BY <1>1, <1>3
  <2> HIDE DEF m
  <2>2. p = at + Len(RowOf(node, blank)[m - 1])
    BY <2>1
  <2> HIDE DEF p
  <2>3. Occurs(p, Comma(m)) /\ p \in Nat
    BY <2>1, <2>2, ItemOccurs
  <2>4. Comma(m) = <<",">>
    BY <2>1 DEF Comma
  <2> DEFINE comma == <<",">>
  <2>5. Len(comma) = 1
    OBVIOUS
  <2>9. comma[1] = ","
    OBVIOUS
  <2>6. Occurs(p, comma)
    BY <2>3, <2>4
  <2> HIDE DEF comma
  <2>8. text[p + 1] = ","
    <3>1. 1 \in 1 .. Len(comma)
      BY <2>5
    <3>2. \A k \in 1 .. Len(comma) : text[p + k] = comma[k]
      BY <2>6 DEF Occurs
    <3>3. text[p + 1] = comma[1]
      BY <3>1, <3>2
    <3> QED
      BY <2>9, <3>3
  <2>7. Stops(p)
    BY <2>8, SpaceIs
  <2> QED
    BY <2>7 DEF p
<1> QED
  BY <1>2, <1>3

\* What LoadNode goes by.
Starts(c, node) ==
  /\ c \notin {Space, ",", "]", "}"}
  /\ Holds(node, "array") => c = "["
  /\ Holds(node, "map") => c = "{"
  /\ (\E s : node = StringNode(s)) => c = Quote
  /\ \A b : node = BoolNode(b) => c = IF b THEN "t" ELSE "f"
  /\ (\E b, m : node = DoubleNode(b, m)) => c \in Digit \cup {"-"}

\* Strings, bools, numbers, arrays and maps are told apart by their field.
LEMMA NodesApart ==
  /\ \A s : Holds(StringNode(s), "string") /\ ~ Holds(StringNode(s), "bool")
              /\ ~ Holds(StringNode(s), "magnitude")
  /\ \A b : Holds(BoolNode(b), "bool") /\ ~ Holds(BoolNode(b), "string")
              /\ ~ Holds(BoolNode(b), "magnitude") /\ BoolNode(b).bool = b
  /\ \A b, m : Holds(DoubleNode(b, m), "magnitude") /\ ~ Holds(DoubleNode(b, m), "string")
              /\ ~ Holds(DoubleNode(b, m), "bool")
  /\ \A x : ~ Holds(ArrayNode(x), "string") /\ ~ Holds(ArrayNode(x), "bool")
              /\ ~ Holds(ArrayNode(x), "magnitude")
  /\ \A x : ~ Holds(MapNode(x), "string") /\ ~ Holds(MapNode(x), "bool")
              /\ ~ Holds(MapNode(x), "magnitude")
<1>1. \A s : DOMAIN StringNode(s) = {"string"}
  BY DEF StringNode
<1>2. \A b : DOMAIN BoolNode(b) = {"bool"} /\ BoolNode(b).bool = b
  BY DEF BoolNode
<1>3. \A b, m : DOMAIN DoubleNode(b, m) = {"negative", "magnitude"}
  BY DEF DoubleNode
<1>4. \A x : DOMAIN ArrayNode(x) = {"array"}
  BY DEF ArrayNode
<1>5. \A x : DOMAIN MapNode(x) = {"map"}
  BY DEF MapNode
<1> QED
  BY <1>1, <1>2, <1>3, <1>4, <1>5 DEF Holds

\* The characters LoadNode tells the nodes apart by are no separators.
LEMMA CharsApart ==
  /\ \A c \in {"[", "{", "t", "f", Quote} \cup Digit \cup {"-"} : c \notin {Space, ",", "]", "}"}
  /\ \A c \in Digit \cup {"-"} : c \notin {"[", "{", "t", "f", Quote}
  /\ Quote \notin {"[", "{", "t", "f"}
<1>1. Digit = {"0", "1", "2", "3", "4", "5", "6", "7", "8", "9"}
  BY DEF Digit, DigitChars
<1>2. \A c \in {"[", "{", "t", "f", Quote, "-"} \cup Digit : c # Space
  BY SpaceApart
<1>3. \A c \in {"[", "{", "t", "f", Quote, "-"} \cup Digit : c \notin {",", "]", "}"}
  BY <1>1 DEF Quote
<1>4. \A c \in Digit \cup {"-"} : c \notin {"[", "{", "t", "f", Quote}
  BY <1>1 DEF Quote
<1>5. Quote \notin {"[", "{", "t", "f"}
  BY DEF Quote
<1> QED
  BY <1>2, <1>3, <1>4, <1>5

\* The text of a node starts with the character LoadNode takes it by.
LEMMA FirstChar ==
  ASSUME PlainDocuments, text \in Seq(Char), NEW node \in Doc, NEW blank \in Blanks,
         NEW p \in Nat, Occurs(p, TextOf(node, blank))
  PROVE  p < Len(text) /\ Starts(text[p + 1], node)
<1> DEFINE s == TextOf(node, blank)
           J == ToJson(Documents, blank)
<1>1. PlainNode(node) /\ s \in Seq(Char) /\ s = NodeToJson(node, J, blank)
  BY DocIs
<1> HIDE DEF J
<1>2. Len(s) >= 1 /\ Starts(s[1], node)
  <2>1. CASE Nests(node)
    <3> DEFINE row == RowOf(node, blank)
               size == Len(Items(node))
    <3>1. row[0] = <<Opening(node)>> /\ size \in Nat
      BY DocIs, RowOfSteps
    <3>2. /\ Holds(node, "array") \/ Holds(node, "map")
          /\ ~ (Holds(node, "array") /\ Holds(node, "map"))
          /\ \A x : node # StringNode(x) /\ node # BoolNode(x)
          /\ \A x, y : node # DoubleNode(x, y)
      <4>1. Holds(node, "array") => \E x : node = ArrayNode(x)
        BY <1>1, NestKinds
      <4>2. Holds(node, "map") => \E x : node = MapNode(x)
        BY <1>1, NestKinds
      <4> QED
        BY <2>1, <4>1, <4>2, KindsApart DEF Nests
    <3>3. Starts(Opening(node), node)
      BY <3>2, CharsApart DEF Starts, Opening
    <3> DEFINE P(n) == Len(row[n]) >= 1 /\ row[n][1] = Opening(node)
               S == {n \in Nat : n <= size => P(n)}
    <3>4. /\ \A n \in 0 .. size : row[n] \in Seq(Char)
          /\ \A n \in 1 .. size : /\ PieceOf(n, node, blank) \in Seq(Char)
                                  /\ row[n] = row[n - 1] \o PieceOf(n, node, blank)
      BY RowOfSteps
    <3> HIDE DEF row
    <3>5. 0 \in S
      <4>1. Len(<<Opening(node)>>) = 1 /\ <<Opening(node)>>[1] = Opening(node)
        OBVIOUS
      <4>2. P(0)
        BY <3>1, <4>1
      <4> HIDE DEF P
      <4> QED
        BY <4>2
    <3>6. ASSUME NEW k \in Nat, k \in S
          PROVE  k + 1 \in S
      <4> SUFFICES ASSUME k + 1 <= size PROVE P(k + 1)
        OBVIOUS
      <4> DEFINE n == k + 1
      <4>1. n \in 1 .. size /\ n - 1 = k /\ k \in 0 .. size /\ P(k)
        BY <3>1, <3>6
      <4> HIDE DEF n
      <4>2. row[k] \in Seq(Char) /\ PieceOf(n, node, blank) \in Seq(Char)
            /\ row[n] = row[k] \o PieceOf(n, node, blank)
        BY <3>4, <4>1
      <4>3. 1 \in 1 .. Len(row[k]) /\ Len(row[k]) >= 1 /\ row[k][1] = Opening(node)
        BY <4>1, <4>2
      <4>4. Len(row[n]) >= Len(row[k]) /\ row[n][1] = row[k][1]
        BY <4>2, <4>3, JoinedSeq
      <4>5. P(n)
        BY <4>2, <4>3, <4>4
      <4> QED
        BY <4>5 DEF n
    <3>7. size \in S
      <4> HIDE DEF S
      <4> QED
        BY <3>1, <3>5, <3>6, StepByStep
    <3> DEFINE end == Ending(node, Closing(node), blank)
               last == row[size]
    <3>8. s = last \o end /\ end \in Seq(Char)
      BY <2>1, NestText, EndingType, Brackets DEF row
    <3>9. last \in Seq(Char) /\ Len(last) >= 1 /\ last[1] = Opening(node) /\ 1 \in 1 .. Len(last)
      BY <3>1, <3>4, <3>7
    <3> HIDE DEF end, last, s
    <3>10. Len(s) >= Len(last) /\ s[1] = last[1] /\ Len(s) \in Nat
      BY <3>8, <3>9, JoinedSeq
    <3> QED
      BY <3>3, <3>9, <3>10
  <2>2. CASE \E x \in String : node = StringNode(x)
    <3>1. PICK x \in String : node = StringNode(x)
      BY <2>2
    <3>2. s = <<Quote>> \o (x \o <<Quote>>) /\ x \o <<Quote>> \in Seq(Char)
      BY <1>1, <3>1, StringKind, QuotedType
    <3>3. <<Quote>> \in Seq(Char) /\ Len(<<Quote>>) = 1 /\ <<Quote>>[1] = Quote
      BY SyntaxChars, OneChar
    <3> DEFINE t == x \o <<Quote>>
               u == <<Quote>>
    <3> HIDE DEF s, t, u
    <3>4. s = u \o t /\ u \in Seq(Char) /\ Len(u) = 1 /\ u[1] = Quote /\ t \in Seq(Char)
      BY <3>2, <3>3 DEF t, u
    <3>5. Len(s) >= 1 /\ s[1] = Quote
      BY <3>4, JoinedSeq
    <3>6. Starts(Quote, node)
      BY <3>1, NodesApart, KindsApart, CharsApart DEF Starts
    <3> QED
      BY <3>5, <3>6
  <2>3. CASE \E b \in BOOLEAN : node = BoolNode(b)
    <3>1. PICK b \in BOOLEAN : node = BoolNode(b)
      BY <2>3
    <3>2. s = BoolToJson(b)
      BY <1>1, <3>1, BoolKind
    <3>3. Len(BoolToJson(b)) >= 1 /\ BoolToJson(b)[1] = IF b THEN "t" ELSE "f"
      BY DEF BoolToJson
    <3>4. \A c : node = BoolNode(c) => c = b
      <4> SUFFICES ASSUME NEW c, node = BoolNode(c) PROVE c = b
        OBVIOUS
      <4>1. BoolNode(c).bool = c /\ BoolNode(b).bool = b
        BY NodesApart
      <4> QED
        BY <3>1, <4>1
    <3>5. Starts(IF b THEN "t" ELSE "f", node)
      BY <3>1, <3>4, NodesApart, KindsApart, CharsApart DEF Starts
    <3> QED
      BY <3>2, <3>3, <3>5
  <2>4. CASE \E b \in BOOLEAN : \E m : PlainMagnitude(m) /\ node = DoubleNode(b, m)
    <3>1. PICK b, m : b \in BOOLEAN /\ PlainMagnitude(m) /\ node = DoubleNode(b, m)
      BY <2>4
    <3>2. s = DoubleToJson(DoubleNode(b, m))
      BY <1>1, <3>1, DoubleKind
    <3>3. Len(s) >= 1 /\ s[1] \in Digit \cup {"-"}
      BY <3>1, <3>2, DoubleType
    <3>4. \A c \in Digit \cup {"-"} : Starts(c, node)
      <4>1. /\ ~ Holds(node, "array") /\ ~ Holds(node, "map")
            /\ ~ (\E x : node = StringNode(x)) /\ \A x : node # BoolNode(x)
        BY <3>1, NodesApart, KindsApart
      <4> QED
        BY <4>1, CharsApart DEF Starts
    <3> QED
      BY <3>3, <3>4
  <2> QED
    BY <1>1, <2>1, <2>2, <2>3, <2>4, NestKinds
<1> HIDE DEF s
<1>3. Occurs(p, s) /\ Len(text) \in Nat /\ Len(s) \in Nat
  BY <1>1 DEF s
<1>4. 1 \in 1 .. Len(s) /\ p + 1 <= Len(text)
  BY <1>2, <1>3 DEF Occurs
<1>5. text[p + 1] = s[1]
  BY <1>3, <1>4 DEF Occurs
<1> QED
  BY <1>2, <1>3, <1>4, <1>5

-----------------------------------------------------------------------------
(***************************************************************************)
(* LoadNode, where a node of a document stands in the file.                *)
(***************************************************************************)
LEMMA There ==
  ASSUME Len(text) \in Nat, NEW p \in Nat, p < Len(text), Skip(pos) = p
  PROVE  /\ ~ AtEnd(pos) /\ After(pos) = p + 1 /\ Fetched(pos) = {text[p + 1]}
<1>1. ~ AtEnd(pos)
  BY DEF AtEnd
<1> QED
  BY <1>1 DEF After, Fetched

\* LoadNode calls LoadArray or LoadDict where an array or a map stands.
LEMMA NestRead ==
  ASSUME PlainDocuments, text \in Seq(Char), NEW node \in Doc, NEW blank \in Blanks, Nests(node),
         NEW p \in Nat, Occurs(p, TextOf(node, blank)), Skip(pos) = p,
         NEW c, LoadNode(c)
  PROVE  /\ Call(IF Holds(node, "array") THEN ArrayNode(<< >>) ELSE MapNode(<< >>))
         /\ pos' = p + 1 /\ text' = text /\ pc = "node"
<1>1. p < Len(text) /\ Starts(text[p + 1], node) /\ Len(text) \in Nat
  BY FirstChar
<1>2. After(pos) = p + 1 /\ c = text[p + 1]
  BY <1>1, There DEF LoadNode
<1>3. text' = text /\ pc = "node"
  BY DEF LoadNode
<1>4. CASE Holds(node, "array")
  <2>1. c = "["
    BY <1>1, <1>2, <1>4 DEF Starts
  <2>2. c # "{" /\ c # "\"" /\ c \notin {"t", "f"}
    BY <2>1
  <2>3. Call(ArrayNode(<< >>)) /\ pos' = After(pos)
    BY <2>1, <2>2 DEF LoadNode
  <2> QED
    BY <1>2, <1>3, <1>4, <2>3
<1>5. CASE ~ Holds(node, "array")
  <2>1. c = "{"
    BY <1>1, <1>2, <1>5 DEF Starts, Nests
  <2>2. c # "[" /\ c # "\"" /\ c \notin {"t", "f"}
    BY <2>1
  <2>3. Call(MapNode(<< >>)) /\ pos' = After(pos)
    BY <2>1, <2>2 DEF LoadNode
  <2> QED
    BY <1>2, <1>3, <1>5, <2>3
<1> QED
  BY <1>4, <1>5

\* LoadNode returns the string, the bool or the number that stands there.
LEMMA LeafRead ==
  ASSUME PlainDocuments, text \in Seq(Char), NEW node \in Doc, NEW blank \in Blanks,
         ~ Nests(node),
         NEW p \in Nat, Occurs(p, TextOf(node, blank)), Skip(pos) = p,
         Stops(p + Len(TextOf(node, blank))),
         NEW c, LoadNode(c)
  PROVE  /\ Return(stack, node) /\ pos' = p + Len(TextOf(node, blank))
         /\ text' = text /\ pc = "node"
<1> DEFINE J == ToJson(Documents, blank)
<1>1. p < Len(text) /\ Starts(text[p + 1], node) /\ Len(text) \in Nat
  BY FirstChar
<1>2. After(pos) = p + 1 /\ c = text[p + 1]
  BY <1>1, There DEF LoadNode
<1>3. text' = text /\ pc = "node"
  BY DEF LoadNode
<1>4. PlainNode(node) /\ TextOf(node, blank) = NodeToJson(node, J, blank)
  BY DocIs
<1> HIDE DEF J
<1>5. CASE \E s \in String : node = StringNode(s)
  <2>1. PICK s \in String : node = StringNode(s)
    BY <1>5
  <2>2. c = Quote
    BY <1>1, <1>2, <2>1 DEF Starts
  <2>3. TextOf(node, blank) = Quoted(s)
    BY <1>4, <2>1, StringKind
  <2>4. /\ Quoted(s) = <<Quote>> \o (s \o <<Quote>>)
        /\ s \o <<Quote>> \in Seq(Char) /\ Len(Quoted(s)) = Len(s) + 2
        /\ <<Quote>> \in Seq(Char) /\ Len(<<Quote>>) = 1
    BY QuotedType, SyntaxChars, OneChar
  <2>5. Occurs(p + 1, s \o <<Quote>>)
    <3> DEFINE t == s \o <<Quote>>
               u == <<Quote>>
    <3>1. Occurs(p, u \o t) /\ u \in Seq(Char) /\ t \in Seq(Char) /\ Len(u) = 1
      BY <2>3, <2>4
    <3> HIDE DEF t, u
    <3>2. Occurs(p + Len(u), t)
      BY <3>1, OccursJoined
    <3> QED
      BY <3>1, <3>2 DEF t
  <2>6. LoadString(p + 1) = [node |-> StringNode(s), pos |-> p + 1 + Len(s) + 1]
    <3> DEFINE q == p + 1
    <3>1. q \in Nat /\ Occurs(q, s \o <<Quote>>)
      BY <2>5
    <3> HIDE DEF q
    <3>2. LoadString(q) = [node |-> StringNode(s), pos |-> q + Len(s) + 1]
      BY <3>1, StringRead
    <3> QED
      BY <3>2 DEF q
  <2>7. c \notin {"[", "{"} /\ c \notin {"t", "f"} /\ c = "\""
    BY <2>2 DEF Quote
  <2>8. Return(stack, LoadString(After(pos)).node) /\ pos' = LoadString(After(pos)).pos
    BY <2>7 DEF LoadNode
  <2>9. Return(stack, node) /\ pos' = p + 1 + Len(s) + 1
    BY <1>2, <2>1, <2>6, <2>8
  <2>10. p + 1 + Len(s) + 1 = p + Len(TextOf(node, blank))
    BY <2>3, <2>4, StringType
  <2> QED
    BY <1>3, <2>9, <2>10
<1>6. CASE \E b \in BOOLEAN : node = BoolNode(b)
  <2>1. PICK b \in BOOLEAN : node = BoolNode(b)
    BY <1>6
  <2>2. c = IF b THEN "t" ELSE "f"
    BY <1>1, <1>2, <2>1 DEF Starts
  <2>3. TextOf(node, blank) = BoolToJson(b)
    BY <1>4, <2>1, BoolKind
  <2>4. /\ LoadBool(After(p)) = {[node |-> BoolNode(b), pos |-> p + Len(BoolToJson(b))]}
    BY <1>1, <2>3, BoolRead
  <2>5. After(p) = p + 1
    <3>1. text[p + 1] # Space
      BY <1>1 DEF Starts
    <3> QED
      BY <1>1, <3>1, Here
  <2>6. c \notin {"[", "{"} /\ c # "\"" /\ c \in {"t", "f"}
    BY <2>2
  <2>7. \E bool \in LoadBool(After(pos)) : Return(stack, bool.node) /\ pos' = bool.pos
    BY <2>6 DEF LoadNode
  <2>8. Return(stack, BoolNode(b)) /\ pos' = p + Len(BoolToJson(b))
    BY <1>2, <2>4, <2>5, <2>7
  <2> QED
    BY <1>3, <2>1, <2>3, <2>8
<1>7. CASE \E b \in BOOLEAN : \E m : PlainMagnitude(m) /\ node = DoubleNode(b, m)
  <2>1. PICK b, m : b \in BOOLEAN /\ PlainMagnitude(m) /\ node = DoubleNode(b, m)
    BY <1>7
  <2>2. c \in Digit \cup {"-"}
    BY <1>1, <1>2, <2>1 DEF Starts
  <2>3. TextOf(node, blank) = DoubleToJson(DoubleNode(b, m))
    BY <1>4, <2>1, DoubleKind
  <2>4. LoadDouble(p) = [node |-> DoubleNode(b, m), pos |-> p + Len(DoubleToJson(DoubleNode(b, m)))]
    BY <1>1, <2>1, <2>3, DoubleRead
  <2>5. c \notin {"[", "{", "\"", "t", "f"}
    BY <2>2, CharsApart DEF Quote
  <2>6. Return(stack, LoadDouble(Skip(pos)).node) /\ pos' = LoadDouble(Skip(pos)).pos
    BY <2>5 DEF LoadNode
  <2> QED
    BY <1>3, <2>1, <2>3, <2>4, <2>6
<1> QED
  BY <1>4, <1>5, <1>6, <1>7, NestKinds

-----------------------------------------------------------------------------
(***************************************************************************)
(* LoadArray and LoadDict, before an item and behind the last one.         *)
(***************************************************************************)
Separator == ","

\* The comma under its name: no text of a node starts with it.
LEMMA SeparatorIs ==
  /\ Separator \notin {"]", "}"} /\ Separator # Space
  /\ \A n : Comma(n) = IF n = 1 THEN << >> ELSE <<Separator>>
  /\ \A c, node : Starts(c, node) => c # Separator /\ c # Space /\ c \notin {"]", "}"}
  /\ Quote # Separator /\ Quote # Space /\ Quote \notin {"]", "}"}
<1>1. Separator \notin {"]", "}"} /\ Separator # Space
  BY Zenon DEF Separator, Space
<1>2. \A n : Comma(n) = IF n = 1 THEN << >> ELSE <<Separator>>
  BY Zenon DEF Separator, Comma
<1>3. \A c, node : Starts(c, node) => c # Separator /\ c # Space /\ c \notin {"]", "}"}
  BY Zenon DEF Separator, Starts
<1>4. Quote # Separator /\ Quote # Space /\ Quote \notin {"]", "}"}
  BY Zenon DEF Separator, Quote, Space
<1> QED
  BY <1>1, <1>2, <1>3, <1>4

\* There is a comma before every item but the first.
LEMMA CommaIs ==
  ASSUME NEW n \in Nat
  PROVE  \/ n = 1 /\ Comma(n) = << >> /\ Len(Comma(n)) = 0
         \/ n # 1 /\ Len(Comma(n)) = 1 /\ Comma(n)[1] = Separator
<1>1. CASE n = 1
  BY <1>1, SeparatorIs
<1>2. CASE n # 1
  <2>1. Comma(n) = <<Separator>>
    BY <1>2, SeparatorIs
  <2> QED
    BY <1>2, <2>1
<1> QED
  BY <1>1, <1>2

\* Behind the comma, if there is one, and behind the character after it.
BehindComma(p) == IF Peeks(Skip(p), Separator) THEN After(p) ELSE Skip(p)

BehindQuote(p) == IF Peeks(Skip(p), Separator) THEN After(After(p)) ELSE After(p)

\* A blank has a length.
LEMMA BlankLength ==
  ASSUME NEW blank \in Blanks
  PROVE  Len(blank) \in Nat
BY BlankIs

\* Where an item, or the quote of its key, starts if p is behind the item before.
FromHere(p, n, blank) == p + Len(Comma(n)) + Len(blank)

\* From p on come a comma, unless it is the first item, the blank, and what is
\* neither a comma nor the end.
LEMMA Ahead ==
  ASSUME Len(text) \in Nat, NEW p \in Nat, NEW n \in Nat, NEW blank \in Blanks,
         Occurs(p, Comma(n)), Occurs(p + Len(Comma(n)), blank),
         FromHere(p, n, blank) < Len(text),
         text[FromHere(p, n, blank) + 1] # Space,
         text[FromHere(p, n, blank) + 1] # Separator
  PROVE  /\ ~ AtEnd(p)
         /\ text[Skip(p) + 1] = Separator \/ text[Skip(p) + 1] = text[FromHere(p, n, blank) + 1]
         /\ Skip(BehindComma(p)) = FromHere(p, n, blank) /\ BehindComma(p) \in Nat
         /\ BehindQuote(p) = FromHere(p, n, blank) + 1
<1> DEFINE q == FromHere(p, n, blank)
<1>0. q \in Nat /\ q = p + Len(Comma(n)) + Len(blank)
  BY CommaIs, BlankLength DEF FromHere
<1> HIDE DEF q
<1>5. q < Len(text) /\ text[q + 1] # Space /\ text[q + 1] # Separator
  BY DEF q
<1>1. CASE n = 1
  <2>1. Len(Comma(n)) = 0
    BY <1>1, CommaIs
  <2>2. p + Len(Comma(n)) = p /\ q = p + Len(blank)
    BY <1>0, <2>1, BlankLength
  <2>3. Occurs(p, blank)
    BY <2>2
  <2>4. Skip(p) = q /\ ~ AtEnd(p) /\ After(p) = q + 1
    BY <1>0, <1>5, <2>2, <2>3, BehindBlank
  <2>5. ~ Peeks(q, Separator)
    BY <1>5 DEF Peeks
  <2>6. Skip(q) = q
    BY <1>0, <1>5, Here
  <2> QED
    BY <1>0, <2>4, <2>5, <2>6 DEF BehindComma, BehindQuote, q
<1>2. CASE n # 1
  <2>1. Len(Comma(n)) = 1
    BY <1>2, CommaIs
  <2>8. Comma(n)[1] = Separator
    BY <1>2, CommaIs
  <2>2. p + 1 <= Len(text) /\ text[p + 1] = Separator
    <3>1. 1 \in 1 .. Len(Comma(n))
      BY <2>1
    <3>2. p + Len(Comma(n)) <= Len(text) /\ text[p + 1] = Comma(n)[1]
      BY <3>1 DEF Occurs
    <3> QED
      BY <2>1, <2>8, <3>2
  <2> DEFINE r == p + 1
  <2>3. r \in Nat /\ p < Len(text) /\ p + Len(Comma(n)) = r /\ q = r + Len(blank)
    BY <1>0, <2>1, <2>2, BlankLength
  <2>4. Skip(p) = p /\ ~ AtEnd(p) /\ After(p) = r
    <3>1. text[p + 1] # Space
      BY <2>2, SeparatorIs
    <3> QED
      BY <2>3, <3>1, Here
  <2>5. Peeks(p, Separator)
    BY <2>2, <2>3 DEF Peeks
  <2>6. Occurs(r, blank)
    BY <2>3
  <2> HIDE DEF r
  <2>7. Skip(r) = q /\ After(r) = q + 1
    BY <1>0, <1>5, <2>3, <2>6, BehindBlank
  <2> QED
    BY <1>0, <2>2, <2>3, <2>4, <2>5, <2>7 DEF BehindComma, BehindQuote, q
<1> QED
  BY <1>1, <1>2

\* LoadArray, where another item stands: it does not end, puts back the character
\* it has read if that is no comma, and goes on where the item starts.
LEMMA ItemRead ==
  ASSUME PlainDocuments, text \in Seq(Char), NEW node \in Doc, NEW blank \in Blanks,
         Holds(node, "array"),
         NEW at \in Nat, Occurs(at, TextOf(node, blank)), NEW n \in 1 .. Len(Items(node)),
         pos = at + Len(RowOf(node, blank)[n - 1])
  PROVE  /\ ~ AtEnd(pos) /\ ~ Peeks(Skip(pos), "]")
         /\ NextItem => pos' \in Nat /\ Skip(pos') = ItemStart(node, at, n, blank)
<1> DEFINE start == ItemStart(node, at, n, blank)
<1>1. Nests(node) /\ ~ Holds(node, "map") /\ n \in Nat /\ Len(text) \in Nat
  BY DocIs, NestKinds, KindsApart DEF Nests
<1>2. Label(node, n, blank) = << >> /\ Len(<< >>) = 0
  BY <1>1 DEF Label
<1>3. /\ pos \in Nat /\ Len(blank) \in Nat /\ Len(Comma(n)) \in Nat
      /\ Occurs(pos, Comma(n)) /\ Occurs(pos + Len(Comma(n)), blank)
      /\ Occurs(start, TextOf(Items(node)[n], blank)) /\ start \in Nat
  BY <1>1, ItemOccurs
<1>4. start = pos + Len(Comma(n)) + Len(blank)
  BY <1>2, <1>3 DEF ItemStart
<1> HIDE DEF start
<1>5. Items(node)[n] \in Doc
  BY DocIs
<1>6. start < Len(text) /\ Starts(text[start + 1], Items(node)[n])
  BY <1>3, <1>5, FirstChar
<1>7. text[start + 1] # Space /\ text[start + 1] # Separator /\ text[start + 1] # "]" /\ "]" # Separator
  BY <1>6, SeparatorIs
<1>10. FromHere(pos, n, blank) = start
  BY <1>4 DEF FromHere
<1>8. /\ ~ AtEnd(pos)
      /\ text[Skip(pos) + 1] = Separator \/ text[Skip(pos) + 1] = text[start + 1]
      /\ Skip(BehindComma(pos)) = start /\ BehindComma(pos) \in Nat
  <2>1. FromHere(pos, n, blank) < Len(text)
    BY <1>6, <1>10
  <2>2. /\ text[FromHere(pos, n, blank) + 1] # Space
        /\ text[FromHere(pos, n, blank) + 1] # Separator
    BY <1>7, <1>10
  <2> QED
    BY <1>1, <1>3, <1>10, <2>1, <2>2, Ahead, ZenonT(40)
<1>11. ~ Peeks(Skip(pos), "]")
  BY <1>7, <1>8, Zenon DEF Peeks
<1>9. NextItem => pos' = BehindComma(pos)
  BY Zenon DEF NextItem, Separator, BehindComma
<1> QED
  BY <1>8, <1>9, <1>11 DEF start

\* LoadDict, where another item stands: it does not end, reads the item's key, and
\* goes on behind the colon.
LEMMA EntryRead ==
  ASSUME PlainDocuments, text \in Seq(Char), NEW node \in Doc, NEW blank \in Blanks,
         Holds(node, "map"),
         NEW at \in Nat, Occurs(at, TextOf(node, blank)), NEW n \in 1 .. Len(Items(node)),
         pos = at + Len(RowOf(node, blank)[n - 1])
  PROVE  /\ ~ AtEnd(pos) /\ ~ Peeks(Skip(pos), "}")
         /\ NextEntry =>
              /\ pos' \in Nat /\ Skip(pos') = ItemStart(node, at, n, blank)
              /\ stack' = [stack EXCEPT ![Len(stack)].key = Keys(node.map)[n]]
<1> DEFINE start == ItemStart(node, at, n, blank)
           key == Keys(node.map)[n]
           open == pos + Len(Comma(n)) + Len(blank)
           colon == <<":">> \o blank
           closed == key \o <<Quote>>
<1>1. Nests(node) /\ n \in Nat /\ Len(text) \in Nat
  BY DEF Nests
<1>2. /\ key \in String /\ Label(node, n, blank) = Quoted(key) \o colon
  BY DocIs, LabelType
<1>3. /\ pos \in Nat /\ Len(blank) \in Nat /\ Len(Comma(n)) \in Nat
      /\ Occurs(pos, Comma(n)) /\ Occurs(pos + Len(Comma(n)), blank)
      /\ Occurs(open, Label(node, n, blank))
      /\ Occurs(start, TextOf(Items(node)[n], blank)) /\ start \in Nat
  BY <1>1, ItemOccurs
<1>4. start = open + Len(Label(node, n, blank))
  BY DEF ItemStart
<1> HIDE DEF start, open, key
<1>5. open \in Nat /\ open = pos + Len(Comma(n)) + Len(blank)
  BY <1>3 DEF open
<1>6. /\ <<":">> \in Seq(Char) /\ Len(<<":">>) = 1 /\ blank \in Seq(Char)
      /\ <<Quote>> \in Seq(Char) /\ Len(<<Quote>>) = 1
      /\ Quoted(key) = <<Quote>> \o closed /\ closed \in Seq(Char)
      /\ Quoted(key) \in Seq(Char) /\ Len(Quoted(key)) = Len(key) + 2 /\ Len(key) \in Nat
  BY <1>2, SyntaxChars, OneChar, BlankType, QuotedType, StringType
<1>7. colon \in Seq(Char) /\ Len(colon) = 1 + Len(blank)
  BY <1>6, JoinedSeq
<1> HIDE DEF colon, closed
<1> DEFINE q == open + 1
           r == q + Len(key) + 1
           s == r + 1
           one == <<Quote>>
           two == <<":">>
<1>23. Quoted(key) \in Seq(Char) /\ colon \in Seq(Char) /\ open \in Nat
  BY <1>5, <1>6, <1>7
<1>24. Len(Quoted(key)) = Len(key) + 2 /\ Len(key) \in Nat /\ Len(blank) \in Nat
  BY <1>3, <1>6
<1>8. Occurs(open, Quoted(key)) /\ Occurs(open + Len(Quoted(key)), colon)
  <2>1. Occurs(open, Quoted(key) \o colon)
    BY <1>2, <1>3
  <2> QED
    BY <1>23, <2>1, OccursJoined
<1>9. open + Len(Quoted(key)) = r /\ q \in Nat /\ r \in Nat /\ s \in Nat
  BY <1>23, <1>24
<1>10. one \in Seq(Char) /\ two \in Seq(Char) /\ Len(one) = 1 /\ Len(two) = 1 /\ one[1] = Quote
  BY <1>6
<1>11. Quoted(key) = one \o closed /\ colon = two \o blank
  BY <1>6 DEF colon
<1>16. start = s + Len(blank)
  <2>1. Len(Label(node, n, blank)) = Len(key) + 2 + (1 + Len(blank))
    <3>1. Len(Quoted(key) \o colon) = Len(Quoted(key)) + Len(colon)
      BY <1>23, JoinedSeq
    <3>2. Len(Label(node, n, blank)) = Len(Quoted(key)) + Len(colon)
      BY <1>2, <3>1
    <3> QED
      BY <1>7, <1>24, <3>2
  <2> QED
    BY <1>4, <1>23, <1>24, <2>1
<1>12. two[1] = ":"
  OBVIOUS
<1> HIDE DEF q, r, s, one, two
<1>13. Occurs(open, one) /\ Occurs(q, closed)
  <2>1. Occurs(open, one) /\ Occurs(open + Len(one), closed)
    <3>1. Occurs(open, one \o closed) /\ one \in Seq(Char) /\ closed \in Seq(Char) /\ open \in Nat
      BY <1>5, <1>6, <1>8, <1>10, <1>11
    <3> QED
      BY <3>1, OccursJoined
  <2> QED
    BY <1>10, <2>1 DEF q
<1>14. Occurs(r, two) /\ Occurs(s, blank)
  <2>1. Occurs(r, two \o blank)
    BY <1>8, <1>9, <1>11
  <2>2. Occurs(r, two) /\ Occurs(r + Len(two), blank)
    BY <1>6, <1>9, <1>10, <2>1, OccursJoined
  <2> QED
    BY <1>10, <2>2 DEF s
<1>15. open < Len(text) /\ text[open + 1] = Quote
  <2>1. 1 \in 1 .. Len(one)
    BY <1>10
  <2>2. open + Len(one) <= Len(text) /\ text[open + 1] = one[1]
    BY <1>13, <2>1 DEF Occurs
  <2> QED
    BY <1>1, <1>5, <1>10, <2>2
<1>17. LoadString(q) = [node |-> StringNode(key), pos |-> r]
  <2>1. LoadString(q) = [node |-> StringNode(key), pos |-> q + Len(key) + 1]
    BY <1>2, <1>9, <1>13, StringRead DEF closed
  <2> QED
    BY <2>1 DEF r
<1>18. After(r) = s
  <2>1. 1 \in 1 .. Len(two)
    BY <1>10
  <2>2. r + Len(two) <= Len(text) /\ text[r + 1] = two[1]
    BY <1>14, <2>1 DEF Occurs
  <2>3. r < Len(text)
    BY <1>1, <1>9, <1>10, <2>2
  <2>4. text[r + 1] # Space
    BY <1>12, <2>2, SpaceApart
  <2> QED
    BY <1>1, <1>9, <2>3, <2>4, Here DEF s
<1>19. Skip(s) = start
  <2>1. Items(node)[n] \in Doc
    BY DocIs
  <2>2. start < Len(text) /\ Starts(text[start + 1], Items(node)[n])
    BY <1>3, <2>1, FirstChar
  <2>3. text[start + 1] # Space
    BY <2>2, SeparatorIs
  <2> QED
    BY <1>1, <1>9, <1>14, <1>16, <2>2, <2>3, BehindBlank
<1>20. text[open + 1] # Space /\ text[open + 1] # Separator /\ text[open + 1] # "}" /\ "}" # Separator
  BY <1>15, SeparatorIs
<1>25. FromHere(pos, n, blank) = open
  BY <1>5 DEF FromHere
<1>26. /\ ~ AtEnd(pos)
       /\ text[Skip(pos) + 1] = Separator \/ text[Skip(pos) + 1] = text[open + 1]
       /\ BehindQuote(pos) = q
  BY <1>1, <1>3, <1>15, <1>20, <1>25, Ahead DEF q
<1>21. ~ Peeks(Skip(pos), "}")
  BY <1>20, <1>26, Zenon DEF Peeks
<1>22. ASSUME NextEntry
       PROVE  pos' = s /\ stack' = [stack EXCEPT ![Len(stack)].key = key]
  <2> DEFINE quote == BehindQuote(pos)
  <2>1. /\ stack' = [stack EXCEPT ![Len(stack)].key = LoadString(quote).node.string]
        /\ pos' = After(LoadString(quote).pos)
    BY <1>22, Zenon DEF NextEntry, Separator, BehindQuote
  <2>2. quote = q
    BY <1>26
  <2> HIDE DEF quote
  <2>3. LoadString(quote).node.string = key /\ LoadString(quote).pos = r
    BY <1>17, <2>2 DEF StringNode
  <2> QED
    BY <1>18, <2>1, <2>3
<1> QED
  BY <1>9, <1>19, <1>21, <1>22, <1>26 DEF start, key

-----------------------------------------------------------------------------
(***************************************************************************)
(* What LoadArray and LoadDict have put together.                          *)
(***************************************************************************)
\* An array or a map of the documents with its first n items only.
Taken(node, n) ==
  IF Holds(node, "array")
    THEN ArrayNode([i \in 1 .. n |-> node.array[i]])
    ELSE MapNode([k \in {Keys(node.map)[i] : i \in 1 .. n} |-> node.map[k]])

\* What has been put together is an array or a map as the node is.
LEMMA TakenHolds ==
  ASSUME PlainDocuments, NEW node \in Doc, Nests(node), NEW n
  PROVE  /\ Holds(Taken(node, n), "array") <=> Holds(node, "array")
         /\ Holds(Taken(node, n), "map") <=> Holds(node, "map")
<1>1. PlainNode(node)
  BY DEF PlainDocuments
<1>2. CASE Holds(node, "array")
  <2>1. ~ Holds(node, "map")
    BY <1>1, <1>2, NestKinds, KindsApart
  <2> QED
    BY <1>2, <2>1, KindsApart DEF Taken
<1>3. CASE ~ Holds(node, "array")
  BY <1>3, KindsApart DEF Taken, Nests
<1> QED
  BY <1>2, <1>3

\* LoadArray and LoadDict start with nothing.
LEMMA TakenNone ==
  ASSUME NEW node
  PROVE  Taken(node, 0) = IF Holds(node, "array") THEN ArrayNode(<< >>) ELSE MapNode(<< >>)
<1>1. [i \in 1 .. 0 |-> node.array[i]] = << >>
  OBVIOUS
<1>2. [k \in {Keys(node.map)[i] : i \in 1 .. 0} |-> node.map[k]] = << >>
  <2>1. {Keys(node.map)[i] : i \in 1 .. 0} = 1 .. 0
    OBVIOUS
  <2>2. [k \in 1 .. 0 |-> node.map[k]] = << >>
    OBVIOUS
  <2> QED
    BY <2>1, <2>2
<1> QED
  BY <1>1, <1>2 DEF Taken

\* With all of its items an array or a map is complete.
LEMMA TakenAll ==
  ASSUME PlainDocuments, NEW node \in Doc, Nests(node)
  PROVE  Taken(node, Len(Items(node))) = node
<1>1. PlainNode(node)
  BY DEF PlainDocuments
<1>2. CASE Holds(node, "array")
  <2>1. PICK items \in Seq(Doc) : node = ArrayNode(items)
    BY <1>1, <1>2, NestKinds
  <2>2. node.array = items /\ Items(node) = items
    BY <2>1, ArrayKind
  <2>3. [i \in 1 .. Len(items) |-> items[i]] = items
    OBVIOUS
  <2> QED
    BY <1>2, <2>1, <2>2, <2>3 DEF Taken
<1>3. CASE ~ Holds(node, "array")
  <2>1. PICK entries : /\ IsFiniteSet(DOMAIN entries) /\ DOMAIN entries \subseteq String
                       /\ entries \in [DOMAIN entries -> Doc]
                       /\ node = MapNode(entries)
    BY <1>1, <1>3, NestKinds DEF Nests
  <2>4. node.map = entries
    BY <2>1, MapKind
  <2>2. /\ Len(Items(node)) = Cardinality(DOMAIN entries)
        /\ DOMAIN entries = {Keys(entries)[n] : n \in 1 .. Cardinality(DOMAIN entries)}
    <3>1. DOMAIN entries \subseteq Seq(Char)
      BY <2>1, StringType
    <3>2. DOMAIN entries = {Keys(entries)[n] : n \in 1 .. Cardinality(DOMAIN entries)}
      BY <2>1, <3>1, KeysAre
    <3>3. Len(Items(node)) = Cardinality(DOMAIN entries)
      BY <2>1, MapItems
    <3> QED
      BY <3>2, <3>3
  <2>3. [k \in DOMAIN entries |-> entries[k]] = entries
    BY <2>1
  <2> QED
    BY <1>3, <2>1, <2>2, <2>3, <2>4 DEF Taken
<1> QED
  BY <1>2, <1>3

\* A call whose array or map is assigned to.
LEMMA CallExcept ==
  ASSUME NEW call, NEW x, NEW k, NEW y
  PROVE  /\ call = [node |-> [array |-> x], key |-> k] =>
              [call EXCEPT !.node.array = y] = [node |-> [array |-> y], key |-> k]
         /\ call = [node |-> [map |-> x], key |-> k] =>
              [call EXCEPT !.node.map = y] = [node |-> [map |-> y], key |-> k]
OBVIOUS

\* Adding the item that has been read: push_back, or emplace under its key, which
\* no item before it has.
LEMMA TakenNext ==
  ASSUME PlainDocuments, NEW node \in Doc, Nests(node), NEW n \in 1 .. Len(Items(node)),
         NEW key, Holds(node, "map") => key = Keys(node.map)[n]
  PROVE  Added([node |-> Taken(node, n - 1), key |-> key], Items(node)[n]) =
           [node |-> Taken(node, n), key |-> key]
<1> DEFINE call == [node |-> Taken(node, n - 1), key |-> key]
           item == Items(node)[n]
<1>1. PlainNode(node)
  BY DEF PlainDocuments
<1>2. CASE Holds(node, "array")
  <2>1. PICK items \in Seq(Doc) : node = ArrayNode(items)
    BY <1>1, <1>2, NestKinds
  <2>2. node.array = items /\ Items(node) = items
    BY <2>1, ArrayKind
  <2> DEFINE before == [i \in 1 .. n - 1 |-> items[i]]
  <2>3. call.node = ArrayNode(before)
    BY <1>2, <2>2 DEF Taken
  <2>4. Append(before, item) = [i \in 1 .. n |-> items[i]]
    <3>1. n \in 1 .. Len(items) /\ Len(items) \in Nat /\ item = items[n]
      BY <2>2
    <3>2. before \in Seq(Doc) /\ Len(before) = n - 1
      BY <3>1
    <3>3. /\ Append(before, item) = [i \in 1 .. n - 1 + 1 |-> IF i <= n - 1 THEN before[i] ELSE item]
      BY <3>1, <3>2
    <3> QED
      BY <3>1, <3>3
  <2> HIDE DEF before
  <2>5. [call EXCEPT !.node.array = Append(@, item)] = [node |-> ArrayNode(Append(before, item)), key |-> key]
    <3>1. call = [node |-> [array |-> before], key |-> key]
      BY <2>3 DEF ArrayNode
    <3>2. call.node.array = before
      BY <3>1
    <3> DEFINE longer == Append(before, item)
    <3> HIDE DEF call, item, longer
    <3>3. [call EXCEPT !.node.array = longer] = [node |-> [array |-> longer], key |-> key]
      BY <3>1, CallExcept
    <3> QED
      BY <3>2, <3>3 DEF ArrayNode, longer
  <2>6. Holds(call.node, "array")
    BY <2>3, KindsApart
  <2>7. Added(call, item) = [call EXCEPT !.node.array = Append(@, item)]
    <3> HIDE DEF call, item
    <3> QED
      BY <2>6 DEF Added
  <2> QED
    BY <1>2, <2>2, <2>4, <2>5, <2>7 DEF Taken
<1>3. CASE ~ Holds(node, "array")
  <2>0. Holds(node, "map")
    BY <1>3 DEF Nests
  <2>1. PICK entries : /\ IsFiniteSet(DOMAIN entries) /\ DOMAIN entries \subseteq String
                       /\ entries \in [DOMAIN entries -> Doc]
                       /\ node = MapNode(entries)
    BY <1>1, <2>0, NestKinds
  <2> DEFINE keys == Keys(entries)
             size == Cardinality(DOMAIN entries)
             old == {keys[i] : i \in 1 .. n - 1}
             new == {keys[i] : i \in 1 .. n}
             before == [k \in old |-> entries[k]]
             after == [k \in new |-> entries[k]]
  <2>2. /\ node.map = entries /\ Len(Items(node)) = size /\ size \in Nat
        /\ \A i, j \in 1 .. size : keys[i] = keys[j] => i = j
        /\ n \in 1 .. size
    BY <2>1, MapKind, MapItems
  <2>3. item = entries[keys[n]] /\ key = keys[n]
    BY <2>0, <2>1, <2>2, MapItems
  <2>4. call.node = MapNode(before)
    BY <1>3, <2>2 DEF Taken
  <2>5. new = old \cup {key} /\ key \notin old
    <3> HIDE DEF keys
    <3>1. n \in 1 .. n /\ \A i \in 1 .. n : i \in 1 .. n - 1 \/ i = n
      BY <2>2
    <3>2. \A i \in 1 .. n - 1 : i \in 1 .. size /\ i # n /\ i \in 1 .. n
      BY <2>2
    <3> QED
      BY <2>2, <2>3, <3>1, <3>2
  <2> HIDE DEF keys, old, new
  <2>6. [k \in DOMAIN before \cup {key} |-> IF k \in DOMAIN before THEN before[k] ELSE item] = after
    <3>1. DOMAIN before = old
      OBVIOUS
    <3>2. \A k \in new : (IF k \in old THEN before[k] ELSE item) = entries[k]
      BY <2>3, <2>5
    <3> QED
      BY <2>5, <3>1, <3>2
  <2> DEFINE longer(b) == [k \in DOMAIN b \cup {key} |-> IF k \in DOMAIN b THEN b[k] ELSE item]
  <2>7. call = [node |-> [map |-> before], key |-> key]
    BY <2>4 DEF MapNode
  <2>8. ~ Holds(call.node, "array")
    BY <2>4, KindsApart
  <2> HIDE DEF before, after, call, item
  <2>9. Added(call, item) = [call EXCEPT !.node.map = longer(call.node.map)]
    <3>1. call.key = key
      BY <2>7
    <3> QED
      BY <2>7, <2>8, <3>1 DEF Added
  <2>10. call.node.map = before
    BY <2>7
  <2>11. [call EXCEPT !.node.map = longer(call.node.map)] = [node |-> [map |-> after], key |-> key]
    <3> DEFINE l == longer(call.node.map)
    <3>1. l = after
      BY <2>6, <2>10
    <3> HIDE DEF l
    <3>2. [call EXCEPT !.node.map = l] = [node |-> [map |-> l], key |-> key]
      BY <2>7, CallExcept
    <3> QED
      BY <3>1, <3>2 DEF l
  <2>12. Taken(node, n) = [map |-> after]
    BY <1>3, <2>2 DEF Taken, MapNode, after, new, keys
  <2> QED
    BY <2>9, <2>11, <2>12 DEF call, item
<1> QED
  BY <1>2, <1>3

-----------------------------------------------------------------------------
(***************************************************************************)
(* The calls that have not returned, each with what it reads: an array or  *)
(* a map of the document, the place where its text starts, and how many of *)
(* its items have been taken.  The last frame is the node that is read.    *)
(***************************************************************************)
FrameType == [whole : Doc, at : Nat, taken : Nat]

CallType == [node : {Taken(node, n) : node \in Doc, n \in Nat}, key : Seq(Char)]

Innermost(frames) == frames[Len(frames)]

\* The text of f is there, and it is all of it.
Stands(f, blank) ==
  /\ Occurs(f.at, TextOf(f.whole, blank))
  /\ Stops(f.at + Len(TextOf(f.whole, blank)))

\* The call reads f, and is now at the item that is g.
Waits(call, f, g, blank) ==
  /\ Nests(f.whole) /\ f.taken < Len(Items(f.whole))
  /\ call.node = Taken(f.whole, f.taken)
  /\ Holds(f.whole, "map") => call.key = Keys(f.whole.map)[f.taken + 1]
  /\ g.whole = Items(f.whole)[f.taken + 1]
  /\ g.at = ItemStart(f.whole, f.at, f.taken + 1, blank)

Inside(calls, frames, w) ==
  /\ calls \in Seq(CallType) /\ frames \in Seq(FrameType)
  /\ Len(frames) = Len(calls) + 1
  /\ frames[1].whole = w.document /\ frames[1].at = 0
  /\ \A i \in 1 .. Len(frames) : Stands(frames[i], w.blank)
  /\ \A i \in 1 .. Len(calls) : Waits(calls[i], frames[i], frames[i + 1], w.blank)

\* LoadNode is called for the innermost frame.
AtNode(calls, p, w) ==
  /\ p \in Nat
  /\ \E frames : /\ Inside(calls, frames, w)
                 /\ Innermost(frames).taken = 0
                 /\ Skip(p) = Innermost(frames).at

\* The last call has taken that many items of the innermost frame.
Between(call, f, p, blank) ==
  /\ Nests(f.whole) /\ f.taken <= Len(Items(f.whole))
  /\ call.node = Taken(f.whole, f.taken)
  /\ p = f.at + Len(RowOf(f.whole, blank)[f.taken])

InLoop(calls, p, w) ==
  /\ calls \in Seq(CallType) /\ calls # << >>
  /\ \E frames : /\ Inside(SubSeq(calls, 1, Len(calls) - 1), frames, w)
                 /\ Between(calls[Len(calls)], Innermost(frames), p, w.blank)

\* What is known of the frames of the calls.
LEMMA FrameIs ==
  ASSUME NEW calls, NEW frames, NEW w, Inside(calls, frames, w)
  PROVE  /\ calls \in Seq(CallType) /\ Len(calls) \in Nat
         /\ Len(frames) = Len(calls) + 1
         /\ Innermost(frames) \in FrameType
         /\ \A i \in 1 .. Len(frames) :
              /\ frames[i] \in FrameType
              /\ frames[i].whole \in Doc /\ frames[i].at \in Nat /\ frames[i].taken \in Nat
         /\ Innermost(frames).whole \in Doc /\ Innermost(frames).at \in Nat
         /\ Innermost(frames).taken \in Nat
         /\ Stands(Innermost(frames), w.blank)
<1>1. /\ calls \in Seq(CallType) /\ frames \in Seq(FrameType) /\ Len(frames) = Len(calls) + 1
      /\ \A i \in 1 .. Len(frames) : Stands(frames[i], w.blank)
  BY DEF Inside
<1>2. Len(calls) \in Nat /\ Len(frames) \in 1 .. Len(frames)
  BY <1>1
<1>3. \A i \in 1 .. Len(frames) : frames[i] \in FrameType
  BY <1>1
<1>4. \A f \in FrameType : f.whole \in Doc /\ f.at \in Nat /\ f.taken \in Nat
  BY DEF FrameType
<1> QED
  BY <1>1, <1>2, <1>3, <1>4 DEF Innermost

\* A call has a node and a key.
LEMMA CallIs ==
  ASSUME NEW call \in CallType
  PROVE  call = [node |-> call.node, key |-> call.key] /\ call.key \in Seq(Char)
BY DEF CallType

\* The calls below the last.
LEMMA BelowIs ==
  ASSUME NEW S, NEW calls \in Seq(S), calls # << >>
  PROVE  /\ Len(calls) \in Nat \ {0}
         /\ SubSeq(calls, 1, Len(calls) - 1) \in Seq(S)
         /\ Len(SubSeq(calls, 1, Len(calls) - 1)) = Len(calls) - 1
         /\ \A i \in 1 .. Len(calls) - 1 : SubSeq(calls, 1, Len(calls) - 1)[i] = calls[i]
<1>1. Len(calls) \in Nat \ {0}
  OBVIOUS
<1> DEFINE n == Len(calls) - 1
<1>2. 1 \in 1 .. Len(calls) + 1 /\ n \in 1 - 1 .. Len(calls) /\ n \in Nat
  BY <1>1
<1>3. \A i \in 1 .. n : 1 + i - 1 = i
  OBVIOUS
<1> HIDE DEF n
<1>4. /\ SubSeq(calls, 1, n) \in Seq(S)
      /\ Len(SubSeq(calls, 1, n)) = n
      /\ \A i \in 1 .. n : SubSeq(calls, 1, n)[i] = calls[i]
  BY <1>2, <1>3
<1> QED
  BY <1>1, <1>4 DEF n

\* A call goes on to an item.
LEMMA Push ==
  ASSUME PlainDocuments, text \in Seq(Char),
         NEW w, w.blank \in Blanks, NEW calls \in Seq(CallType), calls # << >>,
         NEW frames, Inside(SubSeq(calls, 1, Len(calls) - 1), frames, w),
         NEW p \in Nat,
         Nests(Innermost(frames).whole),
         Innermost(frames).taken < Len(Items(Innermost(frames).whole)),
         calls[Len(calls)].node = Taken(Innermost(frames).whole, Innermost(frames).taken),
         Holds(Innermost(frames).whole, "map") =>
           calls[Len(calls)].key = Keys(Innermost(frames).whole.map)[Innermost(frames).taken + 1],
         Skip(p) = ItemStart(Innermost(frames).whole, Innermost(frames).at,
                             Innermost(frames).taken + 1, w.blank)
  PROVE  AtNode(calls, p, w)
<1> DEFINE k == Len(calls)
           below == SubSeq(calls, 1, k - 1)
           f == Innermost(frames)
           n == f.taken + 1
           start == ItemStart(f.whole, f.at, n, w.blank)
           item == Items(f.whole)[n]
           g == [whole |-> item, at |-> start, taken |-> 0]
           longer == Append(frames, g)
<1>1. k \in Nat \ {0} /\ below \in Seq(CallType) /\ Len(below) = k - 1
      /\ \A i \in 1 .. k - 1 : below[i] = calls[i]
  BY BelowIs
<1>2. Inside(below, frames, w)
  OBVIOUS
<1>3. /\ Len(frames) = k /\ frames \in Seq(FrameType)
      /\ f.whole \in Doc /\ f.at \in Nat /\ f.taken \in Nat /\ Stands(f, w.blank)
  <2>1. Len(frames) = k
    BY <1>1, <1>2 DEF Inside
  <2>2. frames \in Seq(FrameType)
    BY <1>2 DEF Inside
  <2> HIDE DEF below
  <2>3. f.whole \in Doc /\ f.at \in Nat /\ f.taken \in Nat /\ Stands(f, w.blank)
    BY <1>2, FrameIs
  <2> QED
    BY <2>1, <2>2, <2>3
<1>4. f = frames[k]
  BY <1>3 DEF Innermost
<1>5. n \in 1 .. Len(Items(f.whole))
  BY <1>3, DocIs
<1>6. item \in Doc
  BY <1>3, <1>5, DocIs
<1>7. /\ Occurs(start, TextOf(item, w.blank)) /\ start \in Nat
      /\ start + Len(TextOf(item, w.blank)) = f.at + Len(RowOf(f.whole, w.blank)[n])
  BY <1>3, <1>5, ItemOccurs, ZenonT(40) DEF Stands
<1>8. Stops(start + Len(TextOf(item, w.blank)))
  BY <1>3, <1>5, <1>7, ItemStops DEF Stands
<1>9. Waits(calls[k], f, g, w.blank)
  BY DEF Waits
<1> HIDE DEF f, start, item, below
<1>10. g \in FrameType /\ g.whole = item /\ g.at = start /\ g.taken = 0
  BY <1>6, <1>7 DEF FrameType
<1>11. Stands(g, w.blank)
  BY <1>7, <1>8, <1>10 DEF Stands
<1> HIDE DEF g, n, k
<1>12. /\ longer \in Seq(FrameType) /\ Len(longer) = k + 1 /\ longer[k + 1] = g
       /\ \A i \in 1 .. k : longer[i] = frames[i]
  BY <1>1, <1>3, <1>10
<1> HIDE DEF longer
<1>13. Innermost(longer) = g
  BY <1>12 DEF Innermost
<1>14. ASSUME NEW i \in 1 .. k + 1
       PROVE  Stands(longer[i], w.blank)
  <2>1. CASE i = k + 1
    BY <1>11, <1>12, <2>1
  <2>2. CASE i # k + 1
    <3>1. i \in 1 .. Len(frames) /\ i \in 1 .. k
      BY <1>1, <1>3, <2>2
    <3> QED
      BY <1>2, <1>12, <3>1 DEF Inside
  <2> QED
    BY <2>1, <2>2
<1>15. ASSUME NEW i \in 1 .. k
       PROVE  Waits(calls[i], longer[i], longer[i + 1], w.blank)
  <2>1. CASE i = k
    BY <1>4, <1>9, <1>12, <2>1
  <2>2. CASE i # k
    <3>1. i \in 1 .. Len(below) /\ i \in 1 .. k /\ i + 1 \in 1 .. k
      BY <1>1, <2>2
    <3>2. Waits(below[i], frames[i], frames[i + 1], w.blank)
      BY <1>2, <3>1 DEF Inside
    <3>3. below[i] = calls[i] /\ longer[i] = frames[i] /\ longer[i + 1] = frames[i + 1]
      BY <1>1, <1>12, <3>1
    <3> QED
      BY <3>2, <3>3
  <2> QED
    BY <2>1, <2>2
<1>16. longer[1].whole = w.document /\ longer[1].at = 0
  <2>1. 1 \in 1 .. k
    BY <1>1
  <2> QED
    BY <1>2, <1>12, <2>1 DEF Inside
<1>17. Inside(calls, longer, w)
  BY <1>12, <1>14, <1>15, <1>16 DEF Inside, k
<1>18. Skip(p) = start
  BY DEF start, n, f
<1> QED
  BY <1>10, <1>13, <1>17, <1>18 DEF AtNode

\* A call returns what it has read.
LEMMA ReturnStep ==
  ASSUME PlainDocuments, text \in Seq(Char),
         NEW w, w.blank \in Blanks, NEW calls, NEW frames, Inside(calls, frames, w),
         NEW p, p = Innermost(frames).at + Len(TextOf(Innermost(frames).whole, w.blank)),
         Return(calls, Innermost(frames).whole)
  PROVE  \/ pc' = "done" /\ root' = w.document
         \/ pc' = "loop" /\ InLoop(stack', p, w)
<1> DEFINE k == Len(calls)
           f == frames[k]
           g == Innermost(frames)
           n == f.taken + 1
<1>1. /\ calls \in Seq(CallType) /\ k \in Nat /\ Len(frames) = k + 1
      /\ frames \in Seq(FrameType) /\ g = frames[k + 1]
  BY FrameIs DEF Inside, Innermost
<1>2. CASE calls = << >>
  <2>1. k = 0
    BY <1>2
  <2>2. g.whole = w.document
    BY <1>1, <2>1 DEF Inside
  <2>3. pc' = "done" /\ root' = g.whole
    BY <1>2 DEF Return
  <2> QED
    BY <2>2, <2>3
<1>3. CASE calls # << >>
  <2>1. k \in Nat \ {0}
    BY <1>1, <1>3
  <2>2. /\ f.whole \in Doc /\ f.at \in Nat /\ f.taken \in Nat /\ Stands(f, w.blank) /\ f \in FrameType
    <3>1. k \in 1 .. Len(frames)
      BY <1>1, <2>1
    <3> QED
      BY <3>1, FrameIs DEF Inside
  <2>3. Waits(calls[k], f, g, w.blank)
    <3>1. k \in 1 .. Len(calls)
      BY <2>1
    <3>2. Waits(calls[k], frames[k], frames[k + 1], w.blank)
      BY <3>1 DEF Inside
    <3> QED
      BY <1>1, <3>2
  <2>4. calls[k] = [node |-> Taken(f.whole, f.taken), key |-> calls[k].key] /\ calls[k].key \in Seq(Char)
    <3>1. calls[k] \in CallType
      BY <1>1, <2>1
    <3> QED
      BY <2>3, <3>1, CallIs DEF Waits
  <2>5. /\ Nests(f.whole) /\ n \in 1 .. Len(Items(f.whole)) /\ n - 1 = f.taken
        /\ Holds(f.whole, "map") => calls[k].key = Keys(f.whole.map)[n]
        /\ g.whole = Items(f.whole)[n]
        /\ g.at = ItemStart(f.whole, f.at, n, w.blank)
    <3>1. Len(Items(f.whole)) \in Nat
      BY <2>2, DocIs
    <3> QED
      BY <2>2, <2>3, <3>1 DEF Waits
  <2>6. p = f.at + Len(RowOf(f.whole, w.blank)[n])
    <3>2. ItemStart(f.whole, f.at, n, w.blank) + Len(TextOf(Items(f.whole)[n], w.blank)) =
            f.at + Len(RowOf(f.whole, w.blank)[n])
      <4> HIDE DEF f, n
      <4> QED
        BY <2>2, <2>5, ItemOccurs DEF Stands
    <3>3. p = g.at + Len(TextOf(g.whole, w.blank))
      OBVIOUS
    <3> HIDE DEF f, n, g
    <3> QED
      BY <2>5, <3>2, <3>3
  <2> DEFINE top == Added(calls[k], g.whole)
  <2>7. top = [node |-> Taken(f.whole, n), key |-> calls[k].key]
    <3> DEFINE key == calls[k].key
    <3>1. Added([node |-> Taken(f.whole, n - 1), key |-> key], Items(f.whole)[n]) =
            [node |-> Taken(f.whole, n), key |-> key]
      <4> HIDE DEF key, n, f
      <4>1. Holds(f.whole, "map") => key = Keys(f.whole.map)[n]
        BY <2>5 DEF key
      <4> QED
        BY <2>2, <2>5, <4>1, TakenNext
    <3> QED
      BY <2>4, <2>5, <3>1
  <2>8. stack' = [calls EXCEPT ![k] = top] /\ pc' = "loop"
    BY <1>3 DEF Return
  <2>9. top \in CallType /\ top.node = Taken(f.whole, n)
    <3>1. n \in Nat
      BY <2>2
    <3> HIDE DEF top, f, n
    <3> QED
      BY <2>2, <2>4, <2>7, <3>1 DEF CallType
  <2> DEFINE h == [whole |-> f.whole, at |-> f.at, taken |-> n]
             shorter == [i \in 1 .. k |-> IF i = k THEN h ELSE frames[i]]
             below == SubSeq(stack', 1, k - 1)
  <2> HIDE DEF top, f, g
  <2>10. h \in FrameType /\ h.whole = f.whole /\ h.at = f.at /\ h.taken = n
    BY <2>2 DEF FrameType
  <2>11. Stands(h, w.blank)
    BY <2>2, <2>10 DEF Stands
  <2> HIDE DEF h, n
  <2>12. /\ stack' \in Seq(CallType) /\ Len(stack') = k /\ stack'[k] = top
         /\ \A i \in 1 .. k - 1 : stack'[i] = calls[i]
    BY <1>1, <2>1, <2>8, <2>9
  <2>13. /\ below \in Seq(CallType) /\ Len(below) = k - 1
         /\ \A i \in 1 .. k - 1 : below[i] = calls[i]
    BY <2>1, <2>12
  <2>14. /\ shorter \in Seq(FrameType) /\ Len(shorter) = k /\ shorter[k] = h
         /\ \A i \in 1 .. k - 1 : shorter[i] = frames[i]
    <3>1. \A i \in 1 .. k : shorter[i] \in FrameType
      <4>1. \A i \in 1 .. k : frames[i] \in FrameType
        BY <1>1
      <4> QED
        BY <2>10, <4>1
    <3> QED
      BY <2>1, <3>1
  <2> HIDE DEF shorter, below, k
  <2>15. ASSUME NEW i \in 1 .. k
         PROVE  Stands(shorter[i], w.blank)
    <3>1. CASE i = k
      BY <2>11, <2>14, <3>1
    <3>2. CASE i # k
      <4>1. i \in 1 .. k - 1 /\ i \in 1 .. Len(frames)
        BY <1>1, <3>2
      <4> QED
        BY <2>14, <4>1 DEF Inside
    <3> QED
      BY <3>1, <3>2
  <2>16. ASSUME NEW i \in 1 .. k - 1
         PROVE  Waits(below[i], shorter[i], shorter[i + 1], w.blank)
    <3>1. i \in 1 .. Len(calls) /\ i + 1 \in 1 .. k
      BY <1>1 DEF k
    <3>2. Waits(calls[i], frames[i], frames[i + 1], w.blank)
      BY <3>1 DEF Inside
    <3>3. /\ below[i] = calls[i] /\ shorter[i] = frames[i]
          /\ shorter[i + 1].whole = frames[i + 1].whole /\ shorter[i + 1].at = frames[i + 1].at
      <4>1. CASE i + 1 = k
        BY <2>10, <2>13, <2>14, <4>1 DEF f
      <4>2. CASE i + 1 # k
        <5>1. i + 1 \in 1 .. k - 1
          BY <3>1, <4>2, <2>1
        <5> QED
          BY <2>13, <2>14, <5>1
      <4> QED
        BY <4>1, <4>2
    <3> QED
      BY <3>2, <3>3 DEF Waits
  <2>17. shorter[1].whole = w.document /\ shorter[1].at = 0
    <3>1. frames[1].whole = w.document /\ frames[1].at = 0
      BY DEF Inside
    <3>2. CASE k = 1
      BY <2>10, <2>14, <3>1, <3>2 DEF f
    <3>3. CASE k # 1
      <4>1. 1 \in 1 .. k - 1
        BY <2>1, <3>3
      <4> QED
        BY <2>14, <3>1, <4>1
    <3> QED
      BY <3>2, <3>3
  <2>18. Inside(below, shorter, w)
    <3>1. k - 1 + 1 = k
      BY <2>1
    <3> QED
      BY <2>13, <2>14, <2>15, <2>16, <2>17, <3>1 DEF Inside
  <2>19. Innermost(shorter) = h
    BY <2>14 DEF Innermost
  <2>20. Between(stack'[k], h, p, w.blank)
    <3>1. n <= Len(Items(f.whole))
      BY <2>2, <2>5, DocIs
    <3> QED
      BY <2>5, <2>6, <2>9, <2>10, <2>12, <3>1 DEF Between
  <2>21. stack' # << >>
    BY <2>1, <2>12
  <2>22. InLoop(stack', p, w)
    BY <2>12, <2>18, <2>19, <2>20, <2>21 DEF InLoop, below
  <2> QED
    BY <2>8, <2>22
<1> QED
  BY <1>2, <1>3

-----------------------------------------------------------------------------
(***************************************************************************)
(* The steps of the reader.                                                *)
(***************************************************************************)
LEMMA NodeStep ==
  ASSUME PlainDocuments, text \in Seq(Char), NEW w, w.blank \in Blanks,
         AtNode(stack, pos, w), NEW c, LoadNode(c)
  PROVE  \/ pc' = "done" /\ root' = w.document
         \/ pc' = "loop" /\ InLoop(stack', pos', w)
<1>1. PICK frames : /\ Inside(stack, frames, w) /\ Innermost(frames).taken = 0
                    /\ Skip(pos) = Innermost(frames).at
  BY DEF AtNode
<1> DEFINE g == Innermost(frames)
           node == g.whole
           at == g.at
<1>2. /\ node \in Doc /\ at \in Nat /\ Stands(g, w.blank) /\ stack \in Seq(CallType)
  BY <1>1, FrameIs
<1>3. Occurs(at, TextOf(node, w.blank)) /\ Stops(at + Len(TextOf(node, w.blank)))
  BY <1>2 DEF Stands
<1>4. CASE ~ Nests(node)
  <2>1. Return(stack, node) /\ pos' = at + Len(TextOf(node, w.blank))
    BY <1>1, <1>2, <1>3, <1>4, LeafRead
  <2> QED
    BY <1>1, <2>1, ReturnStep
<1>5. CASE Nests(node)
  <2> DEFINE empty == IF Holds(node, "array") THEN ArrayNode(<< >>) ELSE MapNode(<< >>)
             call == [node |-> empty, key |-> << >>]
  <2>1. Call(empty) /\ pos' = at + 1
    BY <1>1, <1>2, <1>3, <1>5, NestRead
  <2>2. empty = Taken(node, 0)
    BY TakenNone
  <2> HIDE DEF empty
  <2>3. stack' = Append(stack, call) /\ pc' = "loop"
    BY <2>1 DEF Call
  <2>4. call \in CallType /\ call.node = Taken(node, 0)
    <3>1. << >> \in Seq(Char) /\ 0 \in Nat
      OBVIOUS
    <3> HIDE DEF node
    <3> QED
      BY <1>2, <2>2, <3>1 DEF CallType
  <2> DEFINE k == Len(stack)
  <2> HIDE DEF call, node, at, g
  <2>5. /\ stack' \in Seq(CallType) /\ Len(stack') = k + 1 /\ stack'[k + 1] = call /\ k \in Nat
        /\ \A i \in 1 .. k : stack'[i] = stack[i]
    BY <1>2, <2>3, <2>4
  <2>6. stack' # << >>
    BY <2>5
  <2>7. SubSeq(stack', 1, Len(stack') - 1) = stack
    <3> DEFINE below == SubSeq(stack', 1, Len(stack') - 1)
    <3>1. /\ below \in Seq(CallType) /\ Len(below) = Len(stack') - 1
          /\ \A i \in 1 .. Len(stack') - 1 : below[i] = stack'[i]
      BY <2>5, <2>6, BelowIs
    <3> HIDE DEF below
    <3>2. Len(below) = Len(stack) /\ \A i \in 1 .. Len(stack) : below[i] = stack[i]
      BY <2>5, <3>1
    <3>3. below = stack
      BY <1>2, <3>1, <3>2, SeqEqual
    <3> QED
      BY <3>3 DEF below
  <2>8. at + 1 = at + Len(RowOf(node, w.blank)[0])
    <3>1. RowOf(node, w.blank)[0] = <<Opening(node)>>
      BY <1>2, RowOfSteps
    <3> QED
      BY <3>1
  <2>9. Between(call, g, pos', w.blank)
    <3>1. g.whole = node /\ g.at = at /\ g.taken = 0
      BY <1>1 DEF node, at, g
    <3>2. 0 <= Len(Items(node))
      BY <1>2, DocIs
    <3> QED
      BY <1>5, <2>1, <2>4, <2>8, <3>1, <3>2 DEF Between
  <2>10. InLoop(stack', pos', w)
    <3>1. stack'[Len(stack')] = call
      BY <2>5
    <3> QED
      BY <1>1, <2>5, <2>6, <2>7, <2>9, <3>1 DEF InLoop, g
  <2> QED
    BY <2>3, <2>10
<1> QED
  BY <1>4, <1>5

\* In a loop, the node the last call is reading.
LEMMA LoopIs ==
  ASSUME PlainDocuments, NEW w, InLoop(stack, pos, w)
  PROVE  \E frames :
           /\ Inside(Below, frames, w) /\ Between(Top, Innermost(frames), pos, w.blank)
           /\ Innermost(frames).whole \in Doc /\ Innermost(frames).at \in Nat
           /\ Innermost(frames).taken \in Nat
           /\ Occurs(Innermost(frames).at, TextOf(Innermost(frames).whole, w.blank))
           /\ Nests(Innermost(frames).whole)
           /\ Holds(Top.node, "array") <=> Holds(Innermost(frames).whole, "array")
           /\ Holds(Top.node, "map") <=> Holds(Innermost(frames).whole, "map")
           /\ Len(Items(Innermost(frames).whole)) \in Nat
<1>1. PICK frames : /\ Inside(SubSeq(stack, 1, Len(stack) - 1), frames, w)
                    /\ Between(stack[Len(stack)], Innermost(frames), pos, w.blank)
  BY DEF InLoop
<1>2. Inside(Below, frames, w) /\ Between(Top, Innermost(frames), pos, w.blank)
  BY <1>1 DEF Below, Top
<1> DEFINE f == Innermost(frames)
<1>3. f.whole \in Doc /\ f.at \in Nat /\ f.taken \in Nat /\ Stands(f, w.blank)
  BY <1>2, FrameIs
<1>4. Nests(f.whole) /\ Top.node = Taken(f.whole, f.taken)
  BY <1>2 DEF Between
<1>5. /\ Holds(Top.node, "array") <=> Holds(f.whole, "array")
      /\ Holds(Top.node, "map") <=> Holds(f.whole, "map")
  BY <1>3, <1>4, TakenHolds
<1>6. Len(Items(f.whole)) \in Nat
  BY <1>3, PlainItems DEF PlainDocuments
<1> QED
  BY <1>2, <1>3, <1>4, <1>5, <1>6 DEF Stands

\* An array of the documents is no map.
LEMMA BracketOf ==
  ASSUME PlainDocuments, NEW node \in Doc
  PROVE  /\ ~ (Holds(node, "array") /\ Holds(node, "map"))
         /\ Holds(node, "array") => Closing(node) = "]"
         /\ Holds(node, "map") => Closing(node) = "}"
<1>1. PlainNode(node)
  BY DEF PlainDocuments
<1>2. ~ (Holds(node, "array") /\ Holds(node, "map"))
  BY <1>1, NestKinds, KindsApart
<1> QED
  BY <1>2 DEF Closing

\* The loop ends at its bracket and returns the array or the map, complete.
LEMMA EndStep ==
  ASSUME PlainDocuments, text \in Seq(Char), NEW w, w.blank \in Blanks,
         InLoop(stack, pos, w)
  PROVE  EndLoop("array", "]") \/ EndLoop("map", "}") =>
           \/ pc' = "done" /\ root' = w.document
           \/ pc' = "loop" /\ InLoop(stack', pos', w)
<1>1. PICK frames :
           /\ Inside(Below, frames, w) /\ Between(Top, Innermost(frames), pos, w.blank)
           /\ Innermost(frames).whole \in Doc /\ Innermost(frames).at \in Nat
           /\ Innermost(frames).taken \in Nat
           /\ Occurs(Innermost(frames).at, TextOf(Innermost(frames).whole, w.blank))
           /\ Nests(Innermost(frames).whole)
           /\ Holds(Top.node, "array") <=> Holds(Innermost(frames).whole, "array")
           /\ Holds(Top.node, "map") <=> Holds(Innermost(frames).whole, "map")
           /\ Len(Items(Innermost(frames).whole)) \in Nat
  BY LoopIs
<1> DEFINE f == Innermost(frames)
           node == f.whole
           at == f.at
           n == f.taken
           size == Len(Items(node))
<1>2. /\ n <= size /\ Top.node = Taken(node, n) /\ pos = at + Len(RowOf(node, w.blank)[n])
  BY <1>1 DEF Between
<1>3. ASSUME EndLoop("array", "]") \/ EndLoop("map", "}")
      PROVE  /\ \/ Holds(node, "array") /\ (AtEnd(pos) \/ Peeks(Skip(pos), "]"))
                \/ Holds(node, "map") /\ (AtEnd(pos) \/ Peeks(Skip(pos), "}"))
             /\ pos' = After(pos) /\ Return(Below, Top.node)
  <2> HIDE DEF node
  <2>1. /\ Holds(Top.node, "array") <=> Holds(node, "array")
        /\ Holds(Top.node, "map") <=> Holds(node, "map")
    BY <1>1 DEF node
  <2> QED
    BY <1>3, <2>1, Zenon DEF EndLoop, Looping
<1>4. n # size => n + 1 \in 1 .. size /\ n + 1 - 1 = n
  BY <1>1, <1>2
<1>5. ASSUME n # size, EndLoop("array", "]") \/ EndLoop("map", "}")
      PROVE  FALSE
  <2> DEFINE m == n + 1
  <2>1. m \in 1 .. size /\ m - 1 = n
    <3>1. n # size
      BY <1>5
    <3> QED
      BY <1>1, <1>2, <3>1
  <2> HIDE DEF m, n, at, node, f
  <2>2. pos = at + Len(RowOf(node, w.blank)[m - 1])
    BY <1>2, <2>1
  <2>3. node \in Doc /\ at \in Nat /\ Occurs(at, TextOf(node, w.blank))
    BY <1>1 DEF node, at, f
  <2>4. CASE Holds(node, "array")
    <3>1. ~ AtEnd(pos) /\ ~ Peeks(Skip(pos), "]")
      BY <2>1, <2>2, <2>3, <2>4, ItemRead
    <3>2. ~ Holds(node, "map")
      BY <2>3, <2>4, BracketOf
    <3> QED
      BY <1>3, <1>5, <3>1, <3>2
  <2>5. CASE Holds(node, "map")
    <3>1. ~ AtEnd(pos) /\ ~ Peeks(Skip(pos), "}")
      BY <2>1, <2>2, <2>3, <2>5, EntryRead
    <3>2. ~ Holds(node, "array")
      BY <2>3, <2>5, BracketOf
    <3> QED
      BY <1>3, <1>5, <3>1, <3>2
  <2> QED
    BY <1>3, <1>5, <2>4, <2>5
<1>6. ASSUME n = size
      PROVE  Top.node = node /\ After(pos) = at + Len(TextOf(node, w.blank))
  <2>1. pos = at + Len(RowOf(node, w.blank)[size])
    BY <1>2, <1>6
  <2> QED
    BY <1>1, <1>2, <1>6, <2>1, TakenAll, EndingOccurs
<1>7. ASSUME EndLoop("array", "]") \/ EndLoop("map", "}")
      PROVE  Return(Below, node) /\ pos' = at + Len(TextOf(node, w.blank))
  BY <1>3, <1>5, <1>6, <1>7
<1> QED
  BY <1>1, <1>7, ReturnStep

\* The loop goes on to the item that comes next.
LEMMA ItemStep ==
  ASSUME PlainDocuments, text \in Seq(Char), NEW w, w.blank \in Blanks,
         InLoop(stack, pos, w), NextItem \/ NextEntry
  PROVE  pc' = "node" /\ AtNode(stack', pos', w)
<1>1. PICK frames :
           /\ Inside(Below, frames, w) /\ Between(Top, Innermost(frames), pos, w.blank)
           /\ Innermost(frames).whole \in Doc /\ Innermost(frames).at \in Nat
           /\ Innermost(frames).taken \in Nat
           /\ Occurs(Innermost(frames).at, TextOf(Innermost(frames).whole, w.blank))
           /\ Nests(Innermost(frames).whole)
           /\ Holds(Top.node, "array") <=> Holds(Innermost(frames).whole, "array")
           /\ Holds(Top.node, "map") <=> Holds(Innermost(frames).whole, "map")
           /\ Len(Items(Innermost(frames).whole)) \in Nat
  BY LoopIs
<1> DEFINE f == Innermost(frames)
           node == f.whole
           at == f.at
           n == f.taken
           m == n + 1
           size == Len(Items(node))
           k == Len(stack)
<1>2. /\ n <= size /\ Top.node = Taken(node, n) /\ pos = at + Len(RowOf(node, w.blank)[n])
  BY <1>1 DEF Between
<1>3. stack \in Seq(CallType) /\ stack # << >> /\ k \in Nat \ {0}
  BY DEF InLoop
<1>4. \/ NextItem /\ Holds(node, "array") /\ ~ Peeks(Skip(pos), "]")
      \/ NextEntry /\ Holds(node, "map") /\ ~ Peeks(Skip(pos), "}")
  BY <1>1 DEF NextItem, NextEntry, Looping
<1>5. pc' = "node"
  BY DEF NextItem, NextEntry
<1>6. n # size
  <2> SUFFICES ASSUME n = size PROVE FALSE
    OBVIOUS
  <2>1. pos = at + Len(RowOf(node, w.blank)[size])
    BY <1>2
  <2>2. Peeks(Skip(pos), Closing(node))
    BY <1>1, <2>1, EndingOccurs
  <2> QED
    BY <1>1, <1>4, <2>2, BracketOf
<1>7. m \in 1 .. size /\ m - 1 = n /\ n < size
  BY <1>1, <1>2, <1>6
<1>8. node \in Doc /\ at \in Nat /\ n \in Nat /\ Nests(node) /\ Occurs(at, TextOf(node, w.blank))
  BY <1>1
<1> HIDE DEF m, n, at, node, f
<1>9. pos = at + Len(RowOf(node, w.blank)[m - 1])
  BY <1>2, <1>7
<1>10. CASE NextItem /\ Holds(node, "array")
  <2>1. pos' \in Nat /\ Skip(pos') = ItemStart(node, at, m, w.blank)
    BY <1>7, <1>8, <1>9, <1>10, ItemRead
  <2>2. stack' = stack
    BY <1>10 DEF NextItem
  <2>3. ~ Holds(node, "map")
    BY <1>8, <1>10, BracketOf
  <2>4. AtNode(stack, pos', w)
    <3>1. stack[Len(stack)].node = Taken(node, n)
      BY <1>2 DEF Top
    <3>2. Inside(SubSeq(stack, 1, Len(stack) - 1), frames, w)
      BY <1>1 DEF Below
    <3> QED
      BY <1>3, <1>7, <1>8, <2>1, <2>3, <3>1, <3>2, Push DEF m, n, at, node, f
  <2> QED
    BY <1>5, <2>2, <2>4
<1>11. CASE NextEntry /\ Holds(node, "map")
  <2> DEFINE key == Keys(node.map)[m]
             calls == [stack EXCEPT ![k].key = key]
  <2>1. /\ pos' \in Nat /\ Skip(pos') = ItemStart(node, at, m, w.blank)
        /\ stack' = calls
    BY <1>7, <1>8, <1>9, <1>11, EntryRead
  <2>2. key \in String /\ key \in Seq(Char)
    <3>1. key \in String
      BY <1>7, <1>8, <1>11, DocIs, LabelType
    <3> QED
      BY <3>1, StringType
  <2> HIDE DEF key
  <2>3. stack[k] \in CallType /\ stack[k].node = Taken(node, n)
    <3>1. stack[k] \in CallType
      BY <1>3
    <3>2. stack[k].node = Taken(node, n)
      BY <1>2 DEF Top
    <3> QED
      BY <3>1, <3>2
  <2> DEFINE top == [stack[k] EXCEPT !.key = key]
  <2>4. top \in CallType /\ top.node = Taken(node, n) /\ top.key = key
    <3> DEFINE call == stack[k]
    <3>1. call = [node |-> call.node, key |-> call.key] /\ call \in CallType
      BY <2>3, CallIs
    <3>2. call.node \in {Taken(d, i) : d \in Doc, i \in Nat} /\ call.node = Taken(node, n)
      BY <2>3 DEF CallType
    <3> HIDE DEF call, k
    <3>3. [call EXCEPT !.key = key] = [node |-> call.node, key |-> key]
      BY <3>1
    <3> QED
      BY <2>2, <3>2, <3>3 DEF CallType, call
  <2>5. calls = [stack EXCEPT ![k] = top]
    OBVIOUS
  <2> HIDE DEF top, calls
  <2>6. /\ calls \in Seq(CallType) /\ Len(calls) = k /\ calls[k] = top
        /\ \A i \in 1 .. k - 1 : calls[i] = stack[i]
    BY <1>3, <2>4, <2>5
  <2>7. calls # << >>
    BY <1>3, <2>6
  <2>8. SubSeq(calls, 1, Len(calls) - 1) = Below
    <3> DEFINE a == SubSeq(calls, 1, Len(calls) - 1)
               b == SubSeq(stack, 1, Len(stack) - 1)
    <3>1. /\ a \in Seq(CallType) /\ Len(a) = Len(calls) - 1
          /\ \A i \in 1 .. Len(calls) - 1 : a[i] = calls[i]
      BY <2>6, <2>7, BelowIs
    <3>2. /\ b \in Seq(CallType) /\ Len(b) = Len(stack) - 1
          /\ \A i \in 1 .. Len(stack) - 1 : b[i] = stack[i]
      BY <1>3, BelowIs
    <3> HIDE DEF a, b
    <3>3. a = b
      <4>1. Len(a) = Len(b) /\ \A i \in 1 .. Len(a) : a[i] = b[i]
        BY <2>6, <3>1, <3>2
      <4> QED
        BY <3>1, <3>2, <4>1, SeqEqual
    <3> QED
      BY <3>3 DEF a, b, Below
  <2>9. AtNode(calls, pos', w)
    <3>1. calls[Len(calls)].node = Taken(node, n) /\ calls[Len(calls)].key = Keys(node.map)[n + 1]
      BY <2>4, <2>6 DEF key, m
    <3>2. Inside(SubSeq(calls, 1, Len(calls) - 1), frames, w)
      BY <1>1, <2>8
    <3> QED
      BY <1>7, <1>8, <2>1, <2>6, <2>7, <3>1, <3>2, Push DEF m, n, at, node, f
  <2> QED
    BY <1>5, <2>1, <2>9
<1> QED
  BY <1>4, <1>10, <1>11

-----------------------------------------------------------------------------
(***************************************************************************)
(* The theorem of the round trip.                                          *)
(***************************************************************************)
Reading(w) ==
  \/ pc = "done" /\ root = w.document
  \/ pc = "loop" /\ InLoop(stack, pos, w)
  \/ pc = "node" /\ AtNode(stack, pos, w)

ReadsInv == \A w \in Written : text = w.text => Reading(w)

\* What a written file holds.
LEMMA WrittenIs ==
  ASSUME PlainDocuments, NEW w \in Written
  PROVE  /\ w.document \in Doc /\ w.blank \in Blanks
         /\ w.text = TextOf(w.document, w.blank) /\ w.text \in Seq(Char)
<1>1. PICK d \in Documents, blank \in Blanks :
        w = [document |-> d, blank |-> blank, text |-> ToJson(Documents, blank)[d]]
  BY DEF Written
<1>2. d \in Doc
  BY PartsContain
<1>3. w.document = d /\ w.blank = blank /\ w.text = TextOf(d, blank)
  BY <1>1 DEF TextOf
<1>4. TextOf(d, blank) \in Seq(Char)
  BY <1>2, DocIs
<1> QED
  BY <1>2, <1>3, <1>4

\* The file does not change, and neither does what stands where.
LEMMA SameText ==
  ASSUME text' = text
  PROVE  /\ \A p, s : Occurs(p, s)' <=> Occurs(p, s)
         /\ \A q : Stops(q)' <=> Stops(q)
         /\ \A p : Skip(p)' = Skip(p)
<1>1. \A p, s : Occurs(p, s)' <=> Occurs(p, s)
  BY DEF Occurs
<1>2. \A q : Stops(q)' <=> Stops(q)
  BY Zenon DEF Stops
<1>3. \A p : Skip(p)' = Skip(p)
  BY Zenon DEF Skip, EndOfRun
<1> QED
  BY <1>1, <1>2, <1>3

\* The frames stay where they are while the file does.
LEMMA SameInside ==
  ASSUME text' = text, NEW calls, NEW frames, NEW w
  PROVE  Inside(calls, frames, w)' <=> Inside(calls, frames, w)
<1>1. \A f, blank : Stands(f, blank)' <=> Stands(f, blank)
  BY SameText DEF Stands
<1> QED
  BY <1>1 DEF Inside

\* At the start LoadNode is called for the document that was written.
LEMMA ReadsInit ==
  ASSUME PlainDocuments, Init
  PROVE  ReadsInv
<1> SUFFICES ASSUME NEW w \in Written, text = w.text
             PROVE  Reading(w)
  BY DEF ReadsInv
<1> DEFINE node == w.document
           blank == w.blank
           f == [whole |-> node, at |-> 0, taken |-> 0]
           frames == <<f>>
<1>1. /\ node \in Doc /\ blank \in Blanks /\ text = TextOf(node, blank) /\ text \in Seq(Char)
  BY WrittenIs
<1>2. /\ pos = 0 /\ stack = << >> /\ pc = "node"
  BY DEF Init
<1>3. f \in FrameType /\ f.whole = node /\ f.at = 0 /\ f.taken = 0
  BY <1>1 DEF FrameType
<1>4. Occurs(0, TextOf(node, blank))
  <2>1. \A n \in 1 .. Len(text) : 0 + n = n
    BY <1>1
  <2> QED
    BY <1>1, <2>1 DEF Occurs
<1>5. Stops(0 + Len(TextOf(node, blank)))
  <2>1. 0 + Len(TextOf(node, blank)) = Len(text)
    BY <1>1
  <2> QED
    BY <2>1, SpaceIs
<1>6. Stands(f, blank)
  BY <1>3, <1>4, <1>5 DEF Stands
<1>7. Skip(0) = 0
  <2>1. 0 < Len(text) /\ Starts(text[0 + 1], node)
    BY <1>1, <1>4, FirstChar
  <2>2. text[0 + 1] # Space
    BY <2>1, SeparatorIs
  <2> QED
    BY <1>1, <2>1, <2>2, Here
<1> HIDE DEF f
<1>8. frames \in Seq(FrameType) /\ Len(frames) = 1 /\ frames[1] = f
  BY <1>3
<1>9. << >> \in Seq(CallType) /\ Len(<< >>) = 0
  OBVIOUS
<1> HIDE DEF frames
<1>10. Inside(<< >>, frames, w)
  BY <1>3, <1>6, <1>8, <1>9 DEF Inside
<1>11. Innermost(frames) = f
  BY <1>8 DEF Innermost
<1>12. AtNode(<< >>, 0, w)
  BY <1>3, <1>7, <1>10, <1>11 DEF AtNode
<1> QED
  BY <1>2, <1>12 DEF Reading

\* Every step of the reader goes on with the document that was written.
LEMMA ReadsNext ==
  ASSUME PlainDocuments, ReadsInv, [Next]_vars
  PROVE  ReadsInv'
<1>1. text' = text
  BY DEF Next, vars, LoadNode, EndLoop, NextItem, NextEntry
<1> SUFFICES ASSUME NEW w \in Written, text = w.text
             PROVE  Reading(w)'
  <2>1. Written' = Written
    OBVIOUS
  <2> QED
    BY <1>1, <2>1 DEF ReadsInv
<1>2. Reading(w)
  BY DEF ReadsInv
<1>3. w.blank \in Blanks /\ text \in Seq(Char)
  BY WrittenIs
<1>4. ASSUME AtNode(stack', pos', w), pc' = "node"
      PROVE  Reading(w)'
  <2>1. AtNode(stack, pos, w)'
    BY <1>1, <1>4, SameInside, SameText DEF AtNode, Innermost
  <2> QED
    BY <1>4, <2>1 DEF Reading
<1>5. ASSUME InLoop(stack', pos', w), pc' = "loop"
      PROVE  Reading(w)'
  <2>1. InLoop(stack, pos, w)'
    BY <1>1, <1>5, SameInside DEF InLoop, Innermost, Between
  <2> QED
    BY <1>5, <2>1 DEF Reading
<1>6. ASSUME NEW c \in Fetched(pos), LoadNode(c)
      PROVE  Reading(w)'
  <2>1. pc = "node"
    BY <1>6 DEF LoadNode
  <2>2. AtNode(stack, pos, w)
    BY <1>2, <2>1 DEF Reading
  <2>3. \/ pc' = "done" /\ root' = w.document
        \/ pc' = "loop" /\ InLoop(stack', pos', w)
    BY <1>3, <1>6, <2>2, NodeStep
  <2> QED
    BY <1>5, <2>3 DEF Reading
<1>7. ASSUME EndLoop("array", "]") \/ EndLoop("map", "}")
      PROVE  Reading(w)'
  <2>1. pc = "loop"
    BY <1>7 DEF EndLoop, Looping
  <2>2. InLoop(stack, pos, w)
    BY <1>2, <2>1 DEF Reading
  <2>3. \/ pc' = "done" /\ root' = w.document
        \/ pc' = "loop" /\ InLoop(stack', pos', w)
    BY <1>3, <1>7, <2>2, EndStep
  <2> QED
    BY <1>5, <2>3 DEF Reading
<1>8. ASSUME NextItem \/ NextEntry
      PROVE  Reading(w)'
  <2>1. pc = "loop"
    BY <1>8 DEF NextItem, NextEntry, Looping
  <2>2. InLoop(stack, pos, w)
    BY <1>2, <2>1 DEF Reading
  <2> QED
    BY <1>3, <1>4, <1>8, <2>2, ItemStep
<1>9. ASSUME UNCHANGED vars
      PROVE  Reading(w)'
  <2>1. stack' = stack /\ pos' = pos /\ root' = root /\ pc' = pc
    BY <1>9 DEF vars
  <2>2. CASE pc = "done" /\ root = w.document
    BY <2>1, <2>2 DEF Reading
  <2>3. CASE pc = "loop" /\ InLoop(stack, pos, w)
    BY <1>5, <2>1, <2>3
  <2>4. CASE pc = "node" /\ AtNode(stack, pos, w)
    BY <1>4, <2>1, <2>4
  <2> QED
    BY <1>2, <2>2, <2>3, <2>4 DEF Reading
<1> QED
  BY <1>6, <1>7, <1>8, <1>9, Zenon DEF Next

\* When the reader returns it has read the document.
LEMMA ReadsShow ==
  ASSUME ReadsInv
  PROVE  ReadsWhatIsWritten
<1> SUFFICES ASSUME NEW w \in Written, pc = "done", text = w.text
             PROVE  root = w.document
  BY DEF ReadsWhatIsWritten
<1> QED
  BY DEF ReadsInv, Reading

\* Load reads back what Print writes: whatever plain documents are printed, with
\* or without the blanks between their tokens, the whole file is read as the
\* document it was written from - the brackets, the commas that are put back, the
\* keys and the digits, at any depth.
THEOREM DocumentsReadBack ==
  ASSUME PlainDocuments
  PROVE  Spec => []ReadsWhatIsWritten
<1>1. Init => ReadsInv
  BY ReadsInit
<1>2. ReadsInv /\ [Next]_vars => ReadsInv'
  BY ReadsNext
<1>3. ReadsInv => ReadsWhatIsWritten
  BY ReadsShow
<1> QED
  BY <1>1, <1>2, <1>3, PTL DEF Spec

-----------------------------------------------------------------------------
(***************************************************************************)
(* The type invariant, wherever the file ends.                             *)
(***************************************************************************)
\* NoNode is none of the nodes that Load returns.
NoNodeApart ==
  /\ ~ Nests(NoNode)
  /\ \A s : NoNode # StringNode(s)
  /\ \A b : NoNode # BoolNode(b)
  /\ \A b, m : NoNode # DoubleNode(b, m)

\* A call of LoadArray or LoadDict.
Filling(call) == "node" \in DOMAIN call /\ Nests(call.node)

TypeInv ==
  /\ ReaderTypeOK
  /\ text \in Seq(Char)
  /\ \E S : stack \in Seq(S)
  /\ \A n \in DOMAIN stack : Filling(stack[n])
  /\ pc = "loop" => stack # << >>

\* The stream stays inside the file.
LEMMA SkipType ==
  ASSUME Len(text) \in Nat, NEW p \in 0 .. Len(text)
  PROVE  Skip(p) \in 0 .. Len(text) /\ After(p) \in 0 .. Len(text)
<1>1. Skip(p) \in p .. Len(text)
  <2>1. p \in Nat /\ p <= Len(text)
    OBVIOUS
  <2>2. EndOfRun(p, {Space}) \in p .. Len(text)
    BY <2>1, EndOfRunType
  <2> QED
    BY <2>2, SpaceIs
<1>2. Skip(p) \in 0 .. Len(text)
  BY <1>1
<1> QED
  BY <1>2 DEF After, AtEnd

\* LoadString returns a string, also if the file ends in it.
LEMMA StringTypes ==
  ASSUME Len(text) \in Nat, NEW p \in 0 .. Len(text)
  PROVE  LoadString(p).pos \in 0 .. Len(text) /\ \E s : LoadString(p).node = StringNode(s)
<1> DEFINE end == EndOfRun(p, {text[n] : n \in DOMAIN text} \ {Quote})
<1>1. end \in p .. Len(text)
  BY EndOfRunType
<1>2. LoadString(p) = [node |-> StringNode(SubSeq(text, p + 1, end)),
                       pos |-> IF Peeks(end, Quote) THEN end + 1 ELSE end]
  BY DEF LoadString, Quote
<1> HIDE DEF end
<1>3. (IF Peeks(end, Quote) THEN end + 1 ELSE end) \in 0 .. Len(text)
  BY <1>1 DEF Peeks
<1> QED
  BY <1>2, <1>3

\* LoadDouble returns a number, also if there is none.
LEMMA DoubleTypes ==
  ASSUME Len(text) \in Nat, NEW p \in 0 .. Len(text)
  PROVE  LoadDouble(p).pos \in 0 .. Len(text) /\ \E b, m : LoadDouble(p).node = DoubleNode(b, m)
<1> DEFINE start == IF Peeks(p, "-") THEN p + 1 ELSE p
           dot == EndOfRun(start, Digit)
           end == IF Peeks(dot, ".") THEN EndOfRun(dot + 1, Digit) ELSE dot
<1>1. start \in 0 .. Len(text)
  BY DEF Peeks
<1> HIDE DEF start
<1>2. dot \in 0 .. Len(text)
  BY <1>1, EndOfRunType
<1> HIDE DEF dot
<1>3. end \in 0 .. Len(text)
  <2>1. CASE Peeks(dot, ".")
    <3>1. dot + 1 \in 0 .. Len(text)
      BY <1>2, <2>1 DEF Peeks
    <3>2. EndOfRun(dot + 1, Digit) \in dot + 1 .. Len(text)
      BY <3>1, EndOfRunType
    <3>3. EndOfRun(dot + 1, Digit) \in 0 .. Len(text)
      BY <3>1, <3>2
    <3> QED
      BY <2>1, <3>3
  <2>2. CASE ~ Peeks(dot, ".")
    BY <1>2, <2>2
  <2> QED
    BY <2>1, <2>2
<1> QED
  BY <1>3 DEF LoadDouble, start, dot

\* LoadBool returns a bool, also if the file ends in its word.
LEMMA BoolTypes ==
  ASSUME Len(text) \in Nat, NEW p \in 0 .. Len(text)
  PROVE  \A bool \in LoadBool(p) :
           bool.pos \in 0 .. Len(text) /\ \E b : bool.node = BoolNode(b)
<1> DEFINE q == After(p)
           r == After(q)
           s == After(r)
           t == After(s)
<1>1. q \in 0 .. Len(text)
  BY SkipType
<1> HIDE DEF q
<1>2. r \in 0 .. Len(text)
  BY <1>1, SkipType
<1> HIDE DEF r
<1>3. s \in 0 .. Len(text)
  BY <1>2, SkipType
<1> HIDE DEF s
<1>4. t \in 0 .. Len(text)
  BY <1>3, SkipType
<1> HIDE DEF t
<1>5. LoadBool(p) = {[node |-> BoolNode(c # "a"), pos |-> IF c = "a" THEN t ELSE s] : c \in Fetched(p)}
  BY DEF LoadBool, q, r, s, t
<1> QED
  BY <1>3, <1>4, <1>5

\* Adding to an array or a map leaves it one.
LEMMA AddedFills ==
  ASSUME NEW call, Filling(call), NEW node
  PROVE  Filling(Added(call, node))
<1> DEFINE longer == [k \in DOMAIN call.node.map \cup {call.key} |->
                        IF k \in DOMAIN call.node.map THEN call.node.map[k] ELSE node]
           more == Append(call.node.array, node)
<1>1. "node" \in DOMAIN call /\ Nests(call.node)
  BY DEF Filling
<1>2. Added(call, node) = IF Holds(call.node, "array")
                            THEN [call EXCEPT !.node.array = more]
                            ELSE [call EXCEPT !.node.map = longer]
  BY DEF Added
<1> HIDE DEF more, longer
<1>3. /\ \A x : DOMAIN [call EXCEPT !.node.array = x] = DOMAIN call
      /\ \A x : DOMAIN [call EXCEPT !.node.map = x] = DOMAIN call
      /\ \A x : [call EXCEPT !.node.array = x].node = [call.node EXCEPT !.array = x]
      /\ \A x : [call EXCEPT !.node.map = x].node = [call.node EXCEPT !.map = x]
  BY <1>1
<1>4. /\ \A x : DOMAIN [call.node EXCEPT !.array = x] = DOMAIN call.node
      /\ \A x : DOMAIN [call.node EXCEPT !.map = x] = DOMAIN call.node
  OBVIOUS
<1>5. \A x : /\ Filling([call EXCEPT !.node.array = x])
             /\ Filling([call EXCEPT !.node.map = x])
  BY <1>1, <1>3, <1>4 DEF Filling, Nests, Holds
<1> QED
  BY <1>2, <1>5

\* Returning a node: the call below takes it, or Load returns it.
LEMMA ReturnTypes ==
  ASSUME NEW S, NEW calls \in Seq(S), \A n \in DOMAIN calls : Filling(calls[n]),
         NoNodeApart, root = NoNode, NEW node, node # NoNode, Return(calls, node)
  PROVE  /\ \E T : stack' \in Seq(T)
         /\ \A n \in DOMAIN stack' : Filling(stack'[n])
         /\ \/ pc' = "loop" /\ stack' # << >> /\ root' = NoNode
            \/ pc' = "done" /\ root' # NoNode
<1>1. CASE calls = << >>
  <2>1. stack' = << >> /\ root' = node /\ pc' = "done"
    BY <1>1 DEF Return
  <2>2. << >> \in Seq({})
    OBVIOUS
  <2>3. DOMAIN << >> = {}
    OBVIOUS
  <2> QED
    BY <2>1, <2>2, <2>3
<1>2. CASE calls # << >>
  <2> DEFINE k == Len(calls)
             top == Added(calls[k], node)
             T == S \cup {top}
  <2>1. stack' = [calls EXCEPT ![k] = top] /\ pc' = "loop" /\ root' = root
    BY <1>2 DEF Return
  <2>2. k \in Nat \ {0} /\ DOMAIN calls = 1 .. k
    BY <1>2
  <2>3. Filling(top)
    BY <2>2, AddedFills
  <2> HIDE DEF top
  <2>4. /\ stack' \in Seq(T) /\ DOMAIN stack' = 1 .. k /\ Len(stack') = k
        /\ \A n \in 1 .. k : stack'[n] = IF n = k THEN top ELSE calls[n]
    <3> HIDE DEF k
    <3>1. calls \in [1 .. k -> S]
      BY DEF k
    <3>2. [calls EXCEPT ![k] = top] \in [1 .. k -> T]
      BY <3>1
    <3> QED
      BY <2>1, <2>2, <3>1, <3>2
  <2>5. \A n \in DOMAIN stack' : Filling(stack'[n])
    BY <2>2, <2>3, <2>4
  <2>6. stack' # << >>
    BY <2>2, <2>4
  <2>7. \E U : stack' \in Seq(U)
    BY <2>4
  <2>8. root' = NoNode
    BY <2>1
  <2>9. pc' = "loop"
    BY <2>1
  <2> QED
    BY <2>5, <2>6, <2>7, <2>8, <2>9
<1> QED
  BY <1>1, <1>2

\* The type invariant holds when the file is opened.
LEMMA TypeInit ==
  ASSUME PlainDocuments, Init
  PROVE  TypeInv
<1>1. text \in Seq(Char)
  <2>1. PICK w \in Written : text \in Beginnings(w.text)
    BY DEF Init, Files
  <2>2. w.text \in Seq(Char)
    BY WrittenIs
  <2>3. PICK n \in 0 .. Len(w.text) : text = SubSeq(w.text, 1, n)
    BY <2>1 DEF Beginnings
  <2>4. \A i \in 1 .. n : w.text[i] \in Char
    BY <2>2
  <2> QED
    BY <2>3, <2>4, SubSeqProperties
<1>2. pos \in 0 .. Len(text)
  BY <1>1 DEF Init
<1>3. stack = << >> /\ root = NoNode /\ pc = "node"
  BY DEF Init
<1>4. << >> \in Seq({}) /\ DOMAIN << >> = {}
  OBVIOUS
<1> QED
  BY <1>1, <1>2, <1>3, <1>4 DEF TypeInv, ReaderTypeOK

\* A step of LoadNode keeps the types.
LEMMA NodeTypes ==
  ASSUME NoNodeApart, TypeInv, NEW c, LoadNode(c)
  PROVE  TypeInv'
<1>1. /\ text' = text /\ pc = "node" /\ text \in Seq(Char) /\ Len(text) \in Nat
      /\ pos \in 0 .. Len(text) /\ root = NoNode
      /\ \A n \in DOMAIN stack : Filling(stack[n])
  <2>1. pc = "node" /\ text' = text
    BY DEF LoadNode
  <2> QED
    BY <2>1 DEF TypeInv, ReaderTypeOK
<1>2. PICK S : stack \in Seq(S)
  BY DEF TypeInv
<1>3. Skip(pos) \in 0 .. Len(text) /\ After(pos) \in 0 .. Len(text)
  BY <1>1, SkipType
<1>4. \/ \E node : node # NoNode /\ Return(stack, node) /\ pos' \in 0 .. Len(text)
      \/ \E node : Nests(node) /\ Call(node) /\ pos' \in 0 .. Len(text)
  <2>1. CASE c = "["
    <3>1. Call(ArrayNode(<< >>)) /\ pos' = After(pos)
      BY <2>1 DEF LoadNode
    <3> QED
      BY <1>3, <3>1, KindsApart DEF Nests
  <2>2. CASE c = "{"
    <3>1. Call(MapNode(<< >>)) /\ pos' = After(pos)
      BY <2>2 DEF LoadNode
    <3> QED
      BY <1>3, <3>1, KindsApart DEF Nests
  <2>3. CASE c = Quote
    <3>1. Return(stack, LoadString(After(pos)).node) /\ pos' = LoadString(After(pos)).pos
      BY <2>3 DEF LoadNode, Quote
    <3> QED
      BY <1>1, <1>3, <3>1, StringTypes DEF NoNodeApart
  <2>4. CASE c \in {"t", "f"}
    <3>1. PICK bool \in LoadBool(After(pos)) : Return(stack, bool.node) /\ pos' = bool.pos
      BY <2>4 DEF LoadNode
    <3> QED
      BY <1>1, <1>3, <3>1, BoolTypes DEF NoNodeApart
  <2>5. CASE c \notin {"[", "{", Quote, "t", "f"}
    <3>1. Return(stack, LoadDouble(Skip(pos)).node) /\ pos' = LoadDouble(Skip(pos)).pos
      BY <2>5 DEF LoadNode, Quote
    <3> QED
      BY <1>1, <1>3, <3>1, DoubleTypes DEF NoNodeApart
  <2> QED
    BY <2>1, <2>2, <2>3, <2>4, <2>5
<1>5. CASE \E node : node # NoNode /\ Return(stack, node) /\ pos' \in 0 .. Len(text)
  <2>1. PICK node : node # NoNode /\ Return(stack, node) /\ pos' \in 0 .. Len(text)
    BY <1>5
  <2>2. /\ \E T : stack' \in Seq(T)
        /\ \A n \in DOMAIN stack' : Filling(stack'[n])
        /\ \/ pc' = "loop" /\ stack' # << >> /\ root' = NoNode
           \/ pc' = "done" /\ root' # NoNode
    BY <1>1, <1>2, <2>1, ReturnTypes
  <2> QED
    BY <1>1, <2>1, <2>2 DEF TypeInv, ReaderTypeOK, Filling, Nests
<1>6. CASE \E node : Nests(node) /\ Call(node) /\ pos' \in 0 .. Len(text)
  <2>1. PICK node : Nests(node) /\ Call(node) /\ pos' \in 0 .. Len(text)
    BY <1>6
  <2> DEFINE call == [node |-> node, key |-> << >>]
  <2>2. stack' = Append(stack, call) /\ pc' = "loop" /\ root' = NoNode
    BY <1>1, <2>1 DEF Call
  <2>3. Filling(call)
    BY <2>1 DEF Filling
  <2> HIDE DEF call
  <2>4. /\ stack' \in Seq(S \cup {call}) /\ stack' # << >>
        /\ \A n \in DOMAIN stack' : (n \in DOMAIN stack /\ stack'[n] = stack[n]) \/ stack'[n] = call
    <3>1. stack \in Seq(S \cup {call})
      BY <1>2, WiderSeq
    <3> DEFINE T == S \cup {call}
    <3>2. stack \in Seq(T) /\ call \in T
      BY <3>1
    <3> HIDE DEF T
    <3>3. /\ Append(stack, call) \in Seq(T) /\ Len(Append(stack, call)) = Len(stack) + 1
          /\ \A n \in 1 .. Len(stack) : Append(stack, call)[n] = stack[n]
          /\ Append(stack, call)[Len(stack) + 1] = call
          /\ Len(stack) \in Nat
      BY <3>2
    <3>4. DOMAIN stack = 1 .. Len(stack) /\ DOMAIN Append(stack, call) = 1 .. Len(stack) + 1
      BY <3>2, <3>3
    <3>5. \A n \in 1 .. Len(stack) + 1 : n \in 1 .. Len(stack) \/ n = Len(stack) + 1
      BY <3>3
    <3> QED
      BY <2>2, <3>3, <3>4, <3>5 DEF T
  <2>5. \A n \in DOMAIN stack' : Filling(stack'[n])
    BY <1>1, <2>3, <2>4
  <2>6. \E T : stack' \in Seq(T)
    BY <2>4
  <2> QED
    BY <1>1, <2>1, <2>2, <2>4, <2>5, <2>6 DEF TypeInv, ReaderTypeOK, Filling, Nests
<1> QED
  BY <1>4, <1>5, <1>6

\* The end of a loop keeps the types.
LEMMA EndTypes ==
  ASSUME NoNodeApart, TypeInv
  PROVE  EndLoop("array", "]") \/ EndLoop("map", "}") => TypeInv'
<1>1. ASSUME EndLoop("array", "]") \/ EndLoop("map", "}")
      PROVE  pc = "loop" /\ Nests(Top.node) /\ pos' = After(pos) /\ Return(Below, Top.node) /\ text' = text
  BY <1>1, Zenon DEF EndLoop, Looping, Nests
<1>2. ASSUME pc = "loop", Nests(Top.node), pos' = After(pos), Return(Below, Top.node), text' = text
      PROVE  TypeInv'
  <2>1. /\ text \in Seq(Char) /\ Len(text) \in Nat /\ pos \in 0 .. Len(text) /\ root = NoNode
        /\ \A n \in DOMAIN stack : Filling(stack[n])
        /\ stack # << >>
    BY <1>2 DEF TypeInv, ReaderTypeOK
  <2>2. PICK S : stack \in Seq(S)
    BY DEF TypeInv
  <2>3. pos' \in 0 .. Len(text)
    BY <1>2, <2>1, SkipType
  <2>4. Below \in Seq(S) /\ \A n \in DOMAIN Below : Filling(Below[n])
    <3>1. /\ Len(stack) \in Nat \ {0}
          /\ Below \in Seq(S) /\ Len(Below) = Len(stack) - 1
          /\ \A i \in 1 .. Len(stack) - 1 : Below[i] = stack[i]
      BY <2>1, <2>2, BelowIs DEF Below
    <3>2. DOMAIN Below = 1 .. Len(stack) - 1 /\ DOMAIN stack = 1 .. Len(stack)
      BY <2>2, <3>1
    <3>3. \A i \in 1 .. Len(stack) - 1 : i \in 1 .. Len(stack)
      BY <3>1
    <3> QED
      BY <2>1, <3>1, <3>2, <3>3
  <2>5. Top.node # NoNode
    BY <1>2 DEF NoNodeApart
  <2>6. /\ \E T : stack' \in Seq(T)
        /\ \A n \in DOMAIN stack' : Filling(stack'[n])
        /\ \/ pc' = "loop" /\ stack' # << >> /\ root' = NoNode
           \/ pc' = "done" /\ root' # NoNode
    BY <1>2, <2>1, <2>4, <2>5, ReturnTypes
  <2> QED
    BY <1>2, <2>1, <2>3, <2>6 DEF TypeInv, ReaderTypeOK, Filling, Nests
<1> QED
  BY <1>1, <1>2

\* Going on to the next item keeps the types.
LEMMA ItemTypes ==
  ASSUME NoNodeApart, TypeInv
  PROVE  NextItem \/ NextEntry => TypeInv'
<1>1. ASSUME pc = "loop"
      PROVE  /\ text \in Seq(Char) /\ Len(text) \in Nat /\ pos \in 0 .. Len(text) /\ root = NoNode
             /\ \A n \in DOMAIN stack : Filling(stack[n])
             /\ stack # << >> /\ \E S : stack \in Seq(S)
  BY <1>1 DEF TypeInv, ReaderTypeOK
<1>2. ASSUME pc = "loop"
      PROVE  /\ Skip(pos) \in 0 .. Len(text) /\ After(pos) \in 0 .. Len(text)
             /\ After(After(pos)) \in 0 .. Len(text)
  BY <1>1, <1>2, SkipType
<1>3. ASSUME NextItem
      PROVE  TypeInv'
  <2>1. pc = "loop" /\ pc' = "node" /\ text' = text /\ stack' = stack /\ root' = root
    BY <1>3, Zenon DEF NextItem, Looping
  <2>2. pos' = After(pos) \/ pos' = Skip(pos)
    BY <1>3, Zenon DEF NextItem
  <2>3. pos' \in 0 .. Len(text)
    BY <1>2, <2>1, <2>2
  <2> QED
    BY <1>1, <2>1, <2>3 DEF TypeInv, ReaderTypeOK, Filling, Nests
<1>4. ASSUME NextEntry
      PROVE  TypeInv'
  <2>1. pc = "loop" /\ pc' = "node" /\ text' = text /\ root' = root
    BY <1>4, Zenon DEF NextEntry, Looping
  <2>2. PICK quote \in {After(pos), After(After(pos))} :
             /\ stack' = [stack EXCEPT ![Len(stack)].key = LoadString(quote).node.string]
             /\ pos' = After(LoadString(quote).pos)
    BY <1>4, Zenon DEF NextEntry
  <2>3. pos' \in 0 .. Len(text)
    <3>1. quote \in 0 .. Len(text)
      BY <1>2, <2>1
    <3>2. LoadString(quote).pos \in 0 .. Len(text)
      BY <1>1, <2>1, <3>1, StringTypes
    <3> QED
      BY <1>1, <2>1, <2>2, <3>2, SkipType
  <2> DEFINE k == Len(stack)
             key == LoadString(quote).node.string
             top == [stack[k] EXCEPT !.key = key]
  <2> HIDE DEF key
  <2>4. PICK S : stack \in Seq(S)
    BY <1>1, <2>1
  <2>5. k \in Nat \ {0} /\ DOMAIN stack = 1 .. k /\ stack \in [1 .. k -> S]
    BY <1>1, <2>1, <2>4
  <2>6. Filling(top)
    <3> DEFINE call == stack[k]
    <3>1. Filling(call)
      BY <1>1, <2>1, <2>5
    <3> HIDE DEF call, k
    <3>2. DOMAIN [call EXCEPT !.key = key] = DOMAIN call
      OBVIOUS
    <3>3. [call EXCEPT !.key = key].node = call.node
      BY <3>1 DEF Filling
    <3> QED
      BY <3>1, <3>2, <3>3 DEF Filling, call
  <2>7. stack' = [stack EXCEPT ![k] = top]
    BY <2>2 DEF key
  <2> HIDE DEF top, k
  <2>8. /\ stack' \in [1 .. k -> S \cup {top}] /\ DOMAIN stack' = 1 .. k
        /\ \A n \in 1 .. k : stack'[n] = IF n = k THEN top ELSE stack[n]
    BY <2>5, <2>7
  <2>9. \E T : stack' \in Seq(T)
    <3>1. stack' \in Seq(S \cup {top})
      BY <2>5, <2>8
    <3> QED
      BY <3>1
  <2>10. \A n \in DOMAIN stack' : Filling(stack'[n])
    BY <1>1, <2>1, <2>5, <2>6, <2>8
  <2> QED
    BY <1>1, <2>1, <2>3, <2>9, <2>10 DEF TypeInv, ReaderTypeOK, Filling, Nests
<1> QED
  BY <1>3, <1>4

\* The stream never leaves the file and the calls of LoadArray and LoadDict never
\* underflow, wherever the file ends.
THEOREM ReaderTypeCorrect ==
  ASSUME PlainDocuments, NoNodeApart
  PROVE  Spec => []ReaderTypeOK
<1>1. Init => TypeInv
  BY TypeInit
<1>2. TypeInv /\ [Next]_vars => TypeInv'
  <2> SUFFICES ASSUME TypeInv, [Next]_vars PROVE TypeInv'
    OBVIOUS
  <2>1. CASE \E c \in Fetched(pos) : LoadNode(c)
    BY <2>1, NodeTypes
  <2>2. CASE EndLoop("array", "]") \/ EndLoop("map", "}")
    BY <2>2, EndTypes
  <2>3. CASE NextItem \/ NextEntry
    BY <2>3, ItemTypes
  <2>4. CASE UNCHANGED vars
    BY <2>4 DEF vars, TypeInv, ReaderTypeOK, Filling, Nests
  <2> QED
    BY <2>1, <2>2, <2>3, <2>4, Zenon DEF Next
<1>3. TypeInv => ReaderTypeOK
  BY DEF TypeInv
<1> QED
  BY <1>1, <1>2, <1>3, PTL DEF Spec

=============================================================================
