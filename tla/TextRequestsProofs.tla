------------------------- MODULE TextRequestsProofs -------------------------
(***************************************************************************)
(* A request that is written as a line of text is what is made of the      *)
(* line: the parser undoes the format.  The loops that take a line apart   *)
(* end because what is left gets shorter (LoopEnds), and a delimiter is    *)
(* found where it was put because what stands before it lacks one of its   *)
(* symbols (FirstDelim).                                                   *)
(*                                                                         *)
(* Facts about literal symbols are stated for any symbols that differ, and *)
(* what a lemma assumes of several values is one operator of theirs: so    *)
(* the provers find the instance that is meant.                            *)
(***************************************************************************)
EXTENDS TextRequests, SequenceTheorems, GraphProofs, InputFormats

Line == Seq(STRING)

\* A loop over what is left of a line: it ends in ended, else op makes its
\* result of that of the rest.
Loop(f, ended, base, rest, op) ==
  f = [s \in Line |-> IF s \in ended THEN base[s] ELSE op[s][f[rest[s]]]]

LoopWithin(g, A, n, ended, base, rest, op) ==
  /\ g \in [Line -> A]
  /\ \A s \in Line : Len(s) <= n =>
       g[s] = IF s \in ended THEN base[s] ELSE op[s][g[rest[s]]]

LEMMA LoopEnds ==
  ASSUME NEW A, NEW ended, NEW base \in [Line -> A], NEW rest \in [Line -> Line], NEW op,
         \A s \in Line : \A x \in A : op[s][x] \in A,
         \A s \in Line \ ended : Len(rest[s]) < Len(s)
  PROVE  \E f \in [Line -> A] : Loop(f, ended, base, rest, op)
<1> DEFINE Good(g, n) == LoopWithin(g, A, n, ended, base, rest, op)
           step(g, s) == IF s \in ended THEN base[s] ELSE op[s][g[rest[s]]]
           S == {n \in Nat : \E g : Good(g, n)}
<1>1. \A s \in Line : Len(s) \in Nat /\ rest[s] \in Line
  OBVIOUS
<1>2. ASSUME NEW g \in [Line -> A], NEW s \in Line PROVE step(g, s) \in A
  <2>1. g[rest[s]] \in A
    BY <1>1, <1>2
  <2> QED
    BY <2>1
<1>3. 0 \in S
  <2>1. \A s \in Line : Len(s) <= 0 => s \in ended
    BY <1>1
  <2>2. Good(base, 0)
    BY <2>1 DEF LoopWithin
  <2> QED
    BY <2>2
<1>4. ASSUME NEW n \in Nat, n \in S PROVE n + 1 \in S
  <2>1. PICK g : Good(g, n)
    BY <1>4
  <2>2. g \in [Line -> A]
    BY <2>1 DEF LoopWithin
  <2> DEFINE h == [s \in Line |-> IF Len(s) = n + 1 THEN step(g, s) ELSE g[s]]
  <2>3. h \in [Line -> A]
    BY <1>2, <2>2
  <2>4. ASSUME NEW s \in Line, Len(s) <= n + 1
        PROVE  h[s] = step(h, s)
    <3>1. h[s] = step(g, s)
      BY <1>1, <2>1, <2>4 DEF LoopWithin
    <3>2. s \notin ended => h[rest[s]] = g[rest[s]]
      BY <1>1, <2>4
    <3> HIDE DEF h
    <3> QED
      BY <3>1, <3>2
  <2> HIDE DEF h
  <2>5. Good(h, n + 1)
    BY <2>3, <2>4 DEF LoopWithin
  <2> QED
    BY <2>5
<1> HIDE DEF S
<1>5. \A n \in Nat : \E g : Good(g, n)
  <2>1. Nat \subseteq S
    BY <1>3, <1>4, StepByStep
  <2> QED
    BY <2>1 DEF S
<1> DEFINE upto(n) == CHOOSE g : Good(g, n)
<1>6. \A n \in Nat : Good(upto(n), n)
  BY <1>5
<1> HIDE DEF Good, upto
<1>7. ASSUME NEW n \in Nat, NEW m \in Nat, NEW s \in Line, Len(s) <= n, Len(s) <= m
      PROVE  upto(n)[s] = upto(m)[s]
  <2> DEFINE D == {k \in Nat : \E t \in Line : /\ Len(t) = k /\ k <= n /\ k <= m
                                               /\ upto(n)[t] # upto(m)[t]}
  <2> SUFFICES ASSUME D # {} PROVE FALSE
    BY <1>1, <1>7
  <2>1. PICK k \in D : \A j \in D : k <= j
    BY LeastNatural
  <2>2. PICK t \in Line : /\ Len(t) = k /\ k <= n /\ k <= m
                          /\ upto(n)[t] # upto(m)[t]
    BY <2>1
  <2>3. upto(n)[t] = step(upto(n), t) /\ upto(m)[t] = step(upto(m), t)
    BY <1>6, <2>2 DEF Good, LoopWithin
  <2>4. t \notin ended
    BY <2>2, <2>3
  <2>5. rest[t] \in Line /\ Len(rest[t]) \in Nat /\ Len(rest[t]) < k /\ k \in Nat
    BY <1>1, <2>1, <2>2, <2>4
  <2>6. Len(rest[t]) \notin D
    BY <2>1, <2>5
  <2>7. upto(n)[rest[t]] = upto(m)[rest[t]]
    BY <2>2, <2>5, <2>6
  <2> QED
    BY <2>2, <2>3, <2>7
<1> DEFINE f == [s \in Line |-> upto(Len(s))[s]]
<1>8. ASSUME NEW s \in Line PROVE f[s] = step(f, s) /\ f[s] \in A
  <2>1. Good(upto(Len(s)), Len(s))
    BY <1>1, <1>6
  <2>2. f[s] = step(upto(Len(s)), s) /\ f[s] \in A
    BY <1>1, <2>1 DEF Good, LoopWithin
  <2>3. s \notin ended => upto(Len(s))[rest[s]] = f[rest[s]]
    BY <1>1, <1>7
  <2> HIDE DEF f
  <2> QED
    BY <2>2, <2>3
<1>9. f \in [Line -> A]
  BY <1>8
<1>10. Loop(f, ended, base, rest, op)
  <2> HIDE DEF f
  <2>1. f = [s \in Line |-> f[s]]
    BY <1>9
  <2>2. f = [s \in Line |-> step(f, s)]
    BY <1>8, <2>1
  <2> QED
    BY <2>2 DEF Loop
<1> QED
  BY <1>9, <1>10

-----------------------------------------------------------------------------
\* What the first delim is, if it has a symbol that nothing before it has.
IsMarked(delim, mark) ==
  /\ delim \in Line
  /\ \E j \in 1 .. Len(delim) : delim[j] = mark /\ \A i \in 1 .. j - 1 : delim[i] # mark

Lacks(s, mark) == \A n \in 1 .. Len(s) : s[n] # mark

LEMMA MarksInLines == Marks \subseteq STRING
BY NumeralAssumption

LEMMA ShortSeqs ==
  ASSUME NEW S, NEW a \in S, NEW b \in S, NEW c \in S, NEW d \in S
  PROVE  /\ <<a>> \in Seq(S) /\ <<a>> # << >> /\ Len(<<a>>) = 1
         /\ <<a, b>> \in Seq(S) /\ <<a, b>> # << >> /\ Len(<<a, b>>) = 2
         /\ <<a, b, c>> \in Seq(S) /\ <<a, b, c>> # << >> /\ Len(<<a, b, c>>) = 3
         /\ <<a, b, c, d>> \in Seq(S) /\ <<a, b, c, d>> # << >> /\ Len(<<a, b, c, d>>) = 4
OBVIOUS

LEMMA ShortLines ==
  /\ << >> \in Line /\ Len(<< >>) = 0
  /\ \A a, b, c, d \in STRING :
       /\ <<a>> \in Line /\ <<a>> # << >> /\ Len(<<a>>) = 1
       /\ <<a, b>> \in Line /\ <<a, b>> # << >> /\ Len(<<a, b>>) = 2
       /\ <<a, b, c>> \in Line /\ <<a, b, c>> # << >> /\ Len(<<a, b, c>>) = 3
       /\ <<a, b, c, d>> \in Line /\ <<a, b, c, d>> # << >> /\ Len(<<a, b, c, d>>) = 4
BY EmptySeq, ShortSeqs DEF Line

LEMMA SplitTwoOf ==
  ASSUME NEW s \in Line, NEW delim \in Line
  PROVE  SplitTwo(s, delim) =
           IF Finds(s, delim) = {}
             THEN <<s, << >> >>
             ELSE LET p == Min(Finds(s, delim))
                  IN  <<SubSeq(s, 1, p), SubSeq(s, p + Len(delim) + 1, Len(s))>>
BY DEF SplitTwo, Line

LEMMA NoDelim ==
  ASSUME NEW s \in Line, NEW delim, NEW mark, IsMarked(delim, mark), Lacks(s, mark)
  PROVE  Token(s, delim) = s /\ Rest(s, delim) = << >>
<1>1. PICK j \in 1 .. Len(delim) : delim[j] = mark
  BY DEF IsMarked
<1>2. delim \in Line /\ Len(delim) \in Nat /\ Len(s) \in Nat
  BY DEF IsMarked, Line
<1>3. Finds(s, delim) = {}
  <2> SUFFICES ASSUME NEW p \in 0 .. Len(s) - Len(delim),
                      SubSeq(s, p + 1, p + Len(delim)) = delim
               PROVE  FALSE
    BY DEF Finds
  <2>1. SubSeq(s, p + 1, p + Len(delim))[j] = s[p + 1 + j - 1]
    <3>1. \A i \in p + 1 .. p + Len(delim) : s[i] \in STRING
      BY <1>2 DEF Line
    <3>2. j \in 1 .. p + Len(delim) - (p + 1) + 1
      BY <1>2
    <3> QED
      BY <1>2, <3>1, <3>2, SubSeqProperties
  <2>2. p + 1 + j - 1 \in 1 .. Len(s)
    BY <1>2
  <2> QED
    BY <1>1, <2>1, <2>2 DEF Lacks
<1> QED
  BY <1>2, <1>3, SplitTwoOf DEF Token, Rest

LEMMA FirstDelim ==
  ASSUME NEW s \in Line, NEW rest \in Line, NEW delim, NEW mark, IsMarked(delim, mark),
         Lacks(s, mark)
  PROVE  Token(s \o (delim \o rest), delim) = s /\ Rest(s \o (delim \o rest), delim) = rest
<1> DEFINE line == s \o (delim \o rest)
<1>1. PICK j \in 1 .. Len(delim) : delim[j] = mark /\ \A i \in 1 .. j - 1 : delim[i] # mark
  BY DEF IsMarked
<1>2. /\ delim \in Line /\ Len(delim) \in Nat /\ Len(s) \in Nat /\ Len(rest) \in Nat
      /\ delim \o rest \in Line /\ Len(delim \o rest) = Len(delim) + Len(rest)
  BY DEF IsMarked, Line
<1>3. /\ line \in Line /\ Len(line) = Len(s) + Len(delim) + Len(rest)
      /\ \A i \in 1 .. Len(s) : line[i] = s[i]
      /\ \A i \in 1 .. Len(delim) : line[Len(s) + i] = delim[i]
      /\ \A i \in 1 .. Len(rest) : line[Len(s) + Len(delim) + i] = rest[i]
  <2>1. \A i \in 1 .. Len(delim) + Len(rest) :
          (delim \o rest)[i] = IF i <= Len(delim) THEN delim[i] ELSE rest[i - Len(delim)]
    BY <1>2, ConcatProperties DEF Line
  <2>2. /\ line \in Line /\ Len(line) = Len(s) + Len(delim \o rest)
        /\ \A i \in 1 .. Len(s) + Len(delim \o rest) :
             line[i] = IF i <= Len(s) THEN s[i] ELSE (delim \o rest)[i - Len(s)]
    BY <1>2, ConcatProperties DEF Line
  <2> HIDE DEF line
  <2>3. \A i \in 1 .. Len(s) : line[i] = s[i]
    BY <1>2, <2>2
  <2>4. \A i \in 1 .. Len(delim) : line[Len(s) + i] = delim[i]
    BY <1>2, <2>1, <2>2
  <2>5. \A i \in 1 .. Len(rest) : line[Len(s) + Len(delim) + i] = rest[i]
    <3> TAKE i \in 1 .. Len(rest)
    <3>1. Len(s) + Len(delim) + i \in 1 .. Len(s) + Len(delim \o rest)
          /\ ~ (Len(s) + Len(delim) + i <= Len(s))
          /\ Len(s) + Len(delim) + i - Len(s) = Len(delim) + i
          /\ Len(delim) + i \in 1 .. Len(delim) + Len(rest)
          /\ ~ (Len(delim) + i <= Len(delim)) /\ Len(delim) + i - Len(delim) = i
      BY <1>1, <1>2
    <3> QED
      BY <2>1, <2>2, <3>1
  <2> QED
    BY <1>2, <2>2, <2>3, <2>4, <2>5
<1> HIDE DEF line
<1>4. Len(line) \in Nat /\ \A i \in 1 .. Len(line) : line[i] \in STRING
  BY <1>3 DEF Line
<1>5. Len(s) \in Finds(line, delim)
  <2>1. SubSeq(line, Len(s) + 1, Len(s) + Len(delim)) \in Line
        /\ Len(SubSeq(line, Len(s) + 1, Len(s) + Len(delim))) = Len(delim)
        /\ \A i \in 1 .. Len(delim) :
             SubSeq(line, Len(s) + 1, Len(s) + Len(delim))[i] = line[Len(s) + i]
    <3>1. \A i \in Len(s) + 1 .. Len(s) + Len(delim) : line[i] \in STRING
      BY <1>2, <1>3, <1>4
    <3>2. /\ Len(s) + 1 \in Int /\ Len(s) + Len(delim) \in Int
          /\ Len(s) + 1 <= Len(s) + Len(delim)
          /\ Len(s) + Len(delim) - (Len(s) + 1) + 1 = Len(delim)
          /\ \A i \in 1 .. Len(delim) : Len(s) + 1 + i - 1 = Len(s) + i
      BY <1>1, <1>2
    <3> QED
      BY <3>1, <3>2, SubSeqProperties DEF Line
  <2>2. SubSeq(line, Len(s) + 1, Len(s) + Len(delim)) = delim
    BY <1>2, <1>3, <2>1, SeqEqual DEF Line
  <2>3. Len(s) \in 0 .. Len(line) - Len(delim)
    BY <1>2, <1>3
  <2> QED
    BY <2>2, <2>3 DEF Finds
<1>6. ASSUME NEW p \in Finds(line, delim) PROVE Len(s) <= p
  <2> SUFFICES ASSUME p < Len(s) PROVE FALSE
    BY <1>2 DEF Finds
  <2>1. p \in 0 .. Len(line) - Len(delim) /\ SubSeq(line, p + 1, p + Len(delim)) = delim
    BY DEF Finds
  <2>2. SubSeq(line, p + 1, p + Len(delim))[j] = line[p + j]
    <3>1. \A i \in p + 1 .. p + Len(delim) : line[i] \in STRING
      BY <1>2, <1>4, <2>1
    <3>2. j \in 1 .. p + Len(delim) - (p + 1) + 1
      BY <1>2, <2>1
    <3>3. SubSeq(line, p + 1, p + Len(delim))[j] = line[p + 1 + j - 1]
      BY <1>2, <2>1, <3>1, <3>2, SubSeqProperties
    <3> QED
      BY <2>1, <3>3
  <2>3. line[p + j] = mark
    BY <1>1, <2>1, <2>2
  <2>4. CASE p + j <= Len(s)
    <3>1. p + j \in 1 .. Len(s)
      BY <1>2, <2>1, <2>4
    <3> QED
      BY <1>3, <2>3, <3>1 DEF Lacks
  <2>5. CASE ~ (p + j <= Len(s))
    <3>1. p + j - Len(s) \in 1 .. j - 1 /\ p + j - Len(s) \in 1 .. Len(delim)
          /\ Len(s) + (p + j - Len(s)) = p + j
      BY <1>2, <2>1, <2>5
    <3>2. line[p + j] = delim[p + j - Len(s)]
      BY <1>3, <3>1
    <3> QED
      BY <1>1, <2>3, <3>1, <3>2
  <2> QED
    BY <2>4, <2>5
<1>7. Min(Finds(line, delim)) = Len(s)
  <2>1. Finds(line, delim) \subseteq Int
    BY <1>2, <1>3 DEF Finds
  <2> QED
    BY <1>5, <1>6, <2>1 DEF Min
<1>8. SplitTwo(line, delim) =
        <<SubSeq(line, 1, Len(s)), SubSeq(line, Len(s) + Len(delim) + 1, Len(line))>>
  BY <1>2, <1>3, <1>5, <1>7, SplitTwoOf
<1>9. SubSeq(line, 1, Len(s)) = s
  <2>1. /\ SubSeq(line, 1, Len(s)) \in Line /\ Len(SubSeq(line, 1, Len(s))) = Len(s)
        /\ \A i \in 1 .. Len(s) : SubSeq(line, 1, Len(s))[i] = line[i]
    <3>1. \A i \in 1 .. Len(s) : line[i] \in STRING
      BY <1>2, <1>3, <1>4
    <3> QED
      BY <1>2, <3>1, SubSeqProperties DEF Line
  <2> QED
    BY <1>3, <2>1, SeqEqual DEF Line
<1>10. SubSeq(line, Len(s) + Len(delim) + 1, Len(line)) = rest
  <2> DEFINE m == Len(s) + Len(delim) + 1
  <2>1. \A i \in m .. Len(line) : line[i] \in STRING
    BY <1>2, <1>4
  <2>2. /\ m \in Int /\ Len(line) \in Int /\ Len(line) - m + 1 = Len(rest)
        /\ \A i \in 1 .. Len(rest) : m + i - 1 = Len(s) + Len(delim) + i
        /\ m <= Len(line) <=> Len(rest) # 0
    BY <1>2, <1>3
  <2> HIDE DEF m
  <2>3. /\ SubSeq(line, m, Len(line)) \in Line /\ Len(SubSeq(line, m, Len(line))) = Len(rest)
        /\ \A i \in 1 .. Len(rest) :
             SubSeq(line, m, Len(line))[i] = line[Len(s) + Len(delim) + i]
    BY <1>2, <2>1, <2>2, SubSeqProperties DEF Line
  <2> QED
    BY <1>3, <2>3, SeqEqual DEF Line, m
<1> QED
  BY <1>8, <1>9, <1>10 DEF Token, Rest, line

LEMMA TokenAndRest ==
  ASSUME NEW s \in Line, NEW delim \in Line, delim # << >>
  PROVE  /\ Token(s, delim) \in Line /\ Rest(s, delim) \in Line
         /\ s # << >> => Len(Rest(s, delim)) < Len(s)
         /\ s = << >> => Token(s, delim) = << >>
<1>1. Len(s) \in Nat /\ Len(delim) \in Nat \ {0} /\ \A i \in 1 .. Len(s) : s[i] \in STRING
  BY DEF Line
<1>2. CASE Finds(s, delim) = {}
  <2>1. SplitTwo(s, delim) = <<s, << >> >>
    BY <1>2, SplitTwoOf
  <2>2. Token(s, delim) = s /\ Rest(s, delim) = << >>
    BY <2>1 DEF Token, Rest
  <2>3. << >> \in Line /\ Len(<< >>) = 0
    BY DEF Line
  <2> QED
    BY <1>1, <2>2, <2>3
<1>3. ASSUME Finds(s, delim) # {}
      PROVE  /\ s # << >> /\ Token(s, delim) \in Line /\ Rest(s, delim) \in Line
             /\ Len(Rest(s, delim)) < Len(s)
  <2>1. \A p \in Finds(s, delim) : p \in Nat /\ p <= Len(s) - Len(delim)
    BY <1>1 DEF Finds
  <2>2. PICK m \in Finds(s, delim) : \A k \in Finds(s, delim) : m <= k
    BY <1>3, <2>1, LeastNatural
  <2>3. PICK p \in Finds(s, delim) : p = Min(Finds(s, delim))
    BY <2>2 DEF Min
  <2>4. p \in Nat /\ p <= Len(s) - Len(delim)
    BY <2>1
  <2>5. SplitTwo(s, delim) = <<SubSeq(s, 1, p), SubSeq(s, p + Len(delim) + 1, Len(s))>>
    BY <1>3, <2>3, SplitTwoOf
  <2>6. SubSeq(s, 1, p) \in Line
    BY <1>1, <2>4, SubSeqProperties DEF Line
  <2>7. /\ SubSeq(s, p + Len(delim) + 1, Len(s)) \in Line
        /\ Len(SubSeq(s, p + Len(delim) + 1, Len(s))) < Len(s)
    <3> DEFINE m1 == p + Len(delim) + 1
    <3>1. m1 \in Nat /\ m1 >= 2 /\ \A i \in m1 .. Len(s) : s[i] \in STRING
      BY <1>1, <2>4
    <3> HIDE DEF m1
    <3>2. /\ SubSeq(s, m1, Len(s)) \in Line
          /\ Len(SubSeq(s, m1, Len(s))) = IF m1 <= Len(s) THEN Len(s) - m1 + 1 ELSE 0
      BY <1>1, <3>1, SubSeqProperties DEF Line
    <3>3. Len(s) > 0
      BY <1>1, <2>4
    <3> QED
      BY <1>1, <3>1, <3>2, <3>3 DEF m1
  <2>8. s # << >>
    BY <1>1, <2>4
  <2>9. PICK first, last : /\ first = SubSeq(s, 1, p)
                           /\ last = SubSeq(s, p + Len(delim) + 1, Len(s))
    OBVIOUS
  <2>10. SplitTwo(s, delim) = <<first, last>>
    BY <2>5, <2>9
  <2>11. Token(s, delim) = first /\ Rest(s, delim) = last
    BY <2>10 DEF Token, Rest
  <2> QED
    BY <2>6, <2>7, <2>8, <2>9, <2>11
<1> QED
  BY <1>2, <1>3

LEMMA TrimLeftOf ==
  ASSUME NEW s \in Line
  PROVE  TrimLeft(s) = IF s # << >> /\ Head(s) = " " THEN TrimLeft(Tail(s)) ELSE s
<1> DEFINE ended == {t \in Line : ~ (t # << >> /\ Head(t) = " ")}
           base == [t \in Line |-> t]
           rest == [t \in Line |-> IF t = << >> THEN << >> ELSE Tail(t)]
           op == [t \in Line |-> [x \in Line |-> x]]
           loop(f) == f = [t \in Line |-> IF t # << >> /\ Head(t) = " " THEN f[Tail(t)] ELSE t]
<1>1. base \in [Line -> Line] /\ \A t \in Line : \A x \in Line : op[t][x] \in Line
  OBVIOUS
<1>2. rest \in [Line -> Line] /\ \A t \in Line \ ended : Len(rest[t]) < Len(t)
  <2>1. \A t \in Line : t # << >> => Tail(t) \in Line /\ Len(Tail(t)) < Len(t)
    BY DEF Line
  <2>2. << >> \in Line
    BY DEF Line
  <2> QED
    BY <2>1, <2>2
<1>3. PICK f \in [Line -> Line] : Loop(f, ended, base, rest, op)
  <2> HIDE DEF ended, base, rest, op
  <2> QED
    BY <1>1, <1>2, LoopEnds
<1>4. loop(f)
  <2>1. f = [t \in Line |-> IF t \in ended THEN base[t] ELSE op[t][f[rest[t]]]]
    BY <1>3 DEF Loop
  <2>2. ASSUME NEW t \in Line
        PROVE  f[t] = IF t # << >> /\ Head(t) = " " THEN f[Tail(t)] ELSE t
    <3>1. f[t] = IF t \in ended THEN base[t] ELSE op[t][f[rest[t]]]
      BY <2>1
    <3>2. rest[t] \in Line /\ f[rest[t]] \in Line
      BY <1>2
    <3> QED
      BY <3>1, <3>2
  <2> QED
    BY <2>2
<1> DEFINE trimmed == CHOOSE g : loop(g)
<1>5. loop(trimmed)
  <2> HIDE DEF loop
  <2> QED
    BY <1>4
<1>6. \A t \in Line : TrimLeft(t) = trimmed[t]
  BY DEF TrimLeft, Line
<1>7. s # << >> => Tail(s) \in Line
  BY DEF Line
<1> HIDE DEF trimmed
<1> QED
  BY <1>5, <1>6, <1>7

LEMMA StopsOf ==
  ASSUME NEW s \in Line, NEW delim \in Line, delim # << >>
  PROVE  Stops(s, delim) = IF Token(s, delim) = << >> THEN << >>
                           ELSE <<Token(s, delim)>> \o Stops(Rest(s, delim), delim)
<1> DEFINE ended == {t \in Line : Token(t, delim) = << >>}
           base == [t \in Line |-> << >>]
           rest == [t \in Line |-> Rest(t, delim)]
           op == [t \in Line |-> [x \in Seq(Line) |-> <<Token(t, delim)>> \o x]]
           loop(f) == f = [t \in Line |-> IF Token(t, delim) = << >> THEN << >>
                                          ELSE <<Token(t, delim)>> \o f[Rest(t, delim)]]
<1>1. /\ base \in [Line -> Seq(Line)] /\ rest \in [Line -> Line]
      /\ \A t \in Line : Token(t, delim) \in Line /\ Rest(t, delim) \in Line
  BY TokenAndRest
<1>2. \A t \in Line : \A x \in Seq(Line) : op[t][x] \in Seq(Line)
  BY <1>1
<1>3. \A t \in Line \ ended : Len(rest[t]) < Len(t)
  BY TokenAndRest
<1>4. PICK f \in [Line -> Seq(Line)] : Loop(f, ended, base, rest, op)
  <2> HIDE DEF ended, base, rest, op
  <2> QED
    BY <1>1, <1>2, <1>3, LoopEnds
<1>5. loop(f)
  <2>1. f = [t \in Line |-> IF t \in ended THEN base[t] ELSE op[t][f[rest[t]]]]
    BY <1>4 DEF Loop
  <2>2. ASSUME NEW t \in Line
        PROVE  f[t] = IF Token(t, delim) = << >> THEN << >>
                      ELSE <<Token(t, delim)>> \o f[Rest(t, delim)]
    <3>1. f[t] = IF t \in ended THEN base[t] ELSE op[t][f[rest[t]]]
      BY <2>1
    <3>2. rest[t] = Rest(t, delim) /\ f[rest[t]] \in Seq(Line)
      BY <1>1
    <3> QED
      BY <3>1, <3>2
  <2> QED
    BY <2>2
<1> DEFINE tokens == CHOOSE g : loop(g)
<1>6. loop(tokens)
  <2> HIDE DEF loop
  <2> QED
    BY <1>5
<1>7. \A t \in Line : Stops(t, delim) = tokens[t]
  BY DEF Stops, Line
<1> HIDE DEF tokens
<1> QED
  BY <1>1, <1>6, <1>7

LEMMA DistancesOf ==
  ASSUME NEW s \in Line
  PROVE  Distances(s) = IF s = << >> THEN << >>
                        ELSE <<Token(s, Comma)>> \o Distances(Rest(s, Comma))
<1> DEFINE ended == {<< >>}
           base == [t \in Line |-> << >>]
           rest == [t \in Line |-> Rest(t, Comma)]
           op == [t \in Line |-> [x \in Seq(Line) |-> <<Token(t, Comma)>> \o x]]
           loop(f) == f = [t \in Line |-> IF t = << >> THEN << >>
                                          ELSE <<Token(t, Comma)>> \o f[Rest(t, Comma)]]
<1>0. Comma \in Line /\ Comma # << >>
  BY MarksInLines, ShortLines DEF Comma, Marks
<1>1. /\ base \in [Line -> Seq(Line)] /\ rest \in [Line -> Line]
      /\ \A t \in Line : Token(t, Comma) \in Line /\ Rest(t, Comma) \in Line
  BY <1>0, TokenAndRest
<1>2. \A t \in Line : \A x \in Seq(Line) : op[t][x] \in Seq(Line)
  BY <1>1
<1>3. \A t \in Line \ ended : Len(rest[t]) < Len(t)
  BY <1>0, TokenAndRest
<1>4. PICK f \in [Line -> Seq(Line)] : Loop(f, ended, base, rest, op)
  <2> HIDE DEF ended, base, rest, op
  <2> QED
    BY <1>1, <1>2, <1>3, LoopEnds
<1>5. loop(f)
  <2>1. f = [t \in Line |-> IF t \in ended THEN base[t] ELSE op[t][f[rest[t]]]]
    BY <1>4 DEF Loop
  <2>2. ASSUME NEW t \in Line
        PROVE  f[t] = IF t = << >> THEN << >>
                      ELSE <<Token(t, Comma)>> \o f[Rest(t, Comma)]
    <3>1. f[t] = IF t \in ended THEN base[t] ELSE op[t][f[rest[t]]]
      BY <2>1
    <3>2. rest[t] = Rest(t, Comma) /\ f[rest[t]] \in Seq(Line)
      BY <1>1
    <3> QED
      BY <3>1, <3>2
  <2> QED
    BY <2>2
<1> DEFINE tokens == CHOOSE g : loop(g)
<1>6. loop(tokens)
  <2> HIDE DEF loop
  <2> QED
    BY <1>5
<1>7. \A t \in Line : Distances(t) = tokens[t]
  BY DEF Distances, Line
<1> HIDE DEF tokens
<1> QED
  BY <1>1, <1>6, <1>7

-----------------------------------------------------------------------------
\* Concatenation, for the provers to leave alone.
Join(s, t) == s \o t

LEMMA Joins ==
  \A s, t, u \in Line : /\ Join(s, t) \in Line
                       /\ Join(<< >>, s) = s
                       /\ Join(Join(s, t), u) = Join(s, Join(t, u))
BY ConcatProperties, ConcatEmptySeq, ConcatAssociative DEF Join, Line

LEMMA FlattenSteps ==
  ASSUME NEW seqs \in Seq(Line), seqs # << >>
  PROVE  \E f \in [1 .. Len(seqs) -> Line] :
           /\ f[1] = seqs[1]
           /\ \A i \in 2 .. Len(seqs) : f[i] = Join(f[i - 1], seqs[i])
           /\ FlattenSeq(seqs) = f[Len(seqs)]
<1> DEFINE op == [m \in 1 .. Len(seqs) |-> [x \in Line |-> Join(x, seqs[m])]]
           loop(f) == f = [i \in 1 .. Len(seqs) |->
                             IF i = 1 THEN seqs[i] ELSE Join(f[i - 1], seqs[i])]
<1>1. Len(seqs) \in Nat \ {0} /\ \A i \in 1 .. Len(seqs) : seqs[i] \in Line
  OBVIOUS
<1>2. StepsWithin(op, Line, 1, Len(seqs))
  <2>1. ASSUME NEW m \in 1 + 1 .. Len(seqs), NEW x \in Line PROVE op[m][x] \in Line
    <3>1. m \in 1 .. Len(seqs) /\ seqs[m] \in Line
      BY <1>1
    <3>2. op[m][x] = Join(x, seqs[m])
      BY <3>1
    <3> QED
      BY <3>1, <3>2, Joins
  <2> QED
    BY <2>1 DEF StepsWithin
<1>3. PICK f \in [1 .. Len(seqs) -> Line] : Stepwise(f, seqs[1], op, 1, Len(seqs))
  <2> HIDE DEF op
  <2> QED
    BY <1>1, <1>2, Recursion
<1>4. f[1] = seqs[1] /\ \A i \in 2 .. Len(seqs) : f[i] = Join(f[i - 1], seqs[i])
  <2>1. f[1] = seqs[1] /\ \A i \in 1 + 1 .. Len(seqs) : f[i] = op[i][f[i - 1]]
    BY <1>3 DEF Stepwise
  <2>2. ASSUME NEW i \in 2 .. Len(seqs) PROVE f[i] = Join(f[i - 1], seqs[i])
    <3>1. i \in 1 .. Len(seqs) /\ i - 1 \in 1 .. Len(seqs) /\ f[i - 1] \in Line
      BY <1>1
    <3>2. op[i] = [x \in Line |-> Join(x, seqs[i])]
      BY <3>1
    <3>3. op[i][f[i - 1]] = Join(f[i - 1], seqs[i])
      <4> HIDE DEF op
      <4> QED
        BY <3>1, <3>2
    <3>4. f[i] = op[i][f[i - 1]]
      <4> HIDE DEF op
      <4> QED
        BY <2>1
    <3> QED
      BY <3>3, <3>4
  <2> QED
    BY <2>1, <2>2
<1>5. loop(f)
  <2>1. \A i \in 1 .. Len(seqs) : f[i] = IF i = 1 THEN seqs[i] ELSE Join(f[i - 1], seqs[i])
    BY <1>4
  <2> QED
    BY <2>1
<1> DEFINE flatten == CHOOSE g : loop(g)
<1>6. loop(flatten)
  <2> HIDE DEF loop
  <2> QED
    BY <1>5
<1>7. FlattenSeq(seqs) = flatten[Len(seqs)]
  BY <1>1 DEF FlattenSeq, Join
<1>8. flatten = f
  <2> HIDE DEF flatten
  <2> DEFINE S == {n \in Nat : n + 1 <= Len(seqs) => flatten[n + 1] = f[n + 1]}
  <2>1. 0 \in S
    BY <1>1, <1>5, <1>6
  <2>2. ASSUME NEW n \in Nat, n \in S PROVE n + 1 \in S
    <3>1. n + 1 + 1 <= Len(seqs) =>
            /\ n + 1 + 1 \in 1 .. Len(seqs) /\ n + 1 + 1 # 1 /\ n + 1 + 1 - 1 = n + 1
            /\ n + 1 <= Len(seqs)
      BY <1>1
    <3> QED
      BY <1>5, <1>6, <2>2, <3>1
  <2> HIDE DEF S
  <2>3. Nat \subseteq S
    BY <2>1, <2>2, StepByStep
  <2>4. ASSUME NEW i \in 1 .. Len(seqs) PROVE flatten[i] = f[i]
    <3>1. i - 1 \in Nat /\ i - 1 + 1 = i /\ i <= Len(seqs)
      BY <1>1
    <3>2. i - 1 \in S
      BY <2>3, <3>1
    <3> QED
      BY <3>1, <3>2 DEF S
  <2> QED
    BY <1>5, <1>6, <2>4
<1> QED
  BY <1>4, <1>7, <1>8

\* The parts with what comes before each.
Led(parts, delim) ==
  [i \in DOMAIN parts |-> Join(IF i = 1 THEN << >> ELSE delim, parts[i])]

LEMMA LedParts ==
  ASSUME NEW parts \in Seq(Line), NEW delim \in Line
  PROVE  /\ Led(parts, delim) \in Seq(Line) /\ Len(Led(parts, delim)) = Len(parts)
         /\ parts # << >> => Led(parts, delim) # << >>
         /\ \A i \in 1 .. Len(parts) :
              Led(parts, delim)[i] = IF i = 1 THEN parts[i] ELSE Join(delim, parts[i])
         /\ Between(parts, delim) = FlattenSeq(Led(parts, delim))
<1>1. Len(parts) \in Nat /\ DOMAIN parts = 1 .. Len(parts)
      /\ \A i \in 1 .. Len(parts) : parts[i] \in Line
  OBVIOUS
<1>2. ASSUME NEW i \in 1 .. Len(parts)
      PROVE  /\ Led(parts, delim)[i] = IF i = 1 THEN parts[i] ELSE Join(delim, parts[i])
             /\ Led(parts, delim)[i] \in Line
  <2>1. parts[i] \in Line
    BY <1>1
  <2>2. Join(delim, parts[i]) \in Line /\ Join(<< >>, parts[i]) = parts[i]
    BY <2>1, Joins
  <2> QED
    BY <1>1, <2>1, <2>2 DEF Led
<1>3. Led(parts, delim) \in [1 .. Len(parts) -> Line]
  BY <1>1, <1>2 DEF Led
<1>4. Led(parts, delim) \in Seq(Line) /\ Len(Led(parts, delim)) = Len(parts)
  BY <1>1, <1>3
<1>5. Between(parts, delim) = FlattenSeq(Led(parts, delim))
  BY DEF Between, Led, Join
<1>6. parts # << >> => Led(parts, delim) # << >>
  <2>1. parts # << >> => Len(parts) # 0
    BY <1>1
  <2>2. Len(<< >>) = 0
    OBVIOUS
  <2> QED
    BY <1>4, <2>1, <2>2
<1> QED
  BY <1>2, <1>4, <1>5, <1>6

LEMMA BetweenNone == \A delim : Between(<< >>, delim) = << >>
BY DEF Between, FlattenSeq

LEMMA BetweenOne ==
  ASSUME NEW parts \in Seq(Line), NEW delim \in Line, Len(parts) = 1
  PROVE  Between(parts, delim) = parts[1]
<1>1. parts # << >> /\ 1 \in 1 .. Len(parts)
  OBVIOUS
<1>2. PICK seqs : seqs = Led(parts, delim)
  OBVIOUS
<1>3. /\ seqs \in Seq(Line) /\ Len(seqs) = Len(parts) /\ seqs # << >>
      /\ \A i \in 1 .. Len(parts) : seqs[i] = IF i = 1 THEN parts[i] ELSE Join(delim, parts[i])
      /\ Between(parts, delim) = FlattenSeq(seqs)
  BY <1>1, <1>2, LedParts
<1>4. seqs[1] = parts[1]
  BY <1>1, <1>3
<1> QED
  BY <1>3, <1>4, FlattenSteps

LEMMA BetweenMore ==
  ASSUME NEW parts \in Seq(Line), NEW delim \in Line, Len(parts) > 1
  PROVE  /\ Between(parts, delim) = Join(parts[1], Join(delim, Between(Tail(parts), delim)))
         /\ Between(Tail(parts), delim) \in Line
<1> DEFINE tail == Tail(parts)
<1>1. /\ Len(parts) \in Nat /\ tail \in Seq(Line) /\ Len(tail) = Len(parts) - 1
      /\ \A i \in 1 .. Len(parts) - 1 : tail[i] = parts[i + 1]
      /\ \A i \in 1 .. Len(parts) : parts[i] \in Line
      /\ parts # << >> /\ tail # << >>
  <2>1. /\ Len(parts) \in Nat /\ parts # << >>
        /\ \A i \in 1 .. Len(parts) : parts[i] \in Line
    OBVIOUS
  <2>2. /\ tail \in Seq(Line) /\ Len(tail) = Len(parts) - 1
        /\ \A i \in 1 .. Len(tail) : tail[i] = parts[i + 1]
    BY <2>1, HeadTailProperties
  <2> HIDE DEF tail
  <2>3. tail # << >>
    BY <2>1, <2>2, EmptySeq
  <2> QED
    BY <2>1, <2>2, <2>3
<1> HIDE DEF tail
<1>2. PICK seqs, others : seqs = Led(parts, delim) /\ others = Led(tail, delim)
  OBVIOUS
<1>3. /\ seqs \in Seq(Line) /\ Len(seqs) = Len(parts) /\ seqs # << >>
      /\ \A i \in 1 .. Len(parts) : seqs[i] = IF i = 1 THEN parts[i] ELSE Join(delim, parts[i])
      /\ Between(parts, delim) = FlattenSeq(seqs)
  BY <1>1, <1>2, LedParts
<1>4. /\ others \in Seq(Line) /\ Len(others) = Len(parts) - 1 /\ others # << >>
      /\ \A i \in 1 .. Len(parts) - 1 : others[i] = IF i = 1 THEN tail[i] ELSE Join(delim, tail[i])
      /\ Between(tail, delim) = FlattenSeq(others)
  BY <1>1, <1>2, LedParts
<1>5. PICK f \in [1 .. Len(parts) -> Line] :
           /\ f[1] = seqs[1]
           /\ \A i \in 2 .. Len(parts) : f[i] = Join(f[i - 1], seqs[i])
           /\ FlattenSeq(seqs) = f[Len(parts)]
  BY <1>3, FlattenSteps
<1>6. PICK g \in [1 .. Len(parts) - 1 -> Line] :
           /\ g[1] = others[1]
           /\ \A i \in 2 .. Len(parts) - 1 : g[i] = Join(g[i - 1], others[i])
           /\ FlattenSeq(others) = g[Len(parts) - 1]
  BY <1>4, FlattenSteps
<1> DEFINE S == {n \in Nat : n + 2 <= Len(parts) => f[n + 2] = Join(parts[1], Join(delim, g[n + 1]))}
<1>7. 0 \in S
  <2>1. 1 \in 1 .. Len(parts) /\ 2 \in 1 .. Len(parts) /\ 2 \in 2 .. Len(parts)
        /\ 1 \in 1 .. Len(parts) - 1
    BY <1>1
  <2>2. f[2] = Join(parts[1], Join(delim, parts[2])) /\ g[1] = parts[2]
    BY <1>1, <1>3, <1>4, <1>5, <1>6, <2>1
  <2> QED
    BY <2>2
<1>8. ASSUME NEW n \in Nat, n \in S PROVE n + 1 \in S
  <2> SUFFICES ASSUME n + 1 + 2 <= Len(parts)
               PROVE  f[n + 1 + 2] = Join(parts[1], Join(delim, g[n + 1 + 1]))
    OBVIOUS
  <2> DEFINE x == Join(delim, parts[n + 1 + 2])
  <2>1. /\ n + 1 + 2 \in 2 .. Len(parts) /\ n + 1 + 2 \in 1 .. Len(parts) /\ n + 1 + 2 # 1
        /\ n + 1 + 2 - 1 = n + 2 /\ n + 2 <= Len(parts)
        /\ n + 1 + 1 \in 2 .. Len(parts) - 1 /\ n + 1 + 1 \in 1 .. Len(parts) - 1
        /\ n + 1 + 1 # 1 /\ n + 1 + 1 - 1 = n + 1 /\ n + 1 + 1 + 1 = n + 1 + 2
        /\ n + 1 \in 1 .. Len(parts) - 1 /\ 1 \in 1 .. Len(parts)
    BY <1>1
  <2>2. f[n + 2] = Join(parts[1], Join(delim, g[n + 1]))
    BY <1>8, <2>1
  <2>3. f[n + 1 + 2] = Join(f[n + 2], x)
    <3>1. seqs[n + 1 + 2] = x
      BY <1>3, <2>1
    <3>2. f[n + 1 + 2] = Join(f[n + 1 + 2 - 1], seqs[n + 1 + 2])
      BY <1>5, <2>1
    <3> QED
      BY <2>1, <3>1, <3>2
  <2>4. g[n + 1 + 1] = Join(g[n + 1], x)
    <3>1. others[n + 1 + 1] = x
      BY <1>1, <1>4, <2>1
    <3>2. g[n + 1 + 1] = Join(g[n + 1 + 1 - 1], others[n + 1 + 1])
      BY <1>6, <2>1
    <3> QED
      BY <2>1, <3>1, <3>2
  <2>5. x \in Line /\ g[n + 1] \in Line /\ parts[1] \in Line
    <3>1. parts[n + 1 + 2] \in Line
      BY <1>1, <2>1
    <3> QED
      BY <1>1, <1>6, <2>1, <3>1, Joins
  <2> HIDE DEF x
  <2>6. Join(delim, g[n + 1]) \in Line
    BY <2>5, Joins
  <2>7. /\ Join(Join(parts[1], Join(delim, g[n + 1])), x)
             = Join(parts[1], Join(Join(delim, g[n + 1]), x))
        /\ Join(Join(delim, g[n + 1]), x) = Join(delim, Join(g[n + 1], x))
    <3>1. PICK p, q : p = parts[1] /\ q = g[n + 1]
      OBVIOUS
    <3>2. p \in Line /\ q \in Line /\ x \in Line /\ Join(delim, q) \in Line
      BY <2>5, <2>6, <3>1
    <3>3. /\ Join(Join(p, Join(delim, q)), x) = Join(p, Join(Join(delim, q), x))
          /\ Join(Join(delim, q), x) = Join(delim, Join(q, x))
      BY <3>2, Joins
    <3> QED
      BY <3>1, <3>3
  <2> QED
    BY <2>2, <2>3, <2>4, <2>7
<1> HIDE DEF S
<1>9. Len(parts) - 2 \in S
  <2>1. Len(parts) - 2 \in Nat
    BY <1>1
  <2> QED
    BY <1>7, <1>8, <2>1, StepByStep
<1>10. /\ f[Len(parts)] = Join(parts[1], Join(delim, g[Len(parts) - 1]))
       /\ g[Len(parts) - 1] \in Line
  <2>1. Len(parts) - 2 + 2 = Len(parts) /\ Len(parts) - 2 + 1 = Len(parts) - 1
        /\ Len(parts) - 1 \in 1 .. Len(parts) - 1
    BY <1>1
  <2> QED
    BY <1>9, <2>1 DEF S
<1> QED
  BY <1>3, <1>4, <1>5, <1>6, <1>10 DEF tail

\* The first of the parts, and what is left of them.
LEMMA SplitBetween ==
  ASSUME NEW parts \in Seq(Line), parts # << >>, NEW delim, NEW mark, IsMarked(delim, mark),
         Lacks(parts[1], mark)
  PROVE  /\ Between(parts, delim) \in Line
         /\ Token(Between(parts, delim), delim) = parts[1]
         /\ Rest(Between(parts, delim), delim) = Between(Tail(parts), delim)
<1>1. Len(parts) \in Nat \ {0} /\ parts[1] \in Line /\ delim \in Line
  BY DEF IsMarked
<1>2. CASE Len(parts) = 1
  <2>1. Tail(parts) = << >>
    <3>1. Tail(parts) \in Seq(Line) /\ Len(Tail(parts)) = 0
      BY <1>2, HeadTailProperties
    <3> QED
      BY <3>1, EmptySeq
  <2>2. PICK first : first = parts[1]
    OBVIOUS
  <2>3. Between(parts, delim) = first /\ first \in Line /\ Lacks(first, mark)
    BY <1>1, <1>2, <2>2, BetweenOne
  <2>4. Token(first, delim) = first /\ Rest(first, delim) = << >>
    BY <2>3, NoDelim
  <2> QED
    BY <2>1, <2>2, <2>3, <2>4, BetweenNone
<1>3. CASE Len(parts) > 1
  <2>1. PICK others : others = Between(Tail(parts), delim)
    OBVIOUS
  <2>2. others \in Line /\ Between(parts, delim) = Join(parts[1], Join(delim, others))
    BY <1>1, <1>3, <2>1, BetweenMore
  <2>3. PICK first : first = parts[1]
    OBVIOUS
  <2>4. first \in Line /\ Lacks(first, mark) /\ Between(parts, delim) = Join(first, Join(delim, others))
    BY <1>1, <2>2, <2>3
  <2>5. Between(parts, delim) \in Line
    BY <1>1, <2>2, <2>4, Joins
  <2>6. /\ Token(first \o (delim \o others), delim) = first
        /\ Rest(first \o (delim \o others), delim) = others
    BY <2>2, <2>4, FirstDelim
  <2>7. Between(parts, delim) = first \o (delim \o others)
    BY <2>4 DEF Join
  <2>8. /\ Token(Between(parts, delim), delim) = first
        /\ Rest(Between(parts, delim), delim) = others
    BY <2>6, <2>7, Zenon
  <2> QED
    BY <2>1, <2>3, <2>5, <2>8
<1>4. Len(parts) = 1 \/ Len(parts) > 1
  <2>1. Len(parts) \in Nat \ {0}
    BY <1>1, Zenon
  <2>2. \A n \in Nat \ {0} : n = 1 \/ n > 1
    OBVIOUS
  <2> QED
    BY <2>1, <2>2, Zenon
<1> QED
  BY <1>2, <1>3, <1>4, Zenon

\* The loops of both ParseFrom take a list apart as it was put together.
LEMMA ListsComeApart ==
  ASSUME NEW delim, NEW mark, IsMarked(delim, mark), delim # << >>
  PROVE  \A parts \in Seq(Line) :
           (\A n \in 1 .. Len(parts) : parts[n] # << >> /\ Lacks(parts[n], mark)) =>
             /\ Stops(Between(parts, delim), delim) = parts
             /\ delim = Comma => Distances(Between(parts, delim)) = parts
<1> DEFINE good(parts) == \A n \in 1 .. Len(parts) : parts[n] # << >> /\ Lacks(parts[n], mark)
           apart(parts) == /\ Stops(Between(parts, delim), delim) = parts
                           /\ delim = Comma => Distances(Between(parts, delim)) = parts
           S == {k \in Nat : \A parts \in Seq(Line) : Len(parts) = k /\ good(parts) => apart(parts)}
<1>1. delim \in Line
  BY DEF IsMarked
<1>2. 0 \in S
  <2>1. << >> \in Line /\ Token(<< >>, delim) = << >>
    BY <1>1, ShortLines, TokenAndRest
  <2>2. Stops(<< >>, delim) = << >> /\ Distances(<< >>) = << >>
    BY <1>1, <2>1, StopsOf, DistancesOf
  <2>3. ASSUME NEW parts \in Seq(Line), Len(parts) = 0 PROVE apart(parts)
    <3>1. parts = << >>
      BY <2>3
    <3> QED
      BY <2>2, <3>1, BetweenNone
  <2> QED
    BY <2>3
<1>3. ASSUME NEW k \in Nat, k \in S PROVE k + 1 \in S
  <2> SUFFICES ASSUME NEW parts \in Seq(Line), Len(parts) = k + 1, good(parts)
               PROVE  apart(parts)
    OBVIOUS
  <2> DEFINE tail == Tail(parts)
  <2>1. /\ parts # << >> /\ tail \in Seq(Line) /\ Len(tail) = k
        /\ \A n \in 1 .. k : tail[n] = parts[n + 1]
        /\ parts = <<parts[1]>> \o tail
    OBVIOUS
  <2>2. good(tail)
    <3>1. \A n \in 1 .. k : n + 1 \in 1 .. Len(parts)
      OBVIOUS
    <3> HIDE DEF tail
    <3> QED
      BY <2>1, <3>1
  <2>3. apart(tail)
    BY <1>3, <2>1, <2>2
  <2>4. parts[1] # << >> /\ Lacks(parts[1], mark)
    OBVIOUS
  <2> HIDE DEF tail
  <2>5. /\ Between(parts, delim) \in Line
        /\ Token(Between(parts, delim), delim) = parts[1]
        /\ Rest(Between(parts, delim), delim) = Between(tail, delim)
    BY <2>1, <2>4, SplitBetween DEF tail
  <2>6. Between(parts, delim) # << >>
    BY <1>1, <2>4, <2>5, TokenAndRest
  <2>7. Stops(Between(parts, delim), delim) = parts
    BY <1>1, <2>1, <2>3, <2>4, <2>5, StopsOf
  <2>8. delim = Comma => Distances(Between(parts, delim)) = parts
    BY <1>1, <2>1, <2>3, <2>5, <2>6, DistancesOf
  <2> QED
    BY <2>7, <2>8
<1> HIDE DEF S
<1>4. Nat \subseteq S
  BY <1>2, <1>3, StepByStep
<1>5. \A parts \in Seq(Line) : Len(parts) \in S
  BY <1>4
<1> QED
  BY <1>5 DEF S

LEMMA LineParts ==
  ASSUME NEW s \in Line
  PROVE  Len(s) \in Nat /\ DOMAIN s = 1 .. Len(s) /\ \A n \in 1 .. Len(s) : s[n] \in STRING
BY DEF Line

\* Without a symbol, before and behind.
LEMMA JoinLacks ==
  ASSUME NEW s \in Line, NEW t \in Line, NEW mark
  PROVE  Lacks(Join(s, t), mark) <=> Lacks(s, mark) /\ Lacks(t, mark)
<1> DEFINE u == Join(s, t)
<1>1. Len(s) \in Nat /\ Len(t) \in Nat
  BY LineParts
<1>2. /\ Len(u) = Len(s) + Len(t)
      /\ \A n \in 1 .. Len(s) + Len(t) : u[n] = IF n <= Len(s) THEN s[n] ELSE t[n - Len(s)]
  BY <1>1, ConcatProperties DEF Join, Line
<1> HIDE DEF u
<1>3. ASSUME NEW n \in 1 .. Len(s) PROVE u[n] = s[n] /\ n \in 1 .. Len(u)
  <2>1. n \in 1 .. Len(s) + Len(t) /\ n <= Len(s)
    BY <1>1
  <2> QED
    BY <1>2, <2>1
<1>4. ASSUME NEW n \in 1 .. Len(t) PROVE u[Len(s) + n] = t[n] /\ Len(s) + n \in 1 .. Len(u)
  <2>1. Len(s) + n \in 1 .. Len(s) + Len(t) /\ ~ (Len(s) + n <= Len(s)) /\ Len(s) + n - Len(s) = n
    BY <1>1
  <2> QED
    BY <1>2, <2>1
<1>5. ASSUME NEW n \in 1 .. Len(u)
      PROVE  \/ n \in 1 .. Len(s)
             \/ n - Len(s) \in 1 .. Len(t) /\ n = Len(s) + (n - Len(s))
  BY <1>1, <1>2
<1> QED
  BY <1>3, <1>4, <1>5 DEF Lacks, u

LEMMA ShortLacks ==
  \A a, b, c, d, mark :
    /\ Lacks(<< >>, mark)
    /\ Lacks(<<a>>, mark) <=> a # mark
    /\ Lacks(<<a, b>>, mark) <=> a # mark /\ b # mark
    /\ Lacks(<<a, b, c>>, mark) <=> a # mark /\ b # mark /\ c # mark
    /\ Lacks(<<a, b, c, d>>, mark) <=> a # mark /\ b # mark /\ c # mark /\ d # mark
<1> TAKE a, b, c, d, mark
<1>1. /\ Len(<< >>) = 0
      /\ Len(<<a>>) = 1 /\ <<a>>[1] = a
      /\ Len(<<a, b>>) = 2 /\ <<a, b>>[1] = a /\ <<a, b>>[2] = b
      /\ Len(<<a, b, c>>) = 3 /\ <<a, b, c>>[1] = a /\ <<a, b, c>>[2] = b /\ <<a, b, c>>[3] = c
      /\ Len(<<a, b, c, d>>) = 4 /\ <<a, b, c, d>>[1] = a /\ <<a, b, c, d>>[2] = b
      /\ <<a, b, c, d>>[3] = c /\ <<a, b, c, d>>[4] = d
  OBVIOUS
<1>2. /\ 1 .. 0 = {} /\ 1 .. 1 = {1} /\ 1 .. 2 = {1, 2} /\ 1 .. 3 = {1, 2, 3} /\ 1 .. 4 = {1, 2, 3, 4}
  OBVIOUS
<1>3. Lacks(<< >>, mark)
  BY <1>1, <1>2, Zenon DEF Lacks
<1>4. Lacks(<<a>>, mark) <=> a # mark
  BY <1>1, <1>2, Zenon DEF Lacks
<1>5. Lacks(<<a, b>>, mark) <=> a # mark /\ b # mark
  BY <1>1, <1>2, Zenon DEF Lacks
<1>6. Lacks(<<a, b, c>>, mark) <=> a # mark /\ b # mark /\ c # mark
  BY <1>1, <1>2, Zenon DEF Lacks
<1>7. Lacks(<<a, b, c, d>>, mark) <=> a # mark /\ b # mark /\ c # mark /\ d # mark
  BY <1>1, <1>2, Zenon DEF Lacks
<1> QED
  BY <1>3, <1>4, <1>5, <1>6, <1>7

\* A delimiter whose symbol stands first, or behind one other.
LEMMA ShortMarked ==
  \A a, b, c, d \in STRING :
    /\ IsMarked(<<a>>, a)
    /\ IsMarked(<<a, b>>, a)
    /\ b # a => IsMarked(<<a, b, c>>, b)
    /\ IsMarked(<<a, b, c, d>>, a)
<1> TAKE a, b, c, d \in STRING
<1>1. /\ <<a>>[1] = a /\ <<a, b>>[1] = a
      /\ <<a, b, c>>[1] = a /\ <<a, b, c>>[2] = b /\ <<a, b, c, d>>[1] = a
  OBVIOUS
<1>2. /\ 1 \in 1 .. 1 /\ 1 \in 1 .. 2 /\ 2 \in 1 .. 3 /\ 1 \in 1 .. 4
      /\ 1 .. 1 - 1 = {} /\ 1 .. 2 - 1 = {1}
  OBVIOUS
<1>3. IsMarked(<<a>>, a)
  BY <1>1, <1>2, ShortLines, Zenon DEF IsMarked
<1>4. IsMarked(<<a, b>>, a)
  <2>1. <<a, b>> \in Line /\ Len(<<a, b>>) = 2
    BY ShortLines
  <2> QED
    BY <1>1, <1>2, <2>1, Zenon DEF IsMarked
<1>5. b # a => IsMarked(<<a, b, c>>, b)
  <2>1. <<a, b, c>> \in Line /\ Len(<<a, b, c>>) = 3
    BY ShortLines
  <2> QED
    BY <1>1, <1>2, <2>1, Zenon DEF IsMarked
<1>6. IsMarked(<<a, b, c, d>>, a)
  <2>1. <<a, b, c, d>> \in Line /\ Len(<<a, b, c, d>>) = 4
    BY ShortLines
  <2> QED
    BY <1>1, <1>2, <2>1, Zenon DEF IsMarked
<1> QED
  BY <1>3, <1>4, <1>5, <1>6

-----------------------------------------------------------------------------
LEMMA TwoSymbols ==
  ASSUME NEW a, NEW b
  PROVE  <<a, b>> = Join(<<a>>, <<b>>)
<1>1. PICK S, s, t, u : S = {a, b} /\ s = <<a>> /\ t = <<b>> /\ u = <<a, b>>
  OBVIOUS
<1>2. s \in Seq(S) /\ t \in Seq(S) /\ u \in Seq(S) /\ Len(s) = 1 /\ Len(t) = 1 /\ Len(u) = 2
      /\ s[1] = a /\ t[1] = b /\ u[1] = a /\ u[2] = b
  BY <1>1
<1>3. s \o t \in Seq(S) /\ Len(s \o t) = 2 /\ \A n \in 1 .. 2 : (s \o t)[n] = u[n]
  BY <1>2, ConcatProperties
<1>4. s \o t = u
  BY <1>2, <1>3, SeqEqual
<1>5. Join(s, t) = u
  BY <1>4 DEF Join
<1> QED
  BY <1>1, <1>5

LEMMA CutAtDelim ==
  \A s, t, delim \in Line : \A mark : IsMarked(delim, mark) /\ Lacks(s, mark) =>
    /\ Token(Join(s, Join(delim, t)), delim) = s
    /\ Rest(Join(s, Join(delim, t)), delim) = t
BY FirstDelim DEF Join

\* A word, a blank, a name, a colon, a blank and what follows.
InParts(line, word, name, body, blank, b, colon, c) ==
  /\ word \in Line /\ name \in Line /\ body \in Line /\ blank \in Line /\ colon \in Line
  /\ IsMarked(blank, b) /\ IsMarked(colon, c) /\ IsMarked(Join(colon, blank), c)
  /\ Lacks(word, b) /\ Lacks(word, c) /\ Lacks(blank, c) /\ Lacks(name, c)
  /\ line = Join(Join(Join(Join(word, blank), name), Join(colon, blank)), body)

LEMMA CutInParts ==
  ASSUME NEW line, NEW word, NEW name, NEW body, NEW blank, NEW b, NEW colon, NEW c,
         InParts(line, word, name, body, blank, b, colon, c)
  PROVE  /\ line \in Line
         /\ Token(line, blank) = word
         /\ Rest(Token(line, colon), blank) = name
         /\ Rest(line, colon) = Join(blank, body)
         /\ Rest(Token(line, Join(colon, blank)), blank) = name
         /\ Rest(line, Join(colon, blank)) = body
<1>0. /\ word \in Line /\ name \in Line /\ body \in Line /\ blank \in Line /\ colon \in Line
      /\ IsMarked(blank, b) /\ IsMarked(colon, c) /\ IsMarked(Join(colon, blank), c)
      /\ Lacks(word, b) /\ Lacks(word, c) /\ Lacks(blank, c) /\ Lacks(name, c)
      /\ line = Join(Join(Join(Join(word, blank), name), Join(colon, blank)), body)
  BY DEF InParts
<1> USE <1>0
<1> DEFINE named == Join(Join(word, blank), name)
           both == Join(colon, blank)
           behind == Join(both, body)
<1>1. /\ Join(word, blank) \in Line /\ both \in Line /\ named \in Line /\ behind \in Line
      /\ Join(blank, body) \in Line /\ Join(blank, name) \in Line /\ Join(name, behind) \in Line
  <2>1. Join(word, blank) \in Line /\ both \in Line
    BY Joins
  <2>2. named \in Line /\ behind \in Line
    BY <2>1, Joins
  <2> HIDE DEF named, behind
  <2> QED
    BY <2>1, <2>2, Joins
<1>2. line = Join(named, behind) /\ line \in Line
  <2>1. line = Join(Join(named, both), body)
    OBVIOUS
  <2> HIDE DEF named, both
  <2>2. line = Join(named, Join(both, body))
    BY <1>1, <2>1, Joins
  <2> QED
    BY <1>1, <2>2, Joins
<1>3. behind = Join(colon, Join(blank, body))
  BY Joins
<1>4. named = Join(word, Join(blank, name))
  BY Joins
<1>5. line = Join(word, Join(blank, Join(name, behind)))
  <2>1. line = Join(Join(word, Join(blank, name)), behind)
    BY <1>2, <1>4
  <2> HIDE DEF named, both, behind
  <2>2. Join(Join(word, Join(blank, name)), behind) = Join(word, Join(Join(blank, name), behind))
    BY <1>1, Joins
  <2>3. Join(Join(blank, name), behind) = Join(blank, Join(name, behind))
    BY <1>1, Joins
  <2> QED
    BY <2>1, <2>2, <2>3
<1>6. Lacks(named, c)
  <2>1. Lacks(Join(word, blank), c)
    BY JoinLacks
  <2> QED
    BY <1>1, <2>1, JoinLacks
<1> HIDE DEF named
<1>7. Token(line, blank) = word
  <2> HIDE DEF both, behind
  <2> QED
    BY <1>1, <1>5, CutAtDelim
<1>8. Rest(named, blank) = name
  BY <1>1, <1>4, CutAtDelim
<1>9. Token(line, colon) = named /\ Rest(line, colon) = Join(blank, body)
  <2>1. line = Join(named, Join(colon, Join(blank, body)))
    BY <1>2, <1>3
  <2> QED
    BY <1>1, <1>6, <2>1, CutAtDelim
<1>10. Token(line, both) = named /\ Rest(line, both) = body
  <2>1. line = Join(named, Join(both, body)) /\ IsMarked(both, c)
    BY <1>2
  <2> HIDE DEF both, behind
  <2> QED
    BY <1>1, <1>6, <2>1, CutAtDelim
<1> QED
  BY <1>2, <1>7, <1>8, <1>9, <1>10

\* The word and the name that a line of a base request begins with.
LEMMA NamedLine ==
  ASSUME NEW word \in {"Bus", "Stop"}, NEW name \in Line, Lacks(name, ":"), NEW body \in Line
  PROVE  LET line == <<word, " ">> \o name \o <<":", " ">> \o body
         IN  /\ line \in Line
             /\ Token(line, Blank) = <<word>>
             /\ Rest(Token(line, <<":">>), Blank) = name
             /\ Rest(line, <<":">>) = Join(Blank, body)
             /\ Rest(Token(line, <<":", " ">>), Blank) = name
             /\ Rest(line, <<":", " ">>) = body
<1> DEFINE begin == <<word>>
           sign == <<":">>
           both == <<":", " ">>
           start == <<word, " ">>
           whole == start \o name \o both \o body
<1>1. word \in STRING /\ " " \in STRING /\ ":" \in STRING /\ word # " " /\ word # ":" /\ " " # ":"
  BY MarksInLines DEF Marks
<1>2. begin \in Line /\ Blank \in Line /\ sign \in Line
  BY <1>1, ShortLines DEF Blank
<1>3. start = Join(begin, Blank) /\ both = Join(sign, Blank)
  <2>1. \A a, b : <<a, b>> = Join(<<a>>, <<b>>)
    BY TwoSymbols
  <2> QED
    BY <2>1, Zenon DEF Blank
<1>4. IsMarked(Blank, " ") /\ IsMarked(sign, ":") /\ IsMarked(both, ":")
  BY <1>1, ShortMarked DEF Blank
<1>5. Lacks(begin, " ") /\ Lacks(begin, ":") /\ Lacks(Blank, ":")
  BY <1>1, ShortLacks DEF Blank
<1> HIDE DEF begin, sign, both, start
<1>6. whole = Join(Join(Join(start, name), both), body)
  BY DEF Join
<1> HIDE DEF whole
<1>7. whole = Join(Join(Join(Join(begin, Blank), name), Join(sign, Blank)), body)
  BY <1>3, <1>6
<1>8. IsMarked(Join(sign, Blank), ":")
  BY <1>3, <1>4
<1>9. /\ whole \in Line
      /\ Token(whole, Blank) = begin
      /\ Rest(Token(whole, sign), Blank) = name
      /\ Rest(whole, sign) = Join(Blank, body)
      /\ Rest(Token(whole, Join(sign, Blank)), Blank) = name
      /\ Rest(whole, Join(sign, Blank)) = body
  <2>1. PICK b, c : b = " " /\ c = ":"
    OBVIOUS
  <2>2. InParts(whole, begin, name, body, Blank, b, sign, c)
    BY <1>2, <1>4, <1>5, <1>7, <1>8, <2>1 DEF InParts
  <2> QED
    BY <2>2, CutInParts
<1>10. /\ whole \in Line
       /\ Token(whole, Blank) = begin
       /\ Rest(Token(whole, sign), Blank) = name
       /\ Rest(whole, sign) = Join(Blank, body)
       /\ Rest(Token(whole, both), Blank) = name
       /\ Rest(whole, both) = body
  BY <1>3, <1>9
<1> QED
  BY <1>10, Zenon DEF begin, sign, both, start, whole

LEMMA NothingLacks == \A mark : Lacks(<< >>, mark)
<1>1. 1 .. 0 = {}
  OBVIOUS
<1> QED
  BY <1>1, ShortLines, Zenon DEF Lacks

LEMMA JoinParts ==
  ASSUME NEW s \in Line, NEW t \in Line
  PROVE  /\ Join(s, t) \in Line /\ Len(Join(s, t)) = Len(s) + Len(t)
         /\ \A n \in 1 .. Len(s) + Len(t) :
              Join(s, t)[n] = IF n <= Len(s) THEN s[n] ELSE t[n - Len(s)]
BY ConcatProperties DEF Join, Line

LEMMA TailParts ==
  \A parts \in Seq(Line) : parts # << >> =>
    /\ parts[1] \in Line /\ Tail(parts) \in Seq(Line) /\ Len(Tail(parts)) = Len(parts) - 1
    /\ Len(parts) \in Nat \ {0}
    /\ \A n \in 1 .. Len(parts) - 1 : Tail(parts)[n] = parts[n + 1] /\ n + 1 \in 1 .. Len(parts)
OBVIOUS

LEMMA BetweenInLines ==
  ASSUME NEW parts \in Seq(Line), NEW delim \in Line
  PROVE  Between(parts, delim) \in Line
<1>1. CASE parts = << >>
  BY <1>1, BetweenNone, ShortLines
<1>2. CASE parts # << >> /\ Len(parts) = 1
  BY <1>2, BetweenOne, TailParts
<1>3. CASE parts # << >> /\ Len(parts) > 1
  <2>1. PICK first, others : first = parts[1] /\ others = Between(Tail(parts), delim)
    OBVIOUS
  <2>2. first \in Line /\ others \in Line /\ Between(parts, delim) = Join(first, Join(delim, others))
    BY <1>3, <2>1, BetweenMore, TailParts
  <2> QED
    BY <2>2, Joins
<1>4. parts # << >> => Len(parts) = 1 \/ Len(parts) > 1
  BY TailParts
<1> QED
  BY <1>1, <1>2, <1>3, <1>4

LEMMA BetweenLacks ==
  ASSUME NEW delim \in Line, NEW mark, Lacks(delim, mark)
  PROVE  \A parts \in Seq(Line) :
           (\A n \in 1 .. Len(parts) : Lacks(parts[n], mark)) => Lacks(Between(parts, delim), mark)
<1> DEFINE lack(parts) == \A n \in 1 .. Len(parts) : Lacks(parts[n], mark)
           S == {k \in Nat : \A parts \in Seq(Line) :
                   Len(parts) = k /\ lack(parts) => Lacks(Between(parts, delim), mark)}
<1>1. 0 \in S
  <2>1. \A parts \in Seq(Line) : Len(parts) = 0 => parts = << >>
    BY EmptySeq
  <2>2. Lacks(Between(<< >>, delim), mark)
    BY BetweenNone, NothingLacks
  <2> QED
    BY <2>1, <2>2
<1>2. ASSUME NEW k \in Nat, k \in S PROVE k + 1 \in S
  <2> SUFFICES ASSUME NEW parts \in Seq(Line), Len(parts) = k + 1, lack(parts)
               PROVE  Lacks(Between(parts, delim), mark)
    OBVIOUS
  <2>1. parts # << >>
    OBVIOUS
  <2>2. PICK first, tail : first = parts[1] /\ tail = Tail(parts)
    OBVIOUS
  <2>3. /\ first \in Line /\ tail \in Seq(Line) /\ Len(tail) = k
        /\ \A n \in 1 .. k : tail[n] = parts[n + 1] /\ n + 1 \in 1 .. Len(parts)
    BY <2>1, <2>2, TailParts
  <2>4. Lacks(first, mark)
    BY <2>2
  <2>5. lack(tail)
    BY <2>3
  <2>6. Lacks(Between(tail, delim), mark) /\ Between(tail, delim) \in Line
    BY <1>2, <2>3, <2>5, BetweenInLines
  <2>7. CASE k = 0
    BY <2>2, <2>4, <2>7, BetweenOne
  <2>8. CASE k > 0
    <3>1. Between(parts, delim) = Join(first, Join(delim, Between(tail, delim)))
      BY <2>2, <2>8, BetweenMore
    <3>2. Join(delim, Between(tail, delim)) \in Line
      BY <2>6, Joins
    <3>3. Lacks(Join(delim, Between(tail, delim)), mark)
      BY <2>6, JoinLacks
    <3> QED
      BY <2>3, <2>4, <3>1, <3>2, <3>3, JoinLacks
  <2> QED
    BY <2>7, <2>8
<1> HIDE DEF S
<1>3. Nat \subseteq S
  BY <1>1, <1>2, StepByStep
<1>4. \A parts \in Seq(Line) : Len(parts) \in S
  BY <1>3
<1> QED
  BY <1>4 DEF S

LEMMA HeadOf ==
  ASSUME NEW S, NEW s \in Seq(S), s # << >>
  PROVE  Head(s) = s[1]
OBVIOUS

LEMMA JoinOne ==
  ASSUME NEW a \in STRING, NEW s \in Line
  PROVE  LET t == Join(<<a>>, s)
         IN  t \in Line /\ t # << >> /\ Head(t) = a /\ Tail(t) = s
<1> DEFINE t == Join(<<a>>, s)
<1>1. PICK b : b = <<a>>
  OBVIOUS
<1>2. b \in Line /\ Len(b) = 1 /\ b[1] = a /\ Len(s) \in Nat
  BY <1>1, ShortLines, LineParts
<1>3. t = Join(b, s)
  BY <1>1
<1> HIDE DEF t
<1>4. /\ t \in Line /\ Len(t) = 1 + Len(s)
      /\ \A i \in 1 .. 1 + Len(s) : t[i] = IF i <= 1 THEN b[i] ELSE s[i - 1]
  <2>1. /\ t \in Line /\ Len(t) = Len(b) + Len(s)
        /\ \A n \in 1 .. Len(b) + Len(s) : t[n] = IF n <= Len(b) THEN b[n] ELSE s[n - Len(b)]
    BY <1>2, <1>3, JoinParts, Zenon
  <2>2. Len(b) = 1
    BY <1>2
  <2> QED
    BY <2>1, <2>2, Zenon
<1>5. t[1] = a /\ \A i \in 1 .. Len(s) : t[i + 1] = s[i]
  <2>1. ASSUME NEW i \in 1 .. Len(s) PROVE t[i + 1] = s[i]
    <3>1. i + 1 \in 1 .. 1 + Len(s) /\ ~ (i + 1 <= 1) /\ i + 1 - 1 = i
      BY <1>2
    <3> QED
      BY <1>4, <3>1
  <2>2. 1 \in 1 .. 1 + Len(s)
    BY <1>2
  <2>3. t[1] = b[1]
    BY <1>4, <2>2
  <2> QED
    BY <1>2, <2>1, <2>3, Zenon
<1>6. t # << >>
  BY <1>2, <1>4, EmptySeq
<1>7. /\ Tail(t) \in Line /\ Len(Tail(t)) = Len(s)
      /\ \A i \in 1 .. Len(s) : Tail(t)[i] = t[i + 1]
  <2>1. /\ Tail(t) \in Line /\ Len(Tail(t)) = Len(t) - 1
        /\ \A i \in 1 .. Len(Tail(t)) : Tail(t)[i] = t[i + 1]
    BY <1>4, <1>6, HeadTailProperties DEF Line
  <2>2. Len(t) - 1 = Len(s)
    BY <1>2, <1>4
  <2> QED
    BY <2>1, <2>2
<1>8. Tail(t) = s
  BY <1>5, <1>7, SeqEqual DEF Line
<1>9. Head(t) = t[1]
  BY <1>4, <1>6, HeadOf DEF Line
<1> QED
  BY <1>4, <1>5, <1>6, <1>8, <1>9 DEF t

\* Blanks at the beginning of a line are skipped.
LEMMA TrimmedLine ==
  ASSUME NEW s \in Line, s # << >> => s[1] # " "
  PROVE  TrimLeft(s) = s /\ TrimLeft(Join(Blank, s)) = s
<1>1. s # << >> => Head(s) = s[1]
  BY HeadOf DEF Line
<1>2. TrimLeft(s) = s
  BY <1>1, TrimLeftOf
<1>3. PICK t : t = Join(Blank, s)
  OBVIOUS
<1>4. " " \in STRING
  BY MarksInLines DEF Marks
<1>5. t \in Line /\ t # << >> /\ Head(t) = " " /\ Tail(t) = s
  BY <1>3, <1>4, JoinOne DEF Blank
<1>6. TrimLeft(t) = TrimLeft(Tail(t))
  BY <1>5, TrimLeftOf
<1> QED
  BY <1>2, <1>3, <1>5, <1>6

LEMMA HasOrLacks ==
  ASSUME NEW s \in Line, NEW mark
  PROVE  (\E p \in DOMAIN s : s[p] = mark) <=> ~ Lacks(s, mark)
BY LineParts DEF Lacks

\* A stop's name in the line of a bus.
IsOnLine(s, mark) == s \in Line /\ s # << >> /\ s[1] # " " /\ Lacks(s, ">") /\ Lacks(s, mark)

\* The stops of a line, and whether there is a mark of a roundtrip between them.
LEMMA StopsApart ==
  ASSUME NEW stops \in Seq(Line), NEW mark \in {">", "-"},
         \A i \in 1 .. Len(stops) : IsOnLine(stops[i], mark),
         mark = ">" => Len(stops) > 1
  PROVE  LET body == Between(stops, <<" ", mark, " ">>)
         IN  /\ body \in Line
             /\ TrimLeft(Join(Blank, body)) = body
             /\ (\E p \in DOMAIN body : body[p] = ">") <=> mark = ">"
             /\ Stops(body, <<" ", mark, " ">>) = stops
<1>1. PICK delim : delim = <<" ", mark, " ">>
  OBVIOUS
<1>2. PICK body : body = Between(stops, delim)
  OBVIOUS
<1>3. PICK blank, round : blank = " " /\ round = ">"
  OBVIOUS
<1>4. /\ blank \in STRING /\ mark \in STRING /\ round \in STRING /\ mark # blank /\ round # blank
      /\ mark = ">" <=> mark = round
  BY <1>3, MarksInLines DEF Marks
<1>5. delim = <<blank, mark, blank>>
  BY <1>1, <1>3
<1>6. /\ delim \in Line /\ delim # << >> /\ IsMarked(delim, mark)
      /\ mark # round => Lacks(delim, round)
      /\ ~ Lacks(delim, mark)
  BY <1>4, <1>5, ShortLines, ShortMarked, ShortLacks
<1>7. \A i \in 1 .. Len(stops) :
        /\ stops[i] \in Line /\ stops[i] # << >> /\ stops[i][1] # blank
        /\ Lacks(stops[i], round) /\ Lacks(stops[i], mark)
  BY <1>3 DEF IsOnLine
<1>8. body \in Line
  BY <1>2, <1>6, BetweenInLines
<1>9. Stops(body, delim) = stops
  BY <1>2, <1>6, <1>7, ListsComeApart
<1>10. body # << >> => body[1] # blank
  <2>1. CASE stops = << >>
    BY <1>2, <2>1, BetweenNone
  <2>2. CASE stops # << >>
    <3>1. PICK first : first = stops[1]
      OBVIOUS
    <3>2. 1 \in 1 .. Len(stops) /\ (Len(stops) = 1 \/ Len(stops) > 1)
      <4>1. Len(stops) \in Nat \ {0}
        BY <2>2, TailParts
      <4>2. \A k \in Nat \ {0} : 1 \in 1 .. k /\ (k = 1 \/ k > 1)
        OBVIOUS
      <4> QED
        BY <4>1, <4>2
    <3>3. first \in Line /\ first # << >> /\ first[1] # blank
      BY <1>7, <3>1, <3>2
    <3>4. CASE Len(stops) = 1
      BY <1>2, <1>6, <3>1, <3>3, <3>4, BetweenOne
    <3>5. CASE Len(stops) > 1
      <4>1. PICK others : others = Join(delim, Between(Tail(stops), delim))
        OBVIOUS
      <4>2. others \in Line /\ body = Join(first, others)
        BY <1>2, <1>6, <3>1, <3>5, <4>1, BetweenMore, Joins
      <4>3. Len(first) \in Nat \ {0} /\ Len(others) \in Nat
        BY <3>3, <4>2, EmptySeq DEF Line
      <4>4. body[1] = first[1]
        <5>1. 1 \in 1 .. Len(first) + Len(others) /\ 1 <= Len(first)
          BY <4>3
        <5> QED
          BY <3>3, <4>2, <5>1, JoinParts
      <4> QED
        BY <3>3, <4>4
    <3> QED
      BY <3>2, <3>4, <3>5
  <2> QED
    BY <2>1, <2>2
<1>11. TrimLeft(Join(Blank, body)) = body
  BY <1>3, <1>8, <1>10, TrimmedLine
<1>12. (\E p \in DOMAIN body : body[p] = round) <=> ~ Lacks(body, round)
  BY <1>8, HasOrLacks
<1>13. mark # round => Lacks(body, round)
  BY <1>2, <1>6, <1>7, BetweenLacks
<1>14. mark = round => ~ Lacks(body, round)
  <2> SUFFICES ASSUME mark = round PROVE ~ Lacks(body, round)
    OBVIOUS
  <2>1. PICK first, others : first = stops[1] /\ others = Between(Tail(stops), delim)
    OBVIOUS
  <2>2. Len(stops) > 1
    BY <1>4
  <2>3. stops # << >>
    BY <2>2
  <2>4. first \in Line /\ others \in Line /\ body = Join(first, Join(delim, others))
    BY <1>2, <1>6, <2>1, <2>2, <2>3, BetweenMore, TailParts
  <2>5. Join(delim, others) \in Line
    BY <1>6, <2>4, Joins
  <2> QED
    BY <1>6, <2>4, <2>5, JoinLacks
<1>15. (\E p \in DOMAIN body : body[p] = ">") <=> mark = ">"
  BY <1>3, <1>12, <1>13, <1>14
<1> QED
  BY <1>1, <1>2, <1>8, <1>9, <1>11, <1>15

\* The line of a bus is read as the request it was written from.
LEMMA BusLineAsWritten ==
  ASSUME NEW name \in Line, Lacks(name, ":"), NEW roundtrip \in BOOLEAN,
         NEW stops \in Seq(Line), roundtrip => Len(stops) > 1,
         \A i \in 1 .. Len(stops) : IsOnLine(stops[i], IF roundtrip THEN ">" ELSE "-"),
         NEW n
  PROVE  LET r == AddBusRequestOf(n, name, roundtrip, stops)
         IN  /\ BusLine(r) \in Line
             /\ Token(BusLine(r), Blank) = <<"Bus">>
             /\ AddBusFromLine(BusLine(r), n) = r
<1> DEFINE r == AddBusRequestOf(n, name, roundtrip, stops)
<1>1. PICK mark \in {">", "-"} : mark = IF roundtrip THEN ">" ELSE "-"
  OBVIOUS
<1>2. PICK delim : delim = <<" ", mark, " ">>
  OBVIOUS
<1>3. PICK body : body = Between(stops, delim)
  OBVIOUS
<1>4. r.name = name /\ r.stops = stops /\ (r.type = "Circular" <=> roundtrip)
  BY DEF AddBusRequestOf
<1> HIDE DEF r
<1>5. PICK line : line = BusLine(r)
  OBVIOUS
<1>6. line = <<"Bus", " ">> \o name \o <<":", " ">> \o body
  BY <1>1, <1>2, <1>3, <1>4, <1>5 DEF BusLine
<1>7. mark = ">" <=> roundtrip
  BY <1>1
<1>8. /\ body \in Line
      /\ TrimLeft(Join(Blank, body)) = body
      /\ (\E p \in DOMAIN body : body[p] = ">") <=> mark = ">"
      /\ Stops(body, delim) = stops
  BY <1>1, <1>2, <1>3, <1>7, StopsApart
<1>9. /\ line \in Line
      /\ Token(line, Blank) = <<"Bus">>
      /\ Rest(Token(line, <<":">>), Blank) = name
      /\ Rest(line, <<":">>) = Join(Blank, body)
  BY <1>6, <1>8, NamedLine
<1>10. AddBusFromLine(line, n) = AddBusRequestOf(n, name, roundtrip, stops)
  <2>1. TrimLeft(Rest(line, <<":">>)) = body
    BY <1>8, <1>9
  <2>2. ((\E p \in DOMAIN body : body[p] = ">")) = roundtrip
    BY <1>7, <1>8
  <2>3. <<" ", IF roundtrip THEN ">" ELSE "-", " ">> = delim
    BY <1>1, <1>2
  <2>4. PICK named, rest : /\ named = Rest(Token(line, <<":">>), Blank)
                           /\ rest = TrimLeft(Rest(line, <<":">>))
    OBVIOUS
  <2>5. AddBusFromLine(line, n)
          = AddBusRequestOf(n, named, (\E p \in DOMAIN rest : rest[p] = ">"),
              Stops(rest, <<" ", IF (\E p \in DOMAIN rest : rest[p] = ">") THEN ">" ELSE "-", " ">>))
    BY <2>4 DEF AddBusFromLine
  <2>6. named = name /\ rest = body
    BY <1>9, <2>1, <2>4, Zenon
  <2>7. AddBusFromLine(line, n)
          = AddBusRequestOf(n, name, roundtrip,
              Stops(body, <<" ", IF roundtrip THEN ">" ELSE "-", " ">>))
    BY <2>2, <2>5, <2>6, Zenon
  <2> QED
    BY <1>8, <2>3, <2>7, Zenon
<1> QED
  BY <1>5, <1>9, <1>10 DEF r

\* A number in a line, in units.
IsNumber(units) == Symbol[units] \in DOMAIN Numeral /\ Numeral[Symbol[units]] = units

LEMMA NumberAlone ==
  ASSUME NEW symbol \in DOMAIN Numeral
  PROVE  /\ symbol \in STRING /\ <<symbol>> \in Line
         /\ TrimLeft(<<symbol>>) = <<symbol>>
         /\ IsDouble(<<symbol>>) /\ StoDouble(<<symbol>>) = Numeral[symbol]
         /\ \A mark \in Marks : Lacks(<<symbol>>, mark)
<1>1. symbol \in STRING /\ symbol \notin Marks
  BY NumeralAssumption
<1>2. " " \in Marks
  BY DEF Marks
<1>3. PICK s : s = <<symbol>>
  OBVIOUS
<1>4. s \in Line /\ s # << >> /\ Len(s) = 1 /\ s[1] = symbol
  BY <1>1, <1>3, ShortLines
<1>5. symbol # " "
  BY <1>1, <1>2
<1>6. TrimLeft(s) = s
  BY <1>4, <1>5, TrimmedLine
<1>7. IsDouble(s) /\ StoDouble(s) = Numeral[symbol]
  BY <1>4, <1>6 DEF IsDouble, StoDouble
<1>8. ASSUME NEW mark \in Marks PROVE Lacks(s, mark)
  BY <1>1, <1>3, ShortLacks
<1> QED
  BY <1>1, <1>3, <1>4, <1>6, <1>7, <1>8

LEMMA SizeAlone ==
  ASSUME NEW k \in 0 .. SizeLimit - 1, IsNumber(k * Unit)
  PROVE  IsSize(<<Symbol[k * Unit]>>) /\ StoSize(<<Symbol[k * Unit]>>) = k
<1>1. PICK symbol : symbol = Symbol[k * Unit]
  OBVIOUS
<1>2. symbol \in DOMAIN Numeral /\ Numeral[symbol] = k * Unit
  BY <1>1 DEF IsNumber
<1>3. /\ IsDouble(<<symbol>>) /\ StoDouble(<<symbol>>) = k * Unit
      /\ TrimLeft(<<symbol>>) = <<symbol>> /\ <<symbol>>[1] = symbol
  BY <1>2, NumberAlone
<1>4. (k * Unit) % Unit = 0 /\ (k * Unit) \div Unit = k /\ k % SizeLimit = k
  <2>1. Unit \in Nat \ {0} /\ k \in Nat
    BY UnitAssumption, SizeAssumption
  <2>2. (k * Unit) \div Unit = k
    BY <2>1
  <2>3. (k * Unit) % Unit = 0
    <3>1. \A a \in Nat : \A b \in Nat \ {0} : a % b = a - b * (a \div b)
      OBVIOUS
    <3>2. k * Unit \in Nat /\ k * Unit - Unit * k = 0
      BY <2>1
    <3> QED
      BY <2>1, <2>2, <3>1, <3>2
  <2>4. k % SizeLimit = k
    BY SizeAssumption
  <2> QED
    BY <2>2, <2>3, <2>4
<1>5. IsSize(<<symbol>>)
  BY <1>2, <1>3, <1>4 DEF IsSize
<1>6. StoSize(<<symbol>>) = k
  BY <1>3, <1>4 DEF StoSize
<1> QED
  BY <1>1, <1>5, <1>6

\* A length and the stop it leads to.
LEMMA FourSymbols ==
  ASSUME NEW S, NEW a \in S, NEW b \in S, NEW c \in S, NEW d \in S
  PROVE  /\ <<a, b, c, d>> \in Seq(S) /\ Len(<<a, b, c, d>>) = 4
         /\ <<a, b, c, d>>[1] = a /\ <<a, b, c, d>>[2] = b
         /\ <<a, b, c, d>>[3] = c /\ <<a, b, c, d>>[4] = d
OBVIOUS

LEMMA FiveParts ==
  ASSUME NEW S, NEW a \in S, NEW b \in S, NEW c \in S, NEW d \in S, NEW e \in S
  PROVE  /\ <<a, b, c, d, e>> \in Seq(S) /\ Len(<<a, b, c, d, e>>) = 5
         /\ <<a, b, c, d, e>>[1] = a /\ <<a, b, c, d, e>>[2] = b
         /\ <<a, b, c, d, e>>[3] = c /\ <<a, b, c, d, e>>[4] = d
         /\ <<a, b, c, d, e>>[5] = e
OBVIOUS

LEMMA FiveSymbols ==
  \A a, b, c, d, e : Join(<<a>>, <<b, c, d, e>>) = <<a, b, c, d, e>>
<1> TAKE a, b, c, d, e
<1>1. PICK S, s, t, u : /\ S = {a, b, c, d, e}
                        /\ s = <<a>> /\ t = <<b, c, d, e>> /\ u = <<a, b, c, d, e>>
  OBVIOUS
<1>2. /\ s \in Seq(S) /\ Len(s) = 1 /\ s[1] = a
  BY <1>1
<1>3. t \in Seq(S) /\ Len(t) = 4 /\ t[1] = b /\ t[2] = c /\ t[3] = d /\ t[4] = e
  <2>1. b \in S /\ c \in S /\ d \in S /\ e \in S
    BY <1>1
  <2> QED
    BY <1>1, <2>1, FourSymbols, Zenon
<1>4. /\ u \in Seq(S) /\ Len(u) = 5
      /\ u[1] = a /\ u[2] = b /\ u[3] = c /\ u[4] = d /\ u[5] = e
  <2>1. a \in S /\ b \in S /\ c \in S /\ d \in S /\ e \in S
    BY <1>1
  <2> QED
    BY <1>1, <2>1, FiveParts, Zenon
<1>5. s \o t \in Seq(S) /\ Len(s \o t) = 5 /\ \A n \in 1 .. 5 : (s \o t)[n] = u[n]
  <2>1. /\ s \o t \in Seq(S) /\ Len(s \o t) = 1 + 4
        /\ \A n \in 1 .. 1 + 4 : (s \o t)[n] = IF n <= 1 THEN s[n] ELSE t[n - 1]
    <3>1. /\ s \o t \in Seq(S) /\ Len(s \o t) = Len(s) + Len(t)
          /\ \A n \in 1 .. Len(s) + Len(t) :
               (s \o t)[n] = IF n <= Len(s) THEN s[n] ELSE t[n - Len(s)]
      BY <1>2, <1>3, ConcatProperties, Zenon
    <3> QED
      BY <1>2, <1>3, <3>1, Zenon
  <2> DEFINE st(n) == (s \o t)[n]
  <2>2. \A n \in 1 .. 5 : st(n) = IF n <= 1 THEN s[n] ELSE t[n - 1]
    BY <2>1
  <2> HIDE DEF st
  <2>3. st(1) = u[1] /\ st(2) = u[2] /\ st(3) = u[3] /\ st(4) = u[4] /\ st(5) = u[5]
    BY <1>2, <1>3, <1>4, <2>2
  <2>4. \A n \in 1 .. 5 : st(n) = u[n]
    <3>1. \A n \in 1 .. 5 : n = 1 \/ n = 2 \/ n = 3 \/ n = 4 \/ n = 5
      OBVIOUS
    <3> QED
      BY <2>3, <3>1, Zenon
  <2>5. \A n \in 1 .. 5 : (s \o t)[n] = u[n]
    BY <2>4, Zenon DEF st
  <2> QED
    BY <2>1, <2>5
<1>6. s \o t = u
  BY <1>4, <1>5, SeqEqual
<1>7. Join(s, t) = u
  BY <1>6 DEF Join
<1> QED
  BY <1>1, <1>7

\* A piece of the line, with what tells its symbols apart.
IsPiece(piece, symbol, m, blank, to, comma, stop) ==
  /\ symbol \in STRING /\ m \in STRING /\ blank \in STRING /\ to \in STRING /\ stop \in Line
  /\ symbol # m /\ symbol # comma /\ m # comma /\ blank # comma /\ to # comma
  /\ Lacks(stop, comma)
  /\ piece = Join(<<symbol, m, blank, to, blank>>, stop)

LEMMA PieceInParts ==
  ASSUME NEW piece, NEW symbol, NEW m, NEW blank, NEW to, NEW comma, NEW stop,
         IsPiece(piece, symbol, m, blank, to, comma, stop)
  PROVE      /\ piece \in Line /\ piece # << >> /\ Lacks(piece, comma)
             /\ Token(piece, <<m, blank, to, blank>>) = <<symbol>>
             /\ Rest(piece, <<m, blank, to, blank>>) = stop
<1> USE DEF IsPiece
<1>1. PICK number, behind : number = <<symbol>> /\ behind = <<m, blank, to, blank>>
  OBVIOUS
<1>2. number \in Line /\ Lacks(number, m) /\ Lacks(number, comma) /\ Len(number) = 1
  BY <1>1, ShortLines, ShortLacks
<1>3. behind \in Line /\ IsMarked(behind, m) /\ Lacks(behind, comma)
  BY <1>1, ShortLines, ShortMarked, ShortLacks
<1>4. Join(number, behind) = <<symbol, m, blank, to, blank>>
  BY <1>1, FiveSymbols
<1>5. piece = Join(Join(number, behind), stop)
  BY <1>4
<1>6. piece = Join(number, Join(behind, stop)) /\ piece \in Line /\ Join(behind, stop) \in Line
  BY <1>2, <1>3, <1>5, Joins
<1>7. Token(piece, behind) = number /\ Rest(piece, behind) = stop
  BY <1>2, <1>3, <1>6, CutAtDelim
<1>8. Lacks(piece, comma)
  BY <1>2, <1>3, <1>6, JoinLacks
<1>9. piece # << >>
  <2>1. Len(piece) = Len(number) + Len(Join(behind, stop)) /\ Len(Join(behind, stop)) \in Nat
    BY <1>2, <1>6, JoinParts, LineParts
  <2>2. Len(piece) # 0
    BY <1>2, <2>1
  <2> QED
    BY <2>2, EmptySeq
<1> QED
  BY <1>1, <1>4, <1>5, <1>6, <1>7, <1>8, <1>9

LEMMA PieceApart ==
  ASSUME NEW symbol \in DOMAIN Numeral, NEW stop \in Line, Lacks(stop, ",")
  PROVE  LET piece == <<symbol, "m", " ", "to", " ">> \o stop
         IN  /\ piece \in Line /\ piece # << >> /\ Lacks(piece, ",")
             /\ Token(piece, MetersTo) = <<symbol>>
             /\ Rest(piece, MetersTo) = stop
<1>1. PICK m, blank, to, comma : m = "m" /\ blank = " " /\ to = "to" /\ comma = ","
  OBVIOUS
<1>2. /\ m \in STRING /\ blank \in STRING /\ to \in STRING
      /\ comma \in Marks /\ m \in Marks /\ m # comma /\ blank # comma /\ to # comma
  BY <1>1, MarksInLines DEF Marks
<1>3. symbol \in STRING /\ symbol # m /\ symbol # comma
  BY <1>2, NumeralAssumption
<1>4. Lacks(stop, comma)
  BY <1>1
<1>5. PICK piece : piece = Join(<<symbol, m, blank, to, blank>>, stop)
  OBVIOUS
<1>6. /\ piece \in Line /\ piece # << >> /\ Lacks(piece, comma)
      /\ Token(piece, <<m, blank, to, blank>>) = <<symbol>>
      /\ Rest(piece, <<m, blank, to, blank>>) = stop
  <2>1. symbol # m /\ symbol # comma /\ m # comma /\ blank # comma /\ to # comma
    BY <1>2, <1>3
  <2>2. IsPiece(piece, symbol, m, blank, to, comma, stop)
    BY <1>2, <1>3, <1>4, <1>5, <2>1, Zenon DEF IsPiece
  <2> QED
    BY <2>2, PieceInParts, Zenon
<1>7. <<m, blank, to, blank>> = MetersTo
  BY <1>1 DEF MetersTo
<1>8. piece = <<symbol, "m", " ", "to", " ">> \o stop
  BY <1>1, <1>5 DEF Join
<1> QED
  BY <1>1, <1>6, <1>7, <1>8

\* A finite set as a sequence.
LEMMA ListOfSet ==
  ASSUME NEW S, NEW n \in Nat, NEW f \in [1 .. n -> S]
  PROVE  f \in Seq(S)
OBVIOUS

LEMMA SequenceOfSet ==
  ASSUME NEW S, IsFiniteSet(S)
  PROVE  /\ SetToSeq(S) \in Seq(S)
         /\ \A s \in S : \E i \in 1 .. Len(SetToSeq(S)) : SetToSeq(S)[i] = s
<1>1. PICK n : n = Cardinality(S)
  OBVIOUS
<1>2. /\ n \in Nat
      /\ \E f \in [1 .. n -> S] : \A a, b \in 1 .. n : f[a] = f[b] => a = b
      /\ \A f \in [1 .. n -> S] : (\A a, b \in 1 .. n : f[a] = f[b] => a = b) =>
           S = {f[a] : a \in 1 .. n}
  BY <1>1, Numbering
<1>3. PICK f : f = SetToSeq(S)
  OBVIOUS
<1>4. f \in [1 .. n -> S] /\ \A a, b \in 1 .. n : f[a] = f[b] => a = b
  <2>1. \A g \in [1 .. n -> S] : IsInjective(g) <=> \A a, b \in 1 .. n : g[a] = g[b] => a = b
    BY DEF IsInjective
  <2>2. f = CHOOSE g \in [1 .. n -> S] : IsInjective(g)
    BY <1>1, <1>3 DEF SetToSeq
  <2> QED
    BY <1>2, <2>1, <2>2
<1>5. f \in Seq(S) /\ Len(f) = n
  <2>1. f \in Seq(S)
    BY <1>2, <1>4, ListOfSet, Zenon
  <2>2. Len(f) \in Nat /\ DOMAIN f = 1 .. Len(f)
    BY <2>1, LenProperties
  <2>3. DOMAIN f = 1 .. n
    BY <1>4
  <2> QED
    BY <1>2, <2>1, <2>2, <2>3
<1> QED
  BY <1>2, <1>3, <1>4, <1>5

\* A list that two parts lead.
IsLed(S, parts, a, b, pieces) ==
  a \in S /\ b \in S /\ pieces \in Seq(S) /\ parts = <<a, b>> \o pieces

LEMMA TwoLed ==
  ASSUME NEW S, NEW parts, NEW a, NEW b, NEW pieces, IsLed(S, parts, a, b, pieces)
  PROVE      /\ parts \in Seq(S) /\ parts # << >> /\ parts[1] = a
             /\ Tail(parts) \in Seq(S) /\ Tail(parts) # << >> /\ Tail(parts)[1] = b
             /\ Tail(Tail(parts)) = pieces
<1> USE DEF IsLed
<1>1. PICK two : two = <<a, b>> /\ parts = two \o pieces
  OBVIOUS
<1>2. two \in Seq(S) /\ Len(two) = 2 /\ two[1] = a /\ two[2] = b
  BY <1>1
<1>3. /\ parts \in Seq(S) /\ Len(parts) = 2 + Len(pieces) /\ Len(pieces) \in Nat
      /\ \A i \in 1 .. 2 + Len(pieces) :
           parts[i] = IF i <= 2 THEN two[i] ELSE pieces[i - 2]
  <2>1. /\ two \o pieces \in Seq(S) /\ Len(two \o pieces) = Len(two) + Len(pieces)
        /\ \A i \in 1 .. Len(two) + Len(pieces) :
             (two \o pieces)[i] = IF i <= Len(two) THEN two[i] ELSE pieces[i - Len(two)]
    BY <1>2, ConcatProperties, Zenon
  <2>2. Len(pieces) \in Nat
    OBVIOUS
  <2> QED
    BY <1>1, <1>2, <2>1, <2>2, Zenon
<1>4. PICK t : t = Tail(parts)
  OBVIOUS
<1>5. /\ t \in Seq(S) /\ Len(t) = 1 + Len(pieces)
      /\ \A i \in 1 .. 1 + Len(pieces) : t[i] = parts[i + 1]
  BY <1>3, <1>4
<1>6. PICK u : u = Tail(t)
  OBVIOUS
<1>7. /\ u \in Seq(S) /\ Len(u) = Len(pieces)
      /\ \A i \in 1 .. Len(pieces) : u[i] = t[i + 1]
  BY <1>3, <1>5, <1>6
<1>8. ASSUME NEW i \in 1 .. Len(pieces) PROVE u[i] = pieces[i]
  <2>1. i \in Nat /\ i + 1 \in 1 .. 1 + Len(pieces) /\ (i + 1) + 1 \in 1 .. 2 + Len(pieces)
        /\ ~ ((i + 1) + 1 <= 2) /\ ((i + 1) + 1) - 2 = i
    BY <1>3
  <2>2. u[i] = t[i + 1] /\ t[i + 1] = parts[(i + 1) + 1]
    BY <1>5, <1>7, <2>1
  <2>3. parts[(i + 1) + 1] = pieces[((i + 1) + 1) - 2]
    BY <1>3, <2>1
  <2> QED
    BY <2>1, <2>2, <2>3
<1>9. u = pieces
  BY <1>7, <1>8, SeqEqual
<1>10. parts[1] = a /\ t[1] = b
  BY <1>2, <1>3, <1>5
<1>11. parts # << >> /\ t # << >>
  BY <1>3, <1>5
<1> QED
  BY <1>1, <1>3, <1>4, <1>5, <1>6, <1>9, <1>10, <1>11

LEMMA CommaMarks ==
  Comma \in Line /\ Comma # << >> /\ IsMarked(Comma, ",") /\ Comma = <<",", " ">>
<1>1. "," \in STRING /\ " " \in STRING
  BY MarksInLines DEF Marks
<1> QED
  BY <1>1, ShortLines, ShortMarked DEF Comma

\* What is behind the colon of the line of a stop.
IsStopBody(body, a, b, pieces) ==
  /\ a \in Line /\ Lacks(a, ",") /\ b \in Line /\ Lacks(b, ",")
  /\ pieces \in Seq(Line)
  /\ \A i \in 1 .. Len(pieces) : pieces[i] # << >> /\ Lacks(pieces[i], ",")
  /\ body = Between(<<a, b>> \o pieces, Comma)

LEMMA StopBodyApart ==
  ASSUME NEW body, NEW a, NEW b, NEW pieces, IsStopBody(body, a, b, pieces)
  PROVE  /\ body \in Line
         /\ Token(body, Comma) = a
         /\ Token(Rest(body, Comma), Comma) = b
         /\ Distances(Rest(Rest(body, Comma), Comma)) = pieces
<1> USE DEF IsStopBody
<1>1. PICK mark, comma : mark = "," /\ comma = Comma
  OBVIOUS
<1>2. comma \in Line /\ comma # << >> /\ IsMarked(comma, mark)
  BY <1>1, CommaMarks
<1>3. /\ Lacks(a, mark) /\ Lacks(b, mark)
      /\ \A i \in 1 .. Len(pieces) : pieces[i] # << >> /\ Lacks(pieces[i], mark)
  BY <1>1
<1>4. PICK parts : parts = <<a, b>> \o pieces
  OBVIOUS
<1>5. /\ parts \in Seq(Line) /\ parts # << >> /\ parts[1] = a
      /\ Tail(parts) \in Seq(Line) /\ Tail(parts) # << >> /\ Tail(parts)[1] = b
      /\ Tail(Tail(parts)) = pieces
  <2>1. IsLed(Line, parts, a, b, pieces)
    BY <1>4, Zenon DEF IsLed
  <2> QED
    BY <2>1, TwoLed, Zenon
<1>6. /\ Between(parts, comma) \in Line
      /\ Token(Between(parts, comma), comma) = a
      /\ Rest(Between(parts, comma), comma) = Between(Tail(parts), comma)
  BY <1>2, <1>3, <1>5, SplitBetween, Zenon
<1>7. /\ Token(Between(Tail(parts), comma), comma) = b
      /\ Rest(Between(Tail(parts), comma), comma) = Between(pieces, comma)
  BY <1>2, <1>3, <1>5, SplitBetween, Zenon
<1>8. Distances(Between(pieces, comma)) = pieces
  BY <1>1, <1>2, <1>3, ListsComeApart, Zenon
<1> QED
  BY <1>1, <1>4, <1>6, <1>7, <1>8, Zenon

LEMMA SameLength == \A m, n \in Nat : 1 .. m = 1 .. n => m = n
OBVIOUS

\* The stops a stop declares lengths to, one piece of the line for each.
AreStops(D, dist, stops, pieces) ==
  /\ IsFiniteSet(D) /\ \A s \in D : s \in Line /\ Lacks(s, ",")
  /\ dist \in [D -> 0 .. SizeLimit - 1] /\ \A s \in D : IsNumber(dist[s] * Unit)
  /\ stops = SetToSeq(D)
  /\ pieces = [i \in DOMAIN stops |->
                 <<Symbol[dist[stops[i]] * Unit], "m", " ", "to", " ">> \o stops[i]]

LengthsOf(pieces) ==
  [s \in {Rest(pieces[i], MetersTo) : i \in DOMAIN pieces} |->
     StoSize(Token(pieces[CHOOSE i \in DOMAIN pieces :
                            Rest(pieces[i], MetersTo) = s], MetersTo))]

LEMMA PiecesOfStops ==
  ASSUME NEW D, NEW dist, NEW stops, NEW pieces, AreStops(D, dist, stops, pieces)
  PROVE      /\ pieces \in Seq(Line)
             /\ \A i \in 1 .. Len(pieces) : pieces[i] # << >> /\ Lacks(pieces[i], ",")
             /\ \A i \in DOMAIN pieces : IsSize(Token(pieces[i], MetersTo))
             /\ dist = LengthsOf(pieces)
<1> USE DEF AreStops
<1>2. stops \in Seq(D) /\ \A s \in D : \E i \in 1 .. Len(stops) : stops[i] = s
  BY SequenceOfSet, Zenon
<1>3. Len(stops) \in Nat /\ DOMAIN stops = 1 .. Len(stops)
  BY <1>2, LenProperties, Zenon
<1>4. ASSUME NEW i \in DOMAIN stops PROVE stops[i] \in D
  BY <1>2, <1>3, ElementOfSeq
<1> DEFINE piece(i) ==
             <<Symbol[dist[stops[i]] * Unit], "m", " ", "to", " ">> \o stops[i]
<1>5. pieces = [i \in DOMAIN stops |-> piece(i)]
  OBVIOUS
<1>6. ASSUME NEW i \in DOMAIN stops
      PROVE  /\ piece(i) \in Line /\ piece(i) # << >> /\ Lacks(piece(i), ",")
             /\ Token(piece(i), MetersTo) = <<Symbol[dist[stops[i]] * Unit]>>
             /\ Rest(piece(i), MetersTo) = stops[i]
  <2>1. PICK symbol, stop : symbol = Symbol[dist[stops[i]] * Unit] /\ stop = stops[i]
    OBVIOUS
  <2>2. symbol \in DOMAIN Numeral /\ stop \in Line /\ Lacks(stop, ",")
    BY <1>4, <2>1, Zenon DEF IsNumber
  <2> QED
    BY <2>1, <2>2, PieceApart
<1>7. ASSUME NEW i \in DOMAIN stops
      PROVE  /\ IsSize(Token(piece(i), MetersTo))
             /\ StoSize(Token(piece(i), MetersTo)) = dist[stops[i]]
  <2>1. dist[stops[i]] \in 0 .. SizeLimit - 1 /\ IsNumber(dist[stops[i]] * Unit)
    BY <1>4
  <2> QED
    BY <1>6, <2>1, SizeAlone, Zenon
<1> HIDE DEF piece
<1>8. DOMAIN pieces = DOMAIN stops /\ \A i \in DOMAIN stops : pieces[i] = piece(i)
  BY <1>5
<1>9. pieces \in Seq(Line) /\ Len(pieces) = Len(stops)
  <2>1. pieces \in [1 .. Len(stops) -> Line]
    BY <1>3, <1>5, <1>6
  <2>2. pieces \in Seq(Line)
    BY <1>3, <2>1, ListOfSet, Zenon
  <2>3. Len(pieces) \in Nat /\ DOMAIN pieces = 1 .. Len(pieces)
    BY <2>2, LenProperties
  <2> QED
    BY <1>3, <1>8, <2>2, <2>3, SameLength, Zenon
<1>10. {Rest(pieces[i], MetersTo) : i \in DOMAIN pieces} = D
  <2>1. \A i \in DOMAIN stops : Rest(pieces[i], MetersTo) = stops[i]
    BY <1>6, <1>8
  <2> QED
    <3>1. \A s : s \in {Rest(pieces[i], MetersTo) : i \in DOMAIN pieces}
                   <=> \E i \in DOMAIN stops : s = stops[i]
      BY <1>8, <2>1, Zenon
    <3>2. \A s : s \in D <=> \E i \in DOMAIN stops : s = stops[i]
      BY <1>2, <1>3, <1>4
    <3> QED
      BY <3>1, <3>2, Zenon
<1> DEFINE number(s) == CHOOSE i \in DOMAIN pieces : Rest(pieces[i], MetersTo) = s
<1>11. ASSUME NEW s \in D
       PROVE  StoSize(Token(pieces[number(s)], MetersTo)) = dist[s]
  <2>1. \E i \in DOMAIN pieces : Rest(pieces[i], MetersTo) = s
    BY <1>10
  <2>2. number(s) \in DOMAIN pieces /\ Rest(pieces[number(s)], MetersTo) = s
    BY <2>1
  <2> HIDE DEF number
  <2>3. stops[number(s)] = s /\ pieces[number(s)] = piece(number(s))
    BY <1>6, <1>8, <2>2
  <2> QED
    BY <1>7, <1>8, <2>2, <2>3
<1>12. dist = [s \in D |-> StoSize(Token(pieces[number(s)], MetersTo))]
  <2> HIDE DEF number
  <2> QED
    BY <1>11
<1> HIDE DEF number
<1>13. \A i \in DOMAIN pieces : IsSize(Token(pieces[i], MetersTo))
  BY <1>7, <1>8
<1>14. \A i \in 1 .. Len(pieces) : pieces[i] # << >> /\ Lacks(pieces[i], ",")
  BY <1>3, <1>6, <1>8, <1>9
<1> QED
  <2>1. dist = [s \in {Rest(pieces[i], MetersTo) : i \in DOMAIN pieces} |->
                 StoSize(Token(pieces[CHOOSE i \in DOMAIN pieces :
                                                 Rest(pieces[i], MetersTo) = s], MetersTo))]
    BY <1>10, <1>12, Zenon DEF number
  <2> QED
    BY <1>9, <1>13, <1>14, <2>1, Zenon DEF LengthsOf

\* The line of a stop, with what is behind the colon.
LEMMA StopLineParts ==
  ASSUME NEW r, NEW stops, stops = SetToSeq(DOMAIN r.dist),
         NEW pieces,
         pieces = [i \in DOMAIN stops |->
                     <<Symbol[r.dist[stops[i]] * Unit], "m", " ", "to", " ">> \o stops[i]]
  PROVE  StopLine(r) =
           <<"Stop", " ">> \o r.name \o <<":", " ">> \o
           Between(<< <<Symbol[r.pos.latitude]>>, <<Symbol[r.pos.longitude]>> >> \o pieces,
                   Comma)
BY Zenon DEF StopLine, Comma

\* What the parser finds in the line of a stop.
StopFound(line, name, body, a, b, pieces) ==
  /\ Rest(Token(line, <<":", " ">>), Blank) = name
  /\ Rest(line, <<":", " ">>) = body
  /\ Token(body, Comma) = a /\ Token(Rest(body, Comma), Comma) = b
  /\ Distances(Rest(Rest(body, Comma), Comma)) = pieces
  /\ IsDouble(a) /\ IsDouble(b)
  /\ \A i \in DOMAIN pieces : IsSize(Token(pieces[i], MetersTo))

StopMade(line, n, name, a, b, pieces) ==
  AddStopFromLine(line, n) =
    AddStopRequestOf(n, name, Coordinates(StoDouble(a), StoDouble(b)), LengthsOf(pieces))

LEMMA StopOfLine ==
  \A line, n, name, body, a, b, pieces :
    StopFound(line, name, body, a, b, pieces) => StopMade(line, n, name, a, b, pieces)
<1> SUFFICES ASSUME NEW line, NEW n, NEW name, NEW body, NEW a, NEW b, NEW pieces,
                    StopFound(line, name, body, a, b, pieces)
             PROVE  AddStopFromLine(line, n) =
                      AddStopRequestOf(n, name, Coordinates(StoDouble(a), StoDouble(b)),
                                       LengthsOf(pieces))
  BY Zenon DEF StopMade
<1>1. AddStopFromLine(line, n) =
        IF /\ IsDouble(Token(Rest(line, <<":", " ">>), Comma))
           /\ IsDouble(Token(Rest(Rest(line, <<":", " ">>), Comma), Comma))
           /\ \A i \in DOMAIN Distances(Rest(Rest(Rest(line, <<":", " ">>), Comma), Comma)) :
                IsSize(Token(Distances(Rest(Rest(Rest(line, <<":", " ">>), Comma), Comma))[i], MetersTo))
          THEN AddStopRequestOf(n, Rest(Token(line, <<":", " ">>), Blank),
                 Coordinates(StoDouble(Token(Rest(line, <<":", " ">>), Comma)),
                             StoDouble(Token(Rest(Rest(line, <<":", " ">>), Comma), Comma))),
                 LengthsOf(Distances(Rest(Rest(Rest(line, <<":", " ">>), Comma), Comma))))
          ELSE Thrown
  BY DEF AddStopFromLine, LengthsOf
<1>2. AddStopFromLine(line, n) =
        IF /\ IsDouble(a) /\ IsDouble(b)
           /\ \A i \in DOMAIN pieces : IsSize(Token(pieces[i], MetersTo))
          THEN AddStopRequestOf(n, name, Coordinates(StoDouble(a), StoDouble(b)),
                                LengthsOf(pieces))
          ELSE Thrown
  <2>1. /\ Rest(Token(line, <<":", " ">>), Blank) = name
        /\ Rest(line, <<":", " ">>) = body
        /\ Token(body, Comma) = a /\ Token(Rest(body, Comma), Comma) = b
        /\ Distances(Rest(Rest(body, Comma), Comma)) = pieces
    BY DEF StopFound
  <2> QED
    BY <1>1, <2>1, Zenon
<1> QED
  BY <1>2, Zenon DEF StopFound

\* A stop that can be told of its line.
IsWrittenStop(r, n, name, latitude, longitude, D, dist) ==
  /\ name \in Line /\ Lacks(name, ":")
  /\ IsNumber(latitude) /\ IsNumber(longitude)
  /\ IsFiniteSet(D) /\ dist \in [D -> 0 .. SizeLimit - 1]
  /\ \A s \in D : s \in Line /\ Lacks(s, ",")
  /\ \A s \in D : IsNumber(dist[s] * Unit)
  /\ r = AddStopRequestOf(n, name, Coordinates(latitude, longitude), dist)

LEMMA StopLineAsWritten ==
  ASSUME NEW r, NEW n, NEW name, NEW latitude, NEW longitude, NEW D, NEW dist,
         IsWrittenStop(r, n, name, latitude, longitude, D, dist)
  PROVE  /\ StopLine(r) \in Line
         /\ Token(StopLine(r), Blank) = <<"Stop">>
         /\ AddStopFromLine(StopLine(r), n) = r
<1> USE DEF IsWrittenStop
<1>1. /\ r.name = name /\ r.dist = dist
      /\ r.pos.latitude = latitude /\ r.pos.longitude = longitude
  BY DEF AddStopRequestOf, Coordinates
<1>2. PICK stops : stops = SetToSeq(D)
  OBVIOUS
<1>3. PICK pieces :
        pieces = [i \in DOMAIN stops |->
                    <<Symbol[dist[stops[i]] * Unit], "m", " ", "to", " ">> \o stops[i]]
  OBVIOUS
<1>4. PICK a, b : a = <<Symbol[latitude]>> /\ b = <<Symbol[longitude]>>
  OBVIOUS
<1>5. PICK body : body = Between(<<a, b>> \o pieces, Comma)
  OBVIOUS
<1>6. PICK line : line = StopLine(r)
  OBVIOUS
<1>7. line = <<"Stop", " ">> \o name \o <<":", " ">> \o body
  <2>1. DOMAIN r.dist = D
    BY <1>1
  <2>2. stops = SetToSeq(DOMAIN r.dist)
    BY <1>2, <2>1, Zenon
  <2>3. pieces = [i \in DOMAIN stops |->
                    <<Symbol[r.dist[stops[i]] * Unit], "m", " ", "to", " ">> \o stops[i]]
    BY <1>1, <1>3, Zenon
  <2>4. StopLine(r) =
          <<"Stop", " ">> \o r.name \o <<":", " ">> \o
          Between(<< <<Symbol[r.pos.latitude]>>, <<Symbol[r.pos.longitude]>> >> \o pieces,
                  Comma)
    BY <2>2, <2>3, StopLineParts, Zenon
  <2> QED
    BY <1>1, <1>4, <1>5, <1>6, <2>4, Zenon
<1>8. /\ pieces \in Seq(Line)
      /\ \A i \in 1 .. Len(pieces) : pieces[i] # << >> /\ Lacks(pieces[i], ",")
      /\ \A i \in DOMAIN pieces : IsSize(Token(pieces[i], MetersTo))
      /\ dist = LengthsOf(pieces)
  <2>1. AreStops(D, dist, stops, pieces)
    BY <1>2, <1>3, Zenon DEF AreStops
  <2> QED
    BY <2>1, PiecesOfStops, Zenon
<1>9. /\ a \in Line /\ b \in Line /\ Lacks(a, ",") /\ Lacks(b, ",")
      /\ IsDouble(a) /\ IsDouble(b) /\ StoDouble(a) = latitude /\ StoDouble(b) = longitude
  <2>1. "," \in Marks
    BY DEF Marks
  <2>2. PICK symbol, other : symbol = Symbol[latitude] /\ other = Symbol[longitude]
    OBVIOUS
  <2>3. /\ symbol \in DOMAIN Numeral /\ Numeral[symbol] = latitude
        /\ other \in DOMAIN Numeral /\ Numeral[other] = longitude
    BY <2>2, Zenon DEF IsNumber
  <2>4. a = <<symbol>> /\ b = <<other>>
    BY <1>4, <2>2, Zenon
  <2> QED
    BY <2>1, <2>3, <2>4, NumberAlone
<1>10. /\ body \in Line
       /\ Token(body, Comma) = a
       /\ Token(Rest(body, Comma), Comma) = b
       /\ Distances(Rest(Rest(body, Comma), Comma)) = pieces
  <2>1. IsStopBody(body, a, b, pieces)
    BY <1>5, <1>8, <1>9, Zenon DEF IsStopBody
  <2> QED
    BY <2>1, StopBodyApart, Zenon
<1>11. /\ line \in Line
       /\ Token(line, Blank) = <<"Stop">>
       /\ Rest(Token(line, <<":", " ">>), Blank) = name
       /\ Rest(line, <<":", " ">>) = body
  BY <1>7, <1>10, NamedLine
<1>12. AddStopFromLine(line, n) =
         AddStopRequestOf(n, name, Coordinates(StoDouble(a), StoDouble(b)),
                          LengthsOf(pieces))
  <2>1. StopFound(line, name, body, a, b, pieces)
    BY <1>8, <1>9, <1>10, <1>11, Zenon DEF StopFound
  <2> QED
    <3>1. StopMade(line, n, name, a, b, pieces)
      BY <2>1, StopOfLine, Zenon
    <3> QED
      BY <3>1, Zenon DEF StopMade
<1>13. AddStopFromLine(line, n) = r
  BY <1>8, <1>9, <1>12, Zenon
<1> QED
  BY <1>6, <1>11, <1>13, Zenon

(***************************************************************************)
(* Texts that are written from requests.                                   *)
(***************************************************************************)
\* A name, or a length, can be told apart from what stands around it in a line.
IsTextStop(r, n) ==
  /\ r = AddStopRequestOf(n, r.name, Coordinates(r.pos.latitude, r.pos.longitude), r.dist)
  /\ r.name \in Line /\ Lacks(r.name, ":")
  /\ IsNumber(r.pos.latitude) /\ IsNumber(r.pos.longitude)
  /\ IsFiniteSet(DOMAIN r.dist) /\ r.dist \in [DOMAIN r.dist -> 0 .. SizeLimit - 1]
  /\ \A s \in DOMAIN r.dist : s \in Line /\ Lacks(s, ",") /\ IsNumber(r.dist[s] * Unit)

IsTextBus(r, n) ==
  LET roundtrip == r.type = "Circular"
  IN  /\ r = AddBusRequestOf(n, r.name, roundtrip, r.stops)
      /\ r.name \in Line /\ Lacks(r.name, ":")
      /\ r.stops \in Seq(Line) /\ (roundtrip => Len(r.stops) > 1)
      /\ \A i \in 1 .. Len(r.stops) : IsOnLine(r.stops[i], IF roundtrip THEN ">" ELSE "-")

IsTextBase(r, n) == IF IsStop(r) THEN IsTextStop(r, n) ELSE IsTextBus(r, n)

IsTextRead(q) ==
  /\ q = ReadRequestOf(0, q.request) /\ q.request.name \in Line
  /\ q.request \in {BusRead(q.request.name), StopRead(q.request.name)}

BaseLine(r) == IF IsStop(r) THEN StopLine(r) ELSE BusLine(r)

\* The words of the types.
LEMMA Words ==
  /\ STR_TO_MOD_REQUEST_TYPE[<<"Bus">>] = "ADD_BUS"
  /\ STR_TO_MOD_REQUEST_TYPE[<<"Stop">>] = "ADD_STOP"
  /\ DOMAIN STR_TO_MOD_REQUEST_TYPE = {<<"Bus">>, <<"Stop">>}
  /\ STR_TO_READ_REQUEST_TYPE[<<"Bus">>] = "GET_BUS"
  /\ STR_TO_READ_REQUEST_TYPE[<<"Stop">>] = "GET_STOP"
  /\ STR_TO_READ_REQUEST_TYPE[<<"Route">>] = "GET_ROUTE"
  /\ DOMAIN STR_TO_READ_REQUEST_TYPE = {<<"Bus">>, <<"Stop">>, <<"Route">>}
BY DEF STR_TO_MOD_REQUEST_TYPE, STR_TO_READ_REQUEST_TYPE

LEMMA LineGivesBase ==
  ASSUME NEW line, NEW n
  PROVE  /\ Token(line, Blank) = <<"Bus">> =>
              MakeRequestFromLine(STR_TO_MOD_REQUEST_TYPE, line, n) = AddBusFromLine(line, n)
         /\ Token(line, Blank) = <<"Stop">> =>
              MakeRequestFromLine(STR_TO_MOD_REQUEST_TYPE, line, n) = AddStopFromLine(line, n)
<1>1. PICK words, bus, stop : /\ words = STR_TO_MOD_REQUEST_TYPE
                              /\ bus = <<"Bus">> /\ stop = <<"Stop">>
  OBVIOUS
<1>2. bus \in DOMAIN words /\ stop \in DOMAIN words
  BY <1>1, Words
<1>3. words[bus] = "ADD_BUS" /\ words[stop] = "ADD_STOP"
  BY <1>1, Words
<1>4. ASSUME Token(line, Blank) = bus
      PROVE  MakeRequestFromLine(words, line, n) = AddBusFromLine(line, n)
  BY <1>2, <1>3, <1>4 DEF MakeRequestFromLine
<1>5. ASSUME Token(line, Blank) = stop
      PROVE  MakeRequestFromLine(words, line, n) = AddStopFromLine(line, n)
  BY <1>2, <1>3, <1>5 DEF MakeRequestFromLine
<1> QED
  BY <1>1, <1>4, <1>5

LEMMA LineGivesRead ==
  ASSUME NEW line, NEW n
  PROVE  /\ Token(line, Blank) = <<"Bus">> =>
              MakeRequestFromLine(STR_TO_READ_REQUEST_TYPE, line, n)
                = ReadRequestOf(0, BusRead(Rest(line, Blank)))
         /\ Token(line, Blank) = <<"Stop">> =>
              MakeRequestFromLine(STR_TO_READ_REQUEST_TYPE, line, n)
                = ReadRequestOf(0, StopRead(Rest(line, Blank)))
<1>1. PICK words, bus, stop : /\ words = STR_TO_READ_REQUEST_TYPE
                              /\ bus = <<"Bus">> /\ stop = <<"Stop">>
  OBVIOUS
<1>2. bus \in DOMAIN words /\ stop \in DOMAIN words
  BY <1>1, Words
<1>3. words[bus] = "GET_BUS" /\ words[stop] = "GET_STOP"
  BY <1>1, Words
<1>4. ASSUME Token(line, Blank) = bus
      PROVE  MakeRequestFromLine(words, line, n) = ReadRequestOf(0, BusRead(Rest(line, Blank)))
  BY <1>2, <1>3, <1>4 DEF MakeRequestFromLine
<1>5. ASSUME Token(line, Blank) = stop
      PROVE  MakeRequestFromLine(words, line, n) = ReadRequestOf(0, StopRead(Rest(line, Blank)))
  BY <1>2, <1>3, <1>5 DEF MakeRequestFromLine
<1> QED
  BY <1>1, <1>4, <1>5

\* A base request is what its line is read as.
LEMMA BaseLineAsWritten ==
  ASSUME NEW r, NEW n, IsTextBase(r, n)
  PROVE  /\ BaseLine(r) \in Line
         /\ MakeRequestFromLine(STR_TO_MOD_REQUEST_TYPE, BaseLine(r), n) = r
<1>1. CASE IsStop(r)
  <2>1. IsTextStop(r, n) /\ BaseLine(r) = StopLine(r)
    BY <1>1 DEF IsTextBase, BaseLine
  <2>2. PICK name, latitude, longitude, dist, D :
          /\ name = r.name /\ latitude = r.pos.latitude /\ longitude = r.pos.longitude
          /\ dist = r.dist /\ D = DOMAIN r.dist
    OBVIOUS
  <2>3. IsWrittenStop(r, n, name, latitude, longitude, D, dist)
    BY <2>1, <2>2, Zenon DEF IsTextStop, IsWrittenStop
  <2>4. /\ StopLine(r) \in Line
        /\ Token(StopLine(r), Blank) = <<"Stop">>
        /\ AddStopFromLine(StopLine(r), n) = r
    BY <2>3, StopLineAsWritten, Zenon
  <2> QED
    BY <2>1, <2>4, LineGivesBase, Zenon
<1>2. CASE ~ IsStop(r)
  <2>1. IsTextBus(r, n) /\ BaseLine(r) = BusLine(r)
    BY <1>2 DEF IsTextBase, BaseLine
  <2>2. PICK name, stops : name = r.name /\ stops = r.stops
    OBVIOUS
  <2>3. PICK roundtrip \in BOOLEAN : roundtrip = (r.type = "Circular")
    OBVIOUS
  <2>4. /\ name \in Line /\ Lacks(name, ":") /\ stops \in Seq(Line)
        /\ roundtrip => Len(stops) > 1
        /\ \A i \in 1 .. Len(stops) : IsOnLine(stops[i], IF roundtrip THEN ">" ELSE "-")
        /\ r = AddBusRequestOf(n, name, roundtrip, stops)
    BY <2>1, <2>2, <2>3, Zenon DEF IsTextBus
  <2>5. /\ BusLine(r) \in Line
        /\ Token(BusLine(r), Blank) = <<"Bus">>
        /\ AddBusFromLine(BusLine(r), n) = r
    BY <2>4, BusLineAsWritten
  <2> QED
    BY <2>1, <2>5, LineGivesBase, Zenon
<1> QED
  BY <1>1, <1>2

LEMMA ReadLineAsWritten ==
  ASSUME NEW q, IsTextRead(q), NEW n
  PROVE  /\ ReadLine(q) \in Line
         /\ MakeRequestFromLine(STR_TO_READ_REQUEST_TYPE, ReadLine(q), n) = q
<1>1. PICK name : name = q.request.name
  OBVIOUS
<1>2. /\ name \in Line /\ q = ReadRequestOf(0, q.request)
      /\ q.request = BusRead(name) \/ q.request = StopRead(name)
  BY <1>1 DEF IsTextRead
<1>3. ASSUME NEW word \in {"Bus", "Stop"}, q.request.type = word
      PROVE  /\ ReadLine(q) \in Line
             /\ Token(ReadLine(q), Blank) = <<word>> /\ Rest(ReadLine(q), Blank) = name
  <2>1. PICK b, line : b = " " /\ line = ReadLine(q)
    OBVIOUS
  <2>2. b \in STRING /\ word \in STRING /\ word # b /\ Blank = <<b>>
    <3>1. b \in STRING /\ word \in STRING /\ word # b
      <4>1. {"Bus", "Stop", " "} \subseteq Marks
        BY DEF Marks
      <4>2. \A w \in {"Bus", "Stop"} : w # " "
        OBVIOUS
      <4> QED
        BY <2>1, <4>1, <4>2, MarksInLines, Zenon
    <3> QED
      BY <2>1, <3>1, Zenon DEF Blank
  <2>3. line = Join(<<word, b>>, name)
    BY <1>1, <1>3, <2>1 DEF ReadLine, Join
  <2>4. PICK begin : begin = <<word>>
    OBVIOUS
  <2>5. begin \in Line /\ Blank \in Line /\ IsMarked(Blank, b) /\ Lacks(begin, b)
    BY <2>2, <2>4, ShortLines, ShortMarked, ShortLacks
  <2>6. line = Join(Join(begin, Blank), name)
    BY <2>2, <2>3, <2>4, TwoSymbols, Zenon
  <2>7. line = Join(begin, Join(Blank, name)) /\ line \in Line
    BY <1>2, <2>5, <2>6, Joins
  <2>8. Token(line, Blank) = begin /\ Rest(line, Blank) = name
    BY <1>2, <2>5, <2>7, CutAtDelim, Zenon
  <2> QED
    BY <2>1, <2>4, <2>7, <2>8, Zenon
<1>4. CASE q.request = BusRead(name)
  <2>1. q.request.type = "Bus"
    BY <1>4 DEF BusRead
  <2>2. /\ ReadLine(q) \in Line
        /\ Token(ReadLine(q), Blank) = <<"Bus">> /\ Rest(ReadLine(q), Blank) = name
    BY <1>3, <2>1
  <2> QED
    BY <1>2, <1>4, <2>2, LineGivesRead, Zenon
<1>5. CASE q.request = StopRead(name)
  <2>1. q.request.type = "Stop"
    BY <1>5 DEF StopRead
  <2>2. /\ ReadLine(q) \in Line
        /\ Token(ReadLine(q), Blank) = <<"Stop">> /\ Rest(ReadLine(q), Blank) = name
    BY <1>3, <2>1
  <2> QED
    BY <1>2, <1>5, <2>2, LineGivesRead, Zenon
<1> QED
  BY <1>2, <1>4, <1>5
=============================================================================
