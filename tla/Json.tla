--------------------------------- MODULE Json ---------------------------------
(***************************************************************************)
(* ToJson, which prints nodes (json.h, json.cpp).  A text is a sequence of *)
(* characters, a string a sequence of them as well, since the reader may   *)
(* start or stop in the middle of one.  The line breaks and blanks of the  *)
(* layout are one `blank` each time, which may be none.                    *)
(***************************************************************************)
EXTENDS JsonNodes, FiniteSets

CONSTANTS
  Characters,  \* all of them, in the order of their codes
  Precision,   \* of an ostream: digits of a double that are printed
  Depth        \* bound: how deep nodes are nested

DigitChars == <<"0", "1", "2", "3", "4", "5", "6", "7", "8", "9">>

\* Those that ToJson prints of its own accord.
Syntax ==
  {" ", "\"", ",", "-", "+", ".", ":", "[", "]", "{", "}",
   "a", "e", "f", "l", "r", "s", "t", "u"}
    \cup {DigitChars[n] : n \in DOMAIN DigitChars}

ASSUME JsonAssumption ==
  /\ Precision \in Nat \ {0}
  /\ Depth \in Nat
  /\ DOMAIN Characters \subseteq Nat
  /\ Syntax \subseteq {Characters[n] : n \in DOMAIN Characters}

-----------------------------------------------------------------------------
(***************************************************************************)
(* out << num, for a double: at most Precision digits, no trailing zeros,  *)
(* and an exponent when the number is too large for that (or too small).   *)
(***************************************************************************)
\* The number of digits of a natural number.
Width[n \in Nat] == IF n < 10 THEN 1 ELSE 1 + Width[n \div 10]

\* The digits of n, with zeros before them to make `width`.
Digits(n, width) ==
  [i \in 1 .. width |-> DigitChars[((n \div Power[width - i]) % 10) + 1]]

\* n rounded to a multiple of unit, a half to the even one.
Rounded(n, unit) ==
  LET rest == n % unit
      up == 2 * rest > unit \/ (2 * rest = unit /\ (n \div unit) % 2 = 1)
  IN  n - rest + (IF up THEN unit ELSE 0)

\* `whole` units and `fraction`, which has `places` digits.
Decimal(whole, fraction, places) ==
  LET kept == CHOOSE k \in 0 .. places :
                /\ fraction % Power[places - k] = 0
                /\ k > 0 => fraction % Power[places - k + 1] # 0
  IN  Digits(whole, Width[whole]) \o
      (IF kept = 0 THEN << >>
       ELSE <<".">> \o Digits(fraction \div Power[places - kept], kept))

Exponent(x) ==
  LET size == IF x < 0 THEN -x ELSE x
  IN  <<"e", IF x < 0 THEN "-" ELSE "+">>
        \o Digits(size, IF size < 10 THEN 2 ELSE Width[size])

DoubleToJson(node) ==
  LET surplus == Width[node.magnitude] - Precision
      rounded == IF surplus <= 0 THEN node.magnitude
                                 ELSE Rounded(node.magnitude, Power[surplus])
      top == Width[rounded] - 1
      x == top - Places
  IN  (IF node.negative THEN <<"-">> ELSE << >>) \o
      (IF rounded = 0 \/ x \in -4 .. Precision - 1
         THEN Decimal(rounded \div Power[Places], rounded % Power[Places], Places)
         ELSE Decimal(rounded \div Power[top], rounded % Power[top], top)
                \o Exponent(x))

-----------------------------------------------------------------------------
Quoted(string) == <<"\"">> \o string \o <<"\"">>

BoolToJson(bool) ==
  IF bool THEN <<"t", "r", "u", "e">> ELSE <<"f", "a", "l", "s", "e">>

\* std::less of two keys.
Before(k, l) ==
  LET rank(c) == CHOOSE n \in DOMAIN Characters : Characters[n] = c
  IN  \E n \in 1 .. Len(l) :
        /\ n <= Len(k) + 1 /\ \A m \in 1 .. n - 1 : k[m] = l[m]
        /\ n <= Len(k) => rank(k[n]) < rank(l[n])

\* The keys of a map, in their order.
Keys(entries) ==
  CHOOSE keys \in [1 .. Cardinality(DOMAIN entries) -> DOMAIN entries] :
    \A m, n \in DOMAIN keys : m < n => Before(keys[m], keys[n])

\* The items of an array or a map, in their order.
Items(node) ==
  IF Holds(node, "array") THEN node.array
  ELSE IF Holds(node, "map") THEN [n \in DOMAIN Keys(node.map) |-> node.map[Keys(node.map)[n]]]
  ELSE << >>

\* What is printed before the n-th item.
Label(node, n, blank) ==
  IF Holds(node, "map") THEN Quoted(Keys(node.map)[n]) \o <<":">> \o blank ELSE << >>

\* An array or a map up to its n-th item, if printed[item] is printed of an item.
Row(open, node, printed, blank) ==
  LET row[n \in 0 .. Len(Items(node))] ==
        IF n = 0 THEN <<open>>
        ELSE row[n - 1] \o (IF n = 1 THEN << >> ELSE <<",">>) \o blank
               \o Label(node, n, blank) \o printed[Items(node)[n]]
  IN  row

Enclosed(open, node, close, printed, blank) ==
  Row(open, node, printed, blank)[Len(Items(node))]
    \o (IF Items(node) = << >> THEN << >> ELSE blank) \o <<close>>

NodeToJson(node, printed, blank) ==
  CASE Holds(node, "array") -> Enclosed("[", node, "]", printed, blank)
    [] Holds(node, "string") -> Quoted(node.string)
    [] Holds(node, "map") -> Enclosed("{", node, "}", printed, blank)
    [] Holds(node, "magnitude") -> DoubleToJson(node)
    [] Holds(node, "bool") -> BoolToJson(node.bool)

\* The nodes, their items, the items of these, and so on.
Parts(nodes) ==
  LET within[n \in 0 .. Depth] ==
        IF n = 0 THEN nodes
        ELSE within[n - 1] \cup
               UNION {{Items(m)[i] : i \in DOMAIN Items(m)} : m \in within[n - 1]}
  IN  within[Depth]

\* The texts of nodes and of all their parts.
ToJson(nodes, blank) ==
  LET printed[node \in Parts(nodes)] == NodeToJson(node, printed, blank) IN printed
=============================================================================
