----------------------------- MODULE JsonReader -----------------------------
(***************************************************************************)
(* Json::Load (json.cpp): LoadNode and the functions it calls, which call  *)
(* it again.  The calls that have not returned are `stack`; a string, a    *)
(* number or a bool is read in one step.  The files are documents that     *)
(* ToJson printed, with the layout or without it, as far as they go: a     *)
(* file may end anywhere.                                                  *)
(*                                                                         *)
(* input >> c leaves c alone when the file has ended.  Where c has no      *)
(* value yet, it is any character then.                                    *)
(***************************************************************************)
EXTENDS Json

CONSTANTS
  Documents,  \* the nodes whose texts are read
  SizeLimit,  \* of size_t: 2^64
  NoNode

ASSUME SizeAssumption == SizeLimit \in Nat \ {0}

VARIABLES
  text,   \* the file
  pos,    \* how many of its characters have been taken
  stack,  \* calls of LoadArray and LoadDict: the result so far, a dict's key
  root,   \* what Load returns
  pc      \* "node": LoadNode is called; "loop": of the last call on the stack

vars == <<text, pos, stack, root, pc>>

\* With the layout of ToJson, and without it.
Blanks == {<<" ">>, << >>}

Written == {[document |-> d, blank |-> blank, text |-> ToJson(Documents, blank)[d]] :
              d \in Documents, blank \in Blanks}

Beginnings(s) == {SubSeq(s, 1, n) : n \in 0 .. Len(s)}

Files == UNION {Beginnings(w.text) : w \in Written}

\* Type correctness of the reader: the calls that have
\* not returned fill an array or a map, and there is a root when none is left.
ReaderTypeOK ==
  /\ pos \in 0 .. Len(text)
  /\ pc \in {"node", "loop", "done"}
  /\ \A n \in DOMAIN stack :
       \/ Holds(stack[n].node, "array")
       \/ Holds(stack[n].node, "map")
  /\ (pc = "done") <=> (root # NoNode)

Init ==
  /\ text \in Files
  /\ pos = 0
  /\ stack = << >>
  /\ root = NoNode
  /\ pc = "node"

-----------------------------------------------------------------------------
(***************************************************************************)
(* The stream.  An operator that reads from p on says where it gets to.    *)
(***************************************************************************)
\* The first place from p on where a character comes that is not one of `set`.
EndOfRun(p, set) ==
  CHOOSE q \in p .. Len(text) :
    /\ q = Len(text) \/ text[q + 1] \notin set
    /\ \A r \in p .. q - 1 : text[r + 1] \in set

Skip(p) == EndOfRun(p, {" "})

AtEnd(p) == Skip(p) = Len(text)

\* input >> c
After(p) == IF AtEnd(p) THEN Len(text) ELSE Skip(p) + 1

\* One character for each branch of LoadNode and LoadBool.
Uninitialized == {"[", "{", "\"", "t", "0", "a"}

Fetched(p) == IF AtEnd(p) THEN Uninitialized ELSE {text[Skip(p) + 1]}

\* The next character is c, for input.peek() and for the loops.
Peeks(p, c) == p < Len(text) /\ text[p + 1] = c

Digit == {DigitChars[n] : n \in DOMAIN DigitChars}

\* The digits between two places, in a size_t.
Integer(from, to) ==
  LET value(c) == CHOOSE n \in 0 .. 9 : DigitChars[n + 1] = c
      integer[p \in 0 .. to] ==
        IF p <= from THEN 0 ELSE (10 * integer[p - 1] + value(text[p])) % SizeLimit
  IN  integer[to]

\* Faulty variant: a fraction counts as if it had one digit.
LoadDoubleTenths(p) ==
  LET start == IF Peeks(p, "-") THEN p + 1 ELSE p
      dot == EndOfRun(start, Digit)
      end == IF Peeks(dot, ".") THEN EndOfRun(dot + 1, Digit) ELSE dot
  IN  [node |-> DoubleNode(start > p,
                           Integer(start, dot) * Power[Places]
                             + Integer(dot + 1, end) * Power[Places - 1]),
       pos |-> end]

LoadDouble(p) ==
  LET start == IF Peeks(p, "-") THEN p + 1 ELSE p
      dot == EndOfRun(start, Digit)
      end == IF Peeks(dot, ".") THEN EndOfRun(dot + 1, Digit) ELSE dot
      digits == IF end > dot THEN end - dot - 1 ELSE 0
  IN  [node |-> DoubleNode(start > p,
                           Integer(start, dot) * Power[Places]
                             + Integer(dot + 1, end) * Power[Places - digits]),
       pos |-> end]

\* Faulty variant: the closing quote is stepped over where there is none.
LoadStringPastEnd(p) ==
  LET end == EndOfRun(p, {text[n] : n \in DOMAIN text} \ {"\""})
  IN  [node |-> StringNode(SubSeq(text, p + 1, end)), pos |-> end + 1]

LoadString(p) ==
  LET end == EndOfRun(p, {text[n] : n \in DOMAIN text} \ {"\""})
  IN  [node |-> StringNode(SubSeq(text, p + 1, end)),
       pos |-> IF Peeks(end, "\"") THEN end + 1 ELSE end]

\* The letters after the first decide, and only the second one is looked at.
LoadBool(p) ==
  {[node |-> BoolNode(c # "a"),
    pos |-> IF c = "a" THEN After(After(After(After(p))))
                       ELSE After(After(After(p)))] : c \in Fetched(p)}

-----------------------------------------------------------------------------
\* push_back, or emplace, which keeps what the key has already.
Added(call, node) ==
  IF Holds(call.node, "array")
    THEN [call EXCEPT !.node.array = Append(@, node)]
    ELSE [call EXCEPT !.node.map =
            [k \in DOMAIN @ \cup {call.key} |->
               IF k \in DOMAIN @ THEN @[k] ELSE node]]

\* A node is returned to the last of the calls.
Return(calls, node) ==
  IF calls = << >>
    THEN /\ stack' = << >>
         /\ root' = node
         /\ pc' = "done"
    ELSE /\ stack' = [calls EXCEPT ![Len(calls)] = Added(@, node)]
         /\ pc' = "loop"
         /\ UNCHANGED root

Call(node) ==
  /\ stack' = Append(stack, [node |-> node, key |-> << >>])
  /\ pc' = "loop"
  /\ UNCHANGED root

\* LoadNode, for one character it may find.
LoadNode(c) ==
  /\ pc = "node"
  /\ c \in Fetched(pos)
  /\ UNCHANGED text
  /\ \/ /\ c = "["
        /\ Call(ArrayNode(<< >>))
        /\ pos' = After(pos)
     \/ /\ c = "{"
        /\ Call(MapNode(<< >>))
        /\ pos' = After(pos)
     \/ /\ c = "\""
        /\ LET string == LoadString(After(pos))
           IN  Return(stack, string.node) /\ pos' = string.pos
     \/ /\ c \in {"t", "f"}
        /\ \E bool \in LoadBool(After(pos)) :
             Return(stack, bool.node) /\ pos' = bool.pos
     \/ /\ c \notin {"[", "{", "\"", "t", "f"}
        /\ LET double == LoadDouble(Skip(pos))
           IN  Return(stack, double.node) /\ pos' = double.pos

\* The last of the calls, and the calls below it.
Top == stack[Len(stack)]

Below == SubSeq(stack, 1, Len(stack) - 1)

Looping(alternative) == pc = "loop" /\ Holds(Top.node, alternative)

\* The loops end at the closing bracket, or where the file ends.
EndLoop(alternative, bracket) ==
  /\ Looping(alternative)
  /\ AtEnd(pos) \/ Peeks(Skip(pos), bracket)
  /\ pos' = After(pos)
  /\ Return(Below, Top.node)
  /\ UNCHANGED text

\* Faulty variant: a comma is put back as well.
NextItemPutBack ==
  /\ Looping("array")
  /\ ~ AtEnd(pos) /\ ~ Peeks(Skip(pos), "]")
  /\ Len(Top.node.array) <= Len(text)
  /\ pos' = Skip(pos)
  /\ pc' = "node"
  /\ UNCHANGED <<text, stack, root>>

\* LoadArray.  Items that take no character repeat for ever: the model stops
\* there when it has more of them than the file has characters.
NextItem ==
  /\ Looping("array")
  /\ ~ AtEnd(pos) /\ ~ Peeks(Skip(pos), "]")
  /\ Len(Top.node.array) <= Len(text)
  /\ pos' = IF Peeks(Skip(pos), ",") THEN After(pos) ELSE Skip(pos)
  /\ pc' = "node"
  /\ UNCHANGED <<text, stack, root>>

\* Faulty variant: the quote after a comma is not skipped.
NextEntryAfterComma ==
  /\ Looping("map")
  /\ ~ AtEnd(pos) /\ ~ Peeks(Skip(pos), "}")
  /\ LET key == LoadString(After(pos))
     IN  /\ stack' = [stack EXCEPT ![Len(stack)].key = key.node.string]
         /\ pos' = After(key.pos)
  /\ pc' = "node"
  /\ UNCHANGED <<text, root>>

\* LoadDict: the character before a key and the one after it are not looked at.
NextEntry ==
  /\ Looping("map")
  /\ ~ AtEnd(pos) /\ ~ Peeks(Skip(pos), "}")
  /\ LET quote == IF Peeks(Skip(pos), ",") THEN After(After(pos))
                                           ELSE After(pos)
         key == LoadString(quote)
     IN  /\ stack' = [stack EXCEPT ![Len(stack)].key = key.node.string]
         /\ pos' = After(key.pos)
  /\ pc' = "node"
  /\ UNCHANGED <<text, root>>

Next ==
  \/ \E c \in Fetched(pos) : LoadNode(c)
  \/ EndLoop("array", "]")
  \/ EndLoop("map", "}")
  \/ NextItem
  \/ NextEntry

\* Load is called, and runs on.
Spec == Init /\ [][Next]_vars /\ WF_vars(Next)

-----------------------------------------------------------------------------
\* What ToJson printed is read back as the node it was printed from, with its
\* line breaks and without them.
ReadsWhatIsWritten ==
  \A w \in Written : pc = "done" /\ text = w.text => root = w.document

\* What LoadNode may return when the file has ended.
EndNodes ==
  { ArrayNode(<< >>), MapNode(<< >>), StringNode(<< >>), BoolNode(TRUE),
    BoolNode(FALSE), DoubleNode(FALSE, 0) }

\* `node` is what can be left of `whole`: all but the last item or entry that
\* is read are whole, and the last is cut in turn.
IsCutOf(node, whole) ==
  LET cut[n \in Parts({node}), w \in Parts({whole})] ==
        \/ n = w
        \/ n \in EndNodes
        \/ /\ Holds(n, "string") /\ Holds(w, "string")
           /\ n.string \in Beginnings(w.string)
        \/ /\ Holds(n, "magnitude") /\ Holds(w, "magnitude")
           /\ n.negative = w.negative
           /\ n.magnitude <= w.magnitude
        \/ /\ Holds(n, "array") /\ Holds(w, "array")
           /\ Len(n.array) <= Len(w.array)
           /\ \A i \in DOMAIN n.array :
                \/ n.array[i] = w.array[i]
                \/ i = Len(n.array) /\ cut[n.array[i], w.array[i]]
        \/ /\ Holds(n, "map") /\ Holds(w, "map")
           /\ \E last \in DOMAIN n.map :
                /\ \/ n.map[last] \in EndNodes
                   \/ last \in DOMAIN w.map /\ cut[n.map[last], w.map[last]]
                /\ \A k \in DOMAIN n.map \ {last} :
                     k \in DOMAIN w.map /\ n.map[k] = w.map[k]
  IN  cut[node, whole]

\* A file that ends early is not refused.  What is read of it is the beginning
\* of the document: nothing but its last part is missing, wrong or made up.
CutLosesOnlyTheEnd ==
  \A w \in Written :
    pc = "done" /\ text \in Beginnings(w.text) => IsCutOf(root, w.document)

\* Reading comes to an end, wherever the file ends.
Terminates == <>(pc = "done")

\* main.cpp, ToJsonAndBack: "ASSERT_EQUAL(first, second);", where the one is
\* printed from a document and the other from what is read of the first.
SameTextAgain ==
  \A w \in Written :
    pc = "done" /\ text = w.text => ToJson({root}, w.blank)[root] = text
=============================================================================
