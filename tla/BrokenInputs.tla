---------------------------- MODULE BrokenInputs ----------------------------
(***************************************************************************)
(* What may have gone wrong with an input: a part of it is wrong or        *)
(* missing, or it ends early.                                              *)
(***************************************************************************)
EXTENDS InputFormats

InputFields == {<<"routing_settings">>, <<"bus_velocity">>, <<"bus_wait_time">>,
           <<"base_requests">>, <<"stat_requests">>, <<"type">>, <<"name">>,
           <<"is_roundtrip">>, <<"stops">>, <<"latitude">>, <<"longitude">>,
           <<"road_distances">>, <<"id">>, <<"from">>, <<"to">>}

Without(entries, key) == [k \in DOMAIN entries \ {key} |-> entries[k]]

\* A node of another alternative.
Wrong(node) ==
  IF Holds(node, "bool") THEN StringNode(<<"true">>) ELSE BoolNode(TRUE)

BelowZero == DoubleNode(TRUE, 5 * Unit)

RECURSIVE Damaged(_)

\* The document with one part of it wrong or missing.
Damaged(node) ==
  {Wrong(node)} \cup
  IF Holds(node, "map")
    THEN {MapNode(Without(node.map, key)) : key \in DOMAIN node.map \cap InputFields}
         \cup {MapNode([node.map EXCEPT ![key] = StringNode(<<"Tram">>)]) :
                 key \in DOMAIN node.map \cap {<<"type">>}}
         \cup {MapNode([node.map EXCEPT ![key] = BelowZero]) :
                 key \in DOMAIN node.map \ (InputFields \ {<<"id">>})}
         \cup UNION {{MapNode([node.map EXCEPT ![key] = wrong]) :
                        wrong \in Damaged(node.map[key])} : key \in DOMAIN node.map}
  ELSE IF Holds(node, "array")
    THEN UNION {{ArrayNode([node.array EXCEPT ![n] = wrong]) :
                   wrong \in Damaged(node.array[n])} : n \in DOMAIN node.array}
    ELSE {}

\* What LoadNode makes up at the end of the file: c may be any character.
MadeUp == {ArrayNode(<< >>), MapNode(<< >>), StringNode(<< >>), BoolNode(TRUE),
           BoolNode(FALSE), DoubleNode(FALSE, 0)}

\* The number without its last digits.  Bound: it has at most two before the point.
Shortened(node) ==
  {DoubleNode(node.negative, (node.magnitude \div digits) * digits) :
     digits \in {Power[k] : k \in 0 .. Places}}
  \cup {DoubleNode(node.negative, (node.magnitude \div (10 * Unit)) * Unit)}

RECURSIVE Cut(_)

\* What is left of a node when the file ends in it.  Any field of a map may stand
\* last; of a request, which needs all its fields, one that is missing stands for
\* several.
Cut(node) ==
  MadeUp \cup
  IF Holds(node, "string") THEN {StringNode(Front(node.string))}
  ELSE IF Holds(node, "magnitude") THEN Shortened(node)
  ELSE IF Holds(node, "array")
    THEN UNION {{ArrayNode(SubSeq(node.array, 1, n))} \cup
                {ArrayNode(Append(SubSeq(node.array, 1, n - 1), cut)) :
                   cut \in Cut(node.array[n])} : n \in DOMAIN node.array}
  ELSE IF Holds(node, "map")
    THEN UNION {LET others == Without(node.map, key)
                IN  {MapNode(others)} \cup
                    {MapNode((key :> cut) @@ others) : cut \in Cut(node.map[key])} \cup
                    {MapNode(others @@ (Front(key) :> cut)) : cut \in MadeUp} :
                  key \in DOMAIN node.map}
    ELSE {}

\* The document that ends in the list that stands last in it.
CutDocuments(root, last) ==
  {MapNode(Without(root.map, <<last>>))} \cup
  {MapNode([root.map EXCEPT ![<<last>>] = cut]) : cut \in Cut(At(root, last))}

\* The text up to any of its symbols.
CutLines(lines) ==
  UNION {{Append(SubSeq(lines, 1, n - 1), SubSeq(lines[n], 1, m)) :
            m \in 0 .. Len(lines[n])} : n \in DOMAIN lines}
=============================================================================
