---------------------------- MODULE InputFormats ----------------------------
(***************************************************************************)
(* Reference: how a list of base requests and a list of read requests are  *)
(* written down, as a document and as lines of text (json_input.txt, and   *)
(* the lines in the tests of main.cpp).                                    *)
(***************************************************************************)
EXTENDS JsonNodes, SequencesExt

CONSTANT
  Symbol    \* how a number is written, in units

Strings(names) == ArrayNode([i \in DOMAIN names |-> StringNode(names[i])])

Signed(units) ==
  DoubleNode(units < 0, IF units < 0 THEN -units ELSE units)

\* Lengths and ids are numbers that may have decimals, which the program drops.
WithDecimals(n, decimals) == DoubleNode(FALSE, n * Unit + decimals)

StopNode(r, decimals) ==
  Fields([type |-> StringNode(<<"Stop">>),
          name |-> StringNode(r.name),
          latitude |-> Signed(r.pos.latitude),
          longitude |-> Signed(r.pos.longitude),
          road_distances |->
            MapNode([s \in DOMAIN r.dist |-> WithDecimals(r.dist[s], decimals)])])

BusNode(r) ==
  Fields([type |-> StringNode(<<"Bus">>),
          name |-> StringNode(r.name),
          is_roundtrip |-> BoolNode(r.type = "Circular"),
          stops |-> Strings(r.stops)])

ReadNode(q, decimals) ==
  IF q.request.type = "Route"
    THEN Fields([type |-> StringNode(<<"Route">>),
                 id |-> WithDecimals(q.id, decimals),
                 from |-> StringNode(q.request.from),
                 to |-> StringNode(q.request.to)])
    ELSE Fields([type |-> StringNode(<<q.request.type>>),
                 id |-> WithDecimals(q.id, decimals),
                 name |-> StringNode(q.request.name)])

IsStop(r) == "pos" \in DOMAIN r

BaseNode(r, decimals) == IF IsStop(r) THEN StopNode(r, decimals) ELSE BusNode(r)

Document(asked, velocity, wait_time, decimals) ==
  Fields([routing_settings |-> Fields([bus_velocity |-> Signed(velocity * Unit),
                                       bus_wait_time |-> Signed(wait_time * Unit)]),
          base_requests |->
            ArrayNode([n \in DOMAIN asked.base |-> BaseNode(asked.base[n], decimals)]),
          stat_requests |->
            ArrayNode([n \in DOMAIN asked.stat |-> ReadNode(asked.stat[n], decimals)])])

-----------------------------------------------------------------------------
Between(parts, delim) ==
  FlattenSeq([i \in DOMAIN parts |->
                (IF i = 1 THEN << >> ELSE delim) \o parts[i]])

BusLine(r) ==
  <<"Bus", " ">> \o r.name \o <<":", " ">> \o
  Between(r.stops, <<" ", IF r.type = "Circular" THEN ">" ELSE "-", " ">>)

StopLine(r) ==
  LET stops == SetToSeq(DOMAIN r.dist)
  IN  <<"Stop", " ">> \o r.name \o <<":", " ">> \o
      Between(<< <<Symbol[r.pos.latitude]>>, <<Symbol[r.pos.longitude]>> >> \o
              [i \in DOMAIN stops |->
                 <<Symbol[r.dist[stops[i]] * Unit], "m", " ", "to", " ">> \o stops[i]],
              <<",", " ">>)

ReadLine(q) == <<q.request.type, " ">> \o q.request.name

CountLine(requests) == <<Symbol[Len(requests) * Unit]>>

LinesOf(asked) ==
  <<CountLine(asked.base)>> \o
  [n \in DOMAIN asked.base |->
     IF IsStop(asked.base[n]) THEN StopLine(asked.base[n]) ELSE BusLine(asked.base[n])]
  \o <<CountLine(asked.stat)>> \o [n \in DOMAIN asked.stat |-> ReadLine(asked.stat[n])]

=============================================================================
