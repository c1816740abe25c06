---------------------------- MODULE JsonRequests ----------------------------
(***************************************************************************)
(* How requests are made of nodes: MakeRequestFromJson (main.cpp), the     *)
(* ParseFromJson of the five requests (Command.cpp), and AnswerToJson,     *)
(* which makes nodes of the answers (main.cpp).                            *)
(***************************************************************************)
EXTENDS Commands, JsonNodes, SequencesExt

CONSTANTS
  NotANumber,   \* what a double prints as that is nan or inf
  ErrorMessage  \* NUM_TO_ERROR.at(kErrorNotFound)

Name(node) == At(node, "name").string

AddBusFromJson(node, n) ==
  IF /\ Has(node, "name", "string")
     /\ Has(node, "is_roundtrip", "bool")
     /\ Has(node, "stops", "array")
     /\ \A i \in DOMAIN At(node, "stops").array :
          Holds(At(node, "stops").array[i], "string")
    THEN AddBusRequestOf(n, Name(node), At(node, "is_roundtrip").bool,
                         [i \in DOMAIN At(node, "stops").array |->
                            At(node, "stops").array[i].string])
    ELSE Thrown

\* Faulty variant: the coordinates are taken in the order of the map.
PosSwapped(node) ==
  Coordinates(InUnits(At(node, "longitude")), InUnits(At(node, "latitude")))

Pos(node) ==
  Coordinates(InUnits(At(node, "latitude")), InUnits(At(node, "longitude")))

\* A length is a double in the document and a size_t in the request.
AddStopFromJson(node, n) ==
  IF ~ /\ Has(node, "name", "string")
       /\ Has(node, "latitude", "magnitude")
       /\ Has(node, "longitude", "magnitude")
       /\ Has(node, "road_distances", "map")
       /\ \A length \in Range(At(node, "road_distances").map) :
            Holds(length, "magnitude")
    THEN Thrown
  ELSE IF \E length \in Range(At(node, "road_distances").map) :
            IsBelowZero(length)
    THEN Unspecified
    ELSE LET lengths == At(node, "road_distances").map
         IN  AddStopRequestOf(n, Name(node), Pos(node),
                              [stop \in DOMAIN lengths |->
                                 Truncated(lengths[stop])])

\* The last field each read request asks for is its id.
WithId(node, request) ==
  IF ~ Has(node, "id", "magnitude") THEN Thrown
  ELSE IF IsBelowZero(At(node, "id")) THEN Unspecified
  ELSE ReadRequestOf(Truncated(At(node, "id")), request)

GetBusFromJson(node) ==
  IF Has(node, "name", "string") THEN WithId(node, BusRead(Name(node)))
                                 ELSE Thrown

GetStopFromJson(node) ==
  IF Has(node, "name", "string") THEN WithId(node, StopRead(Name(node)))
                                 ELSE Thrown

GetRouteFromJson(node) ==
  IF Has(node, "from", "string") /\ Has(node, "to", "string")
    THEN WithId(node, RouteRead(At(node, "from").string, At(node, "to").string))
    ELSE Thrown

\* The n-th request of its list, for the words of `index`.
MakeRequestFromJson(index, node, n) ==
  IF ~ (Has(node, "type", "string") /\ At(node, "type").string \in DOMAIN index)
    THEN Thrown
    ELSE CASE index[At(node, "type").string] = "ADD_BUS" -> AddBusFromJson(node, n)
           [] index[At(node, "type").string] = "ADD_STOP" -> AddStopFromJson(node, n)
           [] index[At(node, "type").string] = "GET_BUS" -> GetBusFromJson(node)
           [] index[At(node, "type").string] = "GET_STOP" -> GetStopFromJson(node)
           [] index[At(node, "type").string] = "GET_ROUTE" -> GetRouteFromJson(node)

-----------------------------------------------------------------------------
(***************************************************************************)
(* AnswerToJson, for the answer that a request is given.                   *)
(***************************************************************************)
\* A length, a time or a count: NaN or infinite where it is not a natural number.
NumberNode(x) == IF x \in Nat THEN DoubleNode(FALSE, x * Unit) ELSE NotANumber

\* A quotient is cut off after the last decimal.
QuotientNode(x, y) ==
  IF {x, y} \subseteq Nat /\ y # 0 THEN DoubleNode(FALSE, (x * Unit) \div y)
                                   ELSE NotANumber

ErrorToJson(id) ==
  Fields([request_id |-> SizeNode(id), error_message |-> StringNode(ErrorMessage)])

BusAnswerToJson(id, info) ==
  Fields([request_id |-> SizeNode(id),
          route_length |-> NumberNode(info.route_length),
          curvature |-> QuotientNode(info.route_length, info.geom_length),
          stop_count |-> NumberNode(info.stop_count),
          unique_stop_count |-> NumberNode(info.unique_stop_count)])

\* The names are in the order of a set; which one it is does not matter here.
StopAnswerToJson(id, names) ==
  LET list == SetToSeq(names)
  IN  Fields([request_id |-> SizeNode(id),
              buses |-> ArrayNode([n \in DOMAIN list |-> StringNode(list[n])])])

ItemToJson(item) ==
  IF item.type = "Wait"
    THEN Fields([type |-> StringNode(<<"Wait">>),
                 time |-> NumberNode(item.time),
                 stop_name |-> StringNode(item.stop_name)])
    ELSE Fields([type |-> StringNode(<<"Bus">>),
                 time |-> NumberNode(item.time),
                 bus |-> StringNode(item.bus),
                 span_count |-> NumberNode(item.span_count)])

RouteAnswerToJson(id, info) ==
  Fields([request_id |-> SizeNode(id),
          total_time |-> NumberNode(info.total_time),
          items |-> ArrayNode([n \in DOMAIN info.items |->
                                 ItemToJson(info.items[n])])])
=============================================================================
