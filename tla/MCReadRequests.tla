--------------------------- MODULE MCReadRequests ---------------------------
(***************************************************************************)
(* Read requests for TLC.  From a to c two buses take the same time, so    *)
(* that BuildRoute has a choice; from b to a the way is cheaper with a     *)
(* change at c.  The trips input asks for two routes, a bus and a stop,    *)
(* three times, to have an answer between a request and its repetition;    *)
(* the mixed input also asks for what is not there: stop e and bus 9.      *)
(***************************************************************************)
EXTENDS ReadRequests, TLC

MCStopName == {"a", "b", "c", "e"}
MCBusName == {"1", "2", "9"}
MCPlace == {0, 1, 2}

StopRequest(i, n, p, d) == [id |-> i, name |-> n, pos |-> p, dist |-> d]
BusRequest(i, n, t, s) == [id |-> i, name |-> n, type |-> t, stops |-> s]

TripStops ==
  { StopRequest(1, "a", 1, "b" :> 5 @@ "c" :> 6),
    StopRequest(2, "b", 2, "a" :> 10 @@ "c" :> 1) }

TripBuses ==
  { BusRequest(3, "1", "Linear", <<"a", "b", "c">>),
    BusRequest(4, "2", "Circular", <<"c", "a", "c">>) }

Flat ==
  [p \in MCPlace |-> [q \in MCPlace |-> IF p < q THEN q - p ELSE p - q]]

BusRead(b) == [type |-> "Bus", name |-> b]
StopRead(s) == [type |-> "Stop", name |-> s]
RouteRead(s, t) == [type |-> "Route", from |-> s, to |-> t]

TripReads == { RouteRead("a", "c"), RouteRead("b", "a"), BusRead("1"), StopRead("c") }

MixedReads ==
  { BusRead(b) : b \in MCBusName } \cup { StopRead(s) : s \in MCStopName }
    \cup { RouteRead("a", "c"), RouteRead("b", "b"), RouteRead("b", "e") }
=============================================================================
