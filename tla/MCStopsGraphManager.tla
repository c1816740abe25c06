------------------------ MODULE MCStopsGraphManager ------------------------
(***************************************************************************)
(* Base requests for TLC, processed in every order before every possible   *)
(* call of InitializeRouter, so that every set of them is the whole input  *)
(* of some run.  In the city a and b declare different lengths for the two *)
(* directions of a road, and c declares one to itself, or is only          *)
(* mentioned; stop a and bus 2 are requested twice, with other data; bus 1 *)
(* is linear and longer on the way back, bus 2 calls at a stop twice, and  *)
(* bus 3 has one stop.  The close input has two stops with the same        *)
(* coordinates and no distance between them.                               *)
(***************************************************************************)
EXTENDS StopsGraphManager, TLC

MCStopName == {"a", "b", "c"}
MCBusName == {"1", "2", "3"}
MCPlace == {0, 1, 2}

StopRequest(i, n, p, d) == [id |-> i, name |-> n, pos |-> p, dist |-> d]
BusRequest(i, n, t, s) == [id |-> i, name |-> n, type |-> t, stops |-> s]

CityStops ==
  { StopRequest(1, "a", 1, "b" :> 5),
    StopRequest(2, "b", 2, "a" :> 3 @@ "c" :> 4),
    StopRequest(7, "a", 2, "b" :> 8 @@ "c" :> 7),
    StopRequest(8, "c", 2, "c" :> 1) }

CityBuses ==
  { BusRequest(3, "1", "Linear", <<"a", "b", "c">>),
    BusRequest(4, "2", "Circular", <<"c", "a", "c">>),
    BusRequest(5, "3", "Circular", <<"b">>),
    BusRequest(6, "2", "Linear", <<"b", "c">>) }

Flat ==
  [p \in MCPlace |-> [q \in MCPlace |-> IF p < q THEN q - p ELSE p - q]]

CloseStops ==
  { StopRequest(1, "a", 1, << >>), StopRequest(2, "b", 1, << >>) }

CloseBuses == { BusRequest(3, "1", "Linear", <<"a", "b">>) }

\* At some latitudes the cosine of the angle between a place and itself comes
\* out a little above 1, and acos of that is a NaN.
Rounded == [p \in MCPlace |-> [q \in MCPlace |->
              IF p = q /\ p = 1 THEN NaN ELSE Flat[p][q]]]

\* The sign of a bus_velocity below zero, with which the router's assertion holds
\* of some graphs and fails of others; nothing else depends on the sign.
Backwards == -1
=============================================================================
