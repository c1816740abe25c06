------------------------------ MODULE Commands ------------------------------
(***************************************************************************)
(* The requests as both front ends make them (Command.h): the type words   *)
(* and what is left of a request when it is parsed.  Names are sequences   *)
(* of symbols.  A base request's id is its place in the input.  Where      *)
(* parsing throws, nobody catches: the program ends.                       *)
(***************************************************************************)
EXTENDS Integers, Sequences

CONSTANTS
  Thrown,      \* parsing throws
  Unspecified  \* parsing converts a negative double to size_t

STR_TO_MOD_REQUEST_TYPE ==
  [word \in {<<"Bus">>, <<"Stop">>} |->
     IF word = <<"Bus">> THEN "ADD_BUS" ELSE "ADD_STOP"]

STR_TO_READ_REQUEST_TYPE ==
  [word \in {<<"Bus">>, <<"Stop">>, <<"Route">>} |->
     IF word = <<"Bus">> THEN "GET_BUS"
     ELSE IF word = <<"Stop">> THEN "GET_STOP" ELSE "GET_ROUTE"]

Coordinates(latitude, longitude) ==
  [latitude |-> latitude, longitude |-> longitude]

AddStopRequestOf(n, name, pos, dist) ==
  [id |-> n, name |-> name, pos |-> pos, dist |-> dist]

AddBusRequestOf(n, name, roundtrip, stops) ==
  [id |-> n, name |-> name,
   type |-> IF roundtrip THEN "Circular" ELSE "Linear", stops |-> stops]

\* Two read requests that differ in their ids only ask for the same.
ReadRequestOf(id, request) == [id |-> id, request |-> request]

BusRead(name) == [type |-> "Bus", name |-> name]
StopRead(name) == [type |-> "Stop", name |-> name]
RouteRead(from, to) == [type |-> "Route", from |-> from, to |-> to]
=============================================================================
