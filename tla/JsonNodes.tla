------------------------------ MODULE JsonNodes ------------------------------
(***************************************************************************)
(* The nodes of Json (json.h), a variant of six alternatives.  Asking for  *)
(* an alternative a node does not hold throws bad_variant_access, asking a *)
(* map for a key it does not have (at) throws out_of_range: operators that *)
(* read nodes ask Holds and Has first.  A string is a sequence.            *)
(***************************************************************************)
EXTENDS Integers, Sequences

CONSTANT
  Places       \* bound: decimals of a double

ASSUME PlacesAssumption == Places \in Nat

\* pow(10, digits)
Power[digits \in Nat] == IF digits = 0 THEN 1 ELSE 10 * Power[digits - 1]

Unit == Power[Places]

ASSUME UnitAssumption == Unit \in Nat \ {0}

ArrayNode(items) == [array |-> items]
MapNode(entries) == [map |-> entries]
StringNode(string) == [string |-> string]
BoolNode(bool) == [bool |-> bool]
SizeNode(size) == [size |-> size]

\* A double: its magnitude is in units of the last decimal.  There is a -0.
DoubleNode(negative, magnitude) ==
  [negative |-> negative, magnitude |-> magnitude]

Holds(node, alternative) == alternative \in DOMAIN node

\* The fields of a map the program makes, or asks for, have strings of one symbol.
Fields(fields) == MapNode([key \in {<<f>> : f \in DOMAIN fields} |-> fields[key[1]]])

At(node, field) == node.map[<<field>>]

Has(node, field, alternative) ==
  /\ Holds(node, "map")
  /\ <<field>> \in DOMAIN node.map
  /\ Holds(At(node, field), alternative)

\* A double in units of the last decimal, and what static_cast<size_t> makes
\* of it, as long as that is not negative.
InUnits(node) == IF node.negative THEN -node.magnitude ELSE node.magnitude

Truncated(node) == IF node.negative THEN 0 ELSE node.magnitude \div Unit

IsBelowZero(node) == InUnits(node) <= -Unit
=============================================================================
