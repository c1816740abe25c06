---------------------------- MODULE MCJsonReader ----------------------------
(***************************************************************************)
(* Documents for TLC: nested and empty arrays and maps, a key that begins  *)
(* another one, numbers with a sign, with zeros after the point, and with  *)
(* as many digits as are printed.  The large documents have a number that  *)
(* has one more, as the id in the test ToJsonAndBack has.                  *)
(***************************************************************************)
EXTENDS JsonReader, TLC

MCCharacters ==
  <<" ", "\"", "+", ",", "-", ".">> \o DigitChars \o
  <<":", "[", "]", "a", "b", "e", "f", "l", "r", "s", "t", "u", "{", "}">>

Number(m) == DoubleNode(FALSE, m)

Stop ==
  MapNode(<<"a">> :> StringNode(<<"b", "a">>) @@
          <<"a", "b">> :> DoubleNode(TRUE, 105) @@
          <<"b">> :> MapNode(<<"a">> :> Number(99999900)))

Bus ==
  MapNode(<<"a">> :> BoolNode(TRUE) @@
          <<"b">> :> ArrayNode(<<StringNode(<<"2">>), StringNode(<< >>)>>))

SmallDocuments ==
  { Stop,
    ArrayNode(<<Bus, MapNode(<< >>), ArrayNode(<< >>)>>),
    MapNode(<<"b", "a">> :> ArrayNode(<<BoolNode(FALSE), Number(0), Number(10),
                                        DoubleNode(TRUE, 0)>>) @@
            <<"b">> :> ArrayNode(<<ArrayNode(<<Number(1250)>>)>>)) }

LargeDocuments ==
  { MapNode(<<"a">> :> BoolNode(TRUE) @@
            <<"b">> :> Number(150000000) @@
            <<"b", "a">> :> StringNode(<<"2">>)) }
=============================================================================
