---------------------------- MODULE TextRequests ----------------------------
(***************************************************************************)
(* How requests are made of lines of text: SplitTwo and the functions on   *)
(* it (Parcing.cpp), ConvertToNum (Parcing.h), the ParseFrom of the        *)
(* requests (Command.cpp) and MakeRequestFromLine (main.cpp).              *)
(*                                                                         *)
(* A line is a sequence of symbols: a word or a number is one, a blank or  *)
(* another character that separates is one of its own.                     *)
(***************************************************************************)
EXTENDS Commands, JsonNodes, SequencesExt

CONSTANTS
  Numeral,   \* the symbols that are numbers, with their values in units
  SizeLimit  \* of size_t: 2^64

\* The symbols the parser looks for.
Marks == {"Bus", "Stop", "Route", ":", ">", "-", ",", "m", "to", " "}

ASSUME NumeralAssumption ==
  /\ Marks \cup DOMAIN Numeral \subseteq STRING
  /\ Marks \cap DOMAIN Numeral = {}
  /\ \A symbol \in DOMAIN Numeral : Numeral[symbol] \in Int

ASSUME SizeAssumption == SizeLimit \in Nat \ {0}

Blank == <<" ">>

\* str.find: the places where delim comes.
Finds(str, delim) ==
  {p \in 0 .. Len(str) - Len(delim) : SubSeq(str, p + 1, p + Len(delim)) = delim}

\* What is before the first delim and what is behind it, if there is one.
SplitTwo(str, delim) ==
  LET split[s \in Seq(STRING)] ==
        IF Finds(s, delim) = {}
          THEN <<s, << >> >>
          ELSE LET p == Min(Finds(s, delim))
               IN  <<SubSeq(s, 1, p), SubSeq(s, p + Len(delim) + 1, Len(s))>>
  IN  split[str]

Token(str, delim) == SplitTwo(str, delim)[1]

\* What ReadToken leaves of str.
Rest(str, delim) == SplitTwo(str, delim)[2]

TrimLeft(str) ==
  LET trimmed[s \in Seq(STRING)] ==
        IF s # << >> /\ Head(s) = " " THEN trimmed[Tail(s)] ELSE s
  IN  trimmed[str]

\* stod and stoull skip blanks before a number; ConvertToNum throws if there is
\* none, or anything behind it.  A size_t has no decimals, but may have a sign.
IsDouble(str) == Len(TrimLeft(str)) = 1 /\ TrimLeft(str)[1] \in DOMAIN Numeral

IsSize(str) == IsDouble(str) /\ Numeral[TrimLeft(str)[1]] % Unit = 0

StoDouble(str) == Numeral[TrimLeft(str)[1]]

StoSize(str) == (StoDouble(str) \div Unit) % SizeLimit

-----------------------------------------------------------------------------
\* The loop of AddBusRequest::ParseFrom: it ends at the first empty token.
Stops(str, delim) ==
  LET tokens[rest \in Seq(STRING)] ==
        IF Token(rest, delim) = << >>
          THEN << >>
          ELSE <<Token(rest, delim)>> \o tokens[Rest(rest, delim)]
  IN  tokens[str]

AddBusFromLine(line, n) ==
  LET name == Rest(Token(line, <<":">>), Blank)
      stops == TrimLeft(Rest(line, <<":">>))
      roundtrip == \E p \in DOMAIN stops : stops[p] = ">"
  IN  AddBusRequestOf(n, name, roundtrip,
                      Stops(stops, <<" ", IF roundtrip THEN ">" ELSE "-", " ">>))

Comma == <<",", " ">>

\* The loop of AddStopRequest::ParseFrom: it ends when nothing is left.
Distances(str) ==
  LET tokens[rest \in Seq(STRING)] ==
        IF rest = << >>
          THEN << >>
          ELSE <<Token(rest, Comma)>> \o tokens[Rest(rest, Comma)]
  IN  tokens[str]

MetersTo == <<"m", " ", "to", " ">>

\* A line that declares two lengths for one stop is left out.
AddStopFromLine(line, n) ==
  LET data == Rest(line, <<":", " ">>)
      latitude == Token(data, Comma)
      longitude == Token(Rest(data, Comma), Comma)
      pieces == Distances(Rest(Rest(data, Comma), Comma))
      length(i) == Token(pieces[i], MetersTo)
      stop(i) == Rest(pieces[i], MetersTo)
  IN  IF /\ IsDouble(latitude) /\ IsDouble(longitude)
         /\ \A i \in DOMAIN pieces : IsSize(length(i))
        THEN AddStopRequestOf(n, Rest(Token(line, <<":", " ">>), Blank),
               Coordinates(StoDouble(latitude), StoDouble(longitude)),
               [s \in {stop(i) : i \in DOMAIN pieces} |->
                  StoSize(length(CHOOSE i \in DOMAIN pieces : stop(i) = s))])
        ELSE Thrown

\* The n-th request of its list.  The text form has no ids and no routes.
MakeRequestFromLine(index, line, n) ==
  LET type == Token(line, Blank)
      name == Rest(line, Blank)
  IN  IF type \notin DOMAIN index THEN Thrown
      ELSE CASE index[type] = "ADD_BUS" -> AddBusFromLine(line, n)
             [] index[type] = "ADD_STOP" -> AddStopFromLine(line, n)
             [] index[type] = "GET_BUS" -> ReadRequestOf(0, BusRead(name))
             [] index[type] = "GET_STOP" -> ReadRequestOf(0, StopRead(name))
             [] index[type] = "GET_ROUTE" -> Thrown
=============================================================================
