----------------------------- MODULE MCProgram -----------------------------
(***************************************************************************)
(* Inputs for TLC.  A city of three stops and two buses is written down in *)
(* every order of its base requests, with decimals that are dropped, with  *)
(* bus 1 requested twice, and with a route to a stop e that is not there;  *)
(* bus 9 is not there either.  One document is taken with each part of it  *)
(* wrong or missing, and as far as it goes if it ends in the list that     *)
(* stands last, which is either of the two; one text up to each of its     *)
(* symbols, and without its first line.                                    *)
(***************************************************************************)
EXTENDS Program, BrokenInputs, FiniteSetsExt

A == <<"a">>
B == <<"b">>
C == <<"c", " ", "d">>
E == <<"e">>

StopA == AddStopRequestOf(0, A, Coordinates(10, 0), B :> 5)
StopB == AddStopRequestOf(0, B, Coordinates(0, 25), A :> 9 @@ C :> 1)
Bus1 == AddBusRequestOf(0, <<"1">>, FALSE, <<A, B, C>>)
Bus2 == AddBusRequestOf(0, <<"2">>, TRUE, <<C, A, C>>)
OtherBus1 == AddBusRequestOf(0, <<"1">>, TRUE, <<A, C>>)
ShortBus == AddBusRequestOf(0, <<"1">>, TRUE, <<A>>)

Numbered(requests) == [n \in DOMAIN requests |-> [requests[n] EXCEPT !.id = n]]

City == <<StopA, StopB, Bus1, Bus2>>

Orders == {Numbered([n \in 1 .. 4 |-> City[order[n]]]) :
             order \in {p \in [1 .. 4 -> 1 .. 4] : {p[n] : n \in 1 .. 4} = 1 .. 4}}

Reads == <<ReadRequestOf(7, RouteRead(A, C)), ReadRequestOf(3, BusRead(<<"1">>)),
           ReadRequestOf(12, RouteRead(B, A)), ReadRequestOf(7, StopRead(C)),
           ReadRequestOf(5, RouteRead(A, C)), ReadRequestOf(9, BusRead(<<"9">>)),
           ReadRequestOf(1, StopRead(E)), ReadRequestOf(2, RouteRead(B, B))>>

Asked(base, stat) == [base |-> base, stat |-> stat]

InDocument(asked, decimals) ==
  [whole |-> TRUE, last |-> "stat_requests", asked |-> asked,
   root |-> Document(asked, velocity_, wait_time_, decimals)]

ShortAsked == Asked(Numbered(<<StopA, Bus1>>), SubSeq(Reads, 1, 4))

CityDocuments ==
  {InDocument(Asked(base, Reads), 0) : base \in Orders}
    \cup {InDocument(Asked(Numbered(City), Reads), 7),
          InDocument(Asked(Numbered(<<Bus1, StopA, OtherBus1>>), SubSeq(Reads, 1, 4)), 0),
          InDocument(Asked(Numbered(<<StopA, Bus1>>),
                           <<Reads[2], ReadRequestOf(4, RouteRead(A, E)), Reads[2]>>), 0),
          InDocument(Asked(<< >>, Reads), 0)}

HalfDocument(last, root) ==
  [whole |-> FALSE, last |-> last, asked |-> ShortAsked, root |-> root]

HalfDocuments ==
  LET root == Document(ShortAsked, velocity_, wait_time_, 0)
  IN  {HalfDocument("stat_requests", half) : half \in Damaged(root)} \cup
      UNION {{HalfDocument(last, half) : half \in CutDocuments(root, last)} :
               last \in {"base_requests", "stat_requests"}}

ShortBusDocuments ==
  {InDocument(Asked(Numbered(<<StopA, ShortBus>>), <<Reads[2]>>), 0)}

TextReads == <<ReadRequestOf(0, StopRead(C)), ReadRequestOf(0, BusRead(<<"9">>)),
               ReadRequestOf(0, BusRead(<<"1">>)), ReadRequestOf(0, StopRead(C))>>

InText(asked) ==
  [whole |-> TRUE, last |-> "stat_requests", asked |-> asked, lines |-> LinesOf(asked)]

CityTexts ==
  {InText(Asked(base, TextReads)) : base \in Orders}
    \cup {InText(Asked(Numbered(<<Bus1, OtherBus1>>), TextReads))}

HalfTexts ==
  LET asked == Asked(Numbered(City), TextReads)
  IN  {[whole |-> FALSE, last |-> "stat_requests", asked |-> asked, lines |-> lines] :
         lines \in (CutLines(LinesOf(asked)) \cup {Tail(LinesOf(asked))})
                     \ {LinesOf(asked)}}

MCDocuments == CityDocuments \cup HalfDocuments

MCTexts == CityTexts \cup HalfTexts

NoTexts == {}

-----------------------------------------------------------------------------
(***************************************************************************)
(* What can be parsed of these inputs.                                     *)
(***************************************************************************)
Nodes(root, part) == IF Has(root, part, "array") THEN At(root, part).array ELSE << >>

ParsedNodes(part, index) ==
  UNION {{MakeRequestFromJson(index, Nodes(d.root, part)[n], n) :
            n \in DOMAIN Nodes(d.root, part)} : d \in Documents}

ParsedBase ==
  (ParsedNodes("base_requests", STR_TO_MOD_REQUEST_TYPE) \cup
   UNION {{MakeRequestFromLine(STR_TO_MOD_REQUEST_TYPE, t.lines[n + 1], n) :
             n \in {m \in DOMAIN t.asked.base : m < Len(t.lines)}} : t \in Texts})
  \ {Thrown, Unspecified}

ParsedStat ==
  (ParsedNodes("stat_requests", STR_TO_READ_REQUEST_TYPE) \cup
   UNION {{MakeRequestFromLine(STR_TO_READ_REQUEST_TYPE, t.lines[n], n) :
             n \in Len(t.asked.base) + 3 .. Len(t.lines)} : t \in Texts})
  \ {Thrown, Unspecified}

MCAddStopRequest == {r \in ParsedBase : IsStop(r)}

MCAddBusRequest == {r \in ParsedBase : ~ IsStop(r)}

MCReadRequest == {q.request : q \in ParsedStat}

\* A name may be cut, or what follows it in the line taken for a part of it.
MCStopName ==
  {E} \cup
  UNION {{SubSeq(word, 1, m) : m \in 0 .. Len(word)} :
           word \in {stop \o rest : stop \in {A, B, C},
                                    rest \in {<<" ", "-">>, <<" ", ">">>, <<",">>}}}

MCBusName == {<< >>, <<"1">>, <<"2">>, <<"9">>}

MCOrigin == Coordinates(0, 0)

MCPlace == {Coordinates(x, y) : x, y \in {0, 10, 25}}

Distance(x, y) == IF x < y THEN y - x ELSE x - y

Flat == [p \in MCPlace |-> [q \in MCPlace |->
           Distance(p.latitude, q.latitude) + 2 * Distance(p.longitude, q.longitude)]]

MCSymbol ==
  0 :> "0" @@ 10 :> "1" @@ 20 :> "2" @@ 25 :> "2.5" @@ 30 :> "3" @@ 40 :> "4" @@
  50 :> "5" @@ 90 :> "9"

MCNumeral ==
  [s \in {MCSymbol[n] : n \in DOMAIN MCSymbol} |->
     CHOOSE n \in DOMAIN MCSymbol : MCSymbol[n] = s]
=============================================================================
