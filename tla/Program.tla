------------------------------ MODULE Program ------------------------------
(***************************************************************************)
(* The program from its input to its output (main.cpp): FinalLogic, which  *)
(* main calls, over a JSON document, and BusinessLogic, the older one,     *)
(* over lines of text.  Both parse all requests before they process any,   *)
(* process the base requests in the order of the input, and answer the     *)
(* read requests in the order of the input.  FinalLogic initializes the    *)
(* router in between and prints at the end; BusinessLogic prints each      *)
(* answer at once.                                                         *)
(***************************************************************************)
EXTENDS ReadRequests, JsonRequests, TextRequests

CONSTANTS
  Documents,  \* what json_input.txt may hold: a root and what it was written from
  Texts       \* what std::cin may give: lines and what they were written from

\* An input is a document or a text, and an array of a document is a vector.
ASSUME InputAssumption ==
  /\ \A d \in Documents : "root" \in DOMAIN d
  /\ \A t \in Texts : "root" \notin DOMAIN t
  /\ \A d \in Documents : \A part \in {"base_requests", "stat_requests"} :
       Has(d.root, part, "array") =>
         LET items == At(d.root, part).array
         IN  items \in Seq({items[n] : n \in DOMAIN items})

HasSettings(root) ==
  /\ Has(root, "routing_settings", "map")
  /\ Has(At(root, "routing_settings"), "bus_velocity", "magnitude")
  /\ Has(At(root, "routing_settings"), "bus_wait_time", "magnitude")

\* Where there are settings, they are those of the constants.
ASSUME SettingsOfDocuments ==
  \A d \in Documents :
    HasSettings(d.root) =>
      LET settings == At(d.root, "routing_settings")
      IN  /\ InUnits(At(settings, "bus_velocity")) = velocity_ * Unit
          /\ InUnits(At(settings, "bus_wait_time")) = wait_time_ * Unit

VARIABLES
  source,         \* one of them
  phase,          \* how far FinalLogic or BusinessLogic has come
  unread,         \* nodes, or lines, that are not taken yet
  count,          \* requests that ParseRequests has still to make
  mod_requests,
  read_requests,
  output          \* what is printed

parseVars == <<unread, count, mod_requests, read_requests>>
programVars == <<readVars, source, phase, parseVars, output>>

IsJson == "root" \in DOMAIN source

ProgramInit ==
  /\ ReadInit
  /\ source \in Documents \cup Texts
  /\ phase = "start"
  /\ unread = << >>
  /\ count = 0
  /\ mod_requests = << >>
  /\ read_requests = << >>
  /\ output = << >>

\* An exception nobody catches.
Terminate ==
  /\ phase' = "terminated"
  /\ UNCHANGED <<readVars, parseVars, output>>

EnterPart(part, items, number) ==
  /\ phase' = part
  /\ unread' = items
  /\ count' = number
  /\ UNCHANGED <<readVars, mod_requests, read_requests, output>>

-----------------------------------------------------------------------------
(***************************************************************************)
(* FinalLogic: the parts of the document.                                  *)
(***************************************************************************)
EnterNodes(part, node) ==
  IF Holds(node, "array") THEN EnterPart(part, node.array, Len(node.array))
                          ELSE Terminate

\* Any two doubles are taken for the velocity and the wait time: the program does
\* not look at them, and the constants may be zero or negative.
LoadDocument ==
  /\ phase = "start" /\ IsJson
  /\ LET root == source.root
     IN  IF /\ HasSettings(root)
            /\ {<<"base_requests">>, <<"stat_requests">>} \subseteq DOMAIN root.map
           THEN EnterNodes("base", At(root, "base_requests"))
           ELSE Terminate
  /\ UNCHANGED source

TurnToStatRequests ==
  /\ phase = "base" /\ count = 0 /\ IsJson
  /\ EnterNodes("stat", At(source.root, "stat_requests"))
  /\ UNCHANGED source

(***************************************************************************)
(* BusinessLogic: ReadNumberOnLine.  At the end of the stream the number   *)
(* keeps the value it was not given.  Where there is no number it is 0,    *)
(* and the stream, which has failed, gives nothing any more.               *)
(***************************************************************************)
Uninitialized == {0, 1}   \* bound: of the values of a size_t

LinesLeft ==
  LET written == {n \in DOMAIN unread : TrimLeft(unread[n]) # << >>}
  IN  IF written = {} THEN << >>
      ELSE SubSeq(unread, CHOOSE n \in written : \A m \in written : n <= m, Len(unread))

\* Faulty variant: a number that is not there is asked for again.
ReadNumberAgain(part, lines) ==
  IF lines # << >> /\ TrimLeft(lines[1])[1] \in DOMAIN Numeral
    THEN EnterPart(part, Tail(lines), StoSize(<<TrimLeft(lines[1])[1]>>))
    ELSE EnterPart(phase, << >>, 0)

ReadNumber(part, lines) ==
  IF lines = << >>
    THEN \E number \in Uninitialized : EnterPart(part, << >>, number)
  ELSE IF TrimLeft(lines[1])[1] \in DOMAIN Numeral
    THEN EnterPart(part, Tail(lines), StoSize(<<TrimLeft(lines[1])[1]>>))
    ELSE EnterPart(part, << >>, 0)

OpenText ==
  /\ phase = "start" /\ ~ IsJson
  /\ phase' = "count"
  /\ unread' = source.lines
  /\ UNCHANGED <<readVars, source, count, mod_requests, read_requests, output>>

ReadCount ==
  /\ ~ IsJson /\ count = 0
  /\ \/ phase = "count" /\ ReadNumber("base", LinesLeft)
     \/ phase = "base" /\ ReadNumber("stat", LinesLeft)
  /\ UNCHANGED source

-----------------------------------------------------------------------------
(***************************************************************************)
(* ParseRequests, for the base requests and for the others.                *)
(***************************************************************************)
Keep(request) ==
  /\ IF phase = "base"
       THEN /\ mod_requests' = Append(mod_requests, request)
            /\ UNCHANGED read_requests
       ELSE /\ read_requests' = Append(read_requests, request)
            /\ UNCHANGED mod_requests
  /\ unread' = IF unread = << >> THEN << >> ELSE Tail(unread)
  /\ count' = count - 1
  /\ UNCHANGED <<readVars, phase, output>>

Take(request) ==
  IF request = Thrown THEN Terminate
  ELSE IF request = Unspecified
    THEN Undefined /\ UNCHANGED <<phase, parseVars, output>>
    ELSE Keep(request)

\* getline gives an empty line when there is none.
MakeRequest(index, number) ==
  IF IsJson
    THEN MakeRequestFromJson(index, Head(unread), number)
    ELSE MakeRequestFromLine(index, IF unread = << >> THEN << >> ELSE Head(unread),
                             number)

NextRequest ==
  IF phase = "base"
    THEN MakeRequest(STR_TO_MOD_REQUEST_TYPE, Len(mod_requests) + 1)
    ELSE MakeRequest(STR_TO_READ_REQUEST_TYPE, Len(read_requests) + 1)

\* Faulty variant: a request that cannot be identified is passed over.
ParseKnownRequest ==
  /\ phase \in {"base", "stat"} /\ count > 0 /\ pc # "undefined"
  /\ \E request \in {NextRequest} :
       IF request = Thrown /\ unread # << >>
         THEN EnterPart(phase, Tail(unread), count - 1)
         ELSE Take(request)
  /\ UNCHANGED source

ParseRequest ==
  /\ phase \in {"base", "stat"} /\ count > 0 /\ pc # "undefined"
  /\ \E request \in {NextRequest} : Take(request)
  /\ UNCHANGED source

FinishParsing ==
  /\ phase = "stat" /\ count = 0
  /\ phase' = "modify"
  /\ UNCHANGED <<readVars, source, parseVars, output>>

-----------------------------------------------------------------------------
\* Faulty variant: the last request is processed first.
ProcessModifyRequestsBackwards ==
  /\ phase = "modify"
  /\ Cardinality(done) < Len(mod_requests)
  /\ LET r == mod_requests[Len(mod_requests) - Cardinality(done)]
     IN  AddBus(r) \/ AddStop(r)
  /\ UNCHANGED <<graphVars, routeVars, answers, source, phase, parseVars, output>>

ProcessModifyRequests ==
  /\ phase = "modify"
  /\ Cardinality(done) < Len(mod_requests)
  /\ LET r == mod_requests[Cardinality(done) + 1] IN AddBus(r) \/ AddStop(r)
  /\ UNCHANGED <<graphVars, routeVars, answers, source, phase, parseVars, output>>

FinishModifying ==
  /\ phase = "modify"
  /\ Cardinality(done) = Len(mod_requests)
  /\ phase' = IF IsJson THEN "router" ELSE "read"
  /\ UNCHANGED <<readVars, source, parseVars, output>>

RunInitializeRouter ==
  /\ phase = "router"
  /\ \/ InitializeRouter
     \/ \E s \in StopName : NumberStop(s)
     \/ CreateGraph
     \/ \E b \in BusName : AddBusEdges(b)
     \/ EmplaceRouter
  /\ phase' = CASE pc' = "ready" -> "read"
                [] pc' \in {"thrown", "aborted"} -> "terminated"
                [] OTHER -> "router"
  /\ UNCHANGED <<routeVars, answers, source, parseVars, output>>

\* ProcessReadRequestsToJson.
ProcessReadRequest ==
  /\ phase = "read" /\ IsJson
  /\ Len(answers) < Len(read_requests)
  /\ Read(read_requests[Len(answers) + 1].request)
  /\ UNCHANGED <<source, phase, parseVars, output>>

\* ProcessReadRequests: there are bus and stop requests only.
PrintRequest ==
  /\ phase = "read" /\ ~ IsJson /\ pc # "undefined"
  /\ Len(answers) < Len(read_requests)
  /\ LET q == read_requests[Len(answers) + 1].request
     IN  IF q.type = "Stop" /\ q.name \in stop_index_ /\ Dangling(q.name)
           THEN Undefined /\ UNCHANGED output
           ELSE /\ Reply(q, IF q.type = "Bus" THEN BusAnswer(q.name)
                                              ELSE StopAnswer(q.name))
                /\ output' = answers'
                /\ UNCHANGED <<managerVars, routeVars>>
  /\ UNCHANGED <<source, phase, parseVars>>

AnswerToJson(id, answer) ==
  IF answer.reply = NotFound THEN ErrorToJson(id)
  ELSE CASE answer.request.type = "Bus" -> BusAnswerToJson(id, answer.reply)
         [] answer.request.type = "Stop" -> StopAnswerToJson(id, answer.reply)
         [] answer.request.type = "Route" -> RouteAnswerToJson(id, answer.reply)

\* Faulty variant: the id of an answer is its number.
PrintAnswersNumbered ==
  /\ phase = "read"
  /\ Len(answers) = Len(read_requests)
  /\ phase' = "done"
  /\ output' = IF IsJson THEN [n \in DOMAIN answers |-> AnswerToJson(n, answers[n])]
                         ELSE output
  /\ UNCHANGED <<readVars, source, parseVars>>

\* Json::ToJson of all nodes, and the end.
PrintAnswers ==
  /\ phase = "read"
  /\ Len(answers) = Len(read_requests)
  /\ phase' = "done"
  /\ output' = IF IsJson
                 THEN [n \in DOMAIN answers |->
                         AnswerToJson(read_requests[n].id, answers[n])]
                 ELSE output
  /\ UNCHANGED <<readVars, source, parseVars>>

ProgramNext ==
  \/ LoadDocument
  \/ TurnToStatRequests
  \/ OpenText
  \/ ReadCount
  \/ ParseRequest
  \/ FinishParsing
  \/ ProcessModifyRequests
  \/ FinishModifying
  \/ RunInitializeRouter
  \/ ProcessReadRequest
  \/ PrintRequest
  \/ PrintAnswers

\* The program runs on.
ProgramSpec ==
  ProgramInit /\ [][ProgramNext]_programVars /\ WF_programVars(ProgramNext)

-----------------------------------------------------------------------------
\* Type correctness of the program: the base requests processed are a beginning of
\* those parsed, and the answers belong to the read requests in their order.
ProgramTypeOK ==
  /\ ReadTypeOK
  /\ phase \in {"start", "count", "base", "stat", "modify", "router", "read",
                "done", "terminated"}
  /\ count \in Nat
  /\ IsJson => count \in {0, Len(unread)}
  /\ Range(mod_requests) \subseteq AddStopRequest \cup AddBusRequest
  /\ \A q \in Range(read_requests) : q.id \in Nat /\ q.request \in ReadRequest
  /\ done = {mod_requests[n] : n \in 1 .. Cardinality(done)}
  /\ phase \notin {"start", "count", "base", "stat"} =>
       \A n \in DOMAIN answers : answers[n].request = read_requests[n].request

\* What was written down, in either form, is what is processed: the requests
\* parsed of a whole document or text are those it was written from, in their
\* order, with every name, position, length and id.
ParsedAsWritten ==
  phase \in {"modify", "router", "read", "done"} /\ source.whole =>
    /\ mod_requests = source.asked.base
    /\ read_requests = source.asked.stat

\* A list of the document, one request for each of its nodes.
IsParsed(requests, index, part) ==
  /\ requests = [n \in DOMAIN At(source.root, part).array |->
                   MakeRequestFromJson(index, At(source.root, part).array[n], n)]
  /\ \A n \in DOMAIN requests : requests[n] \notin {Thrown, Unspecified}

\* Whatever the document is: nothing is processed, and nothing printed, before
\* every node of both its lists was made a request, in its place, under the words
\* of its list, and none of them threw (FinalLogic, ParseRequests).
EverythingIsParsed ==
  IsJson /\ phase \in {"modify", "router", "read", "done"} =>
    /\ IsParsed(mod_requests, STR_TO_MOD_REQUEST_TYPE, "base_requests")
    /\ IsParsed(read_requests, STR_TO_READ_REQUEST_TYPE, "stat_requests")

\* An input with a request the program cannot parse gets no answer at all,
\* because everything is parsed before anything is processed.  An input that ends
\* early may be answered, but it has lost no more than the end of the list that
\* stands last: the other list was read as written, and of the last one every
\* request but the last of them, which may be cut.  So a document whose base
\* requests stand behind its read requests may be answered from a part of them.
NoAnswersToHalfAnInput ==
  output # << >> =>
    /\ source.last # "base_requests" => mod_requests = source.asked.base
    /\ source.last # "stat_requests" => read_requests = source.asked.stat
    /\ IsPrefix(Front(mod_requests), source.asked.base)
    /\ IsPrefix(Front(read_requests), source.asked.stat)

\* Every read request of a whole input is answered once, in its turn, under its
\* own id, and with an error exactly if no base request, wherever it stands,
\* mentions what it asks for.
AnsweredInTurn ==
  phase = "done" /\ source.whole =>
    LET stat == source.asked.stat
    IN  /\ Len(output) = Len(stat)
        /\ \A n \in DOMAIN stat :
             LET q == stat[n].request
                 known == \/ q.type = "Bus" /\ BusRequests(q.name) # {}
                          \/ q.type = "Stop" /\ q.name \in Mentioned
             IN  /\ IsJson => At(output[n], "request_id") = SizeNode(stat[n].id)
                 /\ q.type # "Route" =>
                      ((IF IsJson THEN Has(output[n], "error_message", "string")
                                  ELSE output[n].reply = NotFound) <=> ~ known)

Promise == INSTANCE TripPlanner WITH open <- phase \in {"read", "done"}

\* The program, from the file to the answers, keeps the promises of TripPlanner.
ProgramPlansTrips == Promise!Spec

\* The program comes to an end, by printing, by an exception, or in undefined
\* behaviour, whatever is missing or wrong in its input.
ProgramEnds == <>(phase \in {"done", "terminated"} \/ pc = "undefined")

\* README.md: "Input and output in json".  JSON has no word for a nan or an inf.
OutputIsJson ==
  phase = "done" /\ IsJson =>
    \A n \in DOMAIN output :
      \A field \in DOMAIN output[n].map : output[n].map[field] # NotANumber
=============================================================================
