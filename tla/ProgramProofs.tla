---------------------------- MODULE ProgramProofs ----------------------------
(***************************************************************************)
(* The program, from its input to its output, is still a catalogue with a  *)
(* route cache: whatever the input is, and wherever parsing ends it, what  *)
(* is proved of BusManager and of the cache holds.  And it answers as      *)
(* TripPlanner promises: over a document its steps are those of            *)
(* ReadRequests, over a text they read the catalogue alone.  Everything is *)
(* parsed before anything is processed, documents and texts as they were   *)
(* written, and every read request is answered in its turn.                *)
(***************************************************************************)
EXTENDS Program, TextRequestsProofs, ReadRequestsRefinement

\* The steps that touch neither the catalogue, nor the graph, nor the caches.
LEMMA ParsingStep ==
  ASSUME \/ LoadDocument \/ TurnToStatRequests \/ OpenText \/ ReadCount
         \/ FinishParsing \/ FinishModifying \/ PrintAnswers
  PROVE  UNCHANGED readVars
<1>1. CASE LoadDocument
  BY <1>1 DEF LoadDocument, EnterNodes, EnterPart, Terminate
<1>2. CASE TurnToStatRequests
  BY <1>2 DEF TurnToStatRequests, EnterNodes, EnterPart, Terminate
<1>3. CASE ReadCount
  BY <1>3 DEF ReadCount, ReadNumber, EnterPart
<1>4. CASE OpenText \/ FinishParsing \/ FinishModifying \/ PrintAnswers
  BY <1>4 DEF OpenText, FinishParsing, FinishModifying, PrintAnswers
<1> QED
  BY <1>1, <1>2, <1>3, <1>4

LEMMA ParseRequestStep ==
  ASSUME ParseRequest
  PROVE  UNCHANGED readVars \/ Undefined
  BY DEF ParseRequest, Take, Terminate, Keep

LEMMA PrintRequestStep ==
  ASSUME PrintRequest
  PROVE  \/ Undefined
         \/ /\ UNCHANGED <<managerVars, routeVars>>
            /\ \E x : answers' = Append(answers, x)
  BY DEF PrintRequest, Reply

LEMMA RunInitializeRouterStep ==
  ASSUME RunInitializeRouter
  PROVE  ManagerNext /\ UNCHANGED <<routeVars, answers>>
  BY DEF RunInitializeRouter, ManagerNext

LEMMA ProcessReadRequestStep ==
  ASSUME ProcessReadRequest
  PROVE  \E q \in ReadRequest : Read(q)
  BY DEF ProcessReadRequest, Read, GetBusInfo, GetStopInfo, GetCachedRoute,
         FindNoRoute, BuildNewRoute, BuildUnknownRoute, NewRoute, Reading

-----------------------------------------------------------------------------
\* Every behaviour of the program is one of the catalogue.
THEOREM ProgramKeepsCatalogue == ProgramSpec => Spec
<1>1. ProgramInit => Init
  BY DEF ProgramInit, ReadInit, ManagerInit
<1>2. ASSUME [ProgramNext]_programVars
      PROVE  [Next]_vars
  <2>1. CASE UNCHANGED readVars \/ Undefined
    BY <2>1 DEF readVars, managerVars, Undefined
  <2>2. CASE \/ LoadDocument \/ TurnToStatRequests \/ OpenText \/ ReadCount
             \/ FinishParsing \/ FinishModifying \/ PrintAnswers
    BY <2>2, <2>1, ParsingStep
  <2>3. CASE ParseRequest
    BY <2>3, <2>1, ParseRequestStep
  <2>4. CASE ProcessModifyRequests
    <3>1. PICK r : AddBus(r) \/ AddStop(r)
      BY <2>4 DEF ProcessModifyRequests
    <3>2. \/ r \in AddBusRequest /\ AddBus(r)
          \/ r \in AddStopRequest /\ AddStop(r)
      BY <3>1 DEF AddBus, AddStop
    <3> QED
      BY <3>2 DEF Next
  <2>5. CASE RunInitializeRouter
    BY <2>5, RunInitializeRouterStep
    DEF ManagerNext, ProcessModifyRequest, InitializeRouter, NumberStop,
        CreateGraph, AddBusEdges, EmplaceRouter
  <2>6. CASE ProcessReadRequest
    BY <2>6, ProcessReadRequestStep
    DEF Read, GetBusInfo, GetStopInfo, GetCachedRoute, FindNoRoute,
        BuildNewRoute, BuildUnknownRoute, Undefined, managerVars
  <2>7. CASE PrintRequest
    BY <2>7, PrintRequestStep DEF Undefined, managerVars
  <2> QED
    BY <1>2, <2>1, <2>2, <2>3, <2>4, <2>5, <2>6, <2>7 DEF ProgramNext, programVars
<1> QED
  BY <1>1, <1>2, PTL DEF ProgramSpec, Spec

\* Whatever the input is, a distance is one that a stop declared, or one that
\* the other end declared, or there is none.
THEOREM ProgramSeesDeclaredDistances == ProgramSpec => []DeclaredDistancesWin
  BY ProgramKeepsCatalogue, DeclaredDistancesWinAlways, PTL

\* Whatever the input is, a bus that was added under a name is never replaced.
THEOREM ProgramKeepsFirstBus == ProgramSpec => FirstBusStays
  BY ProgramKeepsCatalogue, FirstBusAlwaysStays, PTL

-----------------------------------------------------------------------------
LEMMA CacheInvProgram ==
  ASSUME CacheInv, [ProgramNext]_programVars
  PROVE  CacheInv'
<1>1. ASSUME UNCHANGED readVars \/ Undefined
      PROVE  CacheInv'
  BY <1>1, CacheInvFrame DEF readVars, managerVars, graphVars, Undefined
<1>2. CASE \/ LoadDocument \/ TurnToStatRequests \/ OpenText \/ ReadCount
           \/ FinishParsing \/ FinishModifying \/ PrintAnswers
  BY <1>2, <1>1, ParsingStep
<1>3. CASE ParseRequest
  BY <1>3, <1>1, ParseRequestStep
<1>4. CASE ProcessModifyRequests
  BY <1>4, CacheInvFrame DEF ProcessModifyRequests, graphVars
<1>5. CASE RunInitializeRouter
  BY <1>5, RunInitializeRouterStep, CacheInvManage
<1>6. CASE ProcessReadRequest
  BY <1>6, ProcessReadRequestStep, CacheInvRead
<1>7. CASE PrintRequest
  BY <1>7, <1>1, PrintRequestStep, CacheInvFrame DEF managerVars, graphVars
<1> QED
  BY <1>1, <1>2, <1>3, <1>4, <1>5, <1>6, <1>7 DEF ProgramNext, programVars

\* Whatever the input is, the cache and the router agree on the routes held.
THEOREM ProgramHoldsCachedRoutes == ProgramSpec => []CachedRoutesAreHeld
<1>1. ProgramInit => CacheInv
  BY CacheInvInit DEF ProgramInit
<1>2. CacheInv => CachedRoutesAreHeld
  BY DEF CacheInv
<1> QED
  BY <1>1, <1>2, CacheInvProgram, PTL DEF ProgramSpec

-----------------------------------------------------------------------------
(***************************************************************************)
(* How far the program has come, and what that says of the router.         *)
(***************************************************************************)
PhaseInv ==
  /\ phase \in {"start", "count", "modify"} => pc = "requests"
  /\ phase \in {"base", "stat"} => \/ pc = "requests"
                                    \/ (pc = "undefined" /\ count > 0)
  /\ phase = "router" => IsJson /\ pc \in {"requests", "stops", "buses"}
  /\ phase = "read" /\ IsJson => pc \in {"ready", "undefined"}
  /\ phase = "read" /\ ~ IsJson => pc \in {"requests", "undefined"}
  /\ phase \notin {"read", "done"} => answers = << >>

LEMMA PhaseInvInit == ProgramInit => PhaseInv
  BY DEF ProgramInit, ReadInit, ManagerInit, PhaseInv

LEMMA SourceKept ==
  ASSUME [ProgramNext]_programVars
  PROVE  IsJson' = IsJson
<1>1. UNCHANGED source
  BY DEF ProgramNext, programVars, LoadDocument, TurnToStatRequests, OpenText, ReadCount,
         ParseRequest, FinishParsing, ProcessModifyRequests, FinishModifying,
         RunInitializeRouter, ProcessReadRequest, PrintRequest, PrintAnswers
<1> QED
  BY <1>1 DEF IsJson

LEMMA PhaseInvStep ==
  ASSUME PhaseInv, [ProgramNext]_programVars
  PROVE  PhaseInv'
<1>1. IsJson' = IsJson
  BY SourceKept
\* The program parses on, from a state where nothing is undefined.
<1>2. ASSUME UNCHANGED readVars, pc = "requests", answers = << >>,
             phase' \in {"count", "base", "stat", "modify", "terminated"}
      PROVE  PhaseInv'
  <2>1. pc' = "requests" /\ answers' = << >>
    BY <1>2 DEF readVars, managerVars, graphVars
  <2> QED
    BY <1>1, <1>2, <2>1 DEF PhaseInv
<1>3. CASE LoadDocument \/ TurnToStatRequests
  <2>1. phase' \in {"base", "stat", "terminated"} /\ UNCHANGED readVars
    BY <1>3 DEF LoadDocument, TurnToStatRequests, EnterNodes, EnterPart, Terminate
  <2>2. phase \in {"start", "base"} /\ (phase = "base" => count = 0)
    BY <1>3 DEF LoadDocument, TurnToStatRequests
  <2> QED
    BY <1>2, <2>1, <2>2 DEF PhaseInv
<1>4. CASE OpenText \/ ReadCount
  <2>1. phase' \in {"count", "base", "stat"} /\ UNCHANGED readVars
    BY <1>4 DEF OpenText, ReadCount, ReadNumber, EnterPart
  <2>2. phase \in {"start", "count", "base"} /\ (phase = "base" => count = 0)
    BY <1>4 DEF OpenText, ReadCount
  <2> QED
    BY <1>2, <2>1, <2>2 DEF PhaseInv
<1>5. CASE FinishParsing
  <2>1. phase = "stat" /\ count = 0 /\ phase' = "modify" /\ UNCHANGED readVars
    BY <1>5 DEF FinishParsing
  <2> QED
    BY <1>2, <2>1 DEF PhaseInv
<1>6. CASE ParseRequest
  <2>1. phase \in {"base", "stat"} /\ count > 0 /\ pc = "requests" /\ answers = << >>
    BY <1>6 DEF ParseRequest, PhaseInv
  <2>2. PICK request : Take(request)
    BY <1>6 DEF ParseRequest
  <2>3. CASE Terminate \/ Keep(request)
    <3>1. phase' \in {"base", "stat", "terminated"} /\ UNCHANGED readVars
      BY <2>1, <2>3 DEF Terminate, Keep
    <3> QED
      BY <1>2, <2>1, <3>1
  <2>4. CASE Undefined /\ UNCHANGED <<phase, parseVars>>
    <3>1. pc' = "undefined" /\ answers' = answers /\ phase' = phase /\ count' = count
      BY <2>4 DEF Undefined, parseVars
    <3> QED
      BY <2>1, <3>1 DEF PhaseInv
  <2> QED
    BY <2>2, <2>3, <2>4 DEF Take
<1>7. CASE ProcessModifyRequests
  <2>1. phase = "modify" /\ phase' = phase /\ pc' = pc /\ answers' = answers
    BY <1>7 DEF ProcessModifyRequests, graphVars
  <2> QED
    BY <2>1 DEF PhaseInv
<1>8. CASE FinishModifying
  <2>1. /\ phase = "modify" /\ phase' = IF IsJson THEN "router" ELSE "read"
        /\ pc' = pc /\ answers' = answers
    BY <1>8 DEF FinishModifying, readVars, managerVars, graphVars
  <2> QED
    BY <1>1, <2>1 DEF PhaseInv
<1>9. CASE RunInitializeRouter
  <2>1. /\ phase = "router" /\ answers' = answers
        /\ phase' = CASE pc' = "ready" -> "read"
                      [] pc' \in {"thrown", "aborted"} -> "terminated"
                      [] OTHER -> "router"
    BY <1>9 DEF RunInitializeRouter
  <2>2. pc' \in {"stops", "thrown", "buses", "ready", "aborted"}
    BY <1>9 DEF RunInitializeRouter, InitializeRouter, NumberStop, CreateGraph,
               AddBusEdges, EmplaceRouter
  <2>3. IsJson /\ answers = << >>
    BY <2>1 DEF PhaseInv
  <2> QED
    BY <1>1, <2>1, <2>2, <2>3 DEF PhaseInv
<1>10. CASE ProcessReadRequest
  <2>1. /\ phase = "read" /\ phase' = phase /\ IsJson
    BY <1>10 DEF ProcessReadRequest
  <2>2. pc' \in {"ready", "undefined"}
    <3>1. PICK q \in ReadRequest : Read(q)
      BY <1>10, ProcessReadRequestStep
    <3> QED
      BY <2>1, <3>1 DEF PhaseInv, Read, GetBusInfo, GetStopInfo, GetCachedRoute, FindNoRoute,
           BuildNewRoute, BuildUnknownRoute, Undefined, managerVars, graphVars
  <2> QED
    BY <1>1, <2>1, <2>2 DEF PhaseInv
<1>11. CASE PrintRequest
  <2>1. phase = "read" /\ phase' = phase /\ ~ IsJson
    BY <1>11 DEF PrintRequest
  <2>2. pc' = pc \/ pc' = "undefined"
    BY <1>11, PrintRequestStep DEF Undefined, managerVars, graphVars
  <2> QED
    BY <1>1, <2>1, <2>2 DEF PhaseInv
<1>12. CASE PrintAnswers
  BY <1>12 DEF PrintAnswers, PhaseInv
<1>13. CASE UNCHANGED programVars
  BY <1>1, <1>13 DEF programVars, readVars, managerVars, graphVars, parseVars, PhaseInv
<1> QED
  BY <1>3, <1>4, <1>5, <1>6, <1>7, <1>8, <1>9, <1>10, <1>11, <1>12, <1>13 DEF ProgramNext

\* What a step does to the router: it manages it, reads it, or leaves it.
LEMMA RouterStep ==
  ASSUME PhaseInv, [ProgramNext]_programVars
  PROVE  \/ ManagerNext /\ UNCHANGED <<routeVars, answers>>
         \/ IsJson /\ \E q \in ReadRequest : Read(q)
         \/ ~ IsJson /\ UNCHANGED <<managerVars, routeVars>>
         \/ Undefined /\ (IsJson => pc = "requests")
         \/ UNCHANGED readVars
<1>1. CASE \/ LoadDocument \/ TurnToStatRequests \/ OpenText \/ ReadCount
           \/ FinishParsing \/ FinishModifying \/ PrintAnswers
  BY <1>1, ParsingStep
<1>2. CASE ParseRequest
  BY <1>2, ParseRequestStep DEF ParseRequest, PhaseInv
<1>3. CASE ProcessModifyRequests
  <2>1. pc = "requests" /\ UNCHANGED <<graphVars, routeVars, answers>>
    BY <1>3 DEF ProcessModifyRequests, PhaseInv
  <2>2. PICK r : AddBus(r) \/ AddStop(r)
    BY <1>3 DEF ProcessModifyRequests
  <2>3. Next
    BY <2>2 DEF Next, AddBus, AddStop
  <2> QED
    BY <2>1, <2>3 DEF ManagerNext, ProcessModifyRequest
<1>4. CASE RunInitializeRouter
  BY <1>4, RunInitializeRouterStep
<1>5. CASE ProcessReadRequest
  BY <1>5, ProcessReadRequestStep DEF ProcessReadRequest
<1>6. CASE PrintRequest
  BY <1>6, PrintRequestStep DEF PrintRequest
<1>7. CASE UNCHANGED programVars
  BY <1>7 DEF programVars
<1> QED
  BY <1>1, <1>2, <1>3, <1>4, <1>5, <1>6, <1>7 DEF ProgramNext

LEMMA ManagedProgram ==
  ASSUME TypeOK, IndexHoldsRequests, StopsKnownOnceMentioned, Managed, PhaseInv,
         [ProgramNext]_programVars
  PROVE  Managed'
<1>1. CASE ManagerNext
  BY <1>1, ManagedStep
<1>2. ASSUME NEW q \in ReadRequest, Read(q) PROVE Managed'
  BY <1>2, ManagedRead
<1>3. CASE UNCHANGED managerVars
  BY <1>3, ManagedKept
<1>4. CASE Undefined
  BY <1>4 DEF Undefined, Managed
<1> QED
  BY <1>1, <1>2, <1>3, <1>4, RouterStep DEF readVars

\* What is sound of the catalogue and the graph is so in every phase.
LEMMA ProgramSound == ProgramSpec => [](Sound /\ PhaseInv /\ CacheInv)
<1>1. ProgramSpec => [](TypeOK /\ IndexHoldsRequests /\ StopsKnownOnceMentioned
                          /\ DeclaredDistancesWin)
  BY ProgramKeepsCatalogue, TypeCorrect, IndexInvariant, StopsKnownAlways,
     DeclaredDistancesWinAlways, PTL
<1>2. ProgramInit => Managed /\ PhaseInv /\ CacheInv
  BY NumberInvInit, ManagerInvInit, CacheInvInit, PhaseInvInit DEF ProgramInit, ReadInit, Managed
<1>3. PhaseInv /\ [ProgramNext]_programVars => PhaseInv'
  BY PhaseInvStep
<1>4. CacheInv /\ [ProgramNext]_programVars => CacheInv'
  BY CacheInvProgram
<1>5. TypeOK /\ IndexHoldsRequests /\ StopsKnownOnceMentioned /\ Managed /\ PhaseInv
        /\ [ProgramNext]_programVars => Managed'
  BY ManagedProgram
<1> QED
  BY <1>1, <1>2, <1>3, <1>4, <1>5, PTL DEF ProgramSpec, Sound

-----------------------------------------------------------------------------
(***************************************************************************)
(* The answers: to a document they are those of ReadRequests, and to a     *)
(* text those of the catalogue.                                            *)
(***************************************************************************)
LEMMA ReplyInvProgram ==
  ASSUME Sound, CacheInv, PhaseInv, IsJson, ReplyInv, [ProgramNext]_programVars
  PROVE  ReplyInv'
<1>1. CASE ManagerNext /\ UNCHANGED <<routeVars, answers>>
  BY <1>1, ReplyInvManage
<1>2. ASSUME NEW q \in ReadRequest, Read(q) PROVE ReplyInv'
  BY <1>2, ReplyInvRead
<1>3. CASE Undefined /\ pc = "requests"
  <2>1. answers' = << >> /\ DOMAIN route_cache_' = {}
    BY <1>3 DEF Undefined, ReplyInv, routeVars
  <2>2. \A n : n \notin DOMAIN answers'
    BY <2>1
  <2> QED
    BY <2>1, <2>2 DEF ReplyInv
<1>4. CASE UNCHANGED readVars
  BY <1>4, ReplyInvStutter
<1> QED
  BY <1>1, <1>2, <1>3, <1>4, RouterStep

\* A line of text asks for a bus or a stop.
LEMMA LineReads ==
  ASSUME NEW line, NEW n, NEW read,
         read = MakeRequestFromLine(STR_TO_READ_REQUEST_TYPE, line, n), read # Thrown
  PROVE  read.request.type \in {"Bus", "Stop"}
<1> DEFINE type == Token(line, Blank)
           words == STR_TO_READ_REQUEST_TYPE
<1>1. type \in DOMAIN words
  BY DEF MakeRequestFromLine
<1>2. words[type] \in {"GET_BUS", "GET_STOP", "GET_ROUTE"}
  BY <1>1 DEF STR_TO_READ_REQUEST_TYPE
<1> HIDE DEF type, words
<1>3. read = CASE words[type] = "ADD_BUS" -> AddBusFromLine(line, n)
               [] words[type] = "ADD_STOP" -> AddStopFromLine(line, n)
               [] words[type] = "GET_BUS" -> ReadRequestOf(0, BusRead(Rest(line, Blank)))
               [] words[type] = "GET_STOP" -> ReadRequestOf(0, StopRead(Rest(line, Blank)))
               [] words[type] = "GET_ROUTE" -> Thrown
  BY <1>1 DEF MakeRequestFromLine, type, words
<1>4. CASE words[type] = "GET_BUS"
  BY <1>3, <1>4 DEF ReadRequestOf, BusRead
<1>5. CASE words[type] = "GET_STOP"
  BY <1>3, <1>5 DEF ReadRequestOf, StopRead
<1>6. CASE words[type] = "GET_ROUTE"
  BY <1>3, <1>6
<1> QED
  BY <1>2, <1>4, <1>5, <1>6

TextReads ==
  /\ IsSeq(read_requests)
  /\ ~ IsJson => \A n \in DOMAIN read_requests :
                   read_requests[n].request.type \in {"Bus", "Stop"}

LEMMA TextReadsInit == ProgramInit => TextReads
<1>1. IsSeq(<< >>)
  BY EmptySeq DEF IsSeq
<1> QED
  BY <1>1 DEF ProgramInit, TextReads

LEMMA TextReadsStep ==
  ASSUME TextReads, [ProgramNext]_programVars
  PROVE  TextReads'
<1>1. IsJson' = IsJson
  BY SourceKept
<1>2. CASE UNCHANGED read_requests
  BY <1>1, <1>2 DEF TextReads, IsSeq
<1>3. CASE ParseRequest
  <2>1. Take(NextRequest)
    BY <1>3 DEF ParseRequest
  <2>2. PICK read : read = NextRequest
    OBVIOUS
  <2>3. CASE ~ UNCHANGED read_requests
    <3>1. /\ phase # "base" /\ read_requests' = Append(read_requests, read)
          /\ read # Thrown
      BY <2>1, <2>2, <2>3 DEF Take, Keep, Terminate, Undefined, parseVars
    <3>2. ASSUME ~ IsJson
          PROVE  read.request.type \in {"Bus", "Stop"}
      <4>1. PICK line, n : read = MakeRequestFromLine(STR_TO_READ_REQUEST_TYPE, line, n)
        BY <2>2, <3>1, <3>2 DEF NextRequest, MakeRequest
      <4> QED
        BY <3>1, <4>1, LineReads
    <3>3. /\ IsSeq(read_requests')
          /\ \A n \in DOMAIN read_requests' :
               read_requests'[n] = read
                 \/ (n \in DOMAIN read_requests /\ read_requests'[n] = read_requests[n])
      BY <3>1, AppendGrows DEF TextReads
    <3> QED
      BY <1>1, <3>2, <3>3 DEF TextReads, IsSeq
  <2> QED
    BY <1>2, <2>3
<1>4. CASE LoadDocument \/ TurnToStatRequests \/ OpenText \/ ReadCount
  BY <1>4, <1>2 DEF LoadDocument, TurnToStatRequests, OpenText, ReadCount, ReadNumber,
                    EnterNodes, EnterPart, Terminate, parseVars
<1>5. CASE \/ FinishParsing \/ ProcessModifyRequests \/ FinishModifying
           \/ RunInitializeRouter \/ ProcessReadRequest \/ PrintRequest \/ PrintAnswers
           \/ UNCHANGED programVars
  BY <1>5, <1>2 DEF FinishParsing, ProcessModifyRequests, FinishModifying,
       RunInitializeRouter, ProcessReadRequest, PrintRequest, PrintAnswers, parseVars,
       programVars
<1> QED
  BY <1>3, <1>4, <1>5 DEF ProgramNext

\* What GetBusInfoRequest and GetStopInfoRequest find.
Found(q) == IF q.type = "Bus" THEN BusAnswer(q.name) ELSE StopAnswer(q.name)

TextAnswers ==
  ~ IsJson => \A n \in DOMAIN answers : \E q :
                answers[n] = [request |-> q, reply |-> Found(q)]

LEMMA FoundKept ==
  ASSUME UNCHANGED vars
  PROVE  \A q : Found(q)' = Found(q)
<1>1. /\ \A b : BusAnswer(b)' = BusAnswer(b)
      /\ \A s : StopAnswer(s)' = StopAnswer(s)
  BY CatalogueKept DEF vars, catalogue
<1> QED
  BY <1>1 DEF Found

LEMMA TextAnswersStep ==
  ASSUME CacheInv, PhaseInv, TextAnswers, [ProgramNext]_programVars
  PROVE  TextAnswers'
<1>1. IsJson' = IsJson
  BY SourceKept
<1> SUFFICES ASSUME ~ IsJson PROVE TextAnswers'
  BY <1>1 DEF TextAnswers
<1>2. ASSUME UNCHANGED vars, NEW q,
             \/ UNCHANGED answers
             \/ answers' = Append(answers, [request |-> q, reply |-> Found(q)])
      PROVE  TextAnswers'
  <2>1. \A p : Found(p)' = Found(p)
    BY <1>2, FoundKept
  <2>2. ASSUME NEW n \in DOMAIN answers'
        PROVE  \E p : answers'[n] = [request |-> p, reply |-> Found(p)]
    <3>1. \/ n \in DOMAIN answers /\ answers'[n] = answers[n]
          \/ answers'[n] = [request |-> q, reply |-> Found(q)]
      BY <1>2, AppendGrows DEF CacheInv
    <3> QED
      BY <3>1 DEF TextAnswers
  <2> QED
    BY <2>1, <2>2 DEF TextAnswers
<1>3. CASE UNCHANGED <<vars, answers>>
  BY <1>2, <1>3
\* No answer is given before the catalogue is complete.
<1>4. CASE phase' \notin {"read", "done"}
  <2>1. answers' = << >>
    BY <1>4, PhaseInvStep DEF PhaseInv
  <2>2. \A n : n \notin DOMAIN answers'
    BY <2>1
  <2> QED
    BY <2>2 DEF TextAnswers
<1>5. CASE phase' \in {"read", "done"} /\ ~ UNCHANGED <<vars, answers>>
  <2>1. PrintRequest
    <3>1. ~ (LoadDocument \/ TurnToStatRequests \/ OpenText \/ ReadCount \/ FinishParsing
               \/ FinishModifying \/ PrintAnswers)
      BY <1>5, ParsingStep DEF readVars, managerVars
    <3>2. ~ ParseRequest
      BY <1>5, ParseRequestStep DEF readVars, managerVars, Undefined
    <3>3. ~ (ProcessModifyRequests \/ RunInitializeRouter \/ ProcessReadRequest)
      BY <1>5 DEF ProcessModifyRequests, RunInitializeRouter, ProcessReadRequest, PhaseInv
    <3> QED
      BY <1>5, <3>1, <3>2, <3>3 DEF ProgramNext, programVars, readVars, managerVars
  <2>2. PICK q : Reply(q, Found(q)) /\ UNCHANGED vars
    BY <1>5, <2>1 DEF PrintRequest, Undefined, Found, managerVars
  <2> QED
    BY <1>2, <2>2 DEF Reply
<1> QED
  BY <1>3, <1>4, <1>5

-----------------------------------------------------------------------------
(***************************************************************************)
(* Each step of the program is one of TripPlanner's, or none.              *)
(***************************************************************************)
\* What is right does not depend on when base requests are taken no longer.
LEMMA SamePromise ==
  /\ \A q, reply : Planner!RightReply(q, reply) => Promise!RightReply(q, reply)
  /\ \A f : Promise!Range(f) = Planner!Range(f)
<1>1. Promise!Mentioned = Planner!Mentioned
  BY DEF Planner!Mentioned, Promise!Mentioned, Planner!Route, Promise!Route
<1>2. /\ \A b : Promise!BusRequests(b) = Planner!BusRequests(b)
      /\ \A r : Promise!Route(r) = Planner!Route(r)
      /\ \A r : Promise!Trip(r) = Planner!Trip(r)
      /\ \A S : Promise!Cardinality(S) = Planner!Cardinality(S)
      /\ \A t, u : Promise!NoLater(t, u) = Planner!NoLater(t, u)
      /\ \A f : Promise!Range(f) = Planner!Range(f)
      /\ \A items : Promise!TotalTime(items) = Planner!TotalTime(items)
      /\ \A s : Promise!Wait(s) = Planner!Wait(s)
      /\ \A ride : Promise!Ride(ride) = Planner!Ride(ride)
  BY DEF Planner!BusRequests, Promise!BusRequests, Planner!Route, Promise!Route,
     Planner!Trip, Promise!Trip, Planner!Reverse, Promise!Reverse, Planner!Cardinality,
     Promise!Cardinality, Planner!NoLater, Promise!NoLater, Planner!Range,
     Promise!Range, Planner!Later, Promise!Later, Planner!TotalTime, Promise!TotalTime,
     Planner!Wait, Promise!Wait, Planner!Ride, Promise!Ride
<1>3. \A fleet : Promise!Timetable(fleet) = Planner!Timetable(fleet)
  BY DEF Planner!StopRequests, Promise!StopRequests, Planner!Declared, Promise!Declared,
     Planner!Position, Promise!Position, Planner!Flight, Promise!Flight, Planner!Road,
     Promise!Road, Planner!Along, Promise!Along, Planner!Total, Promise!Total,
     Planner!Reverse, Promise!Reverse, Planner!Over, Promise!Over, Planner!Runs,
     Promise!Runs, Planner!RidesOf, Promise!RidesOf, Planner!Timetable, Promise!Timetable
<1>4. \A run, i, j :
        /\ Promise!Total(Promise!Road, run, i, j) = Planner!Total(Planner!Road, run, i, j)
        /\ Promise!Total(Promise!Flight, run, i, j)
             = Planner!Total(Planner!Flight, run, i, j)
  BY DEF Planner!StopRequests, Promise!StopRequests, Planner!Declared, Promise!Declared,
     Planner!Position, Promise!Position, Planner!Flight, Promise!Flight, Planner!Road,
     Promise!Road, Planner!Along, Promise!Along, Planner!Total, Promise!Total
<1>5. Promise!Fleets = Planner!Fleets
  BY DEF Planner!Fleets, Promise!Fleets, Planner!Cardinality, Promise!Cardinality
<1>6. \A fleet, from, n : Promise!TravelTimes(fleet, from, n) = Planner!TravelTimes(fleet, from, n)
  BY DEF Planner!TravelTimes, Promise!TravelTimes, Planner!Mentioned, Promise!Mentioned,
     Planner!Route, Promise!Route, Planner!StopRequests, Promise!StopRequests,
     Planner!Declared, Promise!Declared, Planner!Position, Promise!Position,
     Planner!Flight, Promise!Flight, Planner!Road, Promise!Road, Planner!Along,
     Promise!Along, Planner!Total, Promise!Total, Planner!Reverse, Promise!Reverse,
     Planner!Runs, Promise!Runs, Planner!RidesOf, Promise!RidesOf, Planner!Timetable,
     Promise!Timetable, Planner!Over, Promise!Over, Planner!Later, Promise!Later
<1>7. ASSUME NEW fleet, NEW items, NEW from, NEW to,
             Planner!Itinerary(fleet, items, from, to)
      PROVE  Promise!Itinerary(fleet, items, from, to)
  <2>1. Promise!Timetable(fleet) = Planner!Timetable(fleet)
    BY <1>3
  <2>2. /\ \A s : Promise!Wait(s) = Planner!Wait(s)
        /\ \A ride : Promise!Ride(ride) = Planner!Ride(ride)
    BY <1>2
  <2> QED
    BY <1>7, <2>1, <2>2 DEF Planner!Itinerary, Promise!Itinerary
<1>8. ASSUME NEW fleet, NEW from, NEW to, NEW reply,
             Planner!RightRoute(fleet, from, to, reply)
      PROVE  Promise!RightRoute(fleet, from, to, reply)
  <2> DEFINE planned == Planner!TravelTimes(fleet, from, Planner!Cardinality(Planner!Mentioned))[to]
             promised == Promise!TravelTimes(fleet, from, Promise!Cardinality(Promise!Mentioned))[to]
  <2>1. promised = planned
    BY <1>1, <1>2, <1>6
  <2>2. /\ \A t, u : Promise!NoLater(t, u) = Planner!NoLater(t, u)
        /\ Promise!TotalTime(reply.items) = Planner!TotalTime(reply.items)
    BY <1>2
  <2>3. Planner!Itinerary(fleet, reply.items, from, to)
          => Promise!Itinerary(fleet, reply.items, from, to)
    BY <1>7
  <2>4. IF planned = {} THEN reply = NotFound
        ELSE /\ reply # NotFound
             /\ Planner!Itinerary(fleet, reply.items, from, to)
             /\ reply.total_time = Planner!TotalTime(reply.items)
             /\ reply.total_time \in planned
             /\ \A t \in planned : Planner!NoLater(reply.total_time, t)
    BY <1>8 DEF Planner!RightRoute
  <2>5. IF promised = {} THEN reply = NotFound
        ELSE /\ reply # NotFound
             /\ Promise!Itinerary(fleet, reply.items, from, to)
             /\ reply.total_time = Promise!TotalTime(reply.items)
             /\ reply.total_time \in promised
             /\ \A t \in promised : Promise!NoLater(reply.total_time, t)
    <3> HIDE DEF planned, promised
    <3> QED
      BY <2>1, <2>2, <2>3, <2>4
  <2> QED
    BY <2>5 DEF Promise!RightRoute
<1>9. \A b, reply : Planner!RightBus(b, reply) => Promise!RightBus(b, reply)
  BY <1>2, <1>4 DEF Planner!RightBus, Promise!RightBus
<1>10. \A s, reply : Planner!RightStop(s, reply) => Promise!RightStop(s, reply)
  BY <1>1, <1>2 DEF Planner!RightStop, Promise!RightStop
<1> QED
  BY <1>1, <1>2, <1>5, <1>8, <1>9, <1>10 DEF Planner!RightReply, Promise!RightReply

\* Input as in ProperInput; a text has no routes.
\* ReadRequest has the read requests of the lines.
ProperRun ==
  phase = "read" =>
    /\ NoRepeatedStop
    /\ \A n \in DOMAIN read_requests : read_requests[n].request \in ReadRequest

LEMMA AnswerOfDocument ==
  ASSUME Sound, PhaseInv, CacheInv, ReplyInv, ListedOrDangling, ProperRun,
         ProcessReadRequest
  PROVE  (\E q \in ReadRequest : Promise!Answer(q)) \/ UNCHANGED Promise!serviceVars
<1>1. phase = "read" /\ phase' = phase /\ IsJson
  BY DEF ProcessReadRequest
<1>2. PICK q \in ReadRequest : Read(q)
  BY ProcessReadRequestStep
<1>3. Served
  <2>1. pc = "ready"
    BY <1>2 DEF Read, GetBusInfo, GetStopInfo, GetCachedRoute, FindNoRoute, BuildNewRoute,
                BuildUnknownRoute, NewRoute, Reading
  <2> QED
    BY <1>1, <2>1 DEF ProperRun, Served
<1>4. CASE Planner!Answer(q)
  <2>1. UNCHANGED done
    BY <1>4 DEF Planner!Answer
  <2>2. PICK a \in Planner!Range(answers') :
          /\ answers' = Append(answers, a)
          /\ a.request = q
          /\ Planner!RightReply(q, a.reply)
          /\ \A n \in DOMAIN answers :
               answers[n].request = q => answers[n].reply = a.reply
    BY <1>4 DEF Planner!Answer
  <2>3. Promise!RightReply(q, a.reply) /\ a \in Promise!Range(answers')
    BY <2>2, SamePromise
  <2> QED
    BY <1>1, <2>1, <2>2, <2>3 DEF Promise!Answer
<1>5. CASE UNCHANGED Planner!serviceVars
  BY <1>1, <1>5 DEF Planner!serviceVars, Promise!serviceVars
<1> QED
  BY <1>2, <1>3, <1>4, <1>5, ReadIsAnswered

LEMMA AnswerOfText ==
  ASSUME Sound, PhaseInv, CacheInv, TextReads, TextAnswers, ListedOrDangling, ProperRun,
         PrintRequest
  PROVE  (\E q \in ReadRequest : Promise!Answer(q)) \/ UNCHANGED Promise!serviceVars
<1>1. phase = "read" /\ phase' = phase /\ ~ IsJson
  BY DEF PrintRequest
<1>2. CASE Undefined
  BY <1>1, <1>2 DEF Undefined, vars, Promise!serviceVars
<1>3. CASE ~ Undefined
  <2>1. PICK n : n = Len(answers) + 1
    OBVIOUS
  <2>2. PICK q : q = read_requests[n].request
    OBVIOUS
  <2>3. /\ Len(answers) < Len(read_requests)
        /\ ~ (q.type = "Stop" /\ q.name \in stop_index_ /\ Dangling(q.name))
        /\ answers' = Append(answers, [request |-> q, reply |-> Found(q)])
        /\ UNCHANGED done
    BY <1>3, <2>1, <2>2 DEF PrintRequest, Reply, Found, managerVars, vars
  <2>4. n \in DOMAIN read_requests
    <3>1. Len(answers) \in Nat /\ Len(read_requests) \in Nat
          /\ DOMAIN read_requests = 1 .. Len(read_requests)
      BY LenProperties DEF CacheInv, TextReads, IsSeq
    <3> QED
      BY <2>1, <2>3, <3>1
  <2>5. q \in ReadRequest /\ q.type \in {"Bus", "Stop"}
    BY <1>1, <2>2, <2>4 DEF ProperRun, TextReads
  <2>6. Planner!RightReply(q, Found(q))
    <3>1. CASE q.type = "Bus"
      BY <1>1, <2>5, <3>1, RightBusReply DEF ProperRun, Found
    <3>2. CASE q.type = "Stop"
      BY <1>1, <2>3, <2>5, <3>2, RightStopReply DEF Found
    <3> QED
      BY <2>5, <3>1, <3>2
  <2>7. PICK a : a = [request |-> q, reply |-> Found(q)]
    OBVIOUS
  <2>8. a.request = q /\ a.reply = Found(q) /\ answers' = Append(answers, a)
    BY <2>3, <2>7
  <2>9. ASSUME NEW k \in DOMAIN answers, answers[k].request = q
        PROVE  answers[k].reply = Found(q)
    BY <1>1, <2>9 DEF TextAnswers
  <2>10. a \in Promise!Range(answers')
    <3>1. \E k \in DOMAIN Append(answers, a) : Append(answers, a)[k] = a
      BY AppendGrows DEF CacheInv
    <3> QED
      BY <2>8, <3>1 DEF Promise!Range
  <2>11. Promise!RightReply(q, a.reply)
    BY <2>6, <2>8, SamePromise
  <2>12. Promise!Answer(q)
    BY <1>1, <2>3, <2>8, <2>9, <2>10, <2>11 DEF Promise!Answer
  <2> QED
    BY <2>5, <2>12
<1> QED
  BY <1>2, <1>3

LEMMA EarlierStep ==
  ASSUME PhaseInv, ProgramNext, ~ ProcessReadRequest, ~ PrintRequest
  PROVE  \/ \E r \in AddStopRequest \cup AddBusRequest : Promise!Submit(r)
         \/ Promise!Open
         \/ UNCHANGED Promise!serviceVars
<1>1. CASE \/ LoadDocument \/ TurnToStatRequests \/ OpenText \/ ReadCount
           \/ FinishParsing
  <2>1. phase \notin {"read", "done"} /\ phase' \notin {"read", "done"}
    BY <1>1 DEF LoadDocument, TurnToStatRequests, OpenText, ReadCount, FinishParsing,
                EnterNodes, ReadNumber, EnterPart, Terminate
  <2>2. UNCHANGED <<done, answers>>
    BY <1>1, ParsingStep DEF readVars, managerVars, vars
  <2> QED
    BY <2>1, <2>2 DEF Promise!serviceVars
<1>2. CASE ParseRequest
  <2>1. phase \notin {"read", "done"} /\ phase' \notin {"read", "done"}
    BY <1>2 DEF ParseRequest, Take, Terminate, Keep
  <2>2. UNCHANGED <<done, answers>>
    BY <1>2, ParseRequestStep DEF readVars, managerVars, vars, Undefined
  <2> QED
    BY <2>1, <2>2 DEF Promise!serviceVars
<1>3. CASE ProcessModifyRequests
  <2>1. phase = "modify" /\ phase' = phase /\ UNCHANGED answers
    BY <1>3 DEF ProcessModifyRequests
  <2>2. PICK r : AddBus(r) \/ AddStop(r)
    BY <1>3 DEF ProcessModifyRequests
  <2>3. r \in (AddStopRequest \cup AddBusRequest) \ done /\ done' = done \cup {r}
    BY <2>2 DEF AddBus, AddStop
  <2> QED
    BY <2>1, <2>3 DEF Promise!Submit
<1>4. CASE FinishModifying \/ RunInitializeRouter
  <2>1. /\ phase \in {"modify", "router"} /\ phase' \in {"router", "read", "terminated"}
        /\ UNCHANGED answers
    BY <1>4 DEF FinishModifying, RunInitializeRouter, readVars
  <2>2. UNCHANGED done
    BY <1>4 DEF FinishModifying, RunInitializeRouter, InitializeRouter, NumberStop,
                CreateGraph, AddBusEdges, EmplaceRouter, readVars, managerVars, vars
  <2> QED
    BY <2>1, <2>2 DEF Promise!Open, Promise!serviceVars
<1>5. CASE PrintAnswers
  BY <1>5 DEF PrintAnswers, readVars, managerVars, vars, Promise!serviceVars
<1> QED
  BY <1>1, <1>2, <1>3, <1>4, <1>5 DEF ProgramNext

\* From the file or the lines to the answers the program does as TripPlanner
\* promises: whatever else is in the input, and wherever parsing ends it, all base
\* requests are taken in before the first answer, and every answer follows from
\* them (FinalLogic and BusinessLogic).
THEOREM ProgramAlwaysPlansTrips == ProgramSpec /\ []ProperRun => ProgramPlansTrips
<1>1. ProgramInit => Promise!Init
  BY DEF ProgramInit, ReadInit, ManagerInit, Init, Promise!Init
<1>2. ASSUME Sound, PhaseInv, CacheInv, IsJson => ReplyInv, TextReads, TextAnswers,
             ListedOrDangling, ProperRun, [ProgramNext]_programVars
      PROVE  [Promise!Next]_(Promise!serviceVars)
  <2>1. CASE ProcessReadRequest
    BY <1>2, <2>1, AnswerOfDocument DEF ProcessReadRequest, Promise!Next
  <2>2. CASE PrintRequest
    BY <1>2, <2>2, AnswerOfText DEF Promise!Next
  <2>3. CASE ProgramNext /\ ~ ProcessReadRequest /\ ~ PrintRequest
    BY <1>2, <2>3, EarlierStep DEF Promise!Next
  <2>4. CASE UNCHANGED programVars
    BY <2>4 DEF programVars, readVars, managerVars, vars, Promise!serviceVars
  <2> QED
    BY <1>2, <2>1, <2>2, <2>3, <2>4
<1>3. ProgramSpec => []ListedOrDangling
  BY ProgramKeepsCatalogue, StopsListOrDangle, PTL
<1>4. ProgramInit => (IsJson => ReplyInv) /\ TextReads /\ TextAnswers
  <2>1. ASSUME ProgramInit PROVE TextAnswers
    <3>1. \A n : n \notin DOMAIN answers
      BY <2>1 DEF ProgramInit, ReadInit
    <3> QED
      BY <3>1 DEF TextAnswers
  <2> QED
    BY <2>1, ReplyInvInit, TextReadsInit DEF ProgramInit
<1>5. Sound /\ PhaseInv /\ CacheInv /\ (IsJson => ReplyInv) /\ [ProgramNext]_programVars
        => (IsJson => ReplyInv)'
  BY SourceKept, ReplyInvProgram
<1>6. TextReads /\ [ProgramNext]_programVars => TextReads'
  BY TextReadsStep
<1>7. CacheInv /\ PhaseInv /\ TextAnswers /\ [ProgramNext]_programVars => TextAnswers'
  BY TextAnswersStep
<1> QED
  BY <1>1, <1>2, <1>3, <1>4, <1>5, <1>6, <1>7, ProgramSound, PTL
  DEF ProgramSpec, ProgramPlansTrips, Promise!Spec

-----------------------------------------------------------------------------
(***************************************************************************)
(* Parsing a document: the nodes of a list that were made requests, and    *)
(* those still unread.                                                     *)
(***************************************************************************)
ListOf(part) == At(source.root, part).array

HasList(part) == Has(source.root, part, "array")

\* The first of the nodes have been made requests.
Begun(requests, index, nodes) ==
  /\ IsSeq(requests)
  /\ Len(requests) <= Len(nodes)
  /\ \A n \in 1 .. Len(requests) :
       /\ requests[n] = MakeRequestFromJson(index, nodes[n], n)
       /\ requests[n] \notin {Thrown, Unspecified}

\* And the others are unread.
Remain(requests, nodes, rest, left) ==
  /\ IsSeq(rest)
  /\ Len(rest) = left
  /\ left = Len(nodes) - Len(requests)
  /\ \A n \in 1 .. left : rest[n] = nodes[Len(requests) + n]

Whole(requests, index, nodes) ==
  Begun(requests, index, nodes) /\ Len(requests) = Len(nodes)

BaseBegun == /\ HasList("base_requests")
             /\ Begun(mod_requests, STR_TO_MOD_REQUEST_TYPE, ListOf("base_requests"))

BaseWhole == /\ HasList("base_requests")
             /\ Whole(mod_requests, STR_TO_MOD_REQUEST_TYPE, ListOf("base_requests"))

StatBegun == /\ HasList("stat_requests")
             /\ Begun(read_requests, STR_TO_READ_REQUEST_TYPE, ListOf("stat_requests"))

StatWhole == /\ HasList("stat_requests")
             /\ Whole(read_requests, STR_TO_READ_REQUEST_TYPE, ListOf("stat_requests"))

\* What a document still has to be parsed is what has not been.
ParseInv ==
  /\ source \in Documents \cup Texts
  /\ IsJson =>
       /\ phase # "count"
       /\ phase = "start" => mod_requests = << >> /\ read_requests = << >>
       /\ phase = "base" => /\ BaseBegun
                            /\ Remain(mod_requests, ListOf("base_requests"), unread, count)
                            /\ read_requests = << >>
                            /\ <<"stat_requests">> \in DOMAIN source.root.map
       /\ phase = "stat" => /\ BaseWhole
                            /\ StatBegun
                            /\ Remain(read_requests, ListOf("stat_requests"), unread, count)
       /\ phase \in {"modify", "router", "read", "done"} => BaseWhole /\ StatWhole

LEMMA ListIsSeq ==
  ASSUME source \in Documents \cup Texts, IsJson, NEW part \in {"base_requests", "stat_requests"},
         HasList(part)
  PROVE  IsSeq(ListOf(part))
BY InputAssumption DEF IsJson, HasList, ListOf, IsSeq

\* A sequence is what it has where it has it.
LEMMA SeqParts ==
  ASSUME NEW s, IsSeq(s)
  PROVE  /\ Len(s) \in Nat /\ DOMAIN s = 1 .. Len(s)
         /\ s = [n \in 1 .. Len(s) |-> s[n]]
         /\ s # << >> => /\ IsSeq(Tail(s)) /\ Len(Tail(s)) = Len(s) - 1
                         /\ \A n \in 1 .. Len(s) - 1 : Tail(s)[n] = s[n + 1]
                         /\ Head(s) = s[1]
         /\ s = << >> <=> Len(s) = 0
<1> DEFINE S == {s[n] : n \in DOMAIN s}
<1>1. s \in Seq(S)
  BY DEF IsSeq
<1> HIDE DEF S
<1>2. /\ Len(s) \in Nat /\ DOMAIN s = 1 .. Len(s)
      /\ s = [n \in 1 .. Len(s) |-> s[n]]
      /\ s = << >> <=> Len(s) = 0
  BY <1>1
<1>3. ASSUME s # << >>
      PROVE  /\ Tail(s) \in Seq(S) /\ Len(Tail(s)) = Len(s) - 1
             /\ \A n \in 1 .. Len(s) - 1 : Tail(s)[n] = s[n + 1]
             /\ Head(s) = s[1]
  BY <1>1, <1>3
<1>4. ASSUME NEW t \in Seq(S) PROVE IsSeq(t)
  <2>1. \A n \in DOMAIN t : t[n] \in {t[m] : m \in DOMAIN t}
    OBVIOUS
  <2>2. Len(t) \in Nat /\ DOMAIN t = 1 .. Len(t) /\ t = [n \in 1 .. Len(t) |-> t[n]]
    OBVIOUS
  <2> QED
    BY <2>1, <2>2 DEF IsSeq
<1> QED
  BY <1>2, <1>3, <1>4

LEMMA EmptyBegun ==
  ASSUME NEW index, NEW nodes, IsSeq(nodes)
  PROVE  Begun(<< >>, index, nodes) /\ Remain(<< >>, nodes, nodes, Len(nodes))
<1>1. IsSeq(<< >>) /\ Len(<< >>) = 0
  BY DEF IsSeq
<1>2. Len(nodes) \in Nat
  BY SeqParts
<1> QED
  BY <1>1, <1>2 DEF Begun, Remain

LEMMA NextBegun ==
  ASSUME NEW requests, NEW index, NEW nodes, NEW rest, NEW left, NEW request,
         IsSeq(nodes), Begun(requests, index, nodes), Remain(requests, nodes, rest, left),
         left > 0,
         request = MakeRequestFromJson(index, Head(rest), Len(requests) + 1),
         request \notin {Thrown, Unspecified}
  PROVE  /\ rest # << >>
         /\ Begun(Append(requests, request), index, nodes)
         /\ Remain(Append(requests, request), nodes, Tail(rest), left - 1)
<1> DEFINE longer == Append(requests, request)
<1>1. /\ IsSeq(requests) /\ Len(requests) \in Nat
      /\ IsSeq(rest) /\ Len(rest) = left
      /\ Len(nodes) \in Nat
      /\ left = Len(nodes) - Len(requests)
  BY SeqParts DEF Begun, Remain
<1>2. /\ rest # << >>
      /\ IsSeq(Tail(rest)) /\ Len(Tail(rest)) = left - 1
      /\ \A n \in 1 .. left - 1 : Tail(rest)[n] = rest[n + 1]
      /\ Head(rest) = rest[1]
  BY <1>1, SeqParts
<1>3. Head(rest) = nodes[Len(requests) + 1]
  BY <1>1, <1>2 DEF Remain
<1>4. /\ IsSeq(longer) /\ Len(longer) = Len(requests) + 1
      /\ longer[Len(requests) + 1] = request
      /\ \A n \in 1 .. Len(requests) : longer[n] = requests[n]
  <2> DEFINE S == {requests[n] : n \in DOMAIN requests} \cup {request}
  <2>1. requests \in Seq(S)
    BY <1>1, SeqMonotonic DEF IsSeq
  <2>2. /\ Len(longer) = Len(requests) + 1
        /\ longer[Len(requests) + 1] = request
        /\ \A n \in 1 .. Len(requests) : longer[n] = requests[n]
    BY <2>1, AppendProperties
  <2> QED
    BY <1>1, <2>2, AppendGrows
<1> HIDE DEF longer
<1>5. Begun(longer, index, nodes)
  BY <1>1, <1>3, <1>4 DEF Begun
<1>6. Remain(longer, nodes, Tail(rest), left - 1)
  BY <1>1, <1>2, <1>4 DEF Remain
<1> QED
  BY <1>2, <1>5, <1>6 DEF longer

LEMMA ParseInvInit == ProgramInit => ParseInv
BY DEF ProgramInit, ParseInv

LEMMA ParseInvStep ==
  ASSUME ParseInv, [ProgramNext]_programVars
  PROVE  ParseInv'
<1>1. UNCHANGED source /\ IsJson' = IsJson /\ source \in Documents \cup Texts
  BY SourceKept DEF ProgramNext, programVars, LoadDocument, TurnToStatRequests, OpenText,
     ReadCount, ParseRequest, FinishParsing, ProcessModifyRequests, FinishModifying,
     RunInitializeRouter, ProcessReadRequest, PrintRequest, PrintAnswers, ParseInv
<1> SUFFICES ASSUME IsJson PROVE ParseInv'
  BY <1>1 DEF ParseInv
<1>2. \A part \in {"base_requests", "stat_requests"} :
        /\ ListOf(part)' = ListOf(part) /\ HasList(part)' = HasList(part)
        /\ HasList(part) => IsSeq(ListOf(part)) /\ Len(ListOf(part)) \in Nat
  BY <1>1, ListIsSeq, SeqParts DEF ListOf, HasList
<1> DEFINE baseNodes == ListOf("base_requests")
           statNodes == ListOf("stat_requests")
<1>3. baseNodes' = baseNodes /\ statNodes' = statNodes
  BY <1>2
<1>4. CASE phase' = "terminated"
  BY <1>1, <1>4 DEF ParseInv
<1>5. ASSUME LoadDocument, phase' # "terminated" PROVE ParseInv'
  <2>1. /\ phase = "start" /\ EnterNodes("base", At(source.root, "base_requests"))
        /\ HasSettings(source.root)
        /\ {<<"base_requests">>, <<"stat_requests">>} \subseteq DOMAIN source.root.map
    BY <1>5 DEF LoadDocument, Terminate
  <2>2. HasList("base_requests") /\ EnterPart("base", baseNodes, Len(baseNodes))
    BY <1>5, <2>1 DEF EnterNodes, Terminate, HasList, ListOf, Has, HasSettings
  <2>3. /\ phase' = "base" /\ mod_requests' = << >> /\ read_requests' = << >>
        /\ unread' = baseNodes /\ count' = Len(baseNodes)
    BY <2>1, <2>2 DEF EnterPart, ParseInv
  <2>4. /\ Begun(<< >>, STR_TO_MOD_REQUEST_TYPE, baseNodes)
        /\ Remain(<< >>, baseNodes, baseNodes, Len(baseNodes))
    BY <1>2, <2>2, EmptyBegun
  <2>5. BaseBegun' /\ Remain(mod_requests, baseNodes, unread, count)'
    BY <1>2, <1>3, <2>2, <2>3, <2>4 DEF BaseBegun
  <2> QED
    BY <1>1, <2>1, <2>3, <2>5 DEF ParseInv
<1>6. ASSUME TurnToStatRequests, phase' # "terminated" PROVE ParseInv'
  <2>1. phase = "base" /\ count = 0 /\ EnterNodes("stat", At(source.root, "stat_requests"))
    BY <1>6 DEF TurnToStatRequests
  <2>2. HasList("stat_requests") /\ EnterPart("stat", statNodes, Len(statNodes))
    BY <1>6, <2>1 DEF EnterNodes, Terminate, HasList, ListOf, Has, ParseInv,
       BaseBegun
  <2>3. /\ BaseBegun /\ Remain(mod_requests, baseNodes, unread, count)
        /\ read_requests = << >>
    BY <2>1 DEF ParseInv
  <2>4. /\ phase' = "stat" /\ mod_requests' = mod_requests /\ read_requests' = << >>
        /\ unread' = statNodes /\ count' = Len(statNodes)
    BY <2>2, <2>3 DEF EnterPart
  <2>5. BaseWhole
    BY <1>2, <2>1, <2>3, SeqParts DEF BaseBegun, BaseWhole, Whole, Begun, Remain
  <2>6. BaseWhole'
    BY <1>2, <1>3, <2>4, <2>5 DEF BaseWhole
  <2>7. /\ Begun(<< >>, STR_TO_READ_REQUEST_TYPE, statNodes)
        /\ Remain(<< >>, statNodes, statNodes, Len(statNodes))
    BY <1>2, <2>2, EmptyBegun
  <2>8. StatBegun' /\ Remain(read_requests, statNodes, unread, count)'
    BY <1>2, <1>3, <2>2, <2>4, <2>7 DEF StatBegun
  <2> QED
    BY <1>1, <2>4, <2>6, <2>8 DEF ParseInv
<1>7. ASSUME ParseRequest, phase' # "terminated" PROVE ParseInv'
  <2>1. phase \in {"base", "stat"} /\ count > 0
    BY <1>7 DEF ParseRequest
  <2>2. PICK request : request = NextRequest /\ Take(request)
    BY <1>7 DEF ParseRequest
  <2>3. CASE Undefined /\ UNCHANGED <<phase, parseVars, output>>
    <3>1. /\ mod_requests' = mod_requests /\ read_requests' = read_requests
          /\ phase' = phase /\ unread' = unread /\ count' = count
      BY <2>3 DEF parseVars
    <3>2. /\ BaseBegun' = BaseBegun /\ BaseWhole' = BaseWhole /\ StatBegun' = StatBegun
      BY <1>2, <1>3, <3>1 DEF BaseBegun, BaseWhole, StatBegun
    <3>3. /\ Remain(mod_requests, baseNodes, unread, count)'
               = Remain(mod_requests, baseNodes, unread, count)
          /\ Remain(read_requests, statNodes, unread, count)'
               = Remain(read_requests, statNodes, unread, count)
      BY <1>3, <3>1
    <3> QED
      BY <1>1, <2>1, <3>1, <3>2, <3>3 DEF ParseInv
  <2>4. CASE Keep(request) /\ request \notin {Thrown, Unspecified}
    <3>1. /\ unread' = IF unread = << >> THEN << >> ELSE Tail(unread)
          /\ count' = count - 1 /\ phase' = phase
      BY <2>4 DEF Keep
    <3>2. CASE phase = "base"
      <4>1. /\ mod_requests' = Append(mod_requests, request)
            /\ read_requests' = read_requests
        BY <2>4, <3>2 DEF Keep
      <4>2. request = MakeRequestFromJson(STR_TO_MOD_REQUEST_TYPE, Head(unread),
                                          Len(mod_requests) + 1)
        BY <2>2, <3>2 DEF NextRequest, MakeRequest
      <4>3. /\ BaseBegun /\ Remain(mod_requests, baseNodes, unread, count)
            /\ read_requests = << >>
        BY <3>2 DEF ParseInv
      <4>4. /\ unread # << >>
            /\ Begun(Append(mod_requests, request), STR_TO_MOD_REQUEST_TYPE, baseNodes)
            /\ Remain(Append(mod_requests, request), baseNodes, Tail(unread), count - 1)
        BY <1>2, <2>1, <2>4, <4>2, <4>3, NextBegun DEF BaseBegun
      <4>5. BaseBegun' /\ Remain(mod_requests, baseNodes, unread, count)'
        BY <1>2, <1>3, <3>1, <4>1, <4>3, <4>4 DEF BaseBegun
      <4> QED
        BY <1>1, <3>1, <3>2, <4>1, <4>3, <4>5 DEF ParseInv
    <3>3. CASE phase = "stat"
      <4>1. /\ read_requests' = Append(read_requests, request)
            /\ mod_requests' = mod_requests
        BY <2>4, <3>3 DEF Keep
      <4>2. request = MakeRequestFromJson(STR_TO_READ_REQUEST_TYPE, Head(unread),
                                          Len(read_requests) + 1)
        BY <2>2, <3>3 DEF NextRequest, MakeRequest
      <4>3. /\ BaseWhole
            /\ StatBegun /\ Remain(read_requests, statNodes, unread, count)
        BY <3>3 DEF ParseInv
      <4>4. /\ unread # << >>
            /\ Begun(Append(read_requests, request), STR_TO_READ_REQUEST_TYPE, statNodes)
            /\ Remain(Append(read_requests, request), statNodes, Tail(unread), count - 1)
        BY <1>2, <2>1, <2>4, <4>2, <4>3, NextBegun DEF StatBegun
      <4>5. StatBegun' /\ Remain(read_requests, statNodes, unread, count)'
        BY <1>2, <1>3, <3>1, <4>1, <4>3, <4>4 DEF StatBegun
      <4>6. BaseWhole'
        BY <1>2, <1>3, <4>1, <4>3 DEF BaseWhole
      <4> QED
        BY <1>1, <3>1, <3>3, <4>5, <4>6 DEF ParseInv
    <3> QED
      BY <2>1, <3>2, <3>3
  <2> QED
    BY <1>7, <2>2, <2>3, <2>4 DEF Take, Terminate
<1>8. CASE FinishParsing
  <2>1. /\ phase = "stat" /\ count = 0 /\ phase' = "modify"
        /\ mod_requests' = mod_requests /\ read_requests' = read_requests
    BY <1>8 DEF FinishParsing, parseVars
  <2>2. BaseWhole /\ StatBegun /\ Remain(read_requests, statNodes, unread, count)
    BY <2>1 DEF ParseInv
  <2>3. StatWhole
    BY <1>2, <2>1, <2>2, SeqParts DEF StatBegun, StatWhole, Whole, Begun, Remain
  <2>4. BaseWhole' /\ StatWhole'
    BY <1>2, <1>3, <2>1, <2>2, <2>3 DEF BaseWhole, StatWhole
  <2> QED
    BY <1>1, <2>1, <2>4 DEF ParseInv
<1>9. ASSUME phase \in {"modify", "router", "read"}, UNCHANGED parseVars,
             phase' \in {"modify", "router", "read", "done", "terminated"}
      PROVE  ParseInv'
  <2>1. BaseWhole /\ StatWhole /\ mod_requests' = mod_requests /\ read_requests' = read_requests
    BY <1>9 DEF ParseInv, parseVars
  <2>2. BaseWhole' /\ StatWhole'
    BY <1>2, <1>3, <2>1 DEF BaseWhole, StatWhole
  <2> QED
    BY <1>1, <1>9, <2>2 DEF ParseInv
<1>10. CASE \/ ProcessModifyRequests \/ FinishModifying \/ RunInitializeRouter
            \/ ProcessReadRequest \/ PrintAnswers
  <2>1. phase \in {"modify", "router", "read"} /\ UNCHANGED parseVars
    BY <1>10 DEF ProcessModifyRequests, FinishModifying, RunInitializeRouter,
                 ProcessReadRequest, PrintAnswers
  <2>2. phase' \in {"modify", "router", "read", "done", "terminated"}
    BY <1>10, <2>1 DEF ProcessModifyRequests, FinishModifying, RunInitializeRouter,
                 ProcessReadRequest, PrintAnswers
  <2> QED
    BY <1>9, <2>1, <2>2
<1>11. CASE UNCHANGED programVars
  <2>1. /\ phase' = phase /\ mod_requests' = mod_requests /\ read_requests' = read_requests
        /\ unread' = unread /\ count' = count
    BY <1>11 DEF programVars, parseVars
  <2>2. /\ BaseBegun' = BaseBegun /\ BaseWhole' = BaseWhole
        /\ StatBegun' = StatBegun /\ StatWhole' = StatWhole
    BY <1>2, <1>3, <2>1 DEF BaseBegun, BaseWhole, StatBegun, StatWhole
  <2>3. /\ Remain(mod_requests, baseNodes, unread, count)'
             = Remain(mod_requests, baseNodes, unread, count)
        /\ Remain(read_requests, statNodes, unread, count)'
             = Remain(read_requests, statNodes, unread, count)
    BY <1>3, <2>1
  <2> QED
    BY <1>1, <2>1, <2>2, <2>3 DEF ParseInv
<1> QED
  BY <1>4, <1>5, <1>6, <1>7, <1>8, <1>10, <1>11
  DEF ProgramNext, OpenText, ReadCount, PrintRequest

LEMMA WholeIsParsed ==
  ASSUME NEW requests, NEW index, NEW part \in {"base_requests", "stat_requests"},
         source \in Documents \cup Texts, IsJson, HasList(part),
         Whole(requests, index, ListOf(part))
  PROVE  IsParsed(requests, index, part)
<1>1. IsSeq(ListOf(part))
  BY ListIsSeq
<1>2. DOMAIN ListOf(part) = 1 .. Len(ListOf(part)) /\ DOMAIN requests = 1 .. Len(requests)
      /\ requests = [n \in 1 .. Len(requests) |-> requests[n]]
  BY <1>1, SeqParts DEF Whole, Begun
<1>3. \A n \in DOMAIN ListOf(part) : requests[n] = MakeRequestFromJson(index, ListOf(part)[n], n)
  BY <1>2 DEF Whole, Begun
<1>4. requests = [n \in DOMAIN ListOf(part) |-> MakeRequestFromJson(index, ListOf(part)[n], n)]
  BY <1>2, <1>3 DEF Whole
<1> QED
  BY <1>2, <1>4 DEF IsParsed, ListOf, Whole, Begun

\* For every document, whatever is wrong with it: nothing is processed or printed
\* before all nodes of both lists have been made requests, and a node that cannot
\* be parsed is never passed over (FinalLogic, ParseRequests).
THEOREM EverythingIsAlwaysParsed == ProgramSpec => []EverythingIsParsed
<1>1. ParseInv => EverythingIsParsed
  BY WholeIsParsed DEF ParseInv, EverythingIsParsed, BaseWhole, StatWhole
<1> QED
  BY <1>1, ParseInvInit, ParseInvStep, PTL DEF ProgramSpec

-----------------------------------------------------------------------------
(***************************************************************************)
(* A request that is written as a node and made of the node again.         *)
(***************************************************************************)
LEMMA FieldOf ==
  ASSUME NEW fields, NEW f \in DOMAIN fields, NEW node, node = Fields(fields)
  PROVE  /\ At(node, f) = fields[f]
         /\ \A alternative : Has(node, f, alternative) <=> Holds(fields[f], alternative)
BY DEF Fields, MapNode, Holds, At, Has

LEMMA NodeKinds ==
  /\ \A x : Holds(StringNode(x), "string") /\ StringNode(x).string = x
  /\ \A x : Holds(BoolNode(x), "bool") /\ BoolNode(x).bool = x
  /\ \A x : Holds(ArrayNode(x), "array") /\ ArrayNode(x).array = x
  /\ \A x : Holds(MapNode(x), "map") /\ MapNode(x).map = x
  /\ \A x, y : Holds(DoubleNode(x, y), "magnitude")
BY DEF StringNode, BoolNode, ArrayNode, MapNode, DoubleNode, Holds

LEMMA Decimals ==
  ASSUME NEW n \in Nat, NEW decimals \in 0 .. Unit - 1
  PROVE  /\ Truncated(WithDecimals(n, decimals)) = n
         /\ ~ IsBelowZero(WithDecimals(n, decimals))
         /\ Holds(WithDecimals(n, decimals), "magnitude")
<1>1. (n * Unit + decimals) \div Unit = n
  BY UnitAssumption
<1>2. n * Unit + decimals \in Nat
  BY UnitAssumption
<1> QED
  BY <1>1, <1>2, UnitAssumption
  DEF Truncated, WithDecimals, IsBelowZero, InUnits, DoubleNode, Holds

LEMMA SignedUnits ==
  ASSUME NEW n \in Int
  PROVE  InUnits(Signed(n)) = n /\ Holds(Signed(n), "magnitude")
<1>1. ASSUME n < 0 PROVE InUnits(Signed(n)) = n
  <2>1. (n < 0) = TRUE
    BY <1>1
  <2>2. Signed(n) = DoubleNode(TRUE, -n)
    BY <1>1, <2>1, Zenon DEF Signed
  <2>3. InUnits(DoubleNode(TRUE, -n)) = - (-n)
    BY DEF InUnits, DoubleNode
  <2>4. - (-n) = n
    OBVIOUS
  <2> QED
    BY <2>2, <2>3, <2>4, Zenon
<1>2. ASSUME ~ (n < 0) PROVE InUnits(Signed(n)) = n
  <2>1. (n < 0) = FALSE
    BY <1>2
  <2>2. Signed(n) = DoubleNode(FALSE, n)
    BY <1>2, <2>1, Zenon DEF Signed
  <2>3. InUnits(DoubleNode(FALSE, n)) = n
    BY DEF InUnits, DoubleNode
  <2> QED
    BY <2>2, <2>3
<1>3. Holds(Signed(n), "magnitude")
  BY NodeKinds DEF Signed
<1> QED
  BY <1>1, <1>2, <1>3

LEMMA BusAsWritten ==
  ASSUME NEW n, NEW name, NEW roundtrip \in BOOLEAN, NEW stops,
         stops = [i \in DOMAIN stops |-> stops[i]]
  PROVE  LET r == AddBusRequestOf(n, name, roundtrip, stops)
         IN  MakeRequestFromJson(STR_TO_MOD_REQUEST_TYPE, BusNode(r), n) = r
<1> DEFINE r == AddBusRequestOf(n, name, roundtrip, stops)
           node == BusNode(r)
           fields == [type |-> StringNode(<<"Bus">>),
                      name |-> StringNode(r.name),
                      is_roundtrip |-> BoolNode(r.type = "Circular"),
                      stops |-> Strings(r.stops)]
<1>1. r.name = name /\ r.stops = stops /\ (r.type = "Circular") = roundtrip
  BY DEF AddBusRequestOf
<1>2. /\ "type" \in DOMAIN fields /\ fields["type"] = StringNode(<<"Bus">>)
      /\ "name" \in DOMAIN fields /\ fields["name"] = StringNode(name)
      /\ "is_roundtrip" \in DOMAIN fields /\ fields["is_roundtrip"] = BoolNode(roundtrip)
      /\ "stops" \in DOMAIN fields /\ fields["stops"] = Strings(stops)
  BY <1>1
<1>3. node = Fields(fields)
  BY DEF BusNode
<1> HIDE DEF fields, node, r
<1>4. /\ At(node, "type") = StringNode(<<"Bus">>) /\ Has(node, "type", "string")
      /\ At(node, "name") = StringNode(name) /\ Has(node, "name", "string")
      /\ At(node, "is_roundtrip") = BoolNode(roundtrip) /\ Has(node, "is_roundtrip", "bool")
      /\ At(node, "stops") = Strings(stops) /\ Has(node, "stops", "array")
  BY <1>2, <1>3, FieldOf, NodeKinds DEF Strings
<1>5. /\ DOMAIN Strings(stops).array = DOMAIN stops
      /\ \A i \in DOMAIN stops : /\ Holds(Strings(stops).array[i], "string")
                                 /\ Strings(stops).array[i].string = stops[i]
  BY NodeKinds DEF Strings
<1>6. [i \in DOMAIN Strings(stops).array |-> Strings(stops).array[i].string] = stops
  BY <1>5
<1>7. AddBusFromJson(node, n) = r
  BY <1>4, <1>5, <1>6, NodeKinds DEF AddBusFromJson, Name, r
<1> QED
  BY <1>4, <1>7, Words, NodeKinds DEF MakeRequestFromJson, r, node

LEMMA StopAsWritten ==
  ASSUME NEW n, NEW name, NEW pos \in [latitude : Int, longitude : Int], NEW dist,
         dist = [s \in DOMAIN dist |-> dist[s]], \A s \in DOMAIN dist : dist[s] \in Nat,
         NEW decimals \in 0 .. Unit - 1
  PROVE  LET r == AddStopRequestOf(n, name, pos, dist)
         IN  MakeRequestFromJson(STR_TO_MOD_REQUEST_TYPE, StopNode(r, decimals), n) = r
<1> DEFINE r == AddStopRequestOf(n, name, pos, dist)
           node == StopNode(r, decimals)
           lengths == [s \in DOMAIN dist |-> WithDecimals(dist[s], decimals)]
           fields == [type |-> StringNode(<<"Stop">>),
                      name |-> StringNode(r.name),
                      latitude |-> Signed(r.pos.latitude),
                      longitude |-> Signed(r.pos.longitude),
                      road_distances |->
                        MapNode([s \in DOMAIN r.dist |-> WithDecimals(r.dist[s], decimals)])]
<1>1. r.name = name /\ r.pos = pos /\ r.dist = dist
  BY DEF AddStopRequestOf
<1>2. /\ "type" \in DOMAIN fields /\ fields["type"] = StringNode(<<"Stop">>)
      /\ "name" \in DOMAIN fields /\ fields["name"] = StringNode(name)
      /\ "latitude" \in DOMAIN fields /\ fields["latitude"] = Signed(pos.latitude)
      /\ "longitude" \in DOMAIN fields /\ fields["longitude"] = Signed(pos.longitude)
      /\ "road_distances" \in DOMAIN fields /\ fields["road_distances"] = MapNode(lengths)
  BY <1>1
<1>3. node = Fields(fields)
  BY DEF StopNode
<1>4. /\ DOMAIN lengths = DOMAIN dist
      /\ \A s \in DOMAIN dist : /\ Holds(lengths[s], "magnitude")
                                /\ ~ IsBelowZero(lengths[s])
                                /\ Truncated(lengths[s]) = dist[s]
  BY Decimals
<1> HIDE DEF fields, node, r, lengths
<1>5. /\ At(node, "type") = StringNode(<<"Stop">>) /\ Has(node, "type", "string")
      /\ At(node, "name") = StringNode(name) /\ Has(node, "name", "string")
      /\ At(node, "latitude") = Signed(pos.latitude) /\ Has(node, "latitude", "magnitude")
      /\ At(node, "longitude") = Signed(pos.longitude) /\ Has(node, "longitude", "magnitude")
      /\ At(node, "road_distances") = MapNode(lengths) /\ Has(node, "road_distances", "map")
  BY <1>2, <1>3, FieldOf, NodeKinds, SignedUnits
<1>6. At(node, "road_distances").map = lengths
  BY <1>5, NodeKinds
<1>7. /\ \A length \in Range(lengths) : Holds(length, "magnitude")
      /\ ~ \E length \in Range(lengths) : IsBelowZero(length)
  BY <1>4 DEF Range
<1>8. [stop \in DOMAIN lengths |-> Truncated(lengths[stop])] = dist
  BY <1>4
<1>9. Pos(node) = pos
  BY <1>5, SignedUnits DEF Pos, Coordinates
<1>10. AddStopFromJson(node, n) = AddStopRequestOf(n, name, pos, dist)
  BY <1>5, <1>6, <1>7, <1>8, <1>9, NodeKinds DEF AddStopFromJson, Name
<1> QED
  BY <1>5, <1>10, Words, NodeKinds DEF MakeRequestFromJson, r, node

LEMMA ReadAsWritten ==
  ASSUME NEW q, q.id \in Nat, NEW decimals \in 0 .. Unit - 1, NEW n, NEW name, NEW from, NEW to,
         \/ q = ReadRequestOf(q.id, BusRead(name))
         \/ q = ReadRequestOf(q.id, StopRead(name))
         \/ q = ReadRequestOf(q.id, RouteRead(from, to))
  PROVE  MakeRequestFromJson(STR_TO_READ_REQUEST_TYPE, ReadNode(q, decimals), n) = q
<1> DEFINE node == ReadNode(q, decimals)
<1>1. ASSUME NEW request, q.request = request, q = ReadRequestOf(q.id, request),
             At(node, "id") = WithDecimals(q.id, decimals), Has(node, "id", "magnitude")
      PROVE  WithId(node, request) = q
  BY <1>1, Decimals DEF WithId
<1>2. ASSUME NEW type \in {"Bus", "Stop"}, q = ReadRequestOf(q.id, [type |-> type, name |-> name])
      PROVE  MakeRequestFromJson(STR_TO_READ_REQUEST_TYPE, node, n) = q
  <2> DEFINE fields == [type |-> StringNode(<<q.request.type>>),
                        id |-> WithDecimals(q.id, decimals),
                        name |-> StringNode(q.request.name)]
  <2>1. q.request = [type |-> type, name |-> name]
    BY <1>2 DEF ReadRequestOf
  <2>2. /\ "type" \in DOMAIN fields /\ fields["type"] = StringNode(<<type>>)
        /\ "name" \in DOMAIN fields /\ fields["name"] = StringNode(name)
        /\ "id" \in DOMAIN fields /\ fields["id"] = WithDecimals(q.id, decimals)
    BY <2>1
  <2>3. node = Fields(fields)
    BY <2>1 DEF ReadNode
  <2> HIDE DEF node, fields
  <2>4. /\ At(node, "type") = StringNode(<<type>>) /\ Has(node, "type", "string")
        /\ At(node, "name") = StringNode(name) /\ Has(node, "name", "string")
        /\ At(node, "id") = WithDecimals(q.id, decimals) /\ Has(node, "id", "magnitude")
    BY <2>2, <2>3, FieldOf, NodeKinds, Decimals
  <2>5. WithId(node, [type |-> type, name |-> name]) = q
    BY <1>1, <1>2, <2>1, <2>4
  <2>6. CASE type = "Bus"
    BY <2>4, <2>5, <2>6, Words, NodeKinds DEF MakeRequestFromJson, GetBusFromJson, Name, BusRead
  <2>7. CASE type = "Stop"
    BY <2>4, <2>5, <2>7, Words, NodeKinds DEF MakeRequestFromJson, GetStopFromJson, Name, StopRead
  <2> QED
    BY <2>6, <2>7
<1>3. ASSUME q = ReadRequestOf(q.id, RouteRead(from, to))
      PROVE  MakeRequestFromJson(STR_TO_READ_REQUEST_TYPE, node, n) = q
  <2> DEFINE fields == [type |-> StringNode(<<"Route">>),
                        id |-> WithDecimals(q.id, decimals),
                        from |-> StringNode(q.request.from),
                        to |-> StringNode(q.request.to)]
  <2>1. q.request = RouteRead(from, to) /\ q.request.type = "Route"
        /\ q.request.from = from /\ q.request.to = to
    BY <1>3 DEF ReadRequestOf, RouteRead
  <2>2. /\ "type" \in DOMAIN fields /\ fields["type"] = StringNode(<<"Route">>)
        /\ "from" \in DOMAIN fields /\ fields["from"] = StringNode(from)
        /\ "to" \in DOMAIN fields /\ fields["to"] = StringNode(to)
        /\ "id" \in DOMAIN fields /\ fields["id"] = WithDecimals(q.id, decimals)
    BY <2>1
  <2>3. node = Fields(fields)
    BY <2>1 DEF ReadNode
  <2> HIDE DEF node, fields
  <2>4. /\ At(node, "type") = StringNode(<<"Route">>) /\ Has(node, "type", "string")
        /\ At(node, "from") = StringNode(from) /\ Has(node, "from", "string")
        /\ At(node, "to") = StringNode(to) /\ Has(node, "to", "string")
        /\ At(node, "id") = WithDecimals(q.id, decimals) /\ Has(node, "id", "magnitude")
    BY <2>2, <2>3, FieldOf, NodeKinds, Decimals
  <2>5. WithId(node, RouteRead(from, to)) = q
    BY <1>1, <1>3, <2>1, <2>4
  <2> QED
    BY <2>4, <2>5, Words, NodeKinds DEF MakeRequestFromJson, GetRouteFromJson
<1> QED
  BY <1>2, <1>3 DEF BusRead, StopRead

-----------------------------------------------------------------------------
(***************************************************************************)
(* Documents that are written from requests, with or without decimals.     *)
(***************************************************************************)
IsBase(r, n) ==
  IF IsStop(r)
    THEN /\ r = AddStopRequestOf(n, r.name, r.pos, r.dist)
         /\ r.pos \in [latitude : Int, longitude : Int]
         /\ r.dist \in [DOMAIN r.dist -> Nat]
    ELSE /\ r = AddBusRequestOf(n, r.name, r.type = "Circular", r.stops)
         /\ IsSeq(r.stops)

IsRead(q) ==
  /\ q = ReadRequestOf(q.id, q.request) /\ q.id \in Nat
  /\ IF q.request.type = "Route"
       THEN q.request = RouteRead(q.request.from, q.request.to)
       ELSE q.request \in {BusRead(q.request.name), StopRead(q.request.name)}

IsAsked(asked) ==
  /\ IsSeq(asked.base) /\ \A n \in DOMAIN asked.base : IsBase(asked.base[n], n)
  /\ IsSeq(asked.stat) /\ \A n \in DOMAIN asked.stat : IsRead(asked.stat[n])

\* A whole document is what some requests look like in the format.
IsWritten(d) ==
  /\ IsAsked(d.asked)
  /\ \E decimals \in 0 .. Unit - 1 :
       d.root = Document(d.asked, velocity_, wait_time_, decimals)

WholeDocuments == \A d \in Documents : d.whole => IsWritten(d)

LEMMA BaseAsWritten ==
  ASSUME NEW r, NEW n, IsBase(r, n), NEW decimals \in 0 .. Unit - 1
  PROVE  MakeRequestFromJson(STR_TO_MOD_REQUEST_TYPE, BaseNode(r, decimals), n) = r
<1>1. CASE IsStop(r)
  <2>1. r.dist = [s \in DOMAIN r.dist |-> r.dist[s]] /\ \A s \in DOMAIN r.dist : r.dist[s] \in Nat
    BY <1>1 DEF IsBase
  <2> DEFINE name == r.name
             pos == r.pos
             dist == r.dist
  <2>2. r = AddStopRequestOf(n, name, pos, dist) /\ pos \in [latitude : Int, longitude : Int]
    BY <1>1 DEF IsBase
  <2> HIDE DEF name, pos, dist
  <2>3. MakeRequestFromJson(STR_TO_MOD_REQUEST_TYPE,
                            StopNode(AddStopRequestOf(n, name, pos, dist), decimals), n)
          = AddStopRequestOf(n, name, pos, dist)
    BY <2>1, <2>2, StopAsWritten DEF dist
  <2> QED
    BY <1>1, <2>2, <2>3 DEF BaseNode
<1>2. CASE ~ IsStop(r)
  <2> DEFINE name == r.name
             roundtrip == r.type = "Circular"
             stops == r.stops
  <2>1. r = AddBusRequestOf(n, name, roundtrip, stops) /\ roundtrip \in BOOLEAN
    BY <1>2 DEF IsBase
  <2>2. stops = [i \in DOMAIN stops |-> stops[i]]
    BY <1>2, SeqParts DEF IsBase
  <2> HIDE DEF name, roundtrip, stops
  <2>3. MakeRequestFromJson(STR_TO_MOD_REQUEST_TYPE,
                            BusNode(AddBusRequestOf(n, name, roundtrip, stops)), n)
          = AddBusRequestOf(n, name, roundtrip, stops)
    BY <2>1, <2>2, BusAsWritten
  <2> QED
    BY <1>2, <2>1, <2>3 DEF BaseNode
<1> QED
  BY <1>1, <1>2

LEMMA StatAsWritten ==
  ASSUME NEW q, IsRead(q), NEW n, NEW decimals \in 0 .. Unit - 1
  PROVE  MakeRequestFromJson(STR_TO_READ_REQUEST_TYPE, ReadNode(q, decimals), n) = q
<1>1. q.id \in Nat /\ q = ReadRequestOf(q.id, q.request)
  BY DEF IsRead
<1>2. \E name, from, to : \/ q = ReadRequestOf(q.id, BusRead(name))
                          \/ q = ReadRequestOf(q.id, StopRead(name))
                          \/ q = ReadRequestOf(q.id, RouteRead(from, to))
  <2>1. CASE q.request.type = "Route"
    BY <1>1, <2>1 DEF IsRead
  <2>2. CASE q.request.type # "Route"
    BY <1>1, <2>2 DEF IsRead
  <2> QED
    BY <2>1, <2>2
<1> QED
  BY <1>1, <1>2, ReadAsWritten

LEMMA PartsOfDocument ==
  ASSUME NEW asked, NEW velocity, NEW wait, NEW decimals
  PROVE  LET root == Document(asked, velocity, wait, decimals)
         IN  /\ At(root, "base_requests").array
                  = [n \in DOMAIN asked.base |-> BaseNode(asked.base[n], decimals)]
             /\ At(root, "stat_requests").array
                  = [n \in DOMAIN asked.stat |-> ReadNode(asked.stat[n], decimals)]
<1> DEFINE base == ArrayNode([n \in DOMAIN asked.base |-> BaseNode(asked.base[n], decimals)])
           stat == ArrayNode([n \in DOMAIN asked.stat |-> ReadNode(asked.stat[n], decimals)])
           settings == Fields([bus_velocity |-> Signed(velocity * Unit),
                               bus_wait_time |-> Signed(wait * Unit)])
           fields == [routing_settings |-> settings, base_requests |-> base,
                      stat_requests |-> stat]
           root == Document(asked, velocity, wait, decimals)
<1>1. root = Fields(fields)
  BY DEF Document
<1> HIDE DEF base, stat, settings, root
<1>2. /\ "base_requests" \in DOMAIN fields /\ fields["base_requests"] = base
      /\ "stat_requests" \in DOMAIN fields /\ fields["stat_requests"] = stat
  OBVIOUS
<1> HIDE DEF fields
<1>3. At(root, "base_requests") = base /\ At(root, "stat_requests") = stat
  BY <1>1, <1>2, FieldOf
<1> QED
  BY <1>3, NodeKinds DEF base, stat, root

\* Of a document that was written from requests, with decimals or without, the
\* requests that are processed are those, in their order, with every name,
\* position, length and id (MakeRequestFromJson, ParseFromJson).
THEOREM DocumentsParsedAsWritten ==
  ASSUME WholeDocuments
  PROVE  ProgramSpec => [](IsJson => ParsedAsWritten)
<1>1. ASSUME ParseInv, EverythingIsParsed PROVE IsJson => ParsedAsWritten
  <2> SUFFICES ASSUME IsJson, phase \in {"modify", "router", "read", "done"}, source.whole
               PROVE  mod_requests = source.asked.base /\ read_requests = source.asked.stat
    BY DEF ParsedAsWritten
  <2>1. source \in Documents
    BY <1>1, InputAssumption DEF ParseInv, IsJson
  <2> DEFINE asked == source.asked
  <2>2. IsAsked(asked)
    BY <2>1 DEF WholeDocuments, IsWritten
  <2>3. PICK decimals \in 0 .. Unit - 1 :
          source.root = Document(asked, velocity_, wait_time_, decimals)
    BY <2>1 DEF WholeDocuments, IsWritten
  <2>4. /\ At(source.root, "base_requests").array
             = [n \in DOMAIN asked.base |-> BaseNode(asked.base[n], decimals)]
        /\ At(source.root, "stat_requests").array
             = [n \in DOMAIN asked.stat |-> ReadNode(asked.stat[n], decimals)]
    BY <2>3, PartsOfDocument
  <2> HIDE DEF asked
  <2>5. mod_requests = [n \in DOMAIN asked.base |->
          MakeRequestFromJson(STR_TO_MOD_REQUEST_TYPE, BaseNode(asked.base[n], decimals), n)]
    BY <1>1, <2>4 DEF EverythingIsParsed, IsParsed
  <2>6. read_requests = [n \in DOMAIN asked.stat |->
          MakeRequestFromJson(STR_TO_READ_REQUEST_TYPE, ReadNode(asked.stat[n], decimals), n)]
    BY <1>1, <2>4 DEF EverythingIsParsed, IsParsed
  <2>7. mod_requests = [n \in DOMAIN asked.base |-> asked.base[n]]
    BY <2>2, <2>5, BaseAsWritten DEF IsAsked
  <2>8. read_requests = [n \in DOMAIN asked.stat |-> asked.stat[n]]
    BY <2>2, <2>6, StatAsWritten DEF IsAsked
  <2> QED
    BY <2>2, <2>7, <2>8, SeqParts DEF IsAsked, asked
<1>2. ParseInv => EverythingIsParsed
  BY WholeIsParsed DEF ParseInv, EverythingIsParsed, BaseWhole, StatWhole
<1> QED
  BY <1>1, <1>2, ParseInvInit, ParseInvStep, PTL DEF ProgramSpec

-----------------------------------------------------------------------------
(***************************************************************************)
(* Texts that are written from requests: a list is as long as the number   *)
(* before it says, and the lines that are unread are those of the requests *)
(* that are not made yet.                                                  *)
(***************************************************************************)
\* As many requests as a size_t can count, and a number for them.
IsTextAsked(asked) ==
  /\ IsSeq(asked.base) /\ \A n \in DOMAIN asked.base : IsTextBase(asked.base[n], n)
  /\ IsSeq(asked.stat) /\ \A n \in DOMAIN asked.stat : IsTextRead(asked.stat[n])
  /\ \A k \in {Len(asked.base), Len(asked.stat)} : k < SizeLimit /\ IsNumber(k * Unit)

\* A whole text is what some requests look like in the format.
IsWrittenText(t) == IsTextAsked(t.asked) /\ t.lines = LinesOf(t.asked)

WholeTexts == \A t \in Texts : t.whole => IsWrittenText(t)

LEMMA ListsJoined ==
  ASSUME NEW S, NEW c \in S, NEW d \in S, NEW x \in Seq(S), NEW y \in Seq(S),
         NEW all, all = <<c>> \o x \o <<d>> \o y
  PROVE  /\ all \in Seq(S) /\ Len(all) = Len(x) + Len(y) + 2
         /\ Len(x) \in Nat /\ Len(y) \in Nat
         /\ all[1] = c /\ all[Len(x) + 2] = d
         /\ \A n \in 1 .. Len(x) : all[1 + n] = x[n]
         /\ \A n \in 1 .. Len(y) : all[Len(x) + 2 + n] = y[n]
<1>1. PICK cs, ds : cs = <<c>> /\ ds = <<d>>
  OBVIOUS
<1>2. /\ cs \in Seq(S) /\ ds \in Seq(S) /\ Len(cs) = 1 /\ Len(ds) = 1
      /\ cs[1] = c /\ ds[1] = d
  BY <1>1
<1>3. Len(x) \in Nat /\ Len(y) \in Nat
  OBVIOUS
<1>4. PICK one, two : one = cs \o x /\ two = one \o ds /\ all = two \o y
  BY <1>1, Zenon
<1>5. /\ one \in Seq(S) /\ Len(one) = 1 + Len(x)
      /\ \A n \in 1 .. 1 + Len(x) : one[n] = IF n <= 1 THEN cs[n] ELSE x[n - 1]
  BY <1>2, <1>4, ConcatProperties
<1>6. /\ two \in Seq(S) /\ Len(two) = Len(one) + 1
      /\ \A n \in 1 .. Len(one) + 1 : two[n] = IF n <= Len(one) THEN one[n] ELSE ds[n - Len(one)]
  BY <1>2, <1>4, <1>5, ConcatProperties
<1>7. /\ all \in Seq(S) /\ Len(all) = Len(two) + Len(y)
      /\ \A n \in 1 .. Len(two) + Len(y) : all[n] = IF n <= Len(two) THEN two[n] ELSE y[n - Len(two)]
  <2>1. two \in Seq(S)
    BY <1>6
  <2>2. /\ two \o y \in Seq(S) /\ Len(two \o y) = Len(two) + Len(y)
        /\ \A n \in 1 .. Len(two) + Len(y) :
             (two \o y)[n] = IF n <= Len(two) THEN two[n] ELSE y[n - Len(two)]
    BY <2>1, ConcatProperties, Zenon
  <2>3. all = two \o y
    BY <1>4
  <2> QED
    BY <2>2, <2>3, Zenon
<1>8. all[1] = c
  <2>1. 1 \in 1 .. 1 + Len(x) /\ 1 \in 1 .. Len(one) + 1 /\ 1 \in 1 .. Len(two) + Len(y)
        /\ 1 <= Len(one) /\ 1 <= Len(two)
    BY <1>3, <1>5, <1>6
  <2> QED
    BY <1>2, <1>5, <1>6, <1>7, <2>1
<1>9. all[Len(x) + 2] = d
  <2>1. Len(x) + 2 \in 1 .. Len(one) + 1 /\ Len(x) + 2 \in 1 .. Len(two) + Len(y)
        /\ ~ (Len(x) + 2 <= Len(one)) /\ Len(x) + 2 <= Len(two) /\ (Len(x) + 2) - Len(one) = 1
    BY <1>3, <1>5, <1>6
  <2> QED
    BY <1>2, <1>6, <1>7, <2>1
<1>10. ASSUME NEW n \in 1 .. Len(x) PROVE all[1 + n] = x[n]
  <2>1. /\ 1 + n \in 1 .. 1 + Len(x) /\ 1 + n \in 1 .. Len(one) + 1
        /\ 1 + n \in 1 .. Len(two) + Len(y)
        /\ ~ (1 + n <= 1) /\ 1 + n <= Len(one) /\ 1 + n <= Len(two) /\ (1 + n) - 1 = n
    BY <1>3, <1>5, <1>6
  <2> QED
    BY <1>5, <1>6, <1>7, <2>1
<1>11. ASSUME NEW n \in 1 .. Len(y) PROVE all[Len(x) + 2 + n] = y[n]
  <2>1. /\ Len(x) + 2 + n \in 1 .. Len(two) + Len(y)
        /\ ~ (Len(x) + 2 + n <= Len(two)) /\ (Len(x) + 2 + n) - Len(two) = n
    BY <1>3, <1>5, <1>6
  <2> QED
    BY <1>7, <2>1
<1> QED
  BY <1>3, <1>5, <1>6, <1>7, <1>8, <1>9, <1>10, <1>11

LEMMA CountLineAlone ==
  ASSUME NEW requests, IsNumber(Len(requests) * Unit)
  PROVE  CountLine(requests) \in Line
BY NumberAlone DEF IsNumber, CountLine

LEMMA LinesOfText ==
  ASSUME NEW asked, IsTextAsked(asked), NEW lines, lines = LinesOf(asked)
  PROVE  /\ lines \in Seq(Line) /\ Len(lines) = Len(asked.base) + Len(asked.stat) + 2
         /\ Len(asked.base) \in Nat /\ Len(asked.stat) \in Nat
         /\ lines[1] = CountLine(asked.base)
         /\ lines[Len(asked.base) + 2] = CountLine(asked.stat)
         /\ \A n \in 1 .. Len(asked.base) : lines[1 + n] = BaseLine(asked.base[n])
         /\ \A n \in 1 .. Len(asked.stat) :
              lines[Len(asked.base) + 2 + n] = ReadLine(asked.stat[n])
<1>1. PICK base, stat : base = asked.base /\ stat = asked.stat
  OBVIOUS
<1>2. /\ IsSeq(base) /\ IsSeq(stat)
      /\ \A n \in DOMAIN base : IsTextBase(base[n], n)
      /\ \A n \in DOMAIN stat : IsTextRead(stat[n])
      /\ IsNumber(Len(base) * Unit) /\ IsNumber(Len(stat) * Unit)
  BY <1>1, Zenon DEF IsTextAsked
<1>3. /\ Len(base) \in Nat /\ DOMAIN base = 1 .. Len(base)
      /\ Len(stat) \in Nat /\ DOMAIN stat = 1 .. Len(stat)
  BY <1>2, SeqParts, Zenon
<1>4. PICK x, y : /\ x = [n \in DOMAIN base |-> BaseLine(base[n])]
                  /\ y = [n \in DOMAIN stat |-> ReadLine(stat[n])]
  OBVIOUS
<1>5. lines = <<CountLine(base)>> \o x \o <<CountLine(stat)>> \o y
  BY <1>1, <1>4, Zenon DEF LinesOf, BaseLine
<1>6. /\ x \in [1 .. Len(base) -> Line] /\ y \in [1 .. Len(stat) -> Line]
  BY <1>2, <1>3, <1>4, BaseLineAsWritten, ReadLineAsWritten
<1>7. x \in Seq(Line) /\ y \in Seq(Line)
  BY <1>3, <1>6, ListOfSet, Zenon
<1>8. Len(x) = Len(base) /\ Len(y) = Len(stat)
  <2>1. /\ Len(x) \in Nat /\ DOMAIN x = 1 .. Len(x)
        /\ Len(y) \in Nat /\ DOMAIN y = 1 .. Len(y)
    BY <1>7, LenProperties, Zenon
  <2>2. DOMAIN x = 1 .. Len(base) /\ DOMAIN y = 1 .. Len(stat)
    BY <1>3, <1>4
  <2> QED
    BY <1>3, <2>1, <2>2, SameLength, Zenon
<1>9. PICK c, d : c = CountLine(base) /\ d = CountLine(stat)
  OBVIOUS
<1>10. c \in Line /\ d \in Line
  BY <1>2, <1>9, CountLineAlone, Zenon
<1>11. /\ lines \in Seq(Line) /\ Len(lines) = Len(x) + Len(y) + 2
       /\ lines[1] = c /\ lines[Len(x) + 2] = d
       /\ \A n \in 1 .. Len(x) : lines[1 + n] = x[n]
       /\ \A n \in 1 .. Len(y) : lines[Len(x) + 2 + n] = y[n]
  <2>1. lines = <<c>> \o x \o <<d>> \o y
    BY <1>5, <1>9, Zenon
  <2> QED
    BY <1>7, <1>10, <2>1, ListsJoined
<1>12. /\ \A n \in 1 .. Len(base) : lines[1 + n] = BaseLine(base[n])
       /\ \A n \in 1 .. Len(stat) : lines[Len(base) + 2 + n] = ReadLine(stat[n])
  BY <1>3, <1>4, <1>8, <1>11
<1> QED
  BY <1>1, <1>3, <1>8, <1>9, <1>11, <1>12, Zenon

\* A number alone in a line.
LEMMA CountAlone ==
  ASSUME NEW k \in 0 .. SizeLimit - 1, IsNumber(k * Unit), NEW s, s = <<Symbol[k * Unit]>>
  PROVE  /\ s # << >> /\ TrimLeft(s) = s
         /\ s[1] \in DOMAIN Numeral /\ StoSize(<<s[1]>>) = k
<1>1. PICK symbol : symbol = Symbol[k * Unit]
  OBVIOUS
<1>2. symbol \in DOMAIN Numeral
  BY <1>1 DEF IsNumber
<1>3. s = <<symbol>> /\ s[1] = symbol /\ s # << >>
  BY <1>1
<1>4. TrimLeft(s) = s
  BY <1>2, <1>3, NumberAlone, Zenon
<1>5. StoSize(<<symbol>>) = k
  BY <1>1, SizeAlone, Zenon
<1> QED
  BY <1>2, <1>3, <1>4, <1>5, Zenon

\* The first line is taken if it holds a number.
LEMMA NumberComes ==
  ASSUME unread \in Seq(Line), unread # << >>,
         NEW k \in 0 .. SizeLimit - 1, IsNumber(k * Unit),
         unread[1] = <<Symbol[k * Unit]>>, NEW part, ReadNumber(part, LinesLeft)
  PROVE  EnterPart(part, Tail(unread), k)
<1> DEFINE written == {n \in DOMAIN unread : TrimLeft(unread[n]) # << >>}
           first == CHOOSE n \in written : \A m \in written : n <= m
<1>1. PICK s : s = unread[1]
  OBVIOUS
<1>2. /\ s # << >> /\ TrimLeft(s) = s
      /\ s[1] \in DOMAIN Numeral /\ StoSize(<<s[1]>>) = k
  BY <1>1, CountAlone
<1>3. Len(unread) \in Nat \ {0} /\ DOMAIN unread = 1 .. Len(unread)
  <2>1. Len(unread) \in Nat /\ DOMAIN unread = 1 .. Len(unread)
    BY LenProperties, Zenon
  <2>2. Len(unread) # 0
    BY EmptySeq
  <2> QED
    BY <2>1, <2>2
<1>4. 1 \in written /\ written \subseteq 1 .. Len(unread)
  <2>1. 1 \in DOMAIN unread
    BY <1>3
  <2>2. TrimLeft(unread[1]) # << >>
    BY <1>1, <1>2
  <2> QED
    BY <1>3, <2>1, <2>2
<1> HIDE DEF written
<1>5. first = 1
  <2>1. \A m \in written : 1 <= m /\ m \in Nat
    BY <1>3, <1>4
  <2>2. first \in written /\ \A m \in written : first <= m
    BY <1>4, <2>1
  <2> HIDE DEF first
  <2>3. first <= 1 /\ 1 <= first /\ first \in Nat
    BY <1>4, <2>1, <2>2
  <2> QED
    BY <2>3
<1>6. LinesLeft = SubSeq(unread, 1, Len(unread))
  <2>1. written # {}
    BY <1>4
  <2>2. LinesLeft = IF written = {} THEN << >> ELSE SubSeq(unread, first, Len(unread))
    BY Zenon DEF LinesLeft, written, first
  <2> HIDE DEF first
  <2> QED
    BY <1>5, <2>1, <2>2, Zenon
<1>7. LinesLeft = unread
  BY <1>6, SubSeqFull
<1>8. ReadNumber(part, unread)
  BY <1>7, Zenon
<1> QED
  BY <1>1, <1>2, <1>8, Zenon DEF ReadNumber

-----------------------------------------------------------------------------
\* The first of the requests of a list have been made.
Made(requests, list) ==
  /\ IsSeq(requests)
  /\ Len(requests) <= Len(list)
  /\ \A n \in 1 .. Len(requests) : requests[n] = list[n]

\* All lines but the first k are unread.
Unread(rest, lines, k) ==
  /\ rest \in Seq(Line)
  /\ Len(rest) = Len(lines) - k
  /\ \A n \in 1 .. Len(rest) : rest[n] = lines[k + n]

LEMMA AllMade ==
  ASSUME NEW requests, NEW list, IsSeq(list), Made(requests, list), Len(requests) = Len(list)
  PROVE  requests = list
<1>1. /\ requests = [n \in 1 .. Len(requests) |-> requests[n]]
      /\ list = [n \in 1 .. Len(list) |-> list[n]]
  BY SeqParts, Zenon DEF Made
<1>2. [n \in 1 .. Len(list) |-> requests[n]] = [n \in 1 .. Len(list) |-> list[n]]
  BY DEF Made
<1> QED
  BY <1>1, <1>2, Zenon

LEMMA NothingMade ==
  ASSUME NEW list, IsSeq(list)
  PROVE  Made(<< >>, list)
<1>1. IsSeq(<< >>) /\ Len(<< >>) = 0
  BY DEF IsSeq
<1>2. Len(list) \in Nat
  BY SeqParts
<1> QED
  BY <1>1, <1>2 DEF Made

LEMMA NextMade ==
  ASSUME NEW requests, NEW list, NEW request, IsSeq(list), Made(requests, list),
         Len(requests) < Len(list), request = list[Len(requests) + 1]
  PROVE  Made(Append(requests, request), list) /\ Len(Append(requests, request)) = Len(requests) + 1
<1> DEFINE longer == Append(requests, request)
           S == {requests[n] : n \in DOMAIN requests} \cup {request}
<1>1. IsSeq(requests) /\ Len(requests) \in Nat /\ Len(list) \in Nat
  BY SeqParts DEF Made
<1>2. requests \in Seq(S)
  BY <1>1, SeqMonotonic DEF IsSeq
<1>3. /\ Len(longer) = Len(requests) + 1
      /\ longer[Len(requests) + 1] = request
      /\ \A n \in 1 .. Len(requests) : longer[n] = requests[n]
  BY <1>2, AppendProperties
<1>4. IsSeq(longer)
  BY <1>1, AppendGrows
<1> HIDE DEF longer
<1>5. Made(longer, list)
  BY <1>1, <1>3, <1>4 DEF Made
<1> QED
  BY <1>3, <1>5 DEF longer

LEMMA NextUnread ==
  ASSUME NEW rest, NEW lines, NEW k \in Nat, lines \in Seq(Line), Unread(rest, lines, k),
         k < Len(lines)
  PROVE  /\ rest # << >> /\ Head(rest) = lines[k + 1] /\ rest[1] = lines[k + 1]
         /\ Unread(Tail(rest), lines, k + 1)
<1>1. /\ rest \in Seq(Line) /\ Len(rest) = Len(lines) - k /\ Len(lines) \in Nat
      /\ \A n \in 1 .. Len(rest) : rest[n] = lines[k + n]
  BY DEF Unread
<1>2. Len(rest) \in Nat \ {0} /\ 1 \in 1 .. Len(rest)
  BY <1>1
<1>3. rest # << >>
  BY <1>1, <1>2, EmptySeq
<1>4. /\ Head(rest) = rest[1] /\ Tail(rest) \in Seq(Line) /\ Len(Tail(rest)) = Len(rest) - 1
      /\ \A n \in 1 .. Len(rest) - 1 : Tail(rest)[n] = rest[n + 1]
  BY <1>1, <1>3, HeadTailProperties
<1>5. rest[1] = lines[k + 1]
  BY <1>1, <1>2
<1>6. ASSUME NEW n \in 1 .. Len(Tail(rest)) PROVE Tail(rest)[n] = lines[(k + 1) + n]
  <2>1. n \in 1 .. Len(rest) - 1 /\ n + 1 \in 1 .. Len(rest) /\ k + (n + 1) = (k + 1) + n
    BY <1>2, <1>4
  <2> QED
    BY <1>1, <1>4, <2>1
<1>7. Len(Tail(rest)) = Len(lines) - (k + 1)
  BY <1>1, <1>2, <1>4
<1> QED
  BY <1>3, <1>4, <1>5, <1>6, <1>7 DEF Unread

-----------------------------------------------------------------------------
\* What a whole text still has to be parsed is what has not been.
TextInv ==
  ~ IsJson /\ source.whole =>
    LET base == source.asked.base
        stat == source.asked.stat
    IN  /\ phase \in {"start", "count"} =>
             count = 0 /\ mod_requests = << >> /\ read_requests = << >>
        /\ phase = "count" => Unread(unread, source.lines, 0)
        /\ phase = "base" => /\ Made(mod_requests, base)
                             /\ count = Len(base) - Len(mod_requests)
                             /\ Unread(unread, source.lines, 1 + Len(mod_requests))
                             /\ read_requests = << >>
        /\ phase = "stat" => /\ mod_requests = base
                             /\ Made(read_requests, stat)
                             /\ count = Len(stat) - Len(read_requests)
                             /\ Unread(unread, source.lines, Len(base) + 2 + Len(read_requests))
        /\ phase \in {"modify", "router", "read", "done"} =>
             mod_requests = base /\ read_requests = stat

LEMMA TextInvInit == ProgramInit => TextInv
BY DEF ProgramInit, TextInv

LEMMA TextInvStep ==
  ASSUME WholeTexts, ParseInv, TextInv, [ProgramNext]_programVars
  PROVE  TextInv'
<1>1. UNCHANGED source /\ IsJson' = IsJson /\ source \in Documents \cup Texts
  BY SourceKept DEF ProgramNext, programVars, LoadDocument, TurnToStatRequests, OpenText,
     ReadCount, ParseRequest, FinishParsing, ProcessModifyRequests, FinishModifying,
     RunInitializeRouter, ProcessReadRequest, PrintRequest, PrintAnswers, ParseInv
<1> SUFFICES ASSUME ~ IsJson, source.whole PROVE TextInv'
  BY <1>1 DEF TextInv
<1>2. source \in Texts /\ IsTextAsked(source.asked) /\ source.lines = LinesOf(source.asked)
  BY <1>1, InputAssumption DEF IsJson, WholeTexts, IsWrittenText
<1>3. PICK base, stat, lines :
        base = source.asked.base /\ stat = source.asked.stat /\ lines = source.lines
  OBVIOUS
<1>4. /\ IsSeq(base) /\ Len(base) \in Nat /\ DOMAIN base = 1 .. Len(base)
      /\ IsSeq(stat) /\ Len(stat) \in Nat /\ DOMAIN stat = 1 .. Len(stat)
      /\ \A n \in DOMAIN base : IsTextBase(base[n], n)
      /\ \A n \in DOMAIN stat : IsTextRead(stat[n])
      /\ Len(base) < SizeLimit /\ IsNumber(Len(base) * Unit)
      /\ Len(stat) < SizeLimit /\ IsNumber(Len(stat) * Unit)
  BY <1>2, <1>3, SeqParts, Zenon DEF IsTextAsked
<1>5. /\ lines \in Seq(Line) /\ Len(lines) = Len(base) + Len(stat) + 2
      /\ lines[1] = CountLine(base) /\ lines[Len(base) + 2] = CountLine(stat)
      /\ \A n \in 1 .. Len(base) : lines[1 + n] = BaseLine(base[n])
      /\ \A n \in 1 .. Len(stat) : lines[Len(base) + 2 + n] = ReadLine(stat[n])
  <2>1. PICK asked : asked = source.asked
    OBVIOUS
  <2>2. IsTextAsked(asked) /\ lines = LinesOf(asked) /\ base = asked.base /\ stat = asked.stat
    BY <1>2, <1>3, <2>1, Zenon
  <2>3. /\ lines \in Seq(Line) /\ Len(lines) = Len(asked.base) + Len(asked.stat) + 2
        /\ lines[1] = CountLine(asked.base)
        /\ lines[Len(asked.base) + 2] = CountLine(asked.stat)
        /\ \A n \in 1 .. Len(asked.base) : lines[1 + n] = BaseLine(asked.base[n])
        /\ \A n \in 1 .. Len(asked.stat) :
             lines[Len(asked.base) + 2 + n] = ReadLine(asked.stat[n])
    BY <2>2, LinesOfText
  <2> QED
    BY <2>2, <2>3, Zenon
<1> DEFINE
      NoneInv == count = 0 /\ mod_requests = << >> /\ read_requests = << >>
      BaseInv == /\ Made(mod_requests, base)
                 /\ count = Len(base) - Len(mod_requests)
                 /\ Unread(unread, lines, 1 + Len(mod_requests))
                 /\ read_requests = << >>
      StatInv == /\ mod_requests = base
                 /\ Made(read_requests, stat)
                 /\ count = Len(stat) - Len(read_requests)
                 /\ Unread(unread, lines, Len(base) + 2 + Len(read_requests))
      AllInv == mod_requests = base /\ read_requests = stat
<1>6. /\ phase \in {"start", "count"} => NoneInv
      /\ phase = "count" => Unread(unread, lines, 0)
      /\ phase = "base" => BaseInv
      /\ phase = "stat" => StatInv
      /\ phase \in {"modify", "router", "read", "done"} => AllInv
  BY <1>3 DEF TextInv
<1>7. ASSUME phase' \in {"start", "count"} => NoneInv',
             phase' = "count" => Unread(unread, lines, 0)',
             phase' = "base" => BaseInv',
             phase' = "stat" => StatInv',
             phase' \in {"modify", "router", "read", "done"} => AllInv'
      PROVE  TextInv'
  BY <1>1, <1>3, <1>7 DEF TextInv
<1> HIDE DEF NoneInv, BaseInv, StatInv, AllInv
<1>8. CASE phase' = "terminated"
  BY <1>7, <1>8
<1>9. CASE OpenText
  <2>1. /\ phase = "start" /\ phase' = "count" /\ unread' = lines
        /\ UNCHANGED <<count, mod_requests, read_requests>>
    BY <1>3, <1>9 DEF OpenText
  <2>2. NoneInv'
    BY <1>6, <2>1 DEF NoneInv
  <2>3. Unread(lines, lines, 0)
    BY <1>5 DEF Unread
  <2>4. Unread(unread, lines, 0)'
    BY <2>1, <2>3
  <2> QED
    BY <1>7, <2>1, <2>2, <2>4
<1>10. CASE ReadCount /\ phase = "count"
  <2>1. ReadNumber("base", LinesLeft)
    BY <1>10 DEF ReadCount
  <2>2. Unread(unread, lines, 0) /\ NoneInv
    BY <1>6, <1>10
  <2>3. unread # << >> /\ unread[1] = lines[1] /\ Unread(Tail(unread), lines, 1)
    BY <1>4, <1>5, <2>2, NextUnread
  <2>4. unread[1] = <<Symbol[Len(base) * Unit]>> /\ unread \in Seq(Line)
    BY <1>5, <2>2, <2>3 DEF CountLine, Unread
  <2>5. Len(base) \in 0 .. SizeLimit - 1
    BY <1>4, SizeAssumption
  <2>6. EnterPart("base", Tail(unread), Len(base))
    BY <1>4, <2>1, <2>3, <2>4, <2>5, NumberComes, Zenon
  <2>7. /\ phase' = "base" /\ unread' = Tail(unread) /\ count' = Len(base)
        /\ mod_requests' = << >> /\ read_requests' = << >>
    BY <2>2, <2>6 DEF EnterPart, NoneInv
  <2>8. Made(<< >>, base) /\ Len(<< >>) = 0
    BY <1>4, NothingMade
  <2>9. BaseInv'
    BY <1>4, <2>3, <2>7, <2>8 DEF BaseInv
  <2> QED
    BY <1>7, <2>7, <2>9
<1>11. CASE ReadCount /\ phase = "base"
  <2>1. ReadNumber("stat", LinesLeft) /\ count = 0
    BY <1>11 DEF ReadCount
  <2>2. BaseInv
    BY <1>6, <1>11
  <2>3. IsSeq(mod_requests) /\ Len(mod_requests) \in Nat
    BY <2>2, SeqParts DEF BaseInv, Made
  <2>4. Len(mod_requests) = Len(base) /\ mod_requests = base
    BY <1>4, <2>1, <2>2, <2>3, AllMade DEF BaseInv
  <2>5. Unread(unread, lines, 1 + Len(base))
    BY <2>2, <2>4 DEF BaseInv
  <2>6. unread # << >> /\ unread[1] = lines[Len(base) + 2] /\ Unread(Tail(unread), lines, Len(base) + 2)
    <3>1. 1 + Len(base) \in Nat /\ 1 + Len(base) < Len(lines) /\ (1 + Len(base)) + 1 = Len(base) + 2
      BY <1>4, <1>5
    <3> QED
      BY <1>5, <2>5, <3>1, NextUnread
  <2>7. unread[1] = <<Symbol[Len(stat) * Unit]>> /\ unread \in Seq(Line)
    BY <1>5, <2>5, <2>6 DEF CountLine, Unread
  <2>8. Len(stat) \in 0 .. SizeLimit - 1
    BY <1>4, SizeAssumption
  <2>9. EnterPart("stat", Tail(unread), Len(stat))
    BY <1>4, <2>1, <2>6, <2>7, <2>8, NumberComes, Zenon
  <2>10. /\ phase' = "stat" /\ unread' = Tail(unread) /\ count' = Len(stat)
         /\ mod_requests' = base /\ read_requests' = << >>
    BY <2>2, <2>4, <2>9 DEF EnterPart, BaseInv
  <2>11. Made(<< >>, stat) /\ Len(<< >>) = 0
    BY <1>4, NothingMade
  <2>12. StatInv'
    BY <1>4, <2>6, <2>10, <2>11 DEF StatInv
  <2> QED
    BY <1>7, <2>10, <2>12
<1>12. ASSUME ParseRequest, phase' # "terminated" PROVE TextInv'
  <2>1. phase \in {"base", "stat"} /\ count > 0
    BY <1>12 DEF ParseRequest
  <2>2. PICK request : request = NextRequest /\ Take(request)
    BY <1>12 DEF ParseRequest
  <2>3. CASE Undefined /\ UNCHANGED <<phase, parseVars, output>>
    <3>1. /\ mod_requests' = mod_requests /\ read_requests' = read_requests
          /\ phase' = phase /\ unread' = unread /\ count' = count
      BY <2>3 DEF parseVars
    <3>2. BaseInv' = BaseInv /\ StatInv' = StatInv
      BY <3>1 DEF BaseInv, StatInv
    <3> QED
      BY <1>6, <1>7, <2>1, <3>1, <3>2
  <2>4. CASE Keep(request)
    <3>1. /\ unread' = IF unread = << >> THEN << >> ELSE Tail(unread)
          /\ count' = count - 1 /\ phase' = phase
      BY <2>4 DEF Keep
    <3>2. CASE phase = "base"
      <4>1. /\ mod_requests' = Append(mod_requests, request)
            /\ read_requests' = read_requests
        BY <2>4, <3>2 DEF Keep
      <4>2. BaseInv
        BY <1>6, <3>2
      <4>3. PICK m : m = Len(mod_requests)
        OBVIOUS
      <4>4. m \in Nat /\ m < Len(base) /\ count = Len(base) - m
        BY <2>1, <4>2, <4>3, <1>4, SeqParts DEF BaseInv, Made
      <4>5. Unread(unread, lines, 1 + m) /\ Made(mod_requests, base) /\ read_requests = << >>
        BY <4>2, <4>3 DEF BaseInv
      <4>6. /\ unread # << >> /\ Head(unread) = BaseLine(base[m + 1])
            /\ Unread(Tail(unread), lines, 1 + (m + 1))
        <5>1. /\ 1 + m \in Nat /\ 1 + m < Len(lines) /\ m + 1 \in 1 .. Len(base)
              /\ (1 + m) + 1 = 1 + (m + 1)
          BY <1>4, <1>5, <4>4
        <5> QED
          BY <1>5, <4>5, <5>1, NextUnread
      <4>7. request = MakeRequestFromLine(STR_TO_MOD_REQUEST_TYPE, Head(unread), m + 1)
        BY <2>2, <3>2, <4>3, <4>6 DEF NextRequest, MakeRequest
      <4>8. request = base[m + 1]
        <5>1. m + 1 \in 1 .. Len(base)
          BY <1>4, <4>4
        <5>2. IsTextBase(base[m + 1], m + 1)
          BY <1>4, <5>1
        <5>3. MakeRequestFromLine(STR_TO_MOD_REQUEST_TYPE, BaseLine(base[m + 1]), m + 1)
                = base[m + 1]
          BY <5>2, BaseLineAsWritten, Zenon
        <5> QED
          BY <4>6, <4>7, <5>3, Zenon
      <4>9. /\ Made(Append(mod_requests, request), base)
            /\ Len(Append(mod_requests, request)) = m + 1
        BY <1>4, <4>3, <4>4, <4>5, <4>8, NextMade
      <4>10. BaseInv'
        <5>1. unread' = Tail(unread) /\ count' = Len(base) - (m + 1)
          BY <1>4, <3>1, <4>4, <4>6
        <5> QED
          BY <4>1, <4>5, <4>6, <4>9, <5>1 DEF BaseInv
      <4> QED
        BY <1>7, <3>1, <3>2, <4>10
    <3>3. CASE phase = "stat"
      <4>1. /\ read_requests' = Append(read_requests, request)
            /\ mod_requests' = mod_requests
        BY <2>4, <3>3 DEF Keep
      <4>2. StatInv
        BY <1>6, <3>3
      <4>3. PICK m : m = Len(read_requests)
        OBVIOUS
      <4>4. m \in Nat /\ m < Len(stat) /\ count = Len(stat) - m
        BY <2>1, <4>2, <4>3, <1>4, SeqParts DEF StatInv, Made
      <4>5. Unread(unread, lines, Len(base) + 2 + m) /\ Made(read_requests, stat) /\ mod_requests = base
        BY <4>2, <4>3 DEF StatInv
      <4>6. /\ unread # << >> /\ Head(unread) = ReadLine(stat[m + 1])
            /\ Unread(Tail(unread), lines, Len(base) + 2 + (m + 1))
        <5>1. /\ Len(base) + 2 + m \in Nat /\ Len(base) + 2 + m < Len(lines)
              /\ m + 1 \in 1 .. Len(stat)
              /\ (Len(base) + 2 + m) + 1 = Len(base) + 2 + (m + 1)
          BY <1>4, <1>5, <4>4
        <5> QED
          <6>1. PICK k : k = Len(base) + 2 + m
            OBVIOUS
          <6>2. k \in Nat /\ k < Len(lines) /\ Unread(unread, lines, k)
            BY <4>5, <5>1, <6>1
          <6>3. /\ unread # << >> /\ Head(unread) = lines[k + 1]
                /\ Unread(Tail(unread), lines, k + 1)
            BY <1>5, <6>2, NextUnread
          <6>4. k + 1 = Len(base) + 2 + (m + 1) /\ lines[k + 1] = ReadLine(stat[m + 1])
            BY <1>5, <5>1, <6>1
          <6> QED
            BY <6>3, <6>4
      <4>7. request = MakeRequestFromLine(STR_TO_READ_REQUEST_TYPE, Head(unread), m + 1)
        BY <2>2, <3>3, <4>3, <4>6 DEF NextRequest, MakeRequest
      <4>8. request = stat[m + 1]
        <5>1. m + 1 \in 1 .. Len(stat)
          BY <1>4, <4>4
        <5>2. IsTextRead(stat[m + 1])
          BY <1>4, <5>1
        <5>3. MakeRequestFromLine(STR_TO_READ_REQUEST_TYPE, ReadLine(stat[m + 1]), m + 1)
                = stat[m + 1]
          BY <5>2, ReadLineAsWritten, Zenon
        <5> QED
          BY <4>6, <4>7, <5>3, Zenon
      <4>9. /\ Made(Append(read_requests, request), stat)
            /\ Len(Append(read_requests, request)) = m + 1
        BY <1>4, <4>3, <4>4, <4>5, <4>8, NextMade
      <4>10. StatInv'
        <5>1. unread' = Tail(unread) /\ count' = Len(stat) - (m + 1)
          BY <1>4, <3>1, <4>4, <4>6
        <5> QED
          BY <4>1, <4>5, <4>6, <4>9, <5>1 DEF StatInv
      <4> QED
        BY <1>7, <3>1, <3>3, <4>10
    <3> QED
      BY <2>1, <3>2, <3>3
  <2> QED
    BY <1>12, <2>2, <2>3, <2>4 DEF Take, Terminate
<1>13. CASE FinishParsing
  <2>1. /\ phase = "stat" /\ count = 0 /\ phase' = "modify"
        /\ mod_requests' = mod_requests /\ read_requests' = read_requests
    BY <1>13 DEF FinishParsing, parseVars
  <2>2. StatInv
    BY <1>6, <2>1
  <2>3. Len(read_requests) \in Nat
    BY <2>2, SeqParts DEF StatInv, Made
  <2>4. read_requests = stat /\ mod_requests = base
    BY <1>4, <2>1, <2>2, <2>3, AllMade DEF StatInv
  <2> QED
    BY <1>7, <2>1, <2>4 DEF AllInv
<1>14. CASE \/ ProcessModifyRequests \/ FinishModifying \/ RunInitializeRouter
            \/ PrintRequest \/ PrintAnswers
  <2>1. phase \in {"modify", "router", "read"} /\ UNCHANGED parseVars
    BY <1>14 DEF ProcessModifyRequests, FinishModifying, RunInitializeRouter,
                 PrintRequest, PrintAnswers
  <2>2. phase' \in {"modify", "router", "read", "done", "terminated"}
    BY <1>14, <2>1 DEF ProcessModifyRequests, FinishModifying, RunInitializeRouter,
                 PrintRequest, PrintAnswers
  <2>3. AllInv'
    BY <1>6, <2>1 DEF AllInv, parseVars
  <2> QED
    BY <1>7, <2>2, <2>3
<1>15. CASE UNCHANGED programVars
  <2>1. /\ phase' = phase /\ mod_requests' = mod_requests /\ read_requests' = read_requests
        /\ unread' = unread /\ count' = count
    BY <1>15 DEF programVars, parseVars
  <2>2. /\ NoneInv' = NoneInv /\ BaseInv' = BaseInv /\ StatInv' = StatInv /\ AllInv' = AllInv
        /\ Unread(unread, lines, 0)' = Unread(unread, lines, 0)
    BY <2>1 DEF NoneInv, BaseInv, StatInv, AllInv
  <2> QED
    BY <1>6, <1>7, <2>1, <2>2
<1> QED
  BY <1>8, <1>9, <1>10, <1>11, <1>12, <1>13, <1>14, <1>15
  DEF ProgramNext, LoadDocument, TurnToStatRequests, ProcessReadRequest, ReadCount

\* Of a text that was written from requests, with names and numbers that can be told
\* apart in their lines, the requests that are processed are those, in their order,
\* with every name, position and length (MakeRequestFromLine, ParseFrom).
THEOREM TextsParsedAsWritten ==
  ASSUME WholeTexts
  PROVE  ProgramSpec => [](~ IsJson => ParsedAsWritten)
<1>1. TextInv => (~ IsJson => ParsedAsWritten)
  BY DEF TextInv, ParsedAsWritten
<1>2. ParseInv /\ TextInv /\ [ProgramNext]_programVars => TextInv'
  BY TextInvStep
<1> QED
  BY <1>1, <1>2, TextInvInit, ParseInvInit, ParseInvStep, PTL DEF ProgramSpec

\* So whatever is written down, in either form, is what is processed (FinalLogic,
\* BusinessLogic).
THEOREM AlwaysParsedAsWritten ==
  ASSUME WholeDocuments, WholeTexts
  PROVE  ProgramSpec => []ParsedAsWritten
BY DocumentsParsedAsWritten, TextsParsedAsWritten, PTL

-----------------------------------------------------------------------------
(***************************************************************************)
(* The answers are printed in the order of the requests.                   *)
(***************************************************************************)
TurnInv ==
  /\ phase \notin {"read", "done"} => output = << >>
  /\ phase = "read" => /\ Len(answers) <= Len(read_requests)
                       /\ ~ IsJson => output = answers
  /\ phase = "done" =>
       /\ Len(answers) = Len(read_requests)
       /\ output = IF IsJson
                     THEN [n \in DOMAIN answers |->
                             AnswerToJson(read_requests[n].id, answers[n])]
                     ELSE answers
  /\ phase \in {"read", "done"} =>
       \A n \in DOMAIN answers : answers[n].request = read_requests[n].request

LEMMA TurnInvInit == ProgramInit => TurnInv
BY DEF ProgramInit, TurnInv

\* The next request is answered, or the program ends in undefined behaviour.
LEMMA NextAnswer ==
  ASSUME ProgramNext, ProcessReadRequest \/ PrintRequest
  PROVE  /\ phase = "read" /\ UNCHANGED <<phase, read_requests>>
         /\ Len(answers) < Len(read_requests)
         /\ IsJson => UNCHANGED output
         /\ \/ UNCHANGED <<answers, output>>
            \/ /\ \E reply : answers' = Append(answers,
                      [request |-> read_requests[Len(answers) + 1].request, reply |-> reply])
               /\ ~ IsJson => output' = answers'
<1>1. ASSUME NEW q, Read(q)
      PROVE  \/ UNCHANGED answers
             \/ \E reply : answers' = Append(answers, [request |-> q, reply |-> reply])
  BY <1>1 DEF Read, GetBusInfo, GetStopInfo, GetCachedRoute, FindNoRoute, BuildNewRoute,
              StoreRoute, BuildUnknownRoute, Undefined, Reply
<1>2. CASE ProcessReadRequest
  BY <1>1, <1>2 DEF ProcessReadRequest, parseVars
<1>3. CASE PrintRequest
  BY <1>3 DEF PrintRequest, parseVars, Undefined, Reply
<1> QED
  BY <1>2, <1>3

LEMMA TurnInvStep ==
  ASSUME TurnInv, PhaseInv, PhaseInv', CacheInv, TextReads, [ProgramNext]_programVars
  PROVE  TurnInv'
<1>1. IsJson' = IsJson
  BY SourceKept
<1>2. CASE ProgramNext /\ (ProcessReadRequest \/ PrintRequest)
  <2>1. CASE UNCHANGED <<answers, output>>
    BY <1>1, <1>2, <2>1, NextAnswer DEF TurnInv
  <2>2. CASE ~ UNCHANGED <<answers, output>>
    <3>1. PICK reply : answers' = Append(answers,
              [request |-> read_requests[Len(answers) + 1].request, reply |-> reply])
      BY <1>2, <2>2, NextAnswer
    <3> DEFINE answer == [request |-> read_requests[Len(answers) + 1].request,
                          reply |-> reply]
    <3>2. /\ Len(answers') = Len(answers) + 1 /\ Len(answers) \in Nat
          /\ DOMAIN answers' = 1 .. Len(answers) + 1
          /\ answers'[Len(answers) + 1] = answer
          /\ \A n \in 1 .. Len(answers) : n \in DOMAIN answers /\ answers'[n] = answers[n]
      <4> DEFINE S == {answers[n] : n \in DOMAIN answers} \cup {answer}
      <4>1. answers \in Seq(S)
        BY SeqMonotonic DEF CacheInv, IsSeq
      <4>2. answers' = Append(answers, answer)
        BY <3>1
      <4> HIDE DEF answer, S
      <4>3. answer \in S
        BY DEF S
      <4> QED
        BY <4>1, <4>2, <4>3, AppendProperties
    <3>3. answer.request = read_requests[Len(answers) + 1].request
      OBVIOUS
    <3> HIDE DEF answer
    <3>4. Len(read_requests) \in Nat
      BY SeqParts DEF TextReads
    <3>5. /\ phase = "read" /\ phase' = phase /\ read_requests' = read_requests
          /\ Len(answers) < Len(read_requests)
          /\ ~ IsJson => output' = answers'
      BY <1>2, <2>2, NextAnswer
    <3>6. ASSUME NEW n \in DOMAIN answers'
          PROVE  answers'[n].request = read_requests'[n].request
      <4>1. CASE n = Len(answers) + 1
        BY <3>2, <3>3, <3>5, <4>1
      <4>2. CASE n # Len(answers) + 1
        <5>1. n \in 1 .. Len(answers)
          BY <3>2, <4>2
        <5> QED
          BY <3>2, <3>5, <5>1 DEF TurnInv
      <4> QED
        BY <4>1, <4>2
    <3> QED
      BY <1>1, <3>2, <3>4, <3>5, <3>6 DEF TurnInv
  <2> QED
    BY <2>1, <2>2
<1>3. CASE PrintAnswers
  BY <1>1, <1>3 DEF PrintAnswers, TurnInv, parseVars, readVars
<1>4. CASE UNCHANGED programVars
  BY <1>1, <1>4 DEF programVars, readVars, parseVars, TurnInv
<1>5. ASSUME ProgramNext, ~ ProcessReadRequest, ~ PrintRequest, ~ PrintAnswers PROVE TurnInv'
  <2>1. /\ phase \notin {"read", "done"} /\ phase' # "done" /\ output' = output
        /\ phase' = "read" => read_requests' = read_requests
    BY <1>5 DEF ProgramNext, LoadDocument, TurnToStatRequests, OpenText, ReadCount, ParseRequest,
       FinishParsing, ProcessModifyRequests, FinishModifying, RunInitializeRouter, Take, Keep,
       Terminate, EnterNodes, EnterPart, ReadNumber, parseVars
  <2>2. CASE phase' = "read"
    <3>1. answers' = << >>
      <4>1. answers = << >>
        BY <2>1 DEF PhaseInv
      <4>2. FinishModifying \/ RunInitializeRouter
        BY <1>5, <2>1, <2>2 DEF ProgramNext, LoadDocument, TurnToStatRequests, OpenText,
           ReadCount, ParseRequest, FinishParsing, ProcessModifyRequests, Take, Keep,
           Terminate, EnterNodes, EnterPart, ReadNumber
      <4> QED
        BY <4>1, <4>2 DEF FinishModifying, RunInitializeRouter, readVars
    <3>2. Len(answers') = 0 /\ \A n : n \notin DOMAIN answers'
      BY <3>1
    <3>3. Len(read_requests) \in Nat
      BY SeqParts DEF TextReads
    <3>4. output' = << >> /\ read_requests' = read_requests
      BY <2>1, <2>2 DEF TurnInv
    <3> QED
      BY <2>2, <3>1, <3>2, <3>3, <3>4 DEF TurnInv
  <2>3. CASE phase' # "read"
    BY <2>1, <2>3 DEF TurnInv
  <2> QED
    BY <2>2, <2>3
<1> QED
  BY <1>2, <1>3, <1>4, <1>5

LEMMA NoField ==
  ASSUME NEW fields, NEW f, f \notin DOMAIN fields, NEW alternative
  PROVE  ~ Has(Fields(fields), f, alternative)
<1>1. <<f>> \notin {<<g>> : g \in DOMAIN fields}
  OBVIOUS
<1>2. DOMAIN Fields(fields).map = {<<g>> : g \in DOMAIN fields}
  BY DEF Fields, MapNode
<1> QED
  BY <1>1, <1>2 DEF Has

\* An answer has the id it is given, and a message exactly if it is an error.
LEMMA AnswerNode ==
  ASSUME NEW id, NEW answer, answer.request.type \in {"Bus", "Stop", "Route"}
  PROVE  /\ At(AnswerToJson(id, answer), "request_id") = SizeNode(id)
         /\ Has(AnswerToJson(id, answer), "error_message", "string")
              <=> answer.reply = NotFound
<1> DEFINE given(node) == At(node, "request_id") = SizeNode(id)
           failed(node) == Has(node, "error_message", "string")
<1>1. given(ErrorToJson(id)) /\ failed(ErrorToJson(id))
  <2> DEFINE fields == [request_id |-> SizeNode(id), error_message |-> StringNode(ErrorMessage)]
  <2>1. /\ "request_id" \in DOMAIN fields /\ fields["request_id"] = SizeNode(id)
        /\ "error_message" \in DOMAIN fields
        /\ fields["error_message"] = StringNode(ErrorMessage)
    OBVIOUS
  <2>2. ErrorToJson(id) = Fields(fields)
    BY DEF ErrorToJson
  <2> HIDE DEF fields
  <2> QED
    BY <2>1, <2>2, FieldOf, NodeKinds
<1>2. ASSUME NEW fields, "request_id" \in DOMAIN fields, fields["request_id"] = SizeNode(id),
             "error_message" \notin DOMAIN fields
      PROVE  given(Fields(fields)) /\ ~ failed(Fields(fields))
  BY <1>2, FieldOf, NoField
<1> HIDE DEF given, failed
<1>3. \A info : given(BusAnswerToJson(id, info)) /\ ~ failed(BusAnswerToJson(id, info))
  BY <1>2 DEF BusAnswerToJson
<1>4. \A names : given(StopAnswerToJson(id, names)) /\ ~ failed(StopAnswerToJson(id, names))
  BY <1>2 DEF StopAnswerToJson
<1>5. \A info : given(RouteAnswerToJson(id, info)) /\ ~ failed(RouteAnswerToJson(id, info))
  BY <1>2 DEF RouteAnswerToJson
<1> QED
  BY <1>1, <1>3, <1>4, <1>5 DEF AnswerToJson, given, failed

\* A bus or a stop is an error exactly if no base request mentions it.
LEMMA ErrorIfUnknown ==
  ASSUME Sound
  PROVE  /\ \A b \in BusName : BusAnswer(b) = NotFound <=> BusRequests(b) = {}
         /\ \A s : StopAnswer(s) = NotFound <=> s \notin Mentioned
<1>1. ASSUME NEW b \in BusName PROVE BusAnswer(b) = NotFound <=> BusRequests(b) = {}
  <2>1. CASE BusRequests(b) = {}
    BY <2>1 DEF BusAnswer, Sound, IndexHoldsRequests
  <2>2. CASE BusRequests(b) # {}
    <3>1. bus_index_[b] \in BusRequests(b)
      BY <2>2 DEF Sound, IndexHoldsRequests
    <3>2. bus_index_[b] \in AddBusRequest /\ bus_index_[b] # NoBus
      BY <3>1, SentinelAssumption DEF BusRequests
    <3>3. BusAnswer(b) = BusInfo(bus_index_[b])
      BY <3>2 DEF BusAnswer
    <3>4. BusAnswer(b) # NotFound
      BY <3>2, <3>3, BusInfoType, NotFoundAssumption
    <3> QED
      BY <2>2, <3>4
  <2> QED
    BY <2>1, <2>2
<1>2. ASSUME NEW s PROVE StopAnswer(s) = NotFound <=> s \notin Mentioned
  <2>1. stop_index_ = Mentioned
    BY DEF Sound, StopsKnownOnceMentioned
  <2>2. CASE s \in stop_index_
    <3>1. buses_[s] \subseteq AddBusRequest
      BY <2>2 DEF Sound, TypeOK
    <3>2. {v.name : v \in buses_[s]} \in SUBSET BusName
      BY <3>1, BusRequestAssumption
    <3> QED
      BY <2>1, <2>2, <3>2, NotFoundAssumption DEF StopAnswer
  <2>3. CASE s \notin stop_index_
    BY <2>1, <2>3 DEF StopAnswer
  <2> QED
    BY <2>2, <2>3
<1> QED
  BY <1>1, <1>2

\* The read requests of a whole text are among those the model has.
NamedTexts ==
  \A t \in Texts : t.whole =>
    \A n \in DOMAIN t.asked.stat : t.asked.stat[n].request \in ReadRequest

ReadsAreNamed ==
  phase = "done" /\ source.whole =>
    \A n \in DOMAIN read_requests : read_requests[n].request \in ReadRequest

LEMMA RightInTurn ==
  ASSUME Sound, CacheInv, TurnInv, TextReads, IsJson => ReplyInv, TextAnswers,
         IsJson \/ ReadsAreNamed, ParsedAsWritten
  PROVE  AnsweredInTurn
<1> SUFFICES ASSUME phase = "done", source.whole PROVE AnsweredInTurn
  BY DEF AnsweredInTurn
<1> DEFINE stat == source.asked.stat
           known(q) == \/ q.type = "Bus" /\ BusRequests(q.name) # {}
                       \/ q.type = "Stop" /\ q.name \in Mentioned
<1>1. read_requests = stat
  BY DEF ParsedAsWritten
<1> HIDE DEF stat
<1>2. /\ Len(answers) = Len(stat) /\ DOMAIN answers = 1 .. Len(stat) /\ DOMAIN stat = 1 .. Len(stat)
      /\ Len(stat) \in Nat
  BY <1>1, SeqParts DEF TurnInv, CacheInv, TextReads
<1>3. ASSUME NEW n \in DOMAIN stat
      PROVE  /\ answers[n].request = stat[n].request
             /\ stat[n].request.type \in {"Bus", "Stop", "Route"}
             /\ stat[n].request.type # "Route" =>
                  (answers[n].reply = NotFound <=> ~ known(stat[n].request))
  <2>1. answers[n].request = stat[n].request
    BY <1>1, <1>2, <1>3 DEF TurnInv
  <2>2. PICK q, reply : /\ answers[n] = [request |-> q, reply |-> reply]
                        /\ q.type \in {"Bus", "Stop", "Route"}
                        /\ q.type = "Bus" => reply = BusAnswer(q.name) /\ q.name \in BusName
                        /\ q.type = "Stop" => reply = StopAnswer(q.name)
    <3>1. CASE IsJson
      <4>1. PICK q, reply : answers[n] = [request |-> q, reply |-> reply]
                              /\ AnswersRequest(q, reply)
        BY <1>2, <1>3, <3>1 DEF ReplyInv
      <4> QED
        BY <4>1, RequestTypes DEF AnswersRequest
    <3>2. CASE ~ IsJson
      <4>1. PICK q : answers[n] = [request |-> q, reply |-> Found(q)]
        BY <1>2, <1>3, <3>2 DEF TextAnswers
      <4>2. q = read_requests[n].request /\ n \in DOMAIN read_requests
        BY <1>1, <1>3, <2>1, <4>1
      <4>3. q \in ReadRequest /\ q.type \in {"Bus", "Stop"}
        BY <3>2, <4>2 DEF ReadsAreNamed, TextReads
      <4> QED
        BY <4>1, <4>3, RequestTypes DEF Found
    <3> QED
      BY <3>1, <3>2
  <2>3. q = stat[n].request /\ reply = answers[n].reply
    BY <2>1, <2>2
  <2> QED
    BY <2>1, <2>2, <2>3, ErrorIfUnknown
<1>4. CASE IsJson
  <2>1. output = [n \in DOMAIN answers |-> AnswerToJson(stat[n].id, answers[n])]
    BY <1>1, <1>4 DEF TurnInv
  <2>2. ASSUME NEW n \in DOMAIN stat
        PROVE  /\ At(output[n], "request_id") = SizeNode(stat[n].id)
               /\ Has(output[n], "error_message", "string") <=> answers[n].reply = NotFound
    BY <1>2, <1>3, <2>1, AnswerNode
  <2>3. Len(output) = Len(stat)
    BY <1>2, <2>1
  <2> QED
    BY <1>3, <1>4, <2>2, <2>3 DEF AnsweredInTurn, stat
<1>5. CASE ~ IsJson
  <2>1. output = answers
    BY <1>5 DEF TurnInv
  <2> QED
    BY <1>2, <1>3, <1>5, <2>1 DEF AnsweredInTurn, stat
<1> QED
  BY <1>4, <1>5

LEMMA TurnInvariant ==
  ProgramSpec => [](Sound /\ CacheInv /\ TurnInv /\ TextReads /\ (IsJson => ReplyInv)
                      /\ TextAnswers)
<1>1. ProgramInit => (IsJson => ReplyInv) /\ TextReads /\ TextAnswers /\ TurnInv
  <2>1. ASSUME ProgramInit PROVE TextAnswers
    <3>1. \A n : n \notin DOMAIN answers
      BY <2>1 DEF ProgramInit, ReadInit
    <3> QED
      BY <3>1 DEF TextAnswers
  <2> QED
    BY <2>1, ReplyInvInit, TextReadsInit, TurnInvInit DEF ProgramInit
<1>2. Sound /\ PhaseInv /\ CacheInv /\ (IsJson => ReplyInv) /\ [ProgramNext]_programVars
        => (IsJson => ReplyInv)'
  BY SourceKept, ReplyInvProgram
<1>3. TextReads /\ [ProgramNext]_programVars => TextReads'
  BY TextReadsStep
<1>4. CacheInv /\ PhaseInv /\ TextAnswers /\ [ProgramNext]_programVars => TextAnswers'
  BY TextAnswersStep
<1>5. TurnInv /\ PhaseInv /\ PhaseInv' /\ CacheInv /\ TextReads /\ [ProgramNext]_programVars
        => TurnInv'
  BY TurnInvStep
<1> QED
  BY <1>1, <1>2, <1>3, <1>4, <1>5, ProgramSound, PTL DEF ProgramSpec

\* Every whole document, whatever it asks for, is answered in its turn: one answer
\* for each read request, under its own id, an error exactly if no base request,
\* wherever it stands, mentions the bus or the stop (FinalLogic,
\* ProcessReadRequestsToJson, AnswerToJson).
THEOREM DocumentsAnsweredInTurn ==
  ASSUME WholeDocuments
  PROVE  ProgramSpec => [](IsJson => AnsweredInTurn)
<1>1. Sound /\ CacheInv /\ TurnInv /\ TextReads /\ (IsJson => ReplyInv) /\ TextAnswers
        /\ (IsJson => ParsedAsWritten) => (IsJson => AnsweredInTurn)
  BY RightInTurn
<1> QED
  BY <1>1, TurnInvariant, DocumentsParsedAsWritten, PTL

\* And so is every whole text (BusinessLogic, ProcessReadRequests).
THEOREM AlwaysAnsweredInTurn ==
  ASSUME WholeDocuments, WholeTexts, NamedTexts
  PROVE  ProgramSpec => []AnsweredInTurn
<1>1. ParseInv /\ ParsedAsWritten => IsJson \/ ReadsAreNamed
  BY InputAssumption DEF ParseInv, ParsedAsWritten, ReadsAreNamed, NamedTexts, IsJson
<1>2. Sound /\ CacheInv /\ TurnInv /\ TextReads /\ (IsJson => ReplyInv) /\ TextAnswers
        /\ ParseInv /\ ParsedAsWritten => AnsweredInTurn
  BY <1>1, RightInTurn
<1> QED
  BY <1>2, TurnInvariant, AlwaysParsedAsWritten, ParseInvInit, ParseInvStep, PTL
  DEF ProgramSpec

-----------------------------------------------------------------------------
(***************************************************************************)
(* Type correctness of the program.  It depends on what parsing makes of   *)
(* an input, and therefore on what the constants of Requests and           *)
(* ReadRequests hold of it.                                                *)
(***************************************************************************)
\* What parsing may make of the requests: those the model has, or none.
BaseOutcome == AddStopRequest \cup AddBusRequest \cup {Thrown, Unspecified}

AskedRead == [id : Nat, request : ReadRequest]

StatOutcome == AskedRead \cup {Thrown, Unspecified}

\* The constants hold what the documents ask for, as far as it can be parsed.
CoveredDocuments ==
  \A d \in Documents :
    /\ Has(d.root, "base_requests", "array") =>
         \A n \in DOMAIN At(d.root, "base_requests").array :
           MakeRequestFromJson(STR_TO_MOD_REQUEST_TYPE,
                               At(d.root, "base_requests").array[n], n) \in BaseOutcome
    /\ Has(d.root, "stat_requests", "array") =>
         \A n \in DOMAIN At(d.root, "stat_requests").array :
           MakeRequestFromJson(STR_TO_READ_REQUEST_TYPE,
                               At(d.root, "stat_requests").array[n], n) \in StatOutcome

\* A line that ReadNumberOnLine takes a number from, and the number.
Counts(line) == TrimLeft(line) # << >> /\ TrimLeft(line)[1] \in DOMAIN Numeral

Counted(line) == StoSize(<<TrimLeft(line)[1]>>)

NothingBefore(lines, m) == \A l \in 1 .. m - 1 : TrimLeft(lines[l]) = << >>

\* And what the texts ask for: the base requests are counted by the first line that
\* is not blank, the read requests by another.
CoveredTexts ==
  \A t \in Texts :
    /\ t.lines \in Seq(Line)
    /\ \A m, n \in DOMAIN t.lines :
         Counts(t.lines[m]) /\ n <= Counted(t.lines[m]) /\ m + n \in DOMAIN t.lines =>
           IF NothingBefore(t.lines, m)
             THEN MakeRequestFromLine(STR_TO_MOD_REQUEST_TYPE, t.lines[m + n], n) \in BaseOutcome
             ELSE MakeRequestFromLine(STR_TO_READ_REQUEST_TYPE, t.lines[m + n], n) \in StatOutcome

NextIsCovered ==
  phase \in {"base", "stat"} /\ count > 0 =>
    NextRequest \in IF phase = "base" THEN BaseOutcome ELSE StatOutcome

\* A node that is taken is one of its list, so its request is covered.
LEMMA DocumentsCover ==
  ASSUME CoveredDocuments, ParseInv, IsJson
  PROVE  NextIsCovered
<1> SUFFICES ASSUME phase \in {"base", "stat"}, count > 0
             PROVE  NextRequest \in IF phase = "base" THEN BaseOutcome ELSE StatOutcome
  BY DEF NextIsCovered
<1>1. source \in Documents
  BY InputAssumption DEF ParseInv, IsJson
<1>2. ASSUME NEW requests, NEW index, NEW part \in {"base_requests", "stat_requests"},
             HasList(part), Begun(requests, index, ListOf(part)),
             Remain(requests, ListOf(part), unread, count)
      PROVE  \E n \in DOMAIN ListOf(part) :
               n = Len(requests) + 1 /\ Head(unread) = ListOf(part)[n]
  <2>1. /\ IsSeq(ListOf(part)) /\ Len(ListOf(part)) \in Nat
        /\ DOMAIN ListOf(part) = 1 .. Len(ListOf(part))
    BY <1>2, ListIsSeq, SeqParts DEF ParseInv
  <2>2. Len(requests) \in Nat /\ IsSeq(unread) /\ Len(unread) = count
    BY <1>2, SeqParts DEF Begun, Remain
  <2>3. unread # << >> /\ Head(unread) = unread[1]
    BY <2>2, SeqParts
  <2>4. /\ Len(requests) + 1 \in 1 .. Len(ListOf(part))
        /\ unread[1] = ListOf(part)[Len(requests) + 1]
    BY <1>2, <2>1, <2>2 DEF Remain
  <2> QED
    BY <2>1, <2>3, <2>4
<1>3. CASE phase = "base"
  <2>1. PICK n \in DOMAIN ListOf("base_requests") :
          n = Len(mod_requests) + 1 /\ Head(unread) = ListOf("base_requests")[n]
    BY <1>2, <1>3 DEF ParseInv, BaseBegun
  <2>2. NextRequest = MakeRequestFromJson(STR_TO_MOD_REQUEST_TYPE,
                                          ListOf("base_requests")[n], n)
    BY <1>3, <2>1 DEF NextRequest, MakeRequest
  <2>3. HasList("base_requests")
    BY <1>3 DEF ParseInv, BaseBegun
  <2> QED
    BY <1>1, <1>3, <2>1, <2>2, <2>3 DEF CoveredDocuments, HasList, ListOf
<1>4. CASE phase = "stat"
  <2>1. PICK n \in DOMAIN ListOf("stat_requests") :
          n = Len(read_requests) + 1 /\ Head(unread) = ListOf("stat_requests")[n]
    BY <1>2, <1>4 DEF ParseInv, StatBegun
  <2>2. NextRequest = MakeRequestFromJson(STR_TO_READ_REQUEST_TYPE,
                                          ListOf("stat_requests")[n], n)
    BY <1>4, <2>1 DEF NextRequest, MakeRequest
  <2>3. HasList("stat_requests")
    BY <1>4 DEF ParseInv, StatBegun
  <2> QED
    BY <1>1, <1>4, <2>1, <2>2, <2>3 DEF CoveredDocuments, HasList, ListOf
<1> QED
  BY <1>3, <1>4

-----------------------------------------------------------------------------
\* Where a line of text says how many requests follow it.
LEMMA CountedIsNatural ==
  ASSUME NEW line, Counts(line)
  PROVE  Counted(line) \in Nat
<1>1. PICK symbol : symbol = TrimLeft(line)[1]
  OBVIOUS
<1>2. symbol \in DOMAIN Numeral /\ Numeral[symbol] \in Int
  BY <1>1, NumeralAssumption DEF Counts
<1>3. StoDouble(<<symbol>>) = Numeral[symbol]
  BY <1>2, NumberAlone
<1>4. Numeral[symbol] \div Unit \in Int
  BY <1>2, UnitAssumption
<1>5. (Numeral[symbol] \div Unit) % SizeLimit \in Nat
  BY <1>4, SizeAssumption
<1> QED
  BY <1>1, <1>3, <1>5 DEF Counted, StoSize

\* The blank lines are left out.
LEMMA LinesLeftAre ==
  ASSUME unread \in Seq(Line)
  PROVE  \/ LinesLeft = << >>
         \/ \E w \in 1 .. Len(unread) :
              /\ TrimLeft(unread[w]) # << >>
              /\ \A l \in 1 .. w - 1 : TrimLeft(unread[l]) = << >>
              /\ LinesLeft # << >> /\ LinesLeft[1] = unread[w]
              /\ Tail(LinesLeft) \in Seq(Line)
              /\ Len(Tail(LinesLeft)) = Len(unread) - w
              /\ \A n \in 1 .. Len(unread) - w : Tail(LinesLeft)[n] = unread[w + n]
<1> DEFINE written == {n \in DOMAIN unread : TrimLeft(unread[n]) # << >>}
           first == CHOOSE n \in written : \A m \in written : n <= m
<1>1. Len(unread) \in Nat /\ DOMAIN unread = 1 .. Len(unread)
  BY LenProperties, Zenon
<1> SUFFICES ASSUME written # {}
             PROVE  \E w \in 1 .. Len(unread) :
                      /\ TrimLeft(unread[w]) # << >>
                      /\ \A l \in 1 .. w - 1 : TrimLeft(unread[l]) = << >>
                      /\ LinesLeft # << >> /\ LinesLeft[1] = unread[w]
                      /\ Tail(LinesLeft) \in Seq(Line)
                      /\ Len(Tail(LinesLeft)) = Len(unread) - w
                      /\ \A n \in 1 .. Len(unread) - w : Tail(LinesLeft)[n] = unread[w + n]
  BY Zenon DEF LinesLeft
<1>2. LinesLeft = SubSeq(unread, first, Len(unread))
  BY Zenon DEF LinesLeft
<1>3. written \subseteq Nat
  BY <1>1
<1>4. PICK w : w = first
  OBVIOUS
<1>5. \E n \in written : \A m \in written : n <= m
  BY <1>3, LeastNatural
<1>6. w \in written /\ \A m \in written : w <= m
  BY <1>4, <1>5
<1> HIDE DEF first
<1>7. w \in 1 .. Len(unread) /\ TrimLeft(unread[w]) # << >>
  BY <1>1, <1>6
<1>8. ASSUME NEW l \in 1 .. w - 1 PROVE TrimLeft(unread[l]) = << >>
  <2>1. l \in 1 .. Len(unread) /\ ~ (w <= l)
    BY <1>1, <1>7
  <2> QED
    BY <1>1, <1>6, <2>1
<1> HIDE DEF written
<1>9. PICK left : left = LinesLeft
  OBVIOUS
<1>10. /\ left \in Seq(Line) /\ Len(left) = Len(unread) - w + 1
       /\ \A n \in 1 .. Len(unread) - w + 1 : left[n] = unread[w + n - 1]
  BY <1>1, <1>2, <1>4, <1>7, <1>9, SubSeqProperties
<1>11. left # << >> /\ left[1] = unread[w]
  BY <1>1, <1>7, <1>10, EmptySeq
<1>12. /\ Tail(left) \in Seq(Line) /\ Len(Tail(left)) = Len(unread) - w
       /\ \A n \in 1 .. Len(unread) - w : Tail(left)[n] = left[n + 1]
  BY <1>1, <1>7, <1>10, <1>11, HeadTailProperties
<1>13. ASSUME NEW n \in 1 .. Len(unread) - w PROVE Tail(left)[n] = unread[w + n]
  <2>1. n + 1 \in 1 .. Len(unread) - w + 1 /\ w + (n + 1) - 1 = w + n
    BY <1>1, <1>7
  <2> QED
    BY <1>10, <1>12, <2>1
<1> QED
  BY <1>7, <1>8, <1>9, <1>11, <1>12, <1>13

-----------------------------------------------------------------------------
\* The requests that the number in line m counts are made of the lines behind it.
Block(lines, m, requests) ==
  /\ m \in DOMAIN lines /\ Counts(lines[m])
  /\ Len(requests) + count = Counted(lines[m])
  /\ Unread(unread, lines, m + Len(requests))

\* Where a text is read: it has ended, or lines of one of its two lists come next.
PlaceInv ==
  ~ IsJson =>
    /\ phase \in {"start", "count"} =>
         count = 0 /\ mod_requests = << >> /\ read_requests = << >>
    /\ phase = "count" => unread = source.lines
    /\ phase = "base" => read_requests = << >>
    /\ phase = "base" /\ unread # << >> =>
         \E m \in Nat : NothingBefore(source.lines, m) /\ Block(source.lines, m, mod_requests)
    /\ phase = "stat" /\ unread # << >> =>
         \E m \in Nat : ~ NothingBefore(source.lines, m) /\ Block(source.lines, m, read_requests)

\* Nothing has been read of the text.
LEMMA PlaceInvInit == ProgramInit => PlaceInv
BY DEF ProgramInit, PlaceInv

\* What the number that is taken leaves to be read.
LEMMA CountTaken ==
  ASSUME NEW lines \in Seq(Line), NEW k \in Nat, Unread(unread, lines, k),
         NEW part, ReadNumber(part, LinesLeft), unread' # << >>
  PROVE  \E m \in Nat :
           /\ k < m /\ m \in DOMAIN lines
           /\ Counts(lines[m])
           /\ \A l \in k + 1 .. m - 1 : TrimLeft(lines[l]) = << >>
           /\ count' = Counted(lines[m])
           /\ Unread(unread', lines, m)
<1>1. /\ unread \in Seq(Line) /\ Len(unread) = Len(lines) - k
      /\ Len(unread) \in Nat /\ Len(lines) \in Nat /\ DOMAIN lines = 1 .. Len(lines)
      /\ \A n \in 1 .. Len(unread) : unread[n] = lines[k + n]
  BY LenProperties DEF Unread
<1>2. PICK left : left = LinesLeft
  OBVIOUS
<1>3. /\ left # << >> /\ TrimLeft(left[1])[1] \in DOMAIN Numeral
      /\ EnterPart(part, Tail(left), StoSize(<<TrimLeft(left[1])[1]>>))
  BY <1>2 DEF ReadNumber, EnterPart
<1>4. unread' = Tail(left) /\ count' = Counted(left[1])
  BY <1>3 DEF EnterPart, Counted
<1>5. PICK w \in 1 .. Len(unread) :
        /\ TrimLeft(unread[w]) # << >>
        /\ \A l \in 1 .. w - 1 : TrimLeft(unread[l]) = << >>
        /\ left[1] = unread[w]
        /\ Tail(left) \in Seq(Line)
        /\ Len(Tail(left)) = Len(unread) - w
        /\ \A n \in 1 .. Len(unread) - w : Tail(left)[n] = unread[w + n]
  BY <1>1, <1>2, <1>3, LinesLeftAre, Zenon
<1>6. PICK m : m = k + w
  OBVIOUS
<1>7. m \in Nat /\ k < m /\ m \in DOMAIN lines /\ left[1] = lines[m]
  <2>1. m \in Nat /\ k < m /\ m \in 1 .. Len(lines)
    BY <1>1, <1>6
  <2>2. left[1] = lines[m]
    BY <1>1, <1>5, <1>6
  <2> QED
    BY <1>1, <2>1, <2>2
<1>8. Counts(lines[m])
  BY <1>1, <1>3, <1>5, <1>6 DEF Counts
<1>9. ASSUME NEW l \in k + 1 .. m - 1 PROVE TrimLeft(lines[l]) = << >>
  <2>1. PICK i : i = l - k
    OBVIOUS
  <2>2. i \in 1 .. w - 1 /\ i \in 1 .. Len(unread) /\ k + i = l
    BY <1>1, <1>6, <2>1
  <2>3. unread[i] = lines[k + i] /\ TrimLeft(unread[i]) = << >>
    BY <1>1, <1>5, <2>2, Zenon
  <2> QED
    BY <2>2, <2>3
<1>10. Unread(Tail(left), lines, m)
  <2>1. Len(Tail(left)) = Len(lines) - m
    BY <1>1, <1>5, <1>6
  <2>2. ASSUME NEW n \in 1 .. Len(Tail(left)) PROVE Tail(left)[n] = lines[m + n]
    <3>1. n \in 1 .. Len(unread) - w /\ w + n \in 1 .. Len(unread) /\ k + (w + n) = m + n
      BY <1>1, <1>5, <1>6
    <3> QED
      BY <1>1, <1>5, <3>1
  <2> QED
    BY <1>5, <2>1, <2>2 DEF Unread
<1> QED
  BY <1>4, <1>7, <1>8, <1>9, <1>10

\* An empty line is no request.
LEMMA NothingIsThrown ==
  ASSUME NEW index \in {STR_TO_MOD_REQUEST_TYPE, STR_TO_READ_REQUEST_TYPE}, NEW n
  PROVE  MakeRequestFromLine(index, << >>, n) = Thrown
<1>1. << >> \in Line /\ Blank \in Line /\ Blank # << >>
  BY ShortLines, MarksInLines DEF Blank, Marks, Line
<1>2. Token(<< >>, Blank) = << >>
  BY <1>1, TokenAndRest
<1>3. << >> \notin DOMAIN index
  <2>1. \A word : << >> # <<word>>
    OBVIOUS
  <2>2. << >> \notin {<<"Bus">>, <<"Stop">>, <<"Route">>}
    BY <2>1
  <2> QED
    BY <2>2, Words
<1> QED
  BY <1>2, <1>3 DEF MakeRequestFromLine

\* A line that is taken is one of those the number in front counts, so its request
\* is covered; where the text has ended, the line is empty and parsing throws.
LEMMA TextsCover ==
  ASSUME CoveredTexts, ParseInv, TextReads, PlaceInv, ~ IsJson, IsSeq(mod_requests),
         count \in Nat
  PROVE  NextIsCovered
<1> SUFFICES ASSUME phase \in {"base", "stat"}, count > 0
             PROVE  NextRequest \in IF phase = "base" THEN BaseOutcome ELSE StatOutcome
  BY DEF NextIsCovered
<1>1. PICK lines : lines = source.lines
  OBVIOUS
<1>2. /\ source \in Texts /\ lines \in Seq(Line)
      /\ Len(lines) \in Nat /\ DOMAIN lines = 1 .. Len(lines)
  BY <1>1, InputAssumption DEF ParseInv, IsJson, CoveredTexts
<1>3. CASE unread = << >>
  <2>1. NextRequest = Thrown
    BY <1>3, NothingIsThrown DEF NextRequest, MakeRequest
  <2> QED
    BY <2>1 DEF BaseOutcome, StatOutcome
<1>4. ASSUME NEW m \in Nat, NEW requests, IsSeq(requests), Block(lines, m, requests),
             unread # << >>
      PROVE  \E n \in DOMAIN lines :
               /\ n = Len(requests) + 1 /\ n <= Counted(lines[m])
               /\ m + n \in DOMAIN lines /\ Head(unread) = lines[m + n]
  <2>1. PICK n : n = Len(requests) + 1
    OBVIOUS
  <2>2. Len(requests) \in Nat /\ m \in 1 .. Len(lines)
    BY <1>2, <1>4, SeqParts DEF Block
  <2>3. /\ unread \in Seq(Line) /\ Len(unread) = Len(lines) - (m + Len(requests))
        /\ \A i \in 1 .. Len(unread) : unread[i] = lines[(m + Len(requests)) + i]
    BY <1>4 DEF Block, Unread
  <2>4. Len(unread) \in Nat \ {0} /\ Head(unread) = unread[1]
    BY <1>4, <2>3, EmptySeq
  <2>5. Head(unread) = lines[m + n] /\ m + n \in 1 .. Len(lines) /\ n \in 1 .. Len(lines)
    <3>1. m + n = (m + Len(requests)) + 1 /\ m + n \in 1 .. Len(lines) /\ n \in 1 .. Len(lines)
      <4>1. PICK total, made, left :
              total = Len(lines) /\ made = Len(requests) /\ left = Len(unread)
        BY Zenon
      <4>2. /\ total \in Nat /\ made \in Nat /\ left \in Nat \ {0}
            /\ left = total - (m + made) /\ n = made + 1
        BY <1>2, <2>1, <2>2, <2>3, <2>4, <4>1, Zenon
      <4>3. m + n = (m + made) + 1 /\ m + n \in 1 .. total /\ n \in 1 .. total
        BY <4>2
      <4> QED
        BY <4>1, <4>3
    <3>2. unread[1] = lines[(m + Len(requests)) + 1]
      <4>1. 1 \in 1 .. Len(unread)
        BY <2>4
      <4> QED
        BY <2>3, <4>1, Zenon
    <3> QED
      BY <2>4, <3>1, <3>2
  <2>6. Counted(lines[m]) \in Nat /\ Len(requests) + count = Counted(lines[m])
    BY <1>4, CountedIsNatural DEF Block
  <2>7. n <= Counted(lines[m])
    BY <2>1, <2>2, <2>6
  <2> QED
    BY <1>2, <2>1, <2>5, <2>7
<1>5. CASE unread # << >> /\ phase = "base"
  <2>1. PICK m \in Nat : NothingBefore(lines, m) /\ Block(lines, m, mod_requests)
    BY <1>1, <1>5 DEF PlaceInv
  <2>2. PICK n \in DOMAIN lines :
          /\ n = Len(mod_requests) + 1 /\ n <= Counted(lines[m])
          /\ m + n \in DOMAIN lines /\ Head(unread) = lines[m + n]
    BY <1>4, <1>5, <2>1
  <2>3. NextRequest = MakeRequestFromLine(STR_TO_MOD_REQUEST_TYPE, lines[m + n], n)
    BY <1>5, <2>2 DEF NextRequest, MakeRequest
  <2>4. m \in DOMAIN lines /\ Counts(lines[m])
    BY <2>1 DEF Block
  <2>5. MakeRequestFromLine(STR_TO_MOD_REQUEST_TYPE, lines[m + n], n) \in BaseOutcome
    BY <1>1, <1>2, <2>1, <2>2, <2>4, Zenon DEF CoveredTexts
  <2> QED
    BY <1>5, <2>3, <2>5
<1>6. CASE unread # << >> /\ phase = "stat"
  <2>1. PICK m \in Nat : ~ NothingBefore(lines, m) /\ Block(lines, m, read_requests)
    BY <1>1, <1>6 DEF PlaceInv
  <2>2. PICK n \in DOMAIN lines :
          /\ n = Len(read_requests) + 1 /\ n <= Counted(lines[m])
          /\ m + n \in DOMAIN lines /\ Head(unread) = lines[m + n]
    BY <1>4, <1>6, <2>1 DEF TextReads
  <2>3. NextRequest = MakeRequestFromLine(STR_TO_READ_REQUEST_TYPE, lines[m + n], n)
    BY <1>6, <2>2 DEF NextRequest, MakeRequest
  <2>4. m \in DOMAIN lines /\ Counts(lines[m])
    BY <2>1 DEF Block
  <2>5. MakeRequestFromLine(STR_TO_READ_REQUEST_TYPE, lines[m + n], n) \in StatOutcome
    BY <1>1, <1>2, <2>1, <2>2, <2>4, Zenon DEF CoveredTexts
  <2> QED
    BY <1>6, <2>3, <2>5
<1> QED
  BY <1>3, <1>5, <1>6

\* One request more and one line less.
LEMMA NextBlock ==
  ASSUME NEW lines \in Seq(Line), NEW m \in Nat, NEW requests, IsSeq(requests),
         Block(lines, m, requests), NEW longer, IsSeq(longer), Len(longer) = Len(requests) + 1,
         count \in Nat, unread # << >>, unread' = Tail(unread), count' = count - 1
  PROVE  Block(lines, m, longer)'
<1>1. PICK k : k = m + Len(requests)
  OBVIOUS
<1>2. Len(requests) \in Nat /\ Len(lines) \in Nat /\ k \in Nat
  BY <1>1, SeqParts
<1>3. Unread(unread, lines, k) /\ Counts(lines[m]) /\ m \in DOMAIN lines
      /\ Len(requests) + count = Counted(lines[m]) /\ Counted(lines[m]) \in Nat
  BY <1>1, CountedIsNatural DEF Block
<1>4. k < Len(lines)
  <2>1. unread \in Seq(Line) /\ Len(unread) = Len(lines) - k
    BY <1>3 DEF Unread
  <2>2. Len(unread) \in Nat \ {0}
    BY <2>1, EmptySeq
  <2> QED
    BY <1>2, <2>1, <2>2
<1>5. Unread(Tail(unread), lines, k + 1) /\ k + 1 = m + Len(longer)
  BY <1>1, <1>2, <1>3, <1>4, NextUnread
<1>6. Len(longer) + (count - 1) = Counted(lines[m])
  BY <1>2, <1>3
<1> QED
  BY <1>3, <1>5, <1>6 DEF Block

-----------------------------------------------------------------------------
(***************************************************************************)
(* Type correctness of the program, as far as parsing goes, and what has   *)
(* been processed of what was parsed.                                      *)
(***************************************************************************)
Parsing == {"start", "count", "base", "stat"}

ParsedInv ==
  /\ phase \in Parsing \cup {"modify", "router", "read", "done", "terminated"}
  /\ count \in Nat
  /\ mod_requests \in Seq(AddStopRequest \cup AddBusRequest)
  /\ read_requests \in Seq(AskedRead)
  /\ IsJson => count \in {0, Len(unread)}
  /\ ~ IsJson => DOMAIN route_cache_ = {}

ProcessedInv ==
  /\ IsFiniteSet(done) /\ Cardinality(done) <= Len(mod_requests)
  /\ done = {mod_requests[n] : n \in 1 .. Cardinality(done)}
  /\ phase \in Parsing => done = {}

\* Nothing has been parsed, nothing has been processed.
LEMMA ParsedInvInit == ProgramInit => ParsedInv /\ ProcessedInv
<1> SUFFICES ASSUME ProgramInit PROVE ParsedInv /\ ProcessedInv
  OBVIOUS
<1>1. ParsedInv
  <2>1. \A S : << >> \in Seq(S)
    BY EmptySeq
  <2>2. DOMAIN route_cache_ = {}
    BY DEF ProgramInit, ReadInit
  <2> QED
    BY <2>1, <2>2 DEF ProgramInit, ParsedInv, Parsing
<1>2. ProcessedInv
  <2>1. done = {} /\ mod_requests = << >>
    BY DEF ProgramInit, ReadInit, ManagerInit, Init
  <2>2. IsFiniteSet({}) /\ Cardinality({}) = 0 /\ Len(<< >>) = 0
    BY FS_EmptySet
  <2> QED
    BY <2>1, <2>2 DEF ProcessedInv
<1> QED
  BY <1>1, <1>2

\* A sequence of a set is one.
LEMMA SeqIsSeq ==
  ASSUME NEW S, NEW s \in Seq(S)
  PROVE  IsSeq(s)
<1>1. \A n \in DOMAIN s : s[n] \in {s[m] : m \in DOMAIN s}
  OBVIOUS
<1>2. Len(s) \in Nat /\ DOMAIN s = 1 .. Len(s) /\ s = [n \in 1 .. Len(s) |-> s[n]]
  OBVIOUS
<1> QED
  BY <1>1, <1>2 DEF IsSeq

\* What a request that is kept does to the list it is put in.
LEMMA KeptRequest ==
  ASSUME ParseRequest, ~ UNCHANGED parseVars
  PROVE  /\ phase \in {"base", "stat"} /\ phase' = phase /\ count > 0
         /\ Keep(NextRequest) /\ NextRequest \notin {Thrown, Unspecified}
         /\ UNCHANGED readVars
<1>1. PICK request : request = NextRequest
  OBVIOUS
<1>2. phase \in {"base", "stat"} /\ count > 0 /\ Take(request)
  BY <1>1 DEF ParseRequest
<1>3. Keep(request) /\ request \notin {Thrown, Unspecified}
  BY <1>2 DEF Take, Terminate, parseVars
<1> QED
  BY <1>1, <1>2, <1>3 DEF Keep

\* The other steps of ParseRequests and of what comes behind it.
LEMMA ParsedKept ==
  ASSUME ProgramNext, ~ LoadDocument, ~ TurnToStatRequests, ~ OpenText, ~ ReadCount,
         ~ ParseRequest \/ UNCHANGED parseVars
  PROVE  UNCHANGED parseVars
BY DEF ProgramNext, FinishParsing, ProcessModifyRequests, FinishModifying,
       RunInitializeRouter, ProcessReadRequest, PrintRequest, PrintAnswers

\* Parsing is not entered again.
LEMMA PhaseStep ==
  ASSUME ParsedInv, [ProgramNext]_programVars
  PROVE  /\ phase' \in Parsing \cup {"modify", "router", "read", "done", "terminated"}
         /\ phase' \in Parsing => phase \in Parsing
BY DEF ParsedInv, Parsing, ProgramNext, programVars, LoadDocument, TurnToStatRequests, OpenText,
       ReadCount, ParseRequest, FinishParsing, ProcessModifyRequests, FinishModifying,
       RunInitializeRouter, ProcessReadRequest, PrintRequest, PrintAnswers, EnterNodes,
       EnterPart, Terminate, ReadNumber, Take, Keep

\* A text asks for no routes.
LEMMA NoRoutesStep ==
  ASSUME PhaseInv, ParsedInv, ~ IsJson, [ProgramNext]_programVars
  PROVE  DOMAIN route_cache_' = {}
<1>1. UNCHANGED route_cache_
  BY RouterStep DEF Undefined, routeVars, readVars
<1> QED
  BY <1>1 DEF ParsedInv

\* The number of requests a list begins with.
LEMMA CountEntered ==
  ASSUME NEW part, ReadNumber(part, LinesLeft)
  PROVE  count' \in Nat /\ phase' = part /\ UNCHANGED <<mod_requests, read_requests>>
<1>1. PICK left : left = LinesLeft
  OBVIOUS
<1>2. CASE left = << >>
  BY <1>1, <1>2 DEF ReadNumber, EnterPart, Uninitialized
<1>3. CASE left # << >>
  <2>1. PICK first : first = TrimLeft(left[1])[1]
    OBVIOUS
  <2>2. CASE first \in DOMAIN Numeral
    <3>1. StoSize(<<first>>) \in Nat
      <4>1. Numeral[first] \in Int /\ StoDouble(<<first>>) = Numeral[first]
        BY <2>2, NumberAlone, NumeralAssumption
      <4>2. Numeral[first] \div Unit \in Int
        BY <4>1, UnitAssumption
      <4>3. (Numeral[first] \div Unit) % SizeLimit \in Nat
        BY <4>2, SizeAssumption
      <4> QED
        BY <4>1, <4>3 DEF StoSize
    <3> QED
      BY <1>1, <1>3, <2>1, <2>2, <3>1 DEF ReadNumber, EnterPart
  <2>3. CASE first \notin DOMAIN Numeral
    BY <1>1, <1>3, <2>1, <2>3 DEF ReadNumber, EnterPart
  <2> QED
    BY <2>2, <2>3
<1> QED
  BY <1>2, <1>3

\* Parsing appends what is covered, or terminates; nothing else touches the lists.
LEMMA ParsedInvStep ==
  ASSUME ParsedInv, PhaseInv, ParseInv, NextIsCovered, [ProgramNext]_programVars
  PROVE  ParsedInv'
<1>1. IsJson' = IsJson
  BY SourceKept
<1>2. phase' \in Parsing' \cup {"modify", "router", "read", "done", "terminated"}
  BY PhaseStep DEF Parsing
<1>3. (~ IsJson => DOMAIN route_cache_ = {})'
  BY <1>1, NoRoutesStep
<1>4. CASE UNCHANGED parseVars
  BY <1>1, <1>2, <1>3, <1>4 DEF ParsedInv, parseVars
<1>5. CASE (LoadDocument \/ TurnToStatRequests) /\ ~ UNCHANGED parseVars
  <2>1. PICK part \in {"base_requests", "stat_requests"}, to \in {"base", "stat"} :
          EnterNodes(to, At(source.root, part)) /\ ~ Terminate
    BY <1>5 DEF LoadDocument, TurnToStatRequests, Terminate
  <2>2. Holds(At(source.root, part), "array") /\ EnterPart(to, ListOf(part), Len(ListOf(part)))
    BY <2>1 DEF EnterNodes, ListOf
  <2>3. IsJson
    BY <1>5 DEF LoadDocument, TurnToStatRequests
  <2>4. HasList(part)
    <3>1. CASE LoadDocument
      BY <1>5, <2>2, <3>1 DEF LoadDocument, HasList, Has, HasSettings, Terminate
    <3>2. CASE TurnToStatRequests
      BY <1>5, <2>2, <3>2 DEF TurnToStatRequests, HasList, Has, ParseInv, BaseBegun
    <3> QED
      BY <1>5, <3>1, <3>2
  <2>5. Len(ListOf(part)) \in Nat
    BY <2>3, <2>4, ListIsSeq, SeqParts DEF ParseInv
  <2>6. /\ count' \in Nat /\ count' = Len(unread')
        /\ UNCHANGED <<mod_requests, read_requests>>
    BY <2>2, <2>5 DEF EnterPart
  <2> QED
    BY <1>1, <1>2, <1>3, <2>6 DEF ParsedInv
<1>6. CASE OpenText
  BY <1>1, <1>2, <1>3, <1>6 DEF OpenText, ParsedInv
<1>7. CASE ReadCount
  <2>1. PICK part : ReadNumber(part, LinesLeft)
    BY <1>7 DEF ReadCount
  <2>2. ~ IsJson /\ count' \in Nat /\ UNCHANGED <<mod_requests, read_requests>>
    BY <1>7, <2>1, CountEntered DEF ReadCount
  <2> QED
    BY <1>1, <1>2, <1>3, <2>2 DEF ParsedInv
<1>8. CASE ParseRequest /\ ~ UNCHANGED parseVars
  <2>1. PICK request : request = NextRequest
    OBVIOUS
  <2>2. /\ phase \in {"base", "stat"} /\ count > 0
        /\ Keep(request) /\ request \notin {Thrown, Unspecified}
    BY <1>8, <2>1, KeptRequest
  <2>3. phase = "base" => request \in AddStopRequest \cup AddBusRequest
    BY <2>1, <2>2 DEF NextIsCovered, BaseOutcome
  <2>4. phase = "stat" => request \in AskedRead
    BY <2>1, <2>2 DEF NextIsCovered, StatOutcome
  <2>5. /\ mod_requests' \in Seq(AddStopRequest \cup AddBusRequest)
        /\ read_requests' \in Seq(AskedRead)
    <3>1. CASE phase = "base"
      <4>1. /\ mod_requests' = Append(mod_requests, request)
            /\ read_requests' = read_requests
        BY <2>2, <3>1 DEF Keep
      <4> QED
        BY <2>3, <3>1, <4>1, AppendProperties DEF ParsedInv
    <3>2. CASE phase = "stat"
      <4>1. /\ read_requests' = Append(read_requests, request)
            /\ mod_requests' = mod_requests
        BY <2>2, <3>2 DEF Keep
      <4> QED
        BY <2>4, <3>2, <4>1, AppendProperties DEF ParsedInv
    <3> QED
      BY <2>2, <3>1, <3>2
  <2>6. count' = count - 1 /\ count' \in Nat
    BY <2>2 DEF Keep, ParsedInv
  <2>7. ASSUME IsJson PROVE count' = Len(unread')
    <3>1. IsSeq(unread) /\ Len(unread) = count
      BY <2>2, <2>7 DEF ParseInv, Remain
    <3>2. unread # << >> /\ Len(Tail(unread)) = Len(unread) - 1
      BY <2>2, <3>1, SeqParts
    <3> QED
      BY <2>2, <2>6, <3>1, <3>2 DEF Keep
  <2> QED
    BY <1>1, <1>2, <1>3, <2>5, <2>6, <2>7 DEF ParsedInv
<1>9. CASE UNCHANGED programVars
  BY <1>4, <1>9 DEF programVars
<1> QED
  BY <1>4, <1>5, <1>6, <1>7, <1>8, <1>9, ParsedKept

\* ProcessModifyRequests takes the request behind those processed.
LEMMA ProcessedInvStep ==
  ASSUME ParsedInv, ProcessedInv, [ProgramNext]_programVars
  PROVE  ProcessedInv'
<1>1. phase' \in Parsing => phase \in Parsing
  BY PhaseStep
<1>2. Len(mod_requests) \in Nat /\ DOMAIN mod_requests = 1 .. Len(mod_requests)
  BY LenProperties DEF ParsedInv
<1>3. CASE ProcessModifyRequests
  <2>1. PICK r : r = mod_requests[Cardinality(done) + 1] /\ (AddBus(r) \/ AddStop(r))
    BY <1>3 DEF ProcessModifyRequests
  <2>2. r \notin done /\ done' = done \cup {r}
    BY <2>1 DEF AddBus, AddStop
  <2>3. /\ phase' = "modify" /\ mod_requests' = mod_requests
        /\ Cardinality(done) < Len(mod_requests)
    BY <1>3 DEF ProcessModifyRequests, parseVars
  <2>4. /\ IsFiniteSet(done') /\ Cardinality(done') = Cardinality(done) + 1
        /\ Cardinality(done) \in Nat
    BY <2>2, FS_AddElement, FS_CardinalityType DEF ProcessedInv
  <2>5. PICK k : k = Cardinality(done)
    OBVIOUS
  <2>6. 1 .. k + 1 = (1 .. k) \cup {k + 1}
    BY <2>4, <2>5
  <2>7. done' = {mod_requests[n] : n \in 1 .. k + 1}
    BY <2>1, <2>2, <2>5, <2>6 DEF ProcessedInv
  <2> QED
    BY <1>2, <2>3, <2>4, <2>5, <2>7 DEF ProcessedInv, Parsing
<1>4. ASSUME done' = done, UNCHANGED mod_requests
      PROVE  ProcessedInv'
  BY <1>1, <1>4 DEF ProcessedInv, Parsing
<1>5. CASE ParseRequest
  <2>1. done' = done
    BY <1>5, ParseRequestStep DEF readVars, managerVars, vars, Undefined
  <2>2. done = {} /\ phase \in Parsing
    BY <1>5 DEF ParseRequest, ProcessedInv, Parsing
  <2>3. IsFiniteSet({}) /\ Cardinality({}) = 0
    BY FS_EmptySet
  <2>4. CASE ~ UNCHANGED mod_requests
    <3>1. mod_requests' = Append(mod_requests, NextRequest)
      BY <1>5, <2>4, KeptRequest DEF Keep, parseVars
    <3>2. Len(mod_requests') \in Nat
      <4>1. IsSeq(mod_requests)
        BY SeqIsSeq DEF ParsedInv
      <4> QED
        BY <3>1, <4>1, AppendGrows, SeqParts
    <3>3. {mod_requests'[n] : n \in 1 .. 0} = {}
      OBVIOUS
    <3> QED
      BY <2>1, <2>2, <2>3, <3>2, <3>3 DEF ProcessedInv
  <2> QED
    BY <1>4, <2>1, <2>4
<1>6. CASE \/ LoadDocument \/ TurnToStatRequests \/ OpenText \/ ReadCount
           \/ FinishParsing \/ FinishModifying \/ PrintAnswers
  <2>1. done' = done
    BY <1>6, ParsingStep DEF readVars, managerVars, vars
  <2>2. UNCHANGED mod_requests
    BY <1>6 DEF LoadDocument, TurnToStatRequests, OpenText, ReadCount, ReadNumber,
       FinishParsing, FinishModifying, PrintAnswers, EnterNodes, EnterPart, Terminate, parseVars
  <2> QED
    BY <1>4, <2>1, <2>2
<1>7. CASE RunInitializeRouter \/ ProcessReadRequest \/ PrintRequest
  <2>1. UNCHANGED parseVars
    BY <1>7 DEF RunInitializeRouter, ProcessReadRequest, PrintRequest
  <2>2. done' = done
    BY <1>7 DEF RunInitializeRouter, InitializeRouter, NumberStop, CreateGraph, AddBusEdges,
       EmplaceRouter, ProcessReadRequest, Read, GetBusInfo, GetStopInfo, GetCachedRoute,
       FindNoRoute, BuildNewRoute, BuildUnknownRoute, PrintRequest, Undefined,
       managerVars, vars
  <2> QED
    BY <1>4, <2>1, <2>2 DEF parseVars
<1>8. CASE UNCHANGED programVars
  BY <1>4, <1>8 DEF programVars, readVars, managerVars, vars, parseVars
<1> QED
  BY <1>3, <1>5, <1>6, <1>7, <1>8 DEF ProgramNext

\* Every number read begins a block, the first with nothing before it; a request
\* parsed takes one line of its block.
LEMMA PlaceInvStep ==
  ASSUME CoveredTexts, ParsedInv, ParseInv, PlaceInv, [ProgramNext]_programVars
  PROVE  PlaceInv'
<1>1. UNCHANGED source /\ IsJson' = IsJson
  BY SourceKept DEF ProgramNext, programVars, LoadDocument, TurnToStatRequests, OpenText,
     ReadCount, ParseRequest, FinishParsing, ProcessModifyRequests, FinishModifying,
     RunInitializeRouter, ProcessReadRequest, PrintRequest, PrintAnswers
<1> SUFFICES ASSUME ~ IsJson PROVE PlaceInv'
  BY <1>1 DEF PlaceInv
<1>2. PICK lines : lines = source.lines
  OBVIOUS
<1>3. /\ lines \in Seq(Line) /\ Len(lines) \in Nat /\ DOMAIN lines = 1 .. Len(lines)
      /\ Unread(lines, lines, 0)
  <2>1. lines \in Seq(Line)
    BY <1>2, InputAssumption DEF ParseInv, IsJson, CoveredTexts
  <2> QED
    BY <2>1 DEF Unread
<1> DEFINE
      NoneInv == count = 0 /\ mod_requests = << >> /\ read_requests = << >>
      BaseInv == unread # << >> =>
                   \E m \in Nat : NothingBefore(lines, m) /\ Block(lines, m, mod_requests)
      StatInv == unread # << >> =>
                   \E m \in Nat : ~ NothingBefore(lines, m) /\ Block(lines, m, read_requests)
<1>4. /\ phase \in {"start", "count"} => NoneInv
      /\ phase = "count" => unread = lines
      /\ phase = "base" => read_requests = << >> /\ BaseInv
      /\ phase = "stat" => StatInv
  BY <1>2 DEF PlaceInv
<1>5. ASSUME phase' \in {"start", "count"} => NoneInv',
             phase' = "count" => unread' = lines,
             phase' = "base" => read_requests' = << >> /\ BaseInv',
             phase' = "stat" => StatInv'
      PROVE  PlaceInv'
  BY <1>1, <1>2, <1>5 DEF PlaceInv
<1> HIDE DEF NoneInv, BaseInv, StatInv
<1>6. CASE phase' \notin Parsing
  BY <1>5, <1>6 DEF Parsing
<1>7. CASE OpenText
  <2>1. /\ phase = "start" /\ phase' = "count" /\ unread' = lines
        /\ UNCHANGED <<count, mod_requests, read_requests>>
    BY <1>2, <1>7 DEF OpenText
  <2> QED
    BY <1>4, <1>5, <2>1 DEF NoneInv
<1>8. CASE ReadCount /\ phase = "count"
  <2>1. ReadNumber("base", LinesLeft) /\ Unread(unread, lines, 0) /\ NoneInv
    BY <1>3, <1>4, <1>8 DEF ReadCount
  <2>2. /\ phase' = "base" /\ mod_requests' = << >> /\ read_requests' = << >>
    BY <2>1, CountEntered DEF NoneInv
  <2>3. ASSUME unread' # << >>
        PROVE  \E m \in Nat : NothingBefore(lines, m) /\ Block(lines, m, mod_requests)'
    <3>1. PICK m \in Nat :
            /\ 0 < m /\ m \in DOMAIN lines
            /\ Counts(lines[m])
            /\ \A l \in 0 + 1 .. m - 1 : TrimLeft(lines[l]) = << >>
            /\ count' = Counted(lines[m])
            /\ Unread(unread', lines, m)
      BY <1>3, <2>1, <2>3, CountTaken
    <3>2. Len(mod_requests') = 0
      BY <2>2
    <3>3. Len(mod_requests') + count' = Counted(lines[m]) /\ m + Len(mod_requests') = m
      BY <3>1, <3>2, CountedIsNatural
    <3> QED
      BY <3>1, <3>3 DEF Block, NothingBefore
  <2> QED
    BY <1>5, <2>2, <2>3 DEF BaseInv
<1>9. CASE ReadCount /\ phase = "base"
  <2>1. ReadNumber("stat", LinesLeft) /\ read_requests = << >> /\ BaseInv
    BY <1>4, <1>9 DEF ReadCount
  <2>2. phase' = "stat" /\ read_requests' = << >>
    BY <2>1, CountEntered
  <2>3. ASSUME unread' # << >>
        PROVE  \E m \in Nat : ~ NothingBefore(lines, m) /\ Block(lines, m, read_requests)'
    <3>1. unread # << >>
      <4> SUFFICES ASSUME unread = << >> PROVE FALSE
        OBVIOUS
      <4>1. DOMAIN unread = {}
        OBVIOUS
      <4>2. LinesLeft = << >>
        BY <4>1 DEF LinesLeft
      <4> QED
        BY <2>1, <2>3, <4>2 DEF ReadNumber, EnterPart
    <3>2. PICK base \in Nat : Block(lines, base, mod_requests)
      BY <2>1, <3>1 DEF BaseInv
    <3>3. PICK k : k = base + Len(mod_requests)
      OBVIOUS
    <3>4. k \in Nat /\ base <= k /\ base \in DOMAIN lines
      <4>1. Len(mod_requests) \in Nat
        BY LenProperties DEF ParsedInv
      <4> QED
        BY <3>2, <3>3, <4>1 DEF Block
    <3>5. Unread(unread, lines, k) /\ TrimLeft(lines[base]) # << >>
      BY <3>2, <3>3 DEF Block, Counts
    <3>6. PICK m \in Nat :
            /\ k < m /\ m \in DOMAIN lines
            /\ Counts(lines[m])
            /\ count' = Counted(lines[m])
            /\ Unread(unread', lines, m)
      BY <1>3, <2>1, <2>3, <3>4, <3>5, CountTaken
    <3>7. base \in 1 .. m - 1
      BY <1>3, <3>4, <3>6
    <3>8. Len(read_requests') = 0
      BY <2>2
    <3>9. Len(read_requests') + count' = Counted(lines[m]) /\ m + Len(read_requests') = m
      BY <3>6, <3>8, CountedIsNatural
    <3> QED
      BY <3>5, <3>6, <3>7, <3>9 DEF Block, NothingBefore
  <2> QED
    BY <1>5, <2>2, <2>3 DEF StatInv
<1>10. CASE ParseRequest /\ ~ UNCHANGED parseVars
  <2>1. PICK request : request = NextRequest
    OBVIOUS
  <2>2. phase \in {"base", "stat"} /\ phase' = phase /\ count > 0 /\ Keep(request)
    BY <1>10, <2>1, KeptRequest
  <2>3. /\ unread' = IF unread = << >> THEN << >> ELSE Tail(unread)
        /\ count' = count - 1 /\ count \in Nat
    BY <2>2 DEF Keep, ParsedInv
  <2>4. ASSUME NEW S, NEW requests \in Seq(S), NEW m \in Nat, Block(lines, m, requests),
               unread # << >>
        PROVE  \E longer : longer = Append(requests, request) /\ Block(lines, m, longer)'
    <3>1. PICK longer : longer = Append(requests, request)
      OBVIOUS
    <3>2. IsSeq(requests) /\ IsSeq(longer)
      BY <3>1, SeqIsSeq, AppendGrows
    <3>3. Len(longer) = Len(requests) + 1
      <4>1. requests \in Seq(S \cup {request})
        BY SeqMonotonic
      <4> QED
        BY <3>1, <4>1, AppendProperties
    <3>4. Block(lines, m, longer)'
      BY <1>3, <2>3, <2>4, <3>2, <3>3, NextBlock
    <3> QED
      BY <3>1, <3>4
  <2>5. unread' # << >> => unread # << >>
    BY <2>3
  <2>6. CASE phase = "base"
    <3>1. /\ mod_requests' = Append(mod_requests, request)
          /\ read_requests' = read_requests
      BY <2>2, <2>6 DEF Keep
    <3>2. ASSUME unread' # << >>
          PROVE  \E m \in Nat : NothingBefore(lines, m) /\ Block(lines, m, mod_requests)'
      <4>1. PICK m \in Nat : NothingBefore(lines, m) /\ Block(lines, m, mod_requests)
        BY <1>4, <2>5, <2>6, <3>2 DEF BaseInv
      <4>2. PICK longer : longer = Append(mod_requests, request) /\ Block(lines, m, longer)'
        BY <2>4, <2>5, <3>2, <4>1 DEF ParsedInv
      <4> QED
        BY <3>1, <4>1, <4>2 DEF Block
    <3> QED
      BY <1>4, <1>5, <2>2, <2>6, <3>1, <3>2 DEF BaseInv
  <2>7. CASE phase = "stat"
    <3>1. read_requests' = Append(read_requests, request)
      BY <2>2, <2>7 DEF Keep
    <3>2. ASSUME unread' # << >>
          PROVE  \E m \in Nat : ~ NothingBefore(lines, m) /\ Block(lines, m, read_requests)'
      <4>1. PICK m \in Nat : ~ NothingBefore(lines, m) /\ Block(lines, m, read_requests)
        BY <1>4, <2>5, <2>7, <3>2 DEF StatInv
      <4>2. PICK longer : longer = Append(read_requests, request) /\ Block(lines, m, longer)'
        BY <2>4, <2>5, <3>2, <4>1 DEF ParsedInv
      <4> QED
        BY <3>1, <4>1, <4>2 DEF Block
    <3> QED
      BY <1>5, <2>2, <2>7, <3>2 DEF StatInv
  <2> QED
    BY <2>2, <2>6, <2>7
<1>11. CASE phase' = phase /\ UNCHANGED parseVars
  <2>1. /\ NoneInv' = NoneInv /\ BaseInv' = BaseInv /\ StatInv' = StatInv
        /\ unread' = unread /\ read_requests' = read_requests
    BY <1>11 DEF parseVars, NoneInv, BaseInv, StatInv, Block
  <2> QED
    BY <1>4, <1>5, <1>11, <2>1
<1>12. CASE ParseRequest /\ UNCHANGED parseVars
  BY <1>6, <1>11, <1>12 DEF ParseRequest, Take, Terminate, Keep, Parsing
<1>13. CASE \/ FinishParsing \/ ProcessModifyRequests \/ FinishModifying
            \/ RunInitializeRouter \/ ProcessReadRequest \/ PrintRequest \/ PrintAnswers
  <2>1. phase' \notin Parsing
    BY <1>13 DEF FinishParsing, ProcessModifyRequests, FinishModifying, RunInitializeRouter,
       ProcessReadRequest, PrintRequest, PrintAnswers, Parsing
  <2> QED
    BY <1>6, <2>1
<1>14. CASE UNCHANGED programVars
  BY <1>11, <1>14 DEF programVars
<1> QED
  BY <1>7, <1>8, <1>9, <1>10, <1>12, <1>13, <1>14
  DEF ProgramNext, LoadDocument, TurnToStatRequests, ReadCount

-----------------------------------------------------------------------------
\* What the invariants say of the types.
LEMMA ProgramTypes ==
  ASSUME Sound, CacheInv, PhaseInv, TurnInv, IsJson => ReplyInv, ParsedInv, ProcessedInv
  PROVE  ProgramTypeOK
<1>1. pc \in {"requests", "stops", "buses", "ready", "aborted", "thrown", "undefined"}
  BY SoundPhases
<1>2. \A n \in DOMAIN answers : n \in DOMAIN read_requests
                               /\ answers[n].request = read_requests[n].request
  <2> TAKE n \in DOMAIN answers
  <2>1. /\ DOMAIN answers = 1 .. Len(answers) /\ Len(answers) \in Nat
        /\ DOMAIN read_requests = 1 .. Len(read_requests) /\ Len(read_requests) \in Nat
    BY SeqParts, LenProperties DEF CacheInv, ParsedInv
  <2>2. phase \in {"read", "done"}
    <3> SUFFICES ASSUME phase \notin {"read", "done"} PROVE FALSE
      OBVIOUS
    <3>1. answers = << >>
      BY DEF PhaseInv
    <3> QED
      BY <3>1
  <2>3. Len(answers) <= Len(read_requests)
    <3>1. CASE phase = "read"
      BY <3>1 DEF TurnInv
    <3>2. CASE phase = "done"
      <4>1. Len(answers) = Len(read_requests)
        BY <3>2 DEF TurnInv
      <4> QED
        BY <2>1, <4>1
    <3> QED
      BY <2>2, <3>1, <3>2
  <2>4. answers[n].request = read_requests[n].request
    BY <2>2 DEF TurnInv
  <2>5. n \in 1 .. Len(answers)
    BY <2>1
  <2>6. n \in 1 .. Len(read_requests)
    BY <2>1, <2>3, <2>5
  <2> QED
    BY <2>1, <2>4, <2>6
<1>3. \A n \in DOMAIN read_requests : read_requests[n] \in AskedRead
  BY DEF ParsedInv
<1>4. ReadTypeOK
  <2>1. \A n \in DOMAIN answers : answers[n].request \in ReadRequest
    BY <1>2, <1>3 DEF AskedRead
  <2>2. next_route_id_ \in Nat /\ DOMAIN expanded_routes_cache_ = 0 .. next_route_id_ - 1
    BY DEF CacheInv
  <2>3. /\ DOMAIN route_cache_ \subseteq StopName \X StopName
        /\ \A pair \in DOMAIN route_cache_ :
             route_cache_[pair] \subseteq RouteInfo /\ Cardinality(route_cache_[pair]) <= 1
    <3>1. CASE IsJson
      BY <3>1, CachedInfos
    <3>2. CASE ~ IsJson
      BY <3>2 DEF ParsedInv
    <3> QED
      BY <3>1, <3>2
  <2> QED
    BY <1>1, <2>1, <2>2, <2>3, Zenon DEF ReadTypeOK
<1>5. Range(mod_requests) \subseteq AddStopRequest \cup AddBusRequest
  BY DEF Range, ParsedInv
<1>6. \A q \in Range(read_requests) : q.id \in Nat /\ q.request \in ReadRequest
  BY <1>3 DEF Range, AskedRead
<1>7. /\ phase \in {"start", "count", "base", "stat", "modify", "router", "read",
                    "done", "terminated"}
      /\ count \in Nat
      /\ IsJson => count \in {0, Len(unread)}
  BY DEF ParsedInv, Parsing
<1>8. done = {mod_requests[n] : n \in 1 .. Cardinality(done)}
  BY DEF ProcessedInv
<1>9. \A n \in DOMAIN answers : answers[n].request = read_requests[n].request
  BY <1>2
<1> QED
  BY <1>4, <1>5, <1>6, <1>7, <1>8, <1>9, Zenon DEF ProgramTypeOK

\* Whatever the input is, and wherever it ends: the base requests processed are a
\* beginning of those parsed, in their order, each once; each answer is to the read
\* request at its place; the nodes of a document still unread are as many as are
\* counted; and the caches hold what their types say. Assumed is that the constants
\* hold the requests the inputs can be parsed to.
THEOREM ProgramTypeAlways ==
  ASSUME CoveredDocuments, CoveredTexts
  PROVE  ProgramSpec => []ProgramTypeOK
<1>1. ParseInv /\ TextReads /\ PlaceInv /\ ParsedInv => NextIsCovered
  <2> SUFFICES ASSUME ParseInv, TextReads, PlaceInv, ParsedInv PROVE NextIsCovered
    OBVIOUS
  <2>1. IsSeq(mod_requests) /\ count \in Nat
    BY SeqIsSeq DEF ParsedInv
  <2> QED
    BY <2>1, DocumentsCover, TextsCover
<1>2. ParseInv /\ TextReads /\ PlaceInv /\ ParsedInv /\ PhaseInv
        /\ [ProgramNext]_programVars => PlaceInv' /\ ParsedInv'
  BY <1>1, PlaceInvStep, ParsedInvStep
<1>3. ParsedInv /\ ProcessedInv /\ [ProgramNext]_programVars => ProcessedInv'
  BY ProcessedInvStep
<1>4. Sound /\ CacheInv /\ PhaseInv /\ TurnInv /\ (IsJson => ReplyInv) /\ ParsedInv
        /\ ProcessedInv => ProgramTypeOK
  BY ProgramTypes
<1>5. ParseInv /\ [ProgramNext]_programVars => ParseInv'
  BY ParseInvStep
<1> QED
  BY <1>1, <1>2, <1>3, <1>4, <1>5, ParseInvInit, PlaceInvInit, ParsedInvInit, TurnInvariant,
     ProgramSound, PTL DEF ProgramSpec

=============================================================================
