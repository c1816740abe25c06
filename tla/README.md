# Route manager: specification and proofs

The program reads base requests (stops, buses) and read requests (about a bus, a
stop, or the quickest route) from a JSON file, builds a catalogue and a graph,
computes all quickest routes at once, and prints the answers. An older front end
reads and writes lines of text and knows no routes. The program is sequential:
there are no threads and no messages. What is hard in it is order (requests come in
any order, `unordered_map`s are visited in any order), views and references that
do not own what they refer to, a table updated in place while it is read, caches
that stand for other caches, and sequences of calls nobody wrote a test for.

## Parts of the system

| Part | State | Operations | Hard behaviour | What makes it correct |
|---|---|---|---|---|
| Catalogue: `bus::BusManager`, `StopRecord`, `BusRecord` | stops with position, distances and views of bus names; buses with weak pointers to stops | `AddBus`, `AddStop`, `GetBus`, `GetStop`, lengths and counts | order of requests, implicit distance of the way back, repeated bus name and dangling `string_view`s | content is a function of the requests; stops and buses agree |
| Graph of waits and rides: `BusManagerWithRouter::InitializeRouter` | `index_`, `reverse_index_`, `graph_` | numbering, edges per bus, construction of the router | order of the two loops, lengths that depend on direction, no stops at all, NaN lengths, a velocity or a wait time of any sign | the edges are the timetable, one wait before each ride; the indices are inverse |
| Graph: `Graph::DirectedWeightedGraph` | edges, incidence lists | `AddEdge`, `GetIncidentEdges` | | |
| Router: `Graph::Router` | table of best routes, routes handed out by id | constructor, `BuildRoute`, `GetRouteEdge`, `ReleaseRoute` | aliasing references into the table, cycles of weight 0, ids held over other calls | entries are shortest, walks end, routes held stay as they were |
| Route cache: `BusManagerWithRouter::GetRoute` | `route_cache_` | cached or new route | a `RouteInfo` refers to the router's cache; unknown stop | same question, same answer |
| Requests, `RouteInterpreter` (`Command.cpp`) | what was parsed of them | `ParseFrom`, `ParseFromJson` and `Process` for each kind | doubles that become `size_t`s, fields that are missing, quotients by 0 | what was written is what is processed; each answer follows from the base requests |
| Program (`main.cpp`: `FinalLogic`, `BusinessLogic`) | the two lists of requests, the answers | parse, modify, `InitializeRouter`, read, print | exceptions nobody catches, an input that ends early, a count without a value | what cannot be parsed gets no answer, what ends early has lost no more than its end; each request gets its own answer in its turn |
| JSON reader and printer | the stream, the nodes | `Load`, `ToJson` | loops that end only at a closing bracket, a stream that ends early, characters nobody takes, a number format the reader does not know | what is printed is read back; a file cut short loses only its end; reading ends |
| Text parsing (`Parcing`) | the rest of a line | `SplitTwo`, `ReadToken`, `TrimLeft`, `ConvertToNum`, `ReadNumberOnLine` | loops that end at an empty token, a number that is not there | a line comes apart as it was put together |
| Test runner, profiler | | | | left out |

`FinalLogic` lets `Json::Load` read the file and makes requests of its nodes, then
calls the catalogue through `ProcessModifyRequests`, then
`InitializeRouter`, which reads the records, fills the graph and constructs the
router over a reference to it; then each read request calls `GetBus`, `GetStop` or
`GetRoute`, and the last one calls the router and the interpreter, which goes back
from edges to stops through `reverse_index_`.

## Modules

| Module | Models | Uses |
|---|---|---|
| `Requests` | the base requests and which of them are processed; what follows from them alone | |
| `BusManager` | the catalogue | `Requests` |
| `Timetable` | reference: roads and rides that the requests ask for, without records or graphs; of buses that share a name, one. The settings, and what a length divided by the velocity is | `Requests` |
| `DirectedWeightedGraph` | `graph.h`, paths, walks | |
| `StopsGraphManager` | the base requests, then `InitializeRouter` step by step | `BusManager`, `Timetable`, `DirectedWeightedGraph` |
| `RouteFinder` | abstract: what a router promises | `DirectedWeightedGraph` |
| `Router` | `router.h` | `DirectedWeightedGraph`; implements `RouteFinder` |
| `TripPlanner` | abstract: what the whole program promises | `Timetable` |
| `ReadRequests` | the read requests, the route cache and the interpreter, after everything before | `StopsGraphManager`; implements `TripPlanner` |
| `JsonNodes` | the nodes (`json.h`) | |
| `Json` | `ToJson` | `JsonNodes` |
| `JsonReader` | `Load` and the functions it calls | `Json` |
| `Commands` | the requests as both front ends make them, and the words for their types | |
| `JsonRequests` | `MakeRequestFromJson`, `ParseFromJson`, `AnswerToJson` | `Commands`, `JsonNodes` |
| `TextRequests` | `Parcing`, `MakeRequestFromLine`, `ParseFrom` | `Commands`, `JsonNodes` |
| `Program` | `FinalLogic` and `BusinessLogic`, from the input to the output | `ReadRequests`, `JsonRequests`, `TextRequests`; implements `TripPlanner` |
| `InputFormats` | reference: how requests are written down in either form | `JsonNodes` |
| `BrokenInputs` | what may be wrong with an input: a part of it is wrong or missing, or it ends early, in whichever list stands last | `InputFormats` |
| `MC*` | inputs and graphs for TLC | |
| `GraphProofs` | lemmas about walks, recursive functions and induction | `DirectedWeightedGraph` |
| `StopsGraphManagerProofs` | theorems about the catalogue (`BusManager`) and the graph made of it | `StopsGraphManager`, `GraphProofs` |
| `ReadRequestsProofs`, `ProgramProofs` | theorems about the module each is named after | that module, and the proofs of what it is built on |
| `JsonReaderProofs` | that what `ToJson` prints is what `Load` reads, and the types of the reader | `JsonReader`, `GraphProofs` |
| `RouterProofs` | the table, walks, shortest routes, and that `Router` implements `RouteFinder` | `Router`, `GraphProofs` |
| `TextRequestsProofs` | lemmas: what is made of a line is the request it was written from | `TextRequests`, `InputFormats`, `GraphProofs` |
| `ReadRequestsRefinement` | that `ReadRequests` implements `TripPlanner` | `ReadRequestsProofs` |

How state and actions correspond to the code:

- **BusManager.** A `StopRecord` is never erased or moved, so it is its name; a
  `BusRecord` is the request that made it (records of two requests for one name are
  different). A `string_view` in `StopRecord::buses_` is the record that owns the
  characters. `AddBus` and `AddStop` are one action each, with the loops inside. When
  `bus_index_` refuses a record for a repeated name, the record dies and its views
  dangle; the next `set::insert` at such a stop compares freed memory, and the model
  lets it insert or not (`ViewsAfter`).
- **StopsGraphManager.** `pc` follows `InitializeRouter`: `requests`, `stops`
  (`NumberStop`, one stop of the loop, in any order), `buses` (`AddBusEdges`, one bus
  of the loop, in any order), `ready`; or `thrown`, where `GetRouteGraph` finds no
  graph, or `aborted`, where the router's constructor (`EmplaceRouter`) asserts of a weight
  what is not so. Before that every order of base requests is possible, and `InitializeRouter`
  may be called after any of them: each set of requests is the whole input of some
  behaviour. Lengths are natural numbers or `NaN`. Nobody looks at the settings, so the
  wait time is any integer and the velocity may be positive, zero or negative: its size is a
  factor that all times share, and the unit of time is chosen so that it is 1, 0 or -1. A length
  divided by 0 is `Infinity`, or `NaN` if it is 0 (`Over`). `Haversine` is a
  constant table over places: the properties hold whatever the formula gives.
- **Router.** The constructor takes a step for each cell it writes, so that a
  relaxation sees what those before it left in the table. `RelaxRoute` reads both
  references before it writes. `BuildRoute` takes a step for each edge of the walk.
  `answers` are the `RouteInfo`s callers hold; `ReleaseRoute` gives one up. A missing
  entry that is dereferenced leads to `pc = "undefined"`, where everything stops. A
  walk longer than the number of vertices repeats for ever and is modelled as a hang.
- **ReadRequests.** One action for each way `Process` of a read request can go. The
  router is taken as `RouteFinder` says: `BuildRoute` gives some cheapest path.
  `route_cache_` is a function over the pairs of stops that were asked for, and an
  `optional` is a set of one `RouteInfo` or of none. The weight of a route is added up and
  compared as doubles are, infinite ones too (`PathTime`, `NoLater`): at the velocity 0 every ride is
  infinite, only a boarding edge and the way from a vertex to itself are not, and both stand in the table
  from its initialization on; so no entry is ever replaced, and `BuildRoute` comes to the end of some
  path as it does for natural weights. A use
  of a dangling view or of `end()` leads to `pc = "undefined"`. `Planner` maps this to
  `TripPlanner` by `open <- pc \in {"ready", "undefined"}`; the answers and the
  processed requests are the same variables.
- **JsonRequests, TextRequests.** Making a request is one operator: the request, or `Thrown`,
  or `Unspecified`, where a negative double is converted to `size_t`. Which of several missing
  fields throws first makes no difference, and where one throws the value of a conversion is never
  used. A line is a sequence of symbols: a word or a number is one, a character that separates is
  one of its own. `str.find`, the loops over `ReadToken` and the blanks they leave are as in the code.
  A line's numbers are not a document's: `ConvertToNum` throws at what is
  behind a number, and `stoull` takes a sign and wraps around (`SizeLimit`). A base request's `id`
  is its place in the input; it tells two requests for one name apart and stands for nothing else.
- **Program.** `phase` says how far `FinalLogic` or `BusinessLogic` has come, `source` is the
  document or the text with what it was written from. `LoadDocument` and `TurnToStatRequests` look
  parts of the document up, `ParseRequest` makes one request, `ProcessModifyRequests` processes
  one; `RunInitializeRouter` takes the steps of `StopsGraphManager`, `ProcessReadRequest` those of
  `ReadRequests`. `Thrown` leads to `phase = "terminated"`, `Unspecified` to `pc = "undefined"`. A
  `count` the stream did not fill has any of the values in `Uninitialized`. The velocity and the
  wait time are looked up as they are, with no condition on them; they are constants, which all
  documents agree with. A weight that is negative or a NaN ends in `phase = "terminated"`, since
  the assertion aborts. `PrintAnswers` makes the nodes of `AnswerToJson`, the curvature being a quotient.
- **Json.** A text is a sequence of characters, because what matters is which function
  takes which of them. The line breaks and the indentation of the layout are one `blank`
  each time, a space or nothing. `ToJson` calls itself for the items of a node: it is a recursive
  function over the nodes and their parts, to the depth `Depth`. `Row` is what the loop over an
  array or a map has printed so far. A double is its sign and its magnitude in units of the last decimal;
  `DoubleToJson` does what `out << num` does with it: six digits, no trailing zeros, an
  exponent beyond.
- **JsonReader.** `stack` holds the calls of `LoadArray` and `LoadDict` that have not
  returned, with the vector or the map they fill; `pc` says whether `LoadNode` is called
  or the loop of the last call goes on. Strings, numbers and bools are read in one step.
  Where the file has ended, `input >> c` leaves `c` alone; if it was never given a value,
  every branch may be taken (`Uninitialized`).

## What the runs check

| Run | States | Question |
|---|---|---|
| `MCStopsGraph` | 42,466 | Is the catalogue what the requests say, for every set and every order of four stop and four bus requests, with a stop and a bus requested twice? Does the first bus stay? Does a stop list its buses, or a name that dangles? Are the vertices numbered consistently, and are the edges the timetable, whatever the order of requests and loops? Does the router's assertion hold exactly when no bus has a step of negative time? |
| `MCRouter` | 125,485 (729 graphs of 3 vertices, weights 0 and 1; 64 graphs of 6 vertices of the shape the manager builds) | Is the table shortest and consistent, does every walk end without touching a missing entry, and is it what `RouteFinder` promises? |
| `MCRouterMulti` | all multigraphs of 2 vertices and 3 edges | Does the router implement `RouteFinder` over two calls with releases in between? |
| `MCReadRoutes` | 18,159 | Does the program implement `TripPlanner` over three requests for two routes, a bus and a stop, with ties and repetitions, and do the two caches agree? |
| `MCJson` | 4,265 | Is each of three printed documents, with its layout and without it, read back as it was, and each of their 240 beginnings as the beginning of the document? Does reading always end? |
| `MCProgram` | 13,215 | From documents and lines of text to the output: is what was written what is processed, for every order of the base requests, and is everything parsed before anything is processed? Is each read request answered in its turn, under its id, and as `TripPlanner` says? Does a document that cannot be parsed get no answer at all, and has an input that ends early and gets one lost no more than the end of the list that stands last in it, whichever of the two it is? Does the program always end? |

Six more runs find a statement of the code's comments, of its README or of an assertion violated:

| Run | Statement | What happens |
|---|---|---|
| `MCStopsGraphNodes` | "the amount of nodes equaling to nummer of routes going through it + 1" (`StopsGraphManager.h:72`) | every stop has two |
| `MCStopsGraphEmpty` | "No stops - we are done" (`StopsGraphManager.cpp:85`) | `GetRouteGraph` throws |
| `MCStopsGraphClose` | `assert(edge.weight >= 0)` (`router.h:57`) | a ride between stops at one place weighs NaN |
| `MCReadUnknown` | "we can get them from index here" (`StopsGraphManager.cpp:135`) | `end()` is dereferenced |
| `MCJsonLarge` | `ASSERT_EQUAL(first, second)` (`main.cpp:302`, `ToJsonAndBack`) | a number from a million on is printed with an exponent and not read back; the test itself compares two empty strings, since it prints the first document to `std::cout` |
| `MCProgramShortBus` | "Input and output in json." (`README.md:9`) | a bus with one stop has a curvature of 0/0, which is printed as `nan` |

### Bounds, and why they are enough

- Three or four stops and three buses are what it takes to have a road declared from
  both ends, from one end, and not at all; a linear bus that runs at two lengths; a
  bus that calls at a stop twice, at one stop only, or nowhere; a change of buses; and
  a stop that is only mentioned.
- The velocity in `MCStopsGraph` is -1, which `main.cpp:569` takes as it is: the assertion of
  `router.h:57` then fails of the graphs with a ride of some length and holds of the others, so that
  `AssertionHoldsExactlyIf` has both cases. Nothing else the run checks depends on the sign. The
  other runs have the velocity 1. At the velocity 0 there is no run: the graph and the answers
  there are in the proofs.
- Three vertices are the least for a relaxation to go through a third vertex, and the
  weights 0 and 1 make the detour cheaper than, equal to and dearer than an edge, and
  give cycles of weight 0. Six vertices give routes of two rides with their waits.
- `MaxRoutes` (calls of `BuildRoute` held; ids handed out) and `MaxReads` (read
  requests) are the bounds that are not in the code. Two routes are enough for the
  one to disturb the other, and three reads for a question, another one, and the
  first again.
- The documents nest arrays and maps in each other to a depth of three, have empty ones, a
  key that begins another, numbers with a sign, with zeros behind the point and with the
  six digits that are printed, and a -0. `Precision` is the code's. `Places` (decimals of a
  number) and the length of an array that grows without taking characters are bounds of
  the model.
- The documents of `MCProgram` are a city of three stops and two buses in each of the 24 orders
  of its base requests, with eight read requests of every kind, among them a repeated question,
  repeated ids, unknown names and a route from a stop to itself; the same with
  decimals on every length and id; a bus requested twice, in which a stop's view dangles; a
  route to an unknown stop; no base requests; a smaller document with each of its parts
  in turn removed, put in another alternative, given an unknown type or made negative; and the
  same document as far as it goes if the file ends anywhere in the list that stands last, which is
  once the read requests and once the base requests: in a request, in a list, a name, a key or a
  number of it, with what `LoadNode` makes up behind the end (`Cut`). Any field of a request
  may stand last; one that is missing stands for several. A document whose base requests stand behind
  whole read requests is answered from those of them that are left, so that the property says
  what can have been lost and not that such an input gets no answer. The texts have the same base requests and end after any
  symbol, or lack their first line. `Uninitialized` is {0, 1}: a count that is too small and
  one that is too large for what is left. `SizeLimit` stands for 2^64.
- No symmetry is used: names differ in the inputs.

### Fairness

`Router` and `RouteFinder` have `WF_vars(Construct)` and `WF_vars(Walk)`, and
`JsonReader` has `WF_vars(Next)`. The thread that is inside the constructor, `BuildRoute` or
`Load` runs on, and there is nothing to wait for: a file does not make its reader wait. No
call of `BuildRoute` has to be made. `Program` has `WF_programVars(ProgramNext)`: the whole
input is there from the start, nothing is waited for, and the program runs on until it returns, ends
in an exception, or uses something that is not there. The other modules state
safety only: a program in `undefined` may do anything, which the models stop at.

`CHECK_DEADLOCK FALSE` is set where the input ends, or where the program does.

## What is proved

For every set of names, requests and places that meets the assumptions of `Requests`
and `BusManager`:

- `TypeCorrect`, `DeclaredDistancesWinAlways`, `StopsKnownAlways`, `FirstBusAlwaysStays`,
  `RoutesAndStopsAlwaysAgree`, `StopsListOrDangle` (`StopsGraphManagerProofs`). For
  `RoutesAndStopsAgree` the invariant is split: while no name is repeated, no view dangles, so
  that `ViewsAfter` has no choice, and the records in `bus_index_` are the processed requests.
  `ListedOrDangling` is what is left of it when names are repeated, and is inductive by itself.

For the graph of waits and rides (in the same module), with finitely many names
besides:

- `ManagerIsCatalogue`: the manager implements `BusManager`, since the steps of
  `InitializeRouter` leave the records alone. The catalogue's theorems carry over.
- `IndicesAlwaysInverse`: `NumberInv` says that the stops visited so far own the
  numbers below `current_node`, two each, that the others have none, and that
  `current_node` is twice the number of stops visited. The property alone says nothing
  until the loop has ended.
- `ManagerTypeAlways`, `RidesNeedTheirWait`: `ManagerInv` says which edges the graph has
  while the loop over the buses goes on: those of the buses visited, and no others, as a set
  (`EdgeSet`), since their ids depend on the order of the loop and the property does not.
- `RidesAlwaysTheTimetable`: an edge weighs the difference of two partial sums, a ride of
  the timetable the sum of the roads between. They are equal by induction over the length of
  the stretch, unless a road is NaN: `Minus` of two partial sums behind it is NaN where the
  stretch between them is not. So the theorem has the hypothesis `RoadsAreKnown`, that
  no bus takes such a road. The runs do have such roads in `MCStopsGraphClose`.
- `WeightsNotNegativeExactlyIf` is `AssertionHoldsExactlyIf`: when the assertion of `router.h:57` holds, for any distances and any
  settings: exactly if the wait time is not negative, should any bus call anywhere, and every step
  from a stop of a bus to the next, in each direction it runs, has a length that divided by the
  velocity is a number not below 0, or infinite. So there are four ways to break it: a NaN between
  stops that are too close (`MCStopsGraphClose`), a negative velocity with a step of some length
  (`MCStopsGraph`), a velocity of 0 with a step of none, and a negative wait time. One
  direction goes over partial sums: of steps that are not negative they do not go down
  (`StretchNotNegative`). The other finds the boarding edge, or the ride over that one step, in the
  graph (`HoldsRows`, `WaitsAndSteps`).

For every set of graphs with natural weights (`GraphAssumption`, which is the code's
assertion):

- `TypeCorrect` and `TableAlwaysSettled` (`RouterProofs`). `TableIsSettled` speaks of the
  finished table only. The invariant says of each phase what the table already
  is: rows initialized so far agree with the edges that start there; during
  relaxation every entry's last edge accounts for the entry given those of its row,
  with the vertices gone through so far as the only ones between, and the row and
  the column of `through` do not change while it is gone through. The last point is what
  makes the aliasing references of `RelaxRoute` harmless.
- `WalksAlwaysShort`: cycles of weight 0 are allowed, so that weights alone
  do not show that a walk along `prev_edge` ends. `Ranked` says that each row has some
  ranking of its vertices such that (weight, rank) goes down in the lexicographic order along
  last edges. `RelaxRoute` replaces an entry only by a lighter one, so when `through` is gone
  through, the entries replaced are ranked above all others, in the order they have in the row
  of `through`; that `PhaseStep` keeps `Ranked` is where the strict comparison is needed.
  The vertices of a walk are then different from each other and at most as many as there are.
- `TableAlwaysShortest`: no walk is lighter than its entry, by induction over the number of
  edges; and every entry is the weight of a walk. Those that are the weight of a walk of at most
  `n` edges are more than `n`, or all there are: of the others, the lowest in the
  order above has its last edge from one of them.
- `NeverUndefined` and `HeldRoutesAlwaysPaths`. The walk's edges so far, reversed, lead from
  the vertex it has come to to the vertex asked for; settledness gives the next entry;
  ids below `next_route_id_` are never written again.
- `RouterAnswersAreRight`: every step of `Router` is one of `RouteFinder` under the mapping of
  `Finder`, or one that it does not see. `WeightInv` adds that the edges walked so far weigh
  what the entry of the route weighs more than that of the vertex come to.

For the read requests, with the assumptions of all modules together:

- `ReadsKeepCatalogue`, `ReadsSeeDeclaredDistances`, `CachedRoutesAlwaysHeld`
  (`ReadRequestsProofs`): answering leaves the records alone, so the catalogue's theorems hold
  while it goes on; and the cache of the manager and that of the router agree.
  `CachedRoutesAreHeld` is not inductive by itself: a path in a graph that changes need not stay
  one. `CacheInv` adds that both caches are empty until `pc = "ready"`, after which no step
  writes the graph or the indices, and that the ids held are below `next_route_id_`, so that a
  new route takes nobody's id. That the path is one between the right vertices comes from
  `CheapestPaths`, i.e. from what `RouteFinder` promises.
- `ReadTypeAlways`: `ReplyInv` says that every cached pair holds a cheapest path or has none, and
  that every answer given is the one the records and caches hold for its request. That weights
  have a type needs no assumption on roads or settings: reading starts only where the router's
  assertion held.
- `ProgramAnswersRight` (`ReadRequestsRefinement`): `ReadRequests` implements `TripPlanner`, for
  every behaviour whose input is proper once the graph is built (`ProperInput`): no stop is
  requested twice, so that the answers do not depend on the order of the requests. That no bus takes a
  road of unknown length is not assumed: where one does, the program has aborted (`RoadsFollow`). Nor is
  anything assumed of the velocity: times are `Duration`s, numbers or infinite, and `LaterFacts` has
  what the proof needs of their sums and their order. At the velocity 0 every ride is infinite, and no
  itinerary with one is better than another. All inputs of `MCReadRoutes` are proper.
  - A bus: the loops of `CalculateLength` add up hops one by one; the hops of the way there and of
    the way back, joined, are those of `Trip`; and as `Haversine` is symmetric (`SymmetryAssumption`:
    the products commute, and the code takes an absolute difference), the way back is as long as
    the crow flies as the way there.
  - A stop: `ListedOrDangling`.
  - A route: simple paths and `TravelTimes` are both built in rounds. Every
    travel time to a stop is that of some simple path or more, by induction over the rounds, and
    a path from a waiting vertex to one goes wait, ride, wait, ride (`PathsAreTrips`), so that
    its items are an itinerary and its time a travel time. The cheapest path is therefore the
    least travel time, and there is no path exactly if there is no itinerary.
  - The same answer every time: two answers to one request are both what the records and the
    caches hold for it.

For the whole program (`ProgramProofs`), for every document and every text, well-formed or not:

- `ProgramKeepsCatalogue`, `ProgramSeesDeclaredDistances`, `ProgramKeepsFirstBus`,
  `ProgramHoldsCachedRoutes`: parsing leaves the records and caches alone, and each step after it
  is one of `ReadRequests` with more variables.
- `ProgramAlwaysPlansTrips`: the program implements `TripPlanner`. `PhaseInv` says which `pc` each
  phase can have and that there are no answers before `phase = "read"`; with it, the steps over a
  document are those of `ProgramAnswersRight`, and a text, which has no routes, is answered from
  the catalogue alone (`TextAnswers`). Assumed of a behaviour is `ProperRun`: what `ProperInput`
  says of a document, that no stop of a text is requested twice, and that the read requests parsed
  are in the constant `ReadRequest`. All inputs of `MCProgram` are such.
- `EverythingIsAlwaysParsed`, for any document, damaged or whole: no base request is processed
  before both lists have become requests, one of each node, in order. The property speaks of the
  phases after parsing only. `ParseInv` says of each list how far it has come: the requests made
  are those of the first nodes of the list, what is unread is the rest, and `count` is its length,
  so that the loop ends exactly at the end of the list; and a list is looked up in a document that
  has one.
- `DocumentsParsedAsWritten`: what is made of the node of a request is the request, for any names
  and words, any position, any number of roads and stops, any id, and with any decimals on the
  lengths and ids, which the conversion to `size_t` cuts off (`BaseAsWritten`,
  `StatAsWritten`). With `EverythingIsAlwaysParsed`, the lists are those that were written. Assumed is `WholeDocuments`,
  that the documents called whole are written as `InputFormats` says; TLC has found it true of the
  28 whole documents of `MCProgram`.
- `TextsParsedAsWritten`: the same for lines of text, for any names, numbers and lengths, and with
  `DocumentsParsedAsWritten` it is `AlwaysParsedAsWritten`. It has two parts.
  - A line (`TextRequestsProofs`): the parser's loops are recursive functions that exist because
    what is left of a line gets shorter (`LoopEnds`). A delimiter is found where it was put, and
    not before, because what stands before it lacks one of its symbols (`FirstDelim`); so a line comes apart
    into the pieces it was joined from (`BusLineAsWritten`, `StopLineAsWritten`, `BaseLineAsWritten`,
    `ReadLineAsWritten`). The way a bus runs is read off the mark between its stops, and the
    distances, a function, are written in some order and read as the function they were.
  - A text: `TextInv` says of each list of a whole text that its length is the number before it,
    that the requests made are those written first, and that the lines unread are those of the
    others, behind them the other list. `ReadNumberOnLine` finds a number where one was written, so that no
    `count` stays without a value.

  Assumed is `WholeTexts`, that the texts called whole are written as `InputFormats` says and that what
  is written can be told apart: no colon in the name of a stop or of a bus, no comma in a name behind
  a length, no mark of a route in the name of a stop on it, nor a blank in front or no name at all, at least two stops on a roundtrip (a single one shows
  no mark, so that it is read as linear), lengths a `size_t` holds, numbers the parser knows.
  TLC has found it true of the 25 whole texts of `MCProgram`.
- `AlwaysAnsweredInTurn`: `TurnInv` says that there are as many answers as read requests processed, that
  nothing is printed before, and that at the end each answer has been printed once, under the id of
  the request at its place. That an answer is an error exactly if the base requests know no such bus or stop
  comes from `ReplyInv` and from `BusManager`'s theorems; a bus that was requested has a
  record even if a repeated name lost one. Assumed are `WholeDocuments`, `WholeTexts`, and
  `NamedTexts`, that the read requests of a whole text are in the constant `ReadRequest`; nothing is assumed of the behaviour.
  `DocumentsAnsweredInTurn` is the part about documents, which needs `WholeDocuments` only.
- `ProgramTypeAlways` is `ProgramTypeOK`, for every input, whole or not: what has
  been processed is a beginning of the base requests, each answer stands at the place of the
  read request it is to, and the requests parsed are in the constants. `ParsedInv` bounds the lists and
  the count, `ProcessedInv` says that `done` is the first requests parsed. That each request parsed
  is in the constants is assumed of the inputs: of the nodes of a document (`CoveredDocuments`),
  and of the lines of a text behind a number that counts them, as base requests if no number is before it,
  else as read requests (`CoveredTexts`). What makes this enough is `PlaceInv`, which says at each
  moment which number of the text counts the requests that are parsed, and how far behind it the
  stream stands. TLC has found both true of all inputs of `MCProgram`.

For the reader and the printer (`JsonReaderProofs`), for every set of characters, documents and
depth:

- `DocumentsReadBack`: `Load` reads what `ToJson` prints, with the blanks of the layout and
  without them. The property speaks of the end; the invariant `ReadsInv` says of each moment what the
  reader is at. For each call that has not returned there is a node of the document (`Inside`), each
  an item of the one before, whose text stands in the file at a known place (`Stands`), and the
  call has put together just the items that are behind the stream (`Taken`). `LoadNode` is called where the
  text of the innermost starts (`AtNode`); in a loop the stream is behind the last item taken
  (`InLoop`). What makes the invariant inductive:
  - Numbers. The digits that `Digits` prints are those that `LoadDouble` adds up (`DigitsRead`); the
    zeros that are not printed are made up for by the power of ten (`DecimalIs`, `PlainParts`,
    `DoubleRead`); and `LoadDouble` stops where it should because a comma, a blank or a bracket comes
    next (`ItemStops`, `EndingOccurs`).
  - Who takes which character. The first character of a text tells `LoadNode` what it is
    (`FirstChar`), and is neither a comma nor a bracket that closes, so that `LoadArray` puts
    it back or steps over the comma (`ItemRead`), and `LoadDict` takes the quote of a key and the colon
    behind it (`EntryRead`).
  - Keys. A map is printed in the order of its keys, of which there is one and only one (`KeysAre`:
    `Before` is a total order, and a finite set is listed in it); `emplace` therefore never finds a key twice, and the
    map is complete after the last item (`TakenNext`, `TakenAll`).

  Assumed are `PlainDocuments`: strings and keys without quotes, numbers that have no more digits than
  are printed, are printed without an exponent and fit into a `size_t` on each side of the point,
  nesting up to `Depth`. With a number from a million on the theorem would be wrong (`MCJsonLarge`).
  TLC has found `PlainDocuments` true of the 22 nodes of `MCJson`.
- `ReaderTypeCorrect`: for every beginning of a printed file, the stream stays inside the file, the calls
  that have not returned fill arrays and maps, and there is a root exactly when `Load` returns, whichever branch
  a character without a value takes. `TypeInv` adds that there is a call while its loop goes on.
  Assumed besides is `NoNodeApart`: `NoNode`, which stands for no root yet, is no node.

The assumptions are those the modules declare, and TLC evaluates them in every run:
names of requests are names (`StopRequestAssumption`, `BusRequestAssumption`,
`ReadRequestAssumption`), distances are natural numbers or `NaN` (`GeometryAssumption`,
`SymmetryAssumption`), the wait time is an integer, the velocity is 1, 0 or -1 (`SettingsAssumption`),
the settings of documents are these two (`SettingsOfDocuments`), no answer is the error (`NotFoundAssumption`), a number has a last
decimal (`UnitAssumption`), an input is a document or a text (`InputAssumption`), a `size_t` holds
some number (`SizeAssumption`), the characters `ToJson` prints are characters (`JsonAssumption`), and the symbols that are numbers are none of those the parser
looks for (`NumeralAssumption`).

How induction is done: the library's induction theorems take an operator, which the provers used
here cannot instantiate. The proofs go over sets instead: a non-empty set of natural numbers has a least
element, and a set with 0 and the successors of its elements has them all (`LeastNatural`,
`StepByStep` in `GraphProofs`). `Recursion` gives from the steps of a recursive function, itself
a function of functions, that it exists. This is why what the models compute by recursion and the
proofs speak of is written as recursive functions (`Power`, `Width`, `ToJson`, `Row`, `WeightsWithin`, `PathWeight`, `Rides`, `Total`,
`Added`, `SimplePathsFrom`, `TravelTimes`, `TotalTime`).

Only model-checked:

- liveness: that every `BuildRoute` returns, that reading a document ends, that the program ends.
  The provers have no rules for fairness;
- which answers an input gets that is cut or wrong (`NoAnswersToHalfAnInput`): it relates a damaged
  input to the requests it was damaged from, which is a matter of the inputs given to TLC. What is proved for
  every document is that nothing is processed unless every node became a request
  (`EverythingIsAlwaysParsed`);
- what is read of a JSON file that is cut short (`CutLosesOnlyTheEnd`): the chain of nodes in `ReadsInv` ends
  where the file does, and behind it the reader makes up nodes that are no part of the document. What is
  proved of such files is `ReaderTypeOK`.

## What is not modelled, and why

- Doubles: lengths are exact integers, so rounding, and with it the comparison of
  routes that are equal on paper, is left out. NaN is modelled where it arises.
- A second `InitializeRouter`: the program calls it once, and `README.md` says that the
  route manager is immutable after creation.
- A build without assertions (the Release configuration defines `NDEBUG`): with a negative or a NaN
  weight the router there promises nothing, and the models stop at the assertion.
- The router over infinite weights: `MCRouter` and `RouterProofs` have natural ones. That it keeps the
  promise of `RouteFinder` at the velocity 0 is argued above, for `ReadRequests`, and neither checked
  nor proved.
- A velocity of -0, for which a ride is minus infinity.
- What a file that ends loses of the routing settings, when those stand last in it: in the damaged
  documents a setting is missing or is no number, and a velocity that lost its last digits is another velocity.
- What `operator<<` and the text answers print, and in which order the names of a `set` come: a
  text answer is the answer itself.
- A JSON document that declares a key twice, or a line that declares two lengths for one stop. A
  negative length in a line wraps around as the code lets it, but no input has one.
- Escapes in strings, `TrimRight` (a test uses it), `SplitTwo` over strings that are no
  views, the tests, the test runner and the profiler.

## Plan

1. `Router` over weights that may be infinite, in a run and in `RouterProofs`.
2. `AnswersToText`: the nodes of the answers printed by `ToJson` and read back by `JsonReader`, so
   that an answer is what a reader of the output finds.
