---------------------- MODULE StopsGraphManagerProofs ----------------------
(***************************************************************************)
(* The invariants of the catalogue, proved for every set of stops, buses   *)
(* and requests: BusManager's Init and its two operations are taken one by *)
(* one.  Then BusManagerWithRouter is a BusManager: whatever               *)
(* InitializeRouter does in between, its catalogue behaves as BusManager's *)
(* and what is proved of the one holds of the other.  And the numbering of *)
(* the vertices.                                                           *)
(***************************************************************************)
EXTENDS StopsGraphManager, GraphProofs

-----------------------------------------------------------------------------
(***************************************************************************)
(* The catalogue.                                                          *)
(***************************************************************************)
\* A bus calls at stops of the catalogue.
LEMMA RouteInStops ==
  ASSUME NEW r \in AddBusRequest
  PROVE  Route(r) \subseteq StopName
BY BusRequestAssumption DEF Route

LEMMA RequestKinds ==
  ASSUME NEW r
  PROVE  /\ r \in AddBusRequest => r \notin AddStopRequest
         /\ r \in AddStopRequest => r \notin AddBusRequest
BY SentinelAssumption, RequestAssumption

\* The variables keep their types: every name a request can bring in is a name
\* of the catalogue, and every distance is a length or the absence of one.
THEOREM TypeCorrect == Spec => []TypeOK
<1>1. Init => TypeOK
  BY SentinelAssumption, RequestAssumption DEF Init, TypeOK
<1>2. ASSUME TypeOK, NEW r \in AddBusRequest, AddBus(r)
      PROVE  TypeOK'
  <2>1. (stop_index_ \subseteq StopName)'
    BY <1>2, RouteInStops DEF AddBus, TypeOK
  <2>2. (buses_ \in [StopName -> SUBSET AddBusRequest])'
    BY <1>2 DEF AddBus, ViewsAfter, TypeOK
  <2>3. (bus_index_ \in [BusName -> AddBusRequest \cup {NoBus}])'
    BY <1>2, BusRequestAssumption DEF AddBus, IndexAfter, TypeOK
  <2> QED
    BY <1>2, <2>1, <2>2, <2>3 DEF AddBus, TypeOK
<1>3. ASSUME TypeOK, NEW r \in AddStopRequest, AddStop(r)
      PROVE  TypeOK'
  <2>1. DistancesAfter(r) \in [StopName -> [StopName -> Nat \cup {NoDist}]]
    BY <1>3, StopRequestAssumption DEF DistancesAfter, TypeOK
  <2> QED
    BY <1>3, <2>1, StopRequestAssumption DEF AddStop, TypeOK
<1>4. TypeOK /\ UNCHANGED vars => TypeOK'
  BY DEF TypeOK, vars, catalogue
<1>5. TypeOK /\ [Next]_vars => TypeOK'
  BY <1>2, <1>3, <1>4 DEF Next
<1> QED
  BY <1>1, <1>5, PTL DEF Spec

-----------------------------------------------------------------------------
(***************************************************************************)
(* Distances.                                                              *)
(***************************************************************************)
\* What a step adds to the declared lengths.
LEMMA DeclaredAfterAddBus ==
  ASSUME NEW r \in AddBusRequest, AddBus(r), NEW a, NEW b
  PROVE  Declared(a, b)' = Declared(a, b)
<1>1. StopRequests(a)' = StopRequests(a)
  BY RequestKinds DEF AddBus, StopRequests
<1> QED
  BY <1>1 DEF Declared

LEMMA DeclaredAfterAddStop ==
  ASSUME NEW r \in AddStopRequest, AddStop(r), NEW a, NEW b
  PROVE  Declared(a, b)' = IF a = r.name /\ b \in DOMAIN r.dist
                             THEN Declared(a, b) \cup {r.dist[b]}
                             ELSE Declared(a, b)
<1>1. StopRequests(a)' = IF a = r.name THEN StopRequests(a) \cup {r}
                                       ELSE StopRequests(a)
  BY DEF AddStop, StopRequests
<1> QED
  BY <1>1 DEF Declared

\* DeclaredDistancesWin for every catalogue: a declared distance beats the
\* neighbour's, in every order of the requests and however often they repeat.
THEOREM DeclaredDistancesWinAlways == Spec => []DeclaredDistancesWin
<1>1. Init => DeclaredDistancesWin
  BY DEF Init, DeclaredDistancesWin, Declared, StopRequests
<1>2. ASSUME DeclaredDistancesWin, NEW r \in AddBusRequest, AddBus(r)
      PROVE  DeclaredDistancesWin'
  BY <1>2, DeclaredAfterAddBus DEF AddBus, DeclaredDistancesWin
<1>3. ASSUME TypeOK, DeclaredDistancesWin, NEW r \in AddStopRequest, AddStop(r)
      PROVE  DeclaredDistancesWin'
  <2> SUFFICES ASSUME NEW a \in StopName, NEW b \in StopName
               PROVE  IF Declared(a, b)' # {}
                        THEN distances_'[a][b] \in Declared(a, b)'
                      ELSE IF Declared(b, a)' # {}
                        THEN distances_'[a][b] \in Declared(b, a)'
                      ELSE distances_'[a][b] = NoDist
    BY DEF DeclaredDistancesWin
  <2>1. distances_'[a][b] =
          IF a = r.name /\ b \in DOMAIN r.dist THEN r.dist[b]
          ELSE IF b = r.name /\ a \in DOMAIN r.dist /\ distances_[a][b] = NoDist
            THEN r.dist[a]
            ELSE distances_[a][b]
    BY <1>3 DEF AddStop, DistancesAfter
  <2>2. NoDist \notin Declared(a, b) /\ NoDist \notin Declared(b, a)
    BY StopRequestAssumption, SentinelAssumption, RequestAssumption DEF Declared, StopRequests
  <2>3. IF Declared(a, b) # {} THEN distances_[a][b] \in Declared(a, b)
        ELSE IF Declared(b, a) # {} THEN distances_[a][b] \in Declared(b, a)
        ELSE distances_[a][b] = NoDist
    BY <1>3 DEF DeclaredDistancesWin
  <2>4. CASE a = r.name /\ b \in DOMAIN r.dist
    BY <1>3, <2>1, <2>4, DeclaredAfterAddStop
  <2>5. CASE ~(a = r.name /\ b \in DOMAIN r.dist)
             /\ b = r.name /\ a \in DOMAIN r.dist
    <3>1. /\ Declared(a, b)' = Declared(a, b)
          /\ Declared(b, a)' = Declared(b, a) \cup {r.dist[a]}
      BY <1>3, <2>5, DeclaredAfterAddStop
    <3> QED
      BY <2>1, <2>2, <2>3, <2>5, <3>1
  <2>6. CASE ~(a = r.name /\ b \in DOMAIN r.dist)
             /\ ~(b = r.name /\ a \in DOMAIN r.dist)
    <3>1. Declared(a, b)' = Declared(a, b) /\ Declared(b, a)' = Declared(b, a)
      BY <1>3, <2>6, DeclaredAfterAddStop
    <3> QED
      BY <2>1, <2>3, <2>6, <3>1
  <2> QED
    BY <2>4, <2>5, <2>6
<1>4. DeclaredDistancesWin /\ UNCHANGED vars => DeclaredDistancesWin'
  BY DEF DeclaredDistancesWin, Declared, StopRequests, vars, catalogue
<1>5. TypeOK /\ DeclaredDistancesWin /\ [Next]_vars => DeclaredDistancesWin'
  BY <1>2, <1>3, <1>4 DEF Next
<1> QED
  BY <1>1, <1>5, TypeCorrect, PTL DEF Spec

-----------------------------------------------------------------------------
(***************************************************************************)
(* Stops.                                                                  *)
(***************************************************************************)
LEMMA MentionedAfterAddBus ==
  ASSUME NEW r \in AddBusRequest, AddBus(r)
  PROVE  Mentioned' = Mentioned \cup Route(r)
<1>1. /\ (done \cap AddBusRequest)' = (done \cap AddBusRequest) \cup {r}
      /\ (done \cap AddStopRequest)' = done \cap AddStopRequest
  BY RequestKinds DEF AddBus
<1> QED
  BY <1>1 DEF Mentioned

LEMMA MentionedAfterAddStop ==
  ASSUME NEW r \in AddStopRequest, AddStop(r)
  PROVE  Mentioned' = Mentioned \cup {r.name} \cup DOMAIN r.dist
<1>1. /\ (done \cap AddStopRequest)' = (done \cap AddStopRequest) \cup {r}
      /\ (done \cap AddBusRequest)' = done \cap AddBusRequest
  BY RequestKinds DEF AddStop
<1> QED
  BY <1>1 DEF Mentioned

\* StopsKnownOnceMentioned for every catalogue: a record exists for exactly the
\* stops mentioned so far, and is initialized by a request of its own only.
THEOREM StopsKnownAlways == Spec => []StopsKnownOnceMentioned
<1>1. Init => StopsKnownOnceMentioned
  BY DEF Init, StopsKnownOnceMentioned, Mentioned, StopRequests
<1>2. ASSUME StopsKnownOnceMentioned, NEW r \in AddBusRequest, AddBus(r)
      PROVE  StopsKnownOnceMentioned'
  <2>1. (stop_index_ = Mentioned)'
    BY <1>2, MentionedAfterAddBus DEF AddBus, StopsKnownOnceMentioned
  <2>2. \A s : StopRequests(s)' = StopRequests(s)
    BY <1>2, RequestKinds DEF AddBus, StopRequests
  <2> QED
    BY <1>2, <2>1, <2>2 DEF AddBus, StopsKnownOnceMentioned
<1>3. ASSUME TypeOK, StopsKnownOnceMentioned,
             NEW r \in AddStopRequest, AddStop(r)
      PROVE  StopsKnownOnceMentioned'
  <2>1. (stop_index_ = Mentioned)'
    BY <1>3, MentionedAfterAddStop DEF AddStop, StopsKnownOnceMentioned
  <2>2. ASSUME NEW s \in StopName
        PROVE  StopRequests(s)' = IF s = r.name THEN StopRequests(s) \cup {r}
                                                ELSE StopRequests(s)
    BY <1>3 DEF AddStop, StopRequests
  <2>3. ASSUME NEW s \in StopName
        PROVE  /\ initialized_'[s] = (s = r.name \/ initialized_[s])
               /\ place_'[s] = IF s = r.name THEN r.pos ELSE place_[s]
    BY <1>3, <2>3 DEF AddStop, TypeOK
  <2>4. ASSUME NEW s \in StopName
        PROVE  IF StopRequests(s)' = {}
                 THEN ~ initialized_'[s] /\ place_'[s] = Origin
                 ELSE /\ initialized_'[s]
                      /\ place_'[s] \in {q.pos : q \in StopRequests(s)'}
    <3>1. CASE s = r.name
      BY <2>2, <2>3, <3>1
    <3>2. CASE s # r.name
      BY <1>3, <2>2, <2>3, <3>2 DEF StopsKnownOnceMentioned
    <3> QED
      BY <3>1, <3>2
  <2> QED
    BY <2>1, <2>4 DEF StopsKnownOnceMentioned
<1>4. StopsKnownOnceMentioned /\ UNCHANGED vars => StopsKnownOnceMentioned'
  BY DEF StopsKnownOnceMentioned, Mentioned, StopRequests, vars, catalogue
<1>5. TypeOK /\ StopsKnownOnceMentioned /\ [Next]_vars
        => StopsKnownOnceMentioned'
  BY <1>2, <1>3, <1>4 DEF Next
<1> QED
  BY <1>1, <1>5, TypeCorrect, PTL DEF Spec

-----------------------------------------------------------------------------
(***************************************************************************)
(* Buses.  What the two properties of the buses rest on: the record found  *)
(* under a name was made by a request for that name, and there is one as   *)
(* soon as there has been such a request.                                  *)
(***************************************************************************)
IndexHoldsRequests ==
  \A b \in BusName : IF BusRequests(b) = {}
                       THEN bus_index_[b] = NoBus
                       ELSE bus_index_[b] \in BusRequests(b)

LEMMA BusRequestsAfterAddBus ==
  ASSUME NEW r \in AddBusRequest, AddBus(r), NEW b
  PROVE  BusRequests(b)' = IF b = r.name THEN BusRequests(b) \cup {r}
                                         ELSE BusRequests(b)
BY DEF AddBus, BusRequests

LEMMA BusRequestsAfterAddStop ==
  ASSUME NEW r \in AddStopRequest, AddStop(r), NEW b
  PROVE  BusRequests(b)' = BusRequests(b)
BY RequestKinds DEF AddStop, BusRequests

LEMMA IndexAfterAddBus ==
  ASSUME TypeOK, NEW r \in AddBusRequest, AddBus(r), NEW b \in BusName
  PROVE  bus_index_'[b] = IF b = r.name /\ bus_index_[b] = NoBus
                            THEN r ELSE bus_index_[b]
BY BusRequestAssumption DEF AddBus, IndexAfter, TypeOK

LEMMA IndexInvariant == Spec => []IndexHoldsRequests
<1>1. Init => IndexHoldsRequests
  BY DEF Init, IndexHoldsRequests, BusRequests
<1>2. ASSUME TypeOK, IndexHoldsRequests, NEW r \in AddBusRequest, AddBus(r)
      PROVE  IndexHoldsRequests'
  <2> SUFFICES ASSUME NEW b \in BusName
               PROVE  IF BusRequests(b)' = {}
                        THEN bus_index_'[b] = NoBus
                        ELSE bus_index_'[b] \in BusRequests(b)'
    BY DEF IndexHoldsRequests
  <2>1. NoBus \notin BusRequests(b)
    BY SentinelAssumption, RequestAssumption DEF BusRequests
  <2> QED
    BY <1>2, <2>1, BusRequestsAfterAddBus, IndexAfterAddBus
       DEF IndexHoldsRequests
<1>3. ASSUME IndexHoldsRequests, NEW r \in AddStopRequest, AddStop(r)
      PROVE  IndexHoldsRequests'
  BY <1>3, BusRequestsAfterAddStop DEF AddStop, IndexHoldsRequests
<1>4. IndexHoldsRequests /\ UNCHANGED vars => IndexHoldsRequests'
  BY DEF IndexHoldsRequests, BusRequests, vars, catalogue
<1>5. TypeOK /\ IndexHoldsRequests /\ [Next]_vars => IndexHoldsRequests'
  BY <1>2, <1>3, <1>4 DEF Next
<1> QED
  BY <1>1, <1>5, TypeCorrect, PTL DEF Spec

\* FirstBusStays for every catalogue: the record a bus name leads to is that of
\* the first request for it, whatever comes later.
THEOREM FirstBusAlwaysStays == Spec => FirstBusStays
<1> DEFINE Stays(b) ==
      /\ bus_index_[b] # NoBus => bus_index_'[b] = bus_index_[b]
      /\ (bus_index_'[b] # NoBus) <=> (BusRequests(b)' # {})
<1>1. ASSUME IndexHoldsRequests', NEW b \in BusName
      PROVE  (bus_index_'[b] # NoBus) <=> (BusRequests(b)' # {})
  <2>1. NoBus \notin BusRequests(b)'
    BY SentinelAssumption, RequestAssumption DEF BusRequests
  <2> QED
    BY <1>1, <2>1 DEF IndexHoldsRequests
<1>2. ASSUME TypeOK, IndexHoldsRequests', Next, NEW b \in BusName
      PROVE  Stays(b)
  <2>1. ASSUME NEW r \in AddBusRequest, AddBus(r)
        PROVE  Stays(b)
    BY <1>1, <1>2, <2>1, IndexAfterAddBus
  <2>2. ASSUME NEW r \in AddStopRequest, AddStop(r)
        PROVE  Stays(b)
    BY <1>1, <1>2, <2>2 DEF AddStop
  <2> QED
    BY <1>2, <2>1, <2>2 DEF Next
<1>3. TypeOK /\ IndexHoldsRequests' /\ [Next]_vars
        => [\A b \in BusName : Stays(b)]_vars
  BY <1>2
<1> QED
  BY <1>3, TypeCorrect, IndexInvariant, PTL DEF Spec, FirstBusStays

\* RoutesAndStopsAgree for every catalogue without repeated bus names: the
\* stops' lists are the inverse of the routes, and no view dangles.
THEOREM RoutesAndStopsAlwaysAgree == Spec => []RoutesAndStopsAgree
<1>1. Init => RoutesAndStopsAgree
  BY DEF Init, RoutesAndStopsAgree
<1>2. ASSUME TypeOK, IndexHoldsRequests, NoRepeatedBus,
             NEW r \in done \cap AddBusRequest
      PROVE  Alive(r)
  <2>1. r \in BusRequests(r.name) /\ r.name \in BusName
    BY BusRequestAssumption DEF BusRequests
  <2>2. bus_index_[r.name] \in BusRequests(r.name)
    BY <1>2, <2>1 DEF IndexHoldsRequests
  <2> QED
    BY <1>2, <2>2 DEF Alive, NoRepeatedBus, BusRequests
<1>3. ASSUME TypeOK, IndexHoldsRequests, IndexHoldsRequests', TypeOK',
             RoutesAndStopsAgree, NEW r \in AddBusRequest, AddBus(r)
      PROVE  RoutesAndStopsAgree'
  <2> SUFFICES ASSUME NoRepeatedBus', NEW s \in StopName
               PROVE  buses_'[s] = {q \in (done \cap AddBusRequest)' :
                                      Alive(q)' /\ s \in Route(q)}
    BY DEF RoutesAndStopsAgree
  <2>1. NoRepeatedBus /\ \A q \in done \cap AddBusRequest : q.name # r.name
    BY <1>3 DEF AddBus, NoRepeatedBus
  <2>2. /\ buses_[s] = {q \in done \cap AddBusRequest : s \in Route(q)}
        /\ \A q \in done \cap AddBusRequest : Alive(q)
    BY <1>2, <1>3, <2>1 DEF RoutesAndStopsAgree
  <2>3. \A q \in (done \cap AddBusRequest)' : Alive(q)'
    <3>1. ASSUME NEW q \in (done \cap AddBusRequest)'
          PROVE  Alive(q)'
      <4>1. q \in BusRequests(q.name)' /\ q.name \in BusName
        BY BusRequestAssumption DEF BusRequests
      <4>2. bus_index_'[q.name] \in BusRequests(q.name)'
        BY <1>3, <4>1 DEF IndexHoldsRequests
      <4> QED
        BY <4>2 DEF Alive, NoRepeatedBus, BusRequests
    <3> QED
      BY <3>1
  <2>4. ~ Dangling(s) /\ ~ HasView(s, r.name)
    BY <2>1, <2>2 DEF Dangling, HasView
  <2>5. buses_'[s] = IF s \in Route(r) THEN buses_[s] \cup {r} ELSE buses_[s]
    BY <1>3, <2>4 DEF AddBus, ViewsAfter
  <2>6. (done \cap AddBusRequest)' = (done \cap AddBusRequest) \cup {r}
    BY <1>3 DEF AddBus
  <2> QED
    BY <2>2, <2>3, <2>5, <2>6
<1>4. ASSUME RoutesAndStopsAgree, NEW r \in AddStopRequest, AddStop(r)
      PROVE  RoutesAndStopsAgree'
  <2>1. (done \cap AddBusRequest)' = done \cap AddBusRequest
    BY <1>4, RequestKinds DEF AddStop
  <2>2. (NoRepeatedBus' <=> NoRepeatedBus) /\ \A q : Alive(q)' <=> Alive(q)
    BY <1>4, <2>1 DEF AddStop, NoRepeatedBus, Alive
  <2> QED
    BY <1>4, <2>1, <2>2 DEF AddStop, RoutesAndStopsAgree
<1>5. RoutesAndStopsAgree /\ UNCHANGED vars => RoutesAndStopsAgree'
  BY DEF RoutesAndStopsAgree, NoRepeatedBus, Alive, vars, catalogue
<1>6. ASSUME TypeOK, TypeOK', IndexHoldsRequests, IndexHoldsRequests',
             RoutesAndStopsAgree, [Next]_vars
      PROVE  RoutesAndStopsAgree'
  BY <1>6, <1>3, <1>4, <1>5 DEF Next
<1> QED
  BY <1>1, <1>6, TypeCorrect, IndexInvariant, PTL DEF Spec

\* ListedOrDangling for every catalogue: a view that dangles is never alive
\* again, and one that is alive stays so.
THEOREM StopsListOrDangle == Spec => []ListedOrDangling
<1>1. Init => ListedOrDangling
  BY DEF Init, ListedOrDangling
<1>2. ASSUME TypeOK, ListedOrDangling, NEW r \in AddBusRequest, AddBus(r),
             NEW s \in StopName
      PROVE  /\ buses_'[s] \subseteq {q \in (done \cap AddBusRequest)' : s \in Route(q)}
             /\ \/ Dangling(s)'
                \/ \A q \in (done \cap AddBusRequest)' :
                     s \in Route(q) => HasView(s, q.name)'
  <2>1. (done \cap AddBusRequest)' = (done \cap AddBusRequest) \cup {r} /\ r \notin done
    BY <1>2 DEF AddBus
  <2>2. buses_[s] \subseteq {q \in done \cap AddBusRequest : s \in Route(q)}
    BY <1>2 DEF ListedOrDangling
  <2>3. \E inserts :
          buses_'[s] = IF s \in Route(r) /\ (IF Dangling(s) THEN s \in inserts
                                                            ELSE ~ HasView(s, r.name))
                         THEN buses_[s] \cup {r} ELSE buses_[s]
    BY <1>2 DEF AddBus, ViewsAfter
  <2>4. buses_[s] \subseteq buses_'[s] /\ buses_'[s] \subseteq buses_[s] \cup {r}
        /\ (s \notin Route(r) => buses_'[s] = buses_[s])
    BY <2>3
  <2>5. ASSUME NEW v \in buses_[s], ~ Alive(v)
        PROVE  ~ Alive(v)'
    <3>1. v \in AddBusRequest /\ v \in done /\ v.name \in BusName
      BY <2>2, BusRequestAssumption
    <3>2. v # r
      BY <2>1, <3>1
    <3> QED
      BY <1>2, <2>5, <3>1, <3>2, IndexAfterAddBus DEF Alive
  <2>6. Dangling(s) => Dangling(s)'
    BY <2>4, <2>5 DEF Dangling
  <2>7. ASSUME ~ Dangling(s), NEW q \in (done \cap AddBusRequest)', s \in Route(q)
        PROVE  HasView(s, q.name)'
    <3>1. HasView(s, q.name) => HasView(s, q.name)'
      BY <2>4 DEF HasView
    <3>2. CASE q \in done \cap AddBusRequest
      BY <1>2, <2>7, <3>1, <3>2 DEF ListedOrDangling
    <3>3. CASE q = r
      <4>1. ~ HasView(s, r.name) => r \in buses_'[s]
        BY <2>3, <2>7, <3>3
      <4> QED
        BY <3>1, <3>3, <4>1 DEF HasView
    <3> QED
      BY <2>1, <2>7, <3>2, <3>3
  <2>8. buses_'[s] \subseteq {q \in (done \cap AddBusRequest)' : s \in Route(q)}
    BY <2>1, <2>2, <2>4
  <2> QED
    BY <2>6, <2>7, <2>8
<1>3. ASSUME ListedOrDangling, NEW r \in AddStopRequest, AddStop(r)
      PROVE  ListedOrDangling'
  <2>1. (done \cap AddBusRequest)' = done \cap AddBusRequest
    BY <1>3, RequestKinds DEF AddStop
  <2>2. /\ buses_' = buses_ /\ \A s : Dangling(s)' <=> Dangling(s)
        /\ \A s, b : HasView(s, b)' <=> HasView(s, b)
    BY <1>3 DEF AddStop, Dangling, Alive, HasView
  <2> QED
    BY <1>3, <2>1, <2>2 DEF ListedOrDangling
<1>4. ListedOrDangling /\ UNCHANGED vars => ListedOrDangling'
  BY DEF ListedOrDangling, Dangling, Alive, HasView, vars, catalogue
<1>5. TypeOK /\ ListedOrDangling /\ [Next]_vars => ListedOrDangling'
  <2>1. ASSUME TypeOK, ListedOrDangling, NEW r \in AddBusRequest, AddBus(r)
        PROVE  ListedOrDangling'
    BY <1>2, <2>1 DEF ListedOrDangling
  <2> QED
    BY <1>3, <1>4, <2>1 DEF Next
<1> QED
  BY <1>1, <1>5, TypeCorrect, PTL DEF Spec

-----------------------------------------------------------------------------
(***************************************************************************)
(* The manager.                                                            *)
(***************************************************************************)
\* Every behaviour of the manager is one of the catalogue: InitializeGraph and
\* AddAllEdges only read the records.
THEOREM ManagerIsCatalogue == ManagerSpec => Spec
<1>1. ManagerInit => Init
  BY DEF ManagerInit
<1>2. [ManagerNext]_managerVars => [Next]_vars
  BY DEF ManagerNext, ProcessModifyRequest, InitializeRouter, NumberStop,
         CreateGraph, AddBusEdges, EmplaceRouter, managerVars
<1> QED
  BY <1>1, <1>2, PTL DEF ManagerSpec, Spec

-----------------------------------------------------------------------------
(***************************************************************************)
(* The vertices.  The stops the loop of InitializeGraph has visited have   *)
(* the numbers below current_node, two each; the names it has not visited, *)
(* and those that are no stops, have none.                                 *)
(***************************************************************************)
Visited ==
  CASE pc = "requests" -> {}
    [] pc = "stops" -> stop_index_ \ unvisited
    [] OTHER -> stop_index_

Numbered(s) ==
  \A t \in NodeType :
    /\ index_[s][t] \in DOMAIN reverse_index_
    /\ reverse_index_[index_[s][t]] = [name |-> s, type |-> t]

Unnumbered(s) == \A t \in NodeType : index_[s][t] = NoNumber

NumberInv ==
  /\ index_ \in [StopName -> [NodeType -> Nat \cup {NoNumber}]]
  /\ pc = "stops" => unvisited \subseteq stop_index_
  /\ current_node = 2 * Cardinality(Visited)
  /\ DOMAIN reverse_index_ = 0 .. current_node - 1
  /\ \A s \in StopName : IF s \in Visited THEN Numbered(s) ELSE Unnumbered(s)

LEMMA NumberInvInit == ManagerInit => NumberInv
  BY FS_EmptySet
  DEF ManagerInit, Init, NumberInv, Visited, Unnumbered, NodeType

\* Numbering one more stop leaves the others their vertices.
LEMMA NumberInvStop ==
  ASSUME TypeOK, NumberInv, NEW s \in StopName, NumberStop(s)
  PROVE  NumberInv'
<1>1. pc = "stops" /\ pc' = "stops" /\ s \in unvisited /\ s \in stop_index_
  BY DEF NumberStop, NumberInv
<1>2. Visited' = Visited \cup {s} /\ s \notin Visited
  BY <1>1 DEF Visited, NumberStop, vars, catalogue, NumberInv
<1>3. /\ Cardinality(Visited) \in Nat
      /\ Cardinality(Visited') = Cardinality(Visited) + 1
  <2>1. Visited \subseteq StopName
    BY <1>1 DEF Visited, TypeOK
  <2>2. IsFiniteSet(Visited)
    BY <2>1, FiniteNamesAssumption, FS_Subset
  <2> QED
    BY <2>2, <1>2, FS_AddElement, FS_CardinalityType
<1>4. current_node \in Nat
  BY <1>3 DEF NumberInv
<1>5. current_node' = 2 * Cardinality(Visited)'
  BY <1>3 DEF NumberInv, NumberStop
<1>6. /\ DOMAIN reverse_index_' = 0 .. current_node + 1
      /\ 0 .. current_node + 1 = 0 .. current_node' - 1
  BY <1>4 DEF NumberStop
<1>7. index_' \in [StopName -> [NodeType -> Nat \cup {NoNumber}]]
  <2>1. [WAIT |-> current_node, BUS |-> current_node + 1]
          \in [NodeType -> Nat \cup {NoNumber}]
    BY <1>4 DEF NodeType
  <2> QED
    BY <2>1 DEF NumberInv, NumberStop
<1>8. ASSUME NEW q \in StopName
      PROVE  IF q \in Visited' THEN Numbered(q)' ELSE Unnumbered(q)'
  <2>1. CASE q = s
    <3>1. /\ index_'[q]["WAIT"] = current_node
          /\ index_'[q]["BUS"] = current_node + 1
      BY <2>1 DEF NumberStop, NumberInv
    <3>2. /\ current_node \in 0 .. current_node + 1
          /\ current_node + 1 \in 0 .. current_node + 1
          /\ reverse_index_'[current_node] = [name |-> s, type |-> "WAIT"]
          /\ reverse_index_'[current_node + 1] = [name |-> s, type |-> "BUS"]
      BY <1>4 DEF NumberStop
    <3> QED
      BY <2>1, <3>1, <3>2, <1>2, <1>6 DEF Numbered, NodeType
  <2>2. CASE q # s
    <3>1. index_'[q] = index_[q]
      BY <2>2 DEF NumberStop, NumberInv
    <3>2. \A n \in 0 .. current_node - 1 :
            /\ n \in 0 .. current_node + 1
            /\ reverse_index_'[n] = reverse_index_[n]
      BY <1>4 DEF NumberStop
    <3>3. CASE q \in Visited
      BY <3>1, <3>2, <3>3, <1>2, <1>6 DEF Numbered, NumberInv
    <3>4. CASE q \notin Visited
      BY <2>2, <3>1, <3>4, <1>2 DEF Unnumbered, NumberInv
    <3> QED
      BY <3>3, <3>4
  <2> QED
    BY <2>1, <2>2
<1> QED
  BY <1>1, <1>5, <1>6, <1>7, <1>8 DEF NumberInv, NumberStop, vars, catalogue

LEMMA NumberInvStep ==
  ASSUME TypeOK, NumberInv, [ManagerNext]_managerVars
  PROVE  NumberInv'
<1> DEFINE Indices == <<current_node, index_, reverse_index_>>
\* Only NumberStop touches the indices: elsewhere it is enough that the same
\* stops count as visited.
<1>1. ASSUME UNCHANGED Indices, Visited' = Visited,
             pc' = "stops" => unvisited' \subseteq stop_index_'
      PROVE  NumberInv'
  BY <1>1 DEF NumberInv, Numbered, Unnumbered
<1>2. CASE ProcessModifyRequest
  BY <1>2, <1>1 DEF ProcessModifyRequest, graphVars, Visited
<1>3. CASE InitializeRouter
  BY <1>3, <1>1 DEF InitializeRouter, Visited, vars, catalogue
<1>4. ASSUME NEW s \in StopName, NumberStop(s)
      PROVE  NumberInv'
  BY <1>4, NumberInvStop
<1>5. CASE CreateGraph
  BY <1>5, <1>1 DEF CreateGraph, Visited, vars, catalogue
<1>6. ASSUME NEW b \in BusName, AddBusEdges(b)
      PROVE  NumberInv'
  BY <1>6, <1>1 DEF AddBusEdges, Visited, vars, catalogue
<1>7. CASE EmplaceRouter
  BY <1>7, <1>1 DEF EmplaceRouter, Visited, vars, catalogue
<1>8. CASE UNCHANGED managerVars
  BY <1>8, <1>1 DEF managerVars, graphVars, Visited, vars, catalogue, NumberInv
<1> QED
  BY <1>2, <1>3, <1>4, <1>5, <1>6, <1>7, <1>8 DEF ManagerNext

LEMMA NumberInvGivesInverse == TypeOK /\ NumberInv => IndicesAreInverse
  BY DEF TypeOK, NumberInv, Visited, Numbered, Unnumbered, IndicesAreInverse,
         GraphBuilt

\* index_ and reverse_index_ are each other's inverse, over two vertices for
\* each stop, for any catalogue and any order the stops are numbered in.
THEOREM IndicesAlwaysInverse == ManagerSpec => []IndicesAreInverse
<1>1. ManagerSpec => []TypeOK
  BY ManagerIsCatalogue, TypeCorrect, PTL
<1> QED
  BY <1>1, NumberInvInit, NumberInvStep, NumberInvGivesInverse, PTL
  DEF ManagerSpec

-----------------------------------------------------------------------------
\* What is proved of the catalogue holds while InitializeRouter reads it, and
\* afterwards: the distances and the views it finds are those of the requests.
THEOREM ManagerReadsDeclaredDistances == ManagerSpec => []DeclaredDistancesWin
  BY ManagerIsCatalogue, DeclaredDistancesWinAlways, PTL

\* The stops it visits and the buses whose edges it adds agree, too.
THEOREM ManagerStopsAndRoutesAgree == ManagerSpec => []RoutesAndStopsAgree
  BY ManagerIsCatalogue, RoutesAndStopsAlwaysAgree, PTL

-----------------------------------------------------------------------------
(***************************************************************************)
(* Sequences of edges, by what they hold.                                  *)
(***************************************************************************)
Elements(s) == {s[n] : n \in DOMAIN s}

LEMMA Joined ==
  ASSUME NEW S, NEW s \in Seq(S), NEW t \in Seq(S)
  PROVE  /\ s \o t \in Seq(S)
         /\ Elements(s \o t) = Elements(s) \cup Elements(t)
<1> DEFINE n == Len(s)
           m == Len(t)
           both == s \o t
<1>1. /\ n \in Nat /\ m \in Nat /\ DOMAIN s = 1 .. n /\ DOMAIN t = 1 .. m
      /\ DOMAIN both = 1 .. n + m
      /\ \A k \in 1 .. n : both[k] = s[k]
      /\ \A k \in 1 .. m : both[n + k] = t[k]
  OBVIOUS
<1> HIDE DEF both, n, m
<1>2. ASSUME NEW x \in Elements(both)
      PROVE  x \in Elements(s) \cup Elements(t)
  <2>1. PICK k \in 1 .. n + m : x = both[k]
    BY <1>1 DEF Elements
  <2>2. k \in 1 .. n \/ (k - n \in 1 .. m /\ n + (k - n) = k)
    BY <1>1
  <2> QED
    BY <1>1, <2>1, <2>2 DEF Elements
<1>3. ASSUME NEW x \in Elements(s) \cup Elements(t)
      PROVE  x \in Elements(both)
  <2>1. CASE x \in Elements(s)
    <3>1. PICK k \in 1 .. n : x = s[k]
      BY <1>1, <2>1 DEF Elements
    <3>2. k \in 1 .. n + m
      BY <1>1
    <3> QED
      BY <1>1, <3>1, <3>2 DEF Elements
  <2>2. CASE x \in Elements(t)
    <3>1. PICK k \in 1 .. m : x = t[k]
      BY <1>1, <2>2 DEF Elements
    <3>2. n + k \in 1 .. n + m
      BY <1>1
    <3> QED
      BY <1>1, <3>1, <3>2 DEF Elements
  <2> QED
    BY <1>3, <2>1, <2>2
<1>4. both \in Seq(S)
  BY DEF both
<1> QED
  BY <1>2, <1>3, <1>4 DEF both

\* Rows put one behind the other.
Appended(row, n, f) ==
  f = [i \in 0 .. n |-> IF i = 0 THEN << >> ELSE f[i - 1] \o row[i]]

RowsOf(S, row, n) == \A m \in 1 .. n : row[m] \in Seq(S)

LEMMA RowsExist ==
  ASSUME NEW S, NEW n \in Nat, NEW row, RowsOf(S, row, n)
  PROVE  \E f : Appended(row, n, f)
<1> DEFINE A == Seq(S)
           op == [m \in 1 .. n |-> [s \in A |-> s \o row[m]]]
<1>1. \A m \in 0 + 1 .. n : \A s \in A : op[m][s] = s \o row[m]
  OBVIOUS
<1>2. StepsWithin(op, A, 0, n)
  BY DEF StepsWithin, RowsOf
<1>3. << >> \in A /\ 0 <= n /\ 0 \in Nat
  OBVIOUS
<1> HIDE DEF op, A
<1>4. PICK f \in [0 .. n -> A] : Stepwise(f, << >>, op, 0, n)
  BY <1>2, <1>3, Recursion
<1>5. \A m \in 0 .. n : m # 0 => m \in 0 + 1 .. n /\ m - 1 \in 0 .. n
  OBVIOUS
<1>6. \A m \in 0 .. n : f[m] = IF m = 0 THEN << >> ELSE f[m - 1] \o row[m]
  BY <1>1, <1>4, <1>5 DEF Stepwise
<1>7. Appended(row, n, f)
  BY <1>4, <1>6 DEF Appended
<1> QED
  BY <1>7

HoldsRows(S, row, n, all) ==
  /\ all[n] \in Seq(S)
  /\ \A x : x \in Elements(all[n]) <=> \E m \in 1 .. n : x \in Elements(row[m])

LEMMA Rows ==
  ASSUME NEW S, NEW n \in Nat, NEW row, RowsOf(S, row, n),
         NEW all, Appended(row, n, all)
  PROVE  HoldsRows(S, row, n, all)
<1> DEFINE Holds(m) == /\ all[m] \in Seq(S)
                       /\ \A x : x \in Elements(all[m]) <=>
                                   \E k \in 1 .. m : x \in Elements(row[k])
           Good == {m \in Nat : m <= n => Holds(m)}
<1>1. Holds(0)
  <2>1. all[0] = << >>
    BY DEF Appended
  <2>2. /\ Elements(<< >>) = {}
        /\ << >> \in Seq(S)
        /\ \A k \in 1 .. 0 : FALSE
    BY DEF Elements
  <2> QED
    BY <2>1, <2>2
<1>2. ASSUME NEW m \in Nat, m + 1 <= n, Holds(m)
      PROVE  Holds(m + 1)
  <2>1. m + 1 \in 1 .. n /\ m + 1 \in 0 .. n /\ m + 1 # 0 /\ m + 1 - 1 = m
    BY <1>2
  <2>2. all[m + 1] = all[m] \o row[m + 1]
    <3>1. \A i \in 0 .. n : i # 0 => all[i] = all[i - 1] \o row[i]
      BY DEF Appended
    <3>2. PICK i : i = m + 1
      OBVIOUS
    <3>3. i \in 0 .. n /\ i # 0 /\ i - 1 = m
      BY <2>1, <3>2
    <3> QED
      BY <3>1, <3>2, <3>3
  <2>3. /\ all[m + 1] \in Seq(S)
        /\ Elements(all[m + 1]) = Elements(all[m]) \cup Elements(row[m + 1])
    BY <1>2, <2>1, <2>2, Joined DEF RowsOf
  <2>4. \A k : k \in 1 .. m + 1 <=> k \in 1 .. m \/ k = m + 1
    OBVIOUS
  <2> QED
    BY <1>2, <2>3, <2>4
<1> HIDE DEF Holds
<1>3. 0 \in Good
  BY <1>1
<1>4. \A m \in Nat : m \in Good => m + 1 \in Good
  BY <1>2
<1> HIDE DEF Good
<1>5. n \in Good
  BY <1>3, <1>4, StepByStep
<1>6. Holds(n)
  <2>1. n <= n
    OBVIOUS
  <2> QED
    BY <1>5, <2>1 DEF Good
<1> QED
  BY <1>6 DEF Holds, HoldsRows

-----------------------------------------------------------------------------
(***************************************************************************)
(* The edges of a bus, by what is in the records.                          *)
(***************************************************************************)
LEMMA RouteDistanceType ==
  ASSUME TypeOK, NEW a \in StopName, NEW b \in StopName
  PROVE  RouteDistance(a, b) \in Length
<1>1. /\ distances_[a][b] \in Nat \cup {NoDist}
      /\ Haversine[place_[a]][place_[b]] \in Length
  BY GeometryAssumption DEF TypeOK
<1> QED
  BY <1>1 DEF RouteDistance, Length

LEMMA PlusFacts ==
  ASSUME NEW x \in Length, NEW y \in Length
  PROVE  /\ Plus(x, y) \in Length
         /\ Plus(x, y) # NaN =>
              /\ x \in Nat /\ y \in Nat /\ Plus(x, y) = x + y /\ x <= Plus(x, y)
         /\ Plus(x, y) = NaN => x = NaN \/ y = NaN
<1>1. CASE x = NaN \/ y = NaN
  BY <1>1 DEF Plus, Length
<1>2. CASE x # NaN /\ y # NaN
  <2>1. x \in Nat /\ y \in Nat /\ Plus(x, y) = x + y
    BY <1>2 DEF Plus, Length
  <2>2. x + y \in Nat /\ x <= x + y
    BY <2>1
  <2>3. x + y # NaN
    BY <2>2, GeometryAssumption
  <2> QED
    BY <2>1, <2>2, <2>3 DEF Length
<1> QED
  BY <1>1, <1>2

\* PartialSums is what its definition says.
\* What a length divided by the velocity is, and when the router takes it.
LEMMA OverFacts ==
  ASSUME NEW x \in Length
  PROVE  /\ Over(x) \in Int \cup {NaN, Infinity}
         /\ velocity_ # 0 => Over(x) # Infinity
         /\ velocity_ = 1 => Over(x) = x
         /\ NotNegative(Over(x))
              <=> /\ x # NaN
                  /\ \/ velocity_ = 1
                     \/ velocity_ = 0 /\ x # 0
                     \/ velocity_ = -1 /\ x = 0
<1>1. CASE x = NaN
  BY <1>1, SettingsAssumption, GeometryAssumption DEF Over, NotNegative
<1>2. CASE x # NaN
  <2>1. x \in Nat /\ NaN \notin Int /\ Infinity \notin Int /\ Infinity # NaN
    BY <1>2, SettingsAssumption, GeometryAssumption DEF Length
  <2>2. CASE velocity_ = 1
    BY <2>1, <2>2 DEF Over, NotNegative
  <2>3. CASE velocity_ = 0
    BY <2>1, <2>3 DEF Over, NotNegative
  <2>4. CASE velocity_ = -1
    BY <2>1, <2>4 DEF Over, NotNegative
  <2> QED
    BY <2>2, <2>3, <2>4, SettingsAssumption
<1> QED
  BY <1>1, <1>2

LEMMA PartialSumsFacts ==
  ASSUME TypeOK, NEW stops \in Seq(StopName), stops # << >>
  PROVE  /\ PartialSums(stops)[1] = 0
         /\ \A i \in 1 .. Len(stops) : PartialSums(stops)[i] \in Length
         /\ \A i \in 1 .. Len(stops) - 1 :
              PartialSums(stops)[i + 1]
                = Plus(PartialSums(stops)[i], RouteDistance(stops[i], stops[i + 1]))
<1> DEFINE n == Len(stops)
           step(i) == RouteDistance(stops[i - 1], stops[i])
           op == [i \in 2 .. n |-> [x \in Length |-> Plus(x, step(i))]]
           Built(f) == f = [i \in DOMAIN stops |->
                              IF i = 1 THEN 0 ELSE Plus(f[i - 1], step(i))]
           sums == CHOOSE f : Built(f)
<1>1. n \in Nat /\ 1 <= n /\ 1 \in Nat /\ DOMAIN stops = 1 .. n
      /\ \A i \in 1 .. n : stops[i] \in StopName
  OBVIOUS
<1>2. PartialSums(stops) = sums
  BY DEF PartialSums
<1>3. \A i \in 2 .. n : step(i) \in Length
  <2> TAKE i \in 2 .. n
  <2>1. stops[i] \in StopName /\ stops[i - 1] \in StopName
    <3>1. i \in 1 .. n /\ i - 1 \in 1 .. n
      OBVIOUS
    <3> QED
      BY <1>1, <3>1
  <2> QED
    BY <2>1, RouteDistanceType
<1> HIDE DEF n, step
<1>4. \A i \in 2 .. n : \A x \in Length : op[i][x] = Plus(x, step(i))
  OBVIOUS
<1> HIDE DEF op
<1>5. StepsWithin(op, Length, 1, n)
  BY <1>3, <1>4, PlusFacts DEF StepsWithin
<1>6. 0 \in Length
  BY DEF Length
<1>7. PICK f \in [1 .. n -> Length] : Stepwise(f, 0, op, 1, n)
  BY <1>1, <1>5, <1>6, Recursion
<1>8. Built(f)
  <2>1. \A i \in 1 .. n : i # 1 => i \in 1 + 1 .. n /\ i \in 2 .. n /\ i - 1 \in 1 .. n
    BY <1>1
  <2>2. \A i \in 1 .. n : f[i] = IF i = 1 THEN 0 ELSE Plus(f[i - 1], step(i))
    BY <1>4, <1>7, <2>1 DEF Stepwise
  <2> QED
    BY <1>1, <1>7, <2>2
<1>9. Built(sums)
  BY <1>8
<1> HIDE DEF sums
<1>10. sums[1] = 0
  BY <1>1, <1>9
<1>11. ASSUME NEW i \in 1 .. n - 1
       PROVE  sums[i + 1] = Plus(sums[i], RouteDistance(stops[i], stops[i + 1]))
  <2>1. PICK m : m = i + 1
    OBVIOUS
  <2>2. m \in 1 .. n /\ m # 1 /\ m - 1 = i
    BY <1>1, <2>1
  <2>3. sums[m] = Plus(sums[m - 1], step(m))
    BY <1>1, <1>9, <2>2
  <2> QED
    BY <2>1, <2>2, <2>3 DEF step
<1> DEFINE Good == {m \in Nat : m \in 1 .. n => sums[m] \in Length}
<1>12. \A m \in Nat : m \in Good => m + 1 \in Good
  <2> SUFFICES ASSUME NEW m \in Nat, m \in Good, m + 1 \in 1 .. n
               PROVE  sums[m + 1] \in Length
    OBVIOUS
  <2>1. CASE m = 0
    BY <1>6, <1>10, <2>1
  <2>2. CASE m # 0
    <3>1. m \in 1 .. n - 1 /\ m \in 1 .. n /\ m + 1 \in 2 .. n /\ m + 1 - 1 = m
      BY <1>1, <2>2
    <3>2. RouteDistance(stops[m], stops[m + 1]) \in Length
      BY <1>1, <3>1, RouteDistanceType
    <3> QED
      BY <1>11, <3>1, <3>2, PlusFacts
  <2> QED
    BY <2>1, <2>2
<1>13. 0 \in Good
  OBVIOUS
<1> HIDE DEF Good
<1>14. \A i \in 1 .. n : sums[i] \in Length
  <2>1. Nat \subseteq Good
    BY <1>12, <1>13, StepByStep
  <2> QED
    BY <1>1, <2>1 DEF Good
<1> QED
  BY <1>2, <1>10, <1>11, <1>14 DEF n

\* A partial sum is no smaller than an earlier one, and a NaN stays one.
LEMMA SumsGrow ==
  ASSUME TypeOK, NEW stops \in Seq(StopName), NEW i \in 1 .. Len(stops),
         NEW j \in 1 .. Len(stops), i <= j, PartialSums(stops)[j] # NaN
  PROVE  /\ PartialSums(stops)[i] \in Nat /\ PartialSums(stops)[j] \in Nat
         /\ PartialSums(stops)[i] <= PartialSums(stops)[j]
<1> DEFINE sums == PartialSums(stops)
           n == Len(stops)
           Grown(a, b) == sums[b] # NaN =>
                            sums[a] \in Nat /\ sums[b] \in Nat /\ sums[a] <= sums[b]
           Good == {m \in Nat : i + m <= n => Grown(i, i + m)}
<1>1. n \in Nat /\ stops # << >>
  OBVIOUS
<1>2. /\ \A m \in 1 .. n : sums[m] \in Length /\ stops[m] \in StopName
      /\ \A m \in 1 .. n - 1 :
           sums[m + 1] = Plus(sums[m], RouteDistance(stops[m], stops[m + 1]))
  BY <1>1, PartialSumsFacts
<1> HIDE DEF sums, n
<1>3. 0 \in Good
  <2>1. i + 0 = i /\ sums[i] \in Length
    BY <1>2 DEF n
  <2> QED
    BY <2>1 DEF Length
<1>4. ASSUME NEW m \in Nat, m \in Good
      PROVE  m + 1 \in Good
  <2> SUFFICES ASSUME i + (m + 1) <= n PROVE Grown(i, i + (m + 1))
    OBVIOUS
  <2> DEFINE k == i + m
  <2>1. /\ k \in 1 .. n - 1 /\ k \in 1 .. n /\ k + 1 \in 1 .. n
        /\ k <= n /\ i + (m + 1) = k + 1
    BY <1>1 DEF n
  <2>2. Grown(i, k)
    BY <1>4, <2>1
  <2> HIDE DEF k
  <2>3. RouteDistance(stops[k], stops[k + 1]) \in Length
    BY <1>2, <2>1, RouteDistanceType
  <2>4. Grown(k, k + 1)
    BY <1>2, <2>1, <2>3, PlusFacts
  <2>5. sums[i] \in Length /\ NaN \notin Nat
    BY <1>2, GeometryAssumption DEF n
  <2> QED
    BY <2>1, <2>2, <2>4, <2>5
<1> HIDE DEF Good
<1>5. j - i \in Good
  <2>1. j - i \in Nat
    BY <1>1
  <2> QED
    BY <1>3, <1>4, <2>1, StepByStep
<1>6. i + (j - i) = j /\ j <= n
  BY <1>1 DEF n
<1> QED
  BY <1>5, <1>6 DEF Good, sums

Nodes == 0 .. current_node - 1

Edges == [from : Nodes, to : Nodes, weight : WeightWithSpan]

AllNumbered == \A s \in stop_index_, t \in NodeType : index_[s][t] \in Nodes

Pairs(n) == {q \in (1 .. n) \X (1 .. n) : q[1] < q[2]}

RideSet(stops, route) ==
  {Ride(stops, PartialSums(stops), route, p[1], p[2]) : p \in Pairs(Len(stops))}

LEMMA StretchLength ==
  ASSUME TypeOK, NEW stops \in Seq(StopName),
         NEW i \in 1 .. Len(stops), NEW j \in 1 .. Len(stops), i < j
  PROVE  Minus(PartialSums(stops)[j], PartialSums(stops)[i]) \in Length
<1> DEFINE sums == PartialSums(stops)
<1>1. CASE NaN \in {sums[j], sums[i]}
  BY <1>1 DEF Minus, Length
<1>2. CASE NaN \notin {sums[j], sums[i]}
  <2>1. sums[i] \in Nat /\ sums[j] \in Nat /\ sums[i] <= sums[j]
    BY <1>2, SumsGrow
  <2>2. Minus(sums[j], sums[i]) = sums[j] - sums[i]
    BY <1>2 DEF Minus
  <2> HIDE DEF sums
  <2> QED
    BY <2>1, <2>2 DEF Length, sums
<1> QED
  BY <1>1, <1>2

LEMMA RideType ==
  ASSUME TypeOK, AllNumbered, NEW stops \in Seq(stop_index_), NEW route \in BusName,
         NEW i \in 1 .. Len(stops), NEW j \in 1 .. Len(stops), i < j
  PROVE  Ride(stops, PartialSums(stops), route, i, j) \in Edges
<1> DEFINE length == Minus(PartialSums(stops)[j], PartialSums(stops)[i])
           time == Over(length)
<1>1. /\ stops \in Seq(StopName)
      /\ stops[i] \in stop_index_ /\ stops[j] \in stop_index_
  BY DEF TypeOK
<1>2. index_[stops[i]]["BUS"] \in Nodes /\ index_[stops[j]]["WAIT"] \in Nodes
  BY <1>1 DEF AllNumbered, NodeType
<1>3. length \in Length
  BY <1>1, StretchLength
<1>4. j - i \in Nat
  OBVIOUS
<1>5. time \in Int \cup {NaN, Infinity}
  <2> HIDE DEF length
  <2> QED
    BY <1>3, OverFacts
<1> HIDE DEF time
<1>6. [time |-> time, span |-> j - i, route |-> route] \in WeightWithSpan
  BY <1>4, <1>5 DEF WeightWithSpan
<1> QED
  BY <1>2, <1>6 DEF Ride, Edges, time

LEMMA RidesFacts ==
  ASSUME TypeOK, AllNumbered, NEW stops \in Seq(stop_index_), NEW route \in BusName
  PROVE  /\ Rides(stops, route) \in Seq(Edges)
         /\ Elements(Rides(stops, route)) = RideSet(stops, route)
<1> DEFINE n == Len(stops)
           ride(i, j) == Ride(stops, PartialSums(stops), route, i, j)
           row == [i \in 1 .. n |-> [k \in 1 .. n - i |-> ride(i, i + k)]]
           Built(f) == f = [i \in 0 .. n |->
                              IF i = 0 THEN << >>
                              ELSE f[i - 1] \o [k \in 1 .. n - i |-> ride(i, i + k)]]
           all == CHOOSE f : Built(f)
<1>1. n \in Nat
  OBVIOUS
<1>2. Rides(stops, route) = all[n]
  BY DEF Rides
<1>3. \A i, j \in 1 .. n : i < j => ride(i, j) \in Edges
  BY RideType
<1> HIDE DEF n, ride
<1>4. ASSUME NEW i \in 1 .. n
      PROVE  /\ row[i] \in Seq(Edges)
             /\ \A x : x \in Elements(row[i]) <=>
                         \E j \in 1 .. n : i < j /\ x = ride(i, j)
  <2> DEFINE r == [k \in 1 .. n - i |-> ride(i, i + k)]
  <2>1. row[i] = r /\ n - i \in Nat
    BY <1>1
  <2>2. \A k \in 1 .. n - i : i + k \in 1 .. n /\ i < i + k
    BY <1>1
  <2>3. r \in Seq(Edges)
    <3>1. \A k \in 1 .. n - i : ride(i, i + k) \in Edges
      BY <1>3, <2>2
    <3> QED
      BY <2>1, <3>1
  <2>4. ASSUME NEW j \in 1 .. n, i < j
        PROVE  ride(i, j) \in Elements(r)
    <3>1. j - i \in 1 .. n - i /\ i + (j - i) = j
      BY <1>1, <2>4
    <3>2. r[j - i] = ride(i, j)
      BY <3>1
    <3> QED
      BY <3>1, <3>2 DEF Elements
  <2>5. ASSUME NEW x \in Elements(r)
        PROVE  \E j \in 1 .. n : i < j /\ x = ride(i, j)
    <3>1. PICK k \in 1 .. n - i : x = ride(i, i + k)
      BY DEF Elements
    <3> QED
      BY <2>2, <3>1
  <2> QED
    BY <2>1, <2>3, <2>4, <2>5
<1>5. \A f : Built(f) <=> Appended(row, n, f)
  <2>1. \A i \in 0 .. n : i # 0 =>
          /\ i \in 1 .. n
          /\ row[i] = [k \in 1 .. n - i |-> ride(i, i + k)]
    BY <1>1
  <2> HIDE DEF row
  <2> QED
    BY <2>1 DEF Appended
<1> HIDE DEF row
<1>6. RowsOf(Edges, row, n) /\ Appended(row, n, all)
  <2> RowsOf(Edges, row, n)
    BY <1>4 DEF RowsOf
  <2>1. PICK f : Appended(row, n, f)
    BY <1>1, RowsExist
  <2>2. Built(f)
    BY <1>5, <2>1
  <2>3. Built(all)
    BY <2>2
  <2> HIDE DEF all, Built
  <2> QED
    BY <1>5, <2>3
<1>7. /\ all[n] \in Seq(Edges)
      /\ \A x : x \in Elements(all[n]) <=>
                  \E m \in 1 .. n : x \in Elements(row[m])
  <2> HIDE DEF all
  <2>1. HoldsRows(Edges, row, n, all)
    BY <1>1, <1>6, Rows
  <2> QED
    BY <2>1 DEF HoldsRows
<1> HIDE DEF all
<1>8. \A x : x \in Elements(all[n]) <=>
               \E i, j \in 1 .. n : i < j /\ x = ride(i, j)
  <2>1. ASSUME NEW x, x \in Elements(all[n])
        PROVE  \E i, j \in 1 .. n : i < j /\ x = ride(i, j)
    <3>1. PICK m \in 1 .. n : x \in Elements(row[m])
      BY <1>7, <2>1
    <3>2. \E j \in 1 .. n : m < j /\ x = ride(m, j)
      BY <1>4, <3>1
    <3> QED
      BY <3>2
  <2>2. ASSUME NEW i \in 1 .. n, NEW j \in 1 .. n, i < j
        PROVE  ride(i, j) \in Elements(all[n])
    <3>1. ride(i, j) \in Elements(row[i])
      BY <1>4, <2>2
    <3> QED
      BY <1>7, <3>1
  <2> QED
    BY <2>1, <2>2
<1>9. \A x : x \in RideSet(stops, route) <=>
               \E i, j \in 1 .. n : i < j /\ x = ride(i, j)
  <2>1. \A x : x \in RideSet(stops, route) <=>
                 \E p \in Pairs(n) : x = ride(p[1], p[2])
    BY DEF RideSet, ride, n
  <2>2. \A i, j \in 1 .. n : i < j =>
          /\ <<i, j>> \in Pairs(n)
          /\ <<i, j>>[1] = i /\ <<i, j>>[2] = j
    BY DEF Pairs
  <2>3. \A p \in Pairs(n) : p[1] \in 1 .. n /\ p[2] \in 1 .. n /\ p[1] < p[2]
    BY DEF Pairs
  <2> QED
    <3>1. ASSUME NEW x, x \in RideSet(stops, route)
          PROVE  \E i, j \in 1 .. n : i < j /\ x = ride(i, j)
      BY <2>1, <2>3, <3>1
    <3>2. ASSUME NEW i \in 1 .. n, NEW j \in 1 .. n, i < j
          PROVE  ride(i, j) \in RideSet(stops, route)
      <4>1. PICK p \in Pairs(n) : p[1] = i /\ p[2] = j
        BY <2>2, <3>2
      <4> QED
        BY <2>1, <4>1
    <3> QED
      BY <3>1, <3>2
<1>10. Elements(all[n]) = RideSet(stops, route)
  BY <1>8, <1>9, SetExtensionality
<1> QED
  BY <1>2, <1>7, <1>10

Boarding(s) ==
  [from |-> index_[s]["WAIT"], to |-> index_[s]["BUS"],
   weight |-> [time |-> wait_time_, span |-> 0, route |-> ""]]

EdgeSet(r) ==
  {Boarding(s) : s \in Route(r)}
    \cup RideSet(r.stops, r.name)
    \cup IF r.type = "Linear" THEN RideSet(Reverse(r.stops), r.name) ELSE {}

LEMMA BoardingsFacts ==
  ASSUME AllNumbered, NEW stops \in Seq(stop_index_)
  PROVE  /\ Boardings(stops) \in Seq(Edges)
         /\ Elements(Boardings(stops)) = {Boarding(stops[i]) : i \in DOMAIN stops}
<1> DEFINE n == Len(stops)
           all == [i \in 1 .. n |-> Boarding(stops[i])]
<1>1. n \in Nat /\ DOMAIN stops = 1 .. n
  OBVIOUS
<1>2. Boardings(stops) = all
  BY <1>1 DEF Boardings, Boarding
<1>3. \A i \in 1 .. n : Boarding(stops[i]) \in Edges
  <2> TAKE i \in 1 .. n
  <2>1. index_[stops[i]]["WAIT"] \in Nodes /\ index_[stops[i]]["BUS"] \in Nodes
    BY DEF AllNumbered, NodeType
  <2>2. [time |-> wait_time_, span |-> 0, route |-> ""] \in WeightWithSpan
    BY SettingsAssumption DEF WeightWithSpan
  <2> QED
    BY <2>1, <2>2 DEF Boarding, Edges
<1>4. all \in Seq(Edges)
  BY <1>1, <1>3
<1>5. Elements(all) = {Boarding(stops[i]) : i \in DOMAIN stops}
  BY <1>1 DEF Elements
<1> QED
  BY <1>2, <1>4, <1>5

LEMMA EdgesOfFacts ==
  ASSUME TypeOK, AllNumbered, NEW r, r.stops \in Seq(stop_index_), r.name \in BusName
  PROVE  /\ EdgesOf(r) \in Seq(Edges)
         /\ Elements(EdgesOf(r)) = EdgeSet(r)
<1> DEFINE there == Boardings(r.stops) \o Rides(r.stops, r.name)
           back == IF r.type = "Linear" THEN Rides(Reverse(r.stops), r.name) ELSE << >>
           backSet == IF r.type = "Linear" THEN RideSet(Reverse(r.stops), r.name)
                                           ELSE {}
<1>1. EdgesOf(r) = there \o back
  BY DEF EdgesOf
<1>2. /\ there \in Seq(Edges)
      /\ Elements(there) = {Boarding(s) : s \in Route(r)} \cup RideSet(r.stops, r.name)
  <2>1. {Boarding(r.stops[i]) : i \in DOMAIN r.stops} = {Boarding(s) : s \in Route(r)}
    BY DEF Route
  <2>2. /\ Boardings(r.stops) \in Seq(Edges)
        /\ Elements(Boardings(r.stops)) = {Boarding(s) : s \in Route(r)}
    BY <2>1, BoardingsFacts
  <2>3. /\ Rides(r.stops, r.name) \in Seq(Edges)
        /\ Elements(Rides(r.stops, r.name)) = RideSet(r.stops, r.name)
    BY RidesFacts
  <2> QED
    BY <2>2, <2>3, Joined
<1>3. /\ back \in Seq(Edges)
      /\ Elements(back) = backSet
  <2>1. CASE r.type = "Linear"
    <3>1. Reverse(r.stops) \in Seq(stop_index_)
      BY DEF Reverse
    <3> QED
      BY <2>1, <3>1, RidesFacts
  <2>2. CASE r.type # "Linear"
    <3>1. << >> \in Seq(Edges) /\ Elements(<< >>) = {}
      BY DEF Elements
    <3> QED
      BY <2>2, <3>1
  <2> QED
    BY <2>1, <2>2
<1> HIDE DEF there, back
<1>4. there \o back \in Seq(Edges) /\ Elements(there \o back) = Elements(there) \cup Elements(back)
  BY <1>2, <1>3, Joined
<1> QED
  BY <1>1, <1>2, <1>3, <1>4 DEF EdgeSet

-----------------------------------------------------------------------------
(***************************************************************************)
(* The graph holds the edges of the buses that were visited.               *)
(***************************************************************************)
GraphPart ==
  /\ graph_ = [vertex_count |-> current_node, edges |-> graph_.edges]
  /\ graph_.edges \in Seq(Edges)
  /\ unvisited \subseteq Buses
  /\ Elements(graph_.edges)
       = UNION {EdgeSet(bus_index_[b]) : b \in Buses \ unvisited}

ManagerInv ==
  /\ pc \in {"requests", "stops", "buses", "ready", "aborted", "thrown"}
  /\ unvisited \subseteq StopName \cup BusName
  /\ reverse_index_ \in [Nodes -> [name : StopName, type : NodeType]]
  /\ pc \in {"requests", "stops", "thrown"} => graph_ = NoGraph
  /\ pc \in {"buses", "ready", "aborted"} => GraphPart
  /\ GraphBuilt => unvisited = {}
  /\ pc = "ready" => WeightsNotNegative

\* The edges of a bus are the same until the records or the indices change.
LEMMA EdgeSetKept ==
  ASSUME UNCHANGED <<index_, distances_, place_>>, NEW r
  PROVE  EdgeSet(r)' = EdgeSet(r)
BY DEF EdgeSet, Boarding, RideSet, Ride, Over, PartialSums, RouteDistance, Minus, Plus,
       Pairs, Route

LEMMA BusesAreKnown ==
  ASSUME TypeOK, IndexHoldsRequests, StopsKnownOnceMentioned, NEW b \in Buses
  PROVE  /\ bus_index_[b] \in done \cap AddBusRequest
         /\ bus_index_[b].name = b
         /\ bus_index_[b].stops \in Seq(stop_index_)
<1> DEFINE r == bus_index_[b]
<1>1. r \in done \cap AddBusRequest /\ r.name = b
  BY DEF Buses, IndexHoldsRequests, BusRequests
<1>2. r.stops \in Seq(StopName)
  BY <1>1, BusRequestAssumption
<1>3. \A i \in DOMAIN r.stops : r.stops[i] \in stop_index_
  BY <1>1 DEF StopsKnownOnceMentioned, Mentioned, Route
<1>4. r.stops \in Seq(stop_index_)
  <2>1. \A s : s \in Seq(StopName) /\ (\A i \in DOMAIN s : s[i] \in stop_index_)
                 => s \in Seq(stop_index_)
    OBVIOUS
  <2> QED
    BY <1>2, <1>3, <2>1
<1> QED
  BY <1>1, <1>4

LEMMA NumberInvGivesNodes ==
  ASSUME TypeOK, NumberInv, pc \in {"buses", "ready", "aborted"}
  PROVE  AllNumbered
<1>1. \A s \in Visited, t \in NodeType : s \in StopName => index_[s][t] \in Nodes
  BY DEF NumberInv, Numbered, Nodes
<1> QED
  BY <1>1 DEF AllNumbered, Visited, TypeOK

\* A vertex count that is a number, whatever the loop has got to.
LEMMA CountIsNat ==
  ASSUME TypeOK, NumberInv
  PROVE  current_node \in Nat
<1>1. Visited \subseteq StopName
  BY DEF Visited, TypeOK
<1>2. Cardinality(Visited) \in Nat
  BY <1>1, FiniteNamesAssumption, FS_Subset, FS_CardinalityType
<1> QED
  BY <1>2 DEF NumberInv

LEMMA ManagerInvInit == ManagerInit => ManagerInv
<1> SUFFICES ASSUME ManagerInit PROVE ManagerInv
  OBVIOUS
<1>1. Nodes = {}
  BY DEF ManagerInit, Nodes
<1>2. reverse_index_ \in [Nodes -> [name : StopName, type : NodeType]]
  BY <1>1 DEF ManagerInit
<1> QED
  BY <1>2 DEF ManagerInit, ManagerInv, GraphBuilt

\* A step that touches neither the records nor the graph keeps what is said of it.
LEMMA GraphPartKept ==
  ASSUME GraphPart, UNCHANGED <<vars, current_node, index_, graph_>>, UNCHANGED unvisited
  PROVE  GraphPart'
<1>1. UNCHANGED <<index_, distances_, place_, bus_index_>>
  BY DEF vars, catalogue
<1>2. \A b \in Buses : EdgeSet(bus_index_[b])' = EdgeSet(bus_index_[b])
  <2> TAKE b \in Buses
  <2>1. PICK r : r = bus_index_[b]
    OBVIOUS
  <2>2. EdgeSet(r)' = EdgeSet(r)
    BY <1>1, EdgeSetKept
  <2> QED
    BY <1>1, <2>1, <2>2
<1>3. Buses' = Buses /\ Nodes' = Nodes
  BY <1>1 DEF Buses, Nodes
<1>4. Edges' = Edges
  BY <1>3 DEF Edges
<1>5. (UNION {EdgeSet(bus_index_[b]) : b \in Buses \ unvisited})'
        = UNION {EdgeSet(bus_index_[b]) : b \in Buses \ unvisited}
  BY <1>2, <1>3
<1> QED
  BY <1>3, <1>4, <1>5 DEF GraphPart, Elements

LEMMA CreateGraphStep ==
  ASSUME TypeOK, NumberInv, ManagerInv, CreateGraph
  PROVE  ManagerInv'
<1>1. UNCHANGED <<current_node, index_, reverse_index_, bus_index_>>
  BY DEF CreateGraph, vars, catalogue
<1>2. Nodes' = Nodes /\ Buses' = Buses
  BY <1>1 DEF Nodes, Buses
<1>3. (reverse_index_ \in [Nodes -> [name : StopName, type : NodeType]])'
  BY <1>1, <1>2 DEF ManagerInv
<1>4. CASE current_node = 0
  BY <1>3, <1>4 DEF CreateGraph, ManagerInv, GraphBuilt
<1>5. CASE current_node # 0
  <2>1. /\ pc' = "buses" /\ unvisited' = Buses
        /\ graph_' = [vertex_count |-> current_node, edges |-> << >>]
    BY <1>5 DEF CreateGraph, Buses, EmptyGraph
  <2>2. << >> \in Seq(Edges') /\ Elements(<< >>) = {}
    BY DEF Elements
  <2>3. GraphPart'
    BY <1>1, <1>2, <2>1, <2>2 DEF GraphPart, Elements
  <2>4. unvisited' \subseteq StopName \cup BusName
    BY <2>1 DEF Buses
  <2> QED
    BY <1>3, <2>1, <2>3, <2>4 DEF ManagerInv, GraphBuilt
<1> QED
  BY <1>4, <1>5

\* One round of AddAllEdges adds the edges of one bus.
LEMMA AddBusEdgesStep ==
  ASSUME TypeOK, NumberInv, IndexHoldsRequests, StopsKnownOnceMentioned, ManagerInv,
         NEW b \in BusName, AddBusEdges(b)
  PROVE  ManagerInv'
<1> DEFINE more == EdgesOf(bus_index_[b])
           old == graph_.edges
<1>1. /\ pc = "buses" /\ pc' = "buses" /\ b \in unvisited
      /\ unvisited' = unvisited \ {b}
      /\ UNCHANGED <<current_node, index_, reverse_index_>>
      /\ UNCHANGED <<bus_index_, distances_, place_>>
      /\ graph_' = [graph_ EXCEPT !.edges = old \o more]
  BY DEF AddBusEdges, AddEdges, vars, catalogue
<1>2. GraphPart /\ b \in Buses
  BY <1>1 DEF ManagerInv, GraphPart
<1>3. Nodes' = Nodes /\ Buses' = Buses
  BY <1>1 DEF Nodes, Buses
<1>4. Edges' = Edges
  BY <1>3 DEF Edges
<1>5. more \in Seq(Edges) /\ Elements(more) = EdgeSet(bus_index_[b])
  BY <1>1, <1>2, BusesAreKnown, NumberInvGivesNodes, EdgesOfFacts
<1>6. old \in Seq(Edges)
  BY <1>2 DEF GraphPart
<1> HIDE DEF more
<1>7. /\ old \o more \in Seq(Edges)
      /\ Elements(old \o more) = Elements(old) \cup EdgeSet(bus_index_[b])
  BY <1>5, <1>6, Joined
<1>8. graph_' = [vertex_count |-> current_node, edges |-> old \o more]
  <2>1. \A n, e, x : [[vertex_count |-> n, edges |-> e] EXCEPT !.edges = x]
                       = [vertex_count |-> n, edges |-> x]
    OBVIOUS
  <2>2. graph_ = [vertex_count |-> current_node, edges |-> old]
    BY <1>2 DEF GraphPart
  <2> HIDE DEF old
  <2> QED
    BY <1>1, <2>1, <2>2
<1>9. \A c \in Buses : EdgeSet(bus_index_[c])' = EdgeSet(bus_index_[c])
  <2> TAKE c \in Buses
  <2>1. PICK r : r = bus_index_[c]
    OBVIOUS
  <2>2. EdgeSet(r)' = EdgeSet(r)
    BY <1>1, EdgeSetKept
  <2> QED
    BY <1>1, <2>1, <2>2
<1>10. Elements(old \o more)
         = (UNION {EdgeSet(bus_index_[c]) : c \in Buses \ unvisited})'
  <2> DEFINE S(c) == EdgeSet(bus_index_[c])
  <2>1. (UNION {EdgeSet(bus_index_[c]) : c \in Buses \ unvisited})'
          = UNION {S(c) : c \in Buses \ (unvisited \ {b})}
    BY <1>1, <1>3, <1>9
  <2>2. Buses \ (unvisited \ {b}) = (Buses \ unvisited) \cup {b}
    BY <1>2
  <2>3. Elements(old) = UNION {S(c) : c \in Buses \ unvisited}
    BY <1>2 DEF GraphPart
  <2> HIDE DEF S
  <2>4. UNION {S(c) : c \in (Buses \ unvisited) \cup {b}}
          = (UNION {S(c) : c \in Buses \ unvisited}) \cup S(b)
    OBVIOUS
  <2> QED
    BY <1>7, <2>1, <2>2, <2>3, <2>4 DEF S
<1>11. GraphPart'
  <2>1. unvisited' \subseteq Buses'
    BY <1>1, <1>2, <1>3 DEF GraphPart
  <2>2. graph_'.edges = old \o more
    BY <1>8
  <2>3. Elements(graph_.edges)' = Elements(old \o more)
    BY <2>2 DEF Elements
  <2> QED
    BY <1>1, <1>4, <1>7, <1>8, <1>10, <2>1, <2>2, <2>3 DEF GraphPart
<1> QED
  BY <1>1, <1>3, <1>11 DEF ManagerInv, GraphBuilt

\* ManagerInv is inductive.
LEMMA ManagerInvStep ==
  ASSUME TypeOK, NumberInv, IndexHoldsRequests, StopsKnownOnceMentioned, ManagerInv,
         [ManagerNext]_managerVars
  PROVE  ManagerInv'
<1>1. CASE ProcessModifyRequest
  BY <1>1 DEF ProcessModifyRequest, graphVars, ManagerInv, GraphBuilt, Nodes
<1>2. CASE InitializeRouter
  BY <1>2 DEF InitializeRouter, ManagerInv, GraphBuilt, Nodes, TypeOK
<1>3. ASSUME NEW s \in StopName, NumberStop(s)
      PROVE  ManagerInv'
  <2>1. current_node \in Nat
    BY CountIsNat
  <2>2. (reverse_index_ \in [Nodes -> [name : StopName, type : NodeType]])'
    <3>1. \A n \in 0 .. current_node + 1 :
            n < current_node => reverse_index_[n] \in [name : StopName, type : NodeType]
      BY <2>1 DEF ManagerInv, Nodes
    <3>2. Nodes' = 0 .. current_node + 1
      BY <1>3, <2>1 DEF NumberStop, Nodes
    <3> QED
      BY <1>3, <3>1, <3>2 DEF NumberStop, NodeType
  <2> QED
    BY <1>3, <2>2 DEF NumberStop, ManagerInv, GraphBuilt
<1>4. CASE CreateGraph
  BY <1>4, CreateGraphStep
<1>5. ASSUME NEW b \in BusName, AddBusEdges(b)
      PROVE  ManagerInv'
  BY <1>5, AddBusEdgesStep
<1>6. CASE EmplaceRouter
  <2>1. GraphPart'
    BY <1>6, GraphPartKept DEF EmplaceRouter, ManagerInv
  <2>2. pc' = "ready" => WeightsNotNegative'
    BY <1>6 DEF EmplaceRouter, WeightsNotNegative
  <2> QED
    BY <1>6, <2>1, <2>2 DEF EmplaceRouter, ManagerInv, GraphBuilt, Nodes
<1>7. CASE UNCHANGED managerVars
  <2>1. ASSUME GraphPart PROVE GraphPart'
    BY <1>7, <2>1, GraphPartKept DEF managerVars, graphVars
  <2>2. WeightsNotNegative' = WeightsNotNegative
    BY <1>7 DEF managerVars, graphVars, WeightsNotNegative, GraphBuilt
  <2> QED
    BY <1>7, <2>1, <2>2 DEF managerVars, graphVars, ManagerInv, GraphBuilt, Nodes
<1> QED
  BY <1>1, <1>2, <1>3, <1>4, <1>5, <1>6, <1>7 DEF ManagerNext

LEMMA ManagerInvGivesType == TypeOK /\ NumberInv /\ ManagerInv => ManagerTypeOK
<1> SUFFICES ASSUME TypeOK, NumberInv, ManagerInv PROVE ManagerTypeOK
  OBVIOUS
<1>1. current_node \in Nat
  BY CountIsNat
<1>2. ASSUME graph_ # NoGraph
      PROVE  /\ graph_.vertex_count = current_node
             /\ \A id \in EdgeIds(graph_) :
                  /\ graph_.edges[id].from \in Vertices(graph_)
                  /\ graph_.edges[id].to \in Vertices(graph_)
                  /\ graph_.edges[id].weight \in WeightWithSpan
  <2>1. GraphPart
    BY <1>2 DEF ManagerInv
  <2>2. graph_.vertex_count = current_node /\ Vertices(graph_) = Nodes
    BY <2>1 DEF GraphPart, Vertices, Nodes
  <2>3. \A id \in EdgeIds(graph_) : graph_.edges[id] \in Edges
    BY <2>1 DEF GraphPart, EdgeIds
  <2> QED
    BY <2>2, <2>3 DEF Edges
<1> QED
  BY <1>1, <1>2 DEF ManagerTypeOK, ManagerInv, NumberInv, Nodes

\* What every state of InitializeRouter satisfies.
LEMMA ManagerInvariant ==
  ManagerSpec => [](/\ TypeOK /\ NumberInv /\ IndexHoldsRequests
                    /\ StopsKnownOnceMentioned /\ DeclaredDistancesWin /\ ManagerInv)
<1>1. ManagerSpec => [](TypeOK /\ IndexHoldsRequests /\ StopsKnownOnceMentioned
                          /\ DeclaredDistancesWin)
  BY ManagerIsCatalogue, TypeCorrect, IndexInvariant, StopsKnownAlways,
     DeclaredDistancesWinAlways, PTL
<1> QED
  BY <1>1, NumberInvInit, NumberInvStep, ManagerInvInit, ManagerInvStep, PTL
  DEF ManagerSpec

\* The indices, the counter and the graph keep their types, and an edge joins
\* vertices of the graph, for any requests and any order of the loops.
THEOREM ManagerTypeAlways == ManagerSpec => []ManagerTypeOK
  BY ManagerInvariant, ManagerInvGivesType, PTL

-----------------------------------------------------------------------------
(***************************************************************************)
(* What the edges join, read back through reverse_index_.                  *)
(***************************************************************************)
Start(e) == reverse_index_[e.from]

Finish(e) == reverse_index_[e.to]

AtStop(s, t) == [name |-> s, type |-> t]

IsWait(e, r) ==
  \E s \in Route(r) :
    e = Boarding(s) /\ Start(e) = AtStop(s, "WAIT") /\ Finish(e) = AtStop(s, "BUS")

IsRide(e, r) ==
  \E run \in Runs(r) : \E p \in Pairs(Len(run)) :
    /\ e = Ride(run, PartialSums(run), r.name, p[1], p[2])
    /\ Start(e) = AtStop(run[p[1]], "BUS") /\ Finish(e) = AtStop(run[p[2]], "WAIT")

LEMMA PairsFacts ==
  ASSUME NEW n \in Nat, NEW p \in Pairs(n)
  PROVE  p[1] \in 1 .. n /\ p[2] \in 1 .. n /\ p[1] < p[2]
BY DEF Pairs

LEMMA RunsFacts ==
  ASSUME NEW S, NEW r, r.stops \in Seq(S), NEW run \in Runs(r)
  PROVE  run \in Seq(S)
<1>1. Reverse(r.stops) \in Seq(S)
  BY DEF Reverse
<1> QED
  BY <1>1 DEF Runs

LEMMA RideEnds ==
  ASSUME TypeOK, NumberInv, IndexHoldsRequests, StopsKnownOnceMentioned,
         pc \in {"buses", "ready", "aborted"}, NEW b \in Buses, NEW run \in Runs(bus_index_[b]),
         NEW p \in Pairs(Len(run)), NEW sums, NEW route
  PROVE  /\ Start(Ride(run, sums, route, p[1], p[2])) = AtStop(run[p[1]], "BUS")
         /\ Finish(Ride(run, sums, route, p[1], p[2])) = AtStop(run[p[2]], "WAIT")
<1>1. run \in Seq(stop_index_) /\ Len(run) \in Nat
  BY BusesAreKnown, RunsFacts
<1>2. p[1] \in 1 .. Len(run) /\ p[2] \in 1 .. Len(run)
  BY <1>1, PairsFacts
<1>3. run[p[1]] \in stop_index_ /\ run[p[2]] \in stop_index_
  BY <1>1, <1>2
<1>4. \A s \in stop_index_, t \in NodeType :
        reverse_index_[index_[s][t]] = AtStop(s, t)
  BY DEF NumberInv, Visited, Numbered, TypeOK, AtStop
<1> QED
  BY <1>3, <1>4 DEF Ride, Start, Finish, NodeType

LEMMA EdgeKinds ==
  ASSUME TypeOK, NumberInv, IndexHoldsRequests, StopsKnownOnceMentioned,
         pc \in {"buses", "ready", "aborted"}, NEW b \in Buses, NEW e
  PROVE  e \in EdgeSet(bus_index_[b])
           <=> IsWait(e, bus_index_[b]) \/ IsRide(e, bus_index_[b])
<1> DEFINE r == bus_index_[b]
<1>1. r.stops \in Seq(stop_index_)
  BY BusesAreKnown
<1>2. \A s \in stop_index_, t \in NodeType :
        reverse_index_[index_[s][t]] = AtStop(s, t)
  BY DEF NumberInv, Visited, Numbered, TypeOK, AtStop
<1> HIDE DEF r
<1>3. e \in EdgeSet(r)
        <=> \/ \E s \in Route(r) : e = Boarding(s)
            \/ \E run \in Runs(r) : \E p \in Pairs(Len(run)) :
                 e = Ride(run, PartialSums(run), r.name, p[1], p[2])
  <2>1. CASE r.type = "Linear"
    <3>1. Runs(r) = {r.stops, Reverse(r.stops)}
      BY <2>1 DEF Runs
    <3>2. EdgeSet(r) = {Boarding(s) : s \in Route(r)} \cup RideSet(r.stops, r.name)
                         \cup RideSet(Reverse(r.stops), r.name)
      BY <2>1 DEF EdgeSet
    <3> QED
      BY <3>1, <3>2 DEF RideSet
  <2>2. CASE r.type # "Linear"
    <3>1. Runs(r) = {r.stops}
      BY <2>2 DEF Runs
    <3>2. EdgeSet(r) = {Boarding(s) : s \in Route(r)} \cup RideSet(r.stops, r.name)
      BY <2>2 DEF EdgeSet
    <3> QED
      BY <3>1, <3>2 DEF RideSet
  <2> QED
    BY <2>1, <2>2
<1>4. ASSUME NEW s \in Route(r), e = Boarding(s)
      PROVE  IsWait(e, r)
  <2>1. s \in stop_index_
    BY <1>1 DEF Route
  <2>2. Start(e) = AtStop(s, "WAIT") /\ Finish(e) = AtStop(s, "BUS")
    BY <1>2, <1>4, <2>1 DEF Boarding, Start, Finish, NodeType
  <2> QED
    BY <1>4, <2>2 DEF IsWait
<1>5. ASSUME NEW run \in Runs(r), NEW p \in Pairs(Len(run)),
             e = Ride(run, PartialSums(run), r.name, p[1], p[2])
      PROVE  IsRide(e, r)
  BY <1>5, RideEnds DEF IsRide, r
<1> QED
  BY <1>3, <1>4, <1>5 DEF IsWait, IsRide, r

\* A built graph holds the waits and the rides of the buses, and nothing else.
LEMMA BuiltGraph ==
  ASSUME TypeOK, NumberInv, IndexHoldsRequests, StopsKnownOnceMentioned, ManagerInv,
         GraphBuilt, NEW e
  PROVE  e \in Elements(graph_.edges)
           <=> \E b \in Buses : IsWait(e, bus_index_[b]) \/ IsRide(e, bus_index_[b])
<1>1. pc \in {"ready", "aborted"} /\ unvisited = {} /\ GraphPart
  BY DEF GraphBuilt, ManagerInv
<1>2. Elements(graph_.edges) = UNION {EdgeSet(bus_index_[b]) : b \in Buses}
  BY <1>1 DEF GraphPart
<1>3. e \in Elements(graph_.edges) <=> \E b \in Buses : e \in EdgeSet(bus_index_[b])
  BY <1>2
<1>4. \A b \in Buses : e \in EdgeSet(bus_index_[b])
                         <=> IsWait(e, bus_index_[b]) \/ IsRide(e, bus_index_[b])
  BY <1>1, EdgeKinds
<1> QED
  BY <1>3, <1>4

LEMMA WaitsBeforeRides ==
  ASSUME TypeOK, NumberInv, IndexHoldsRequests, StopsKnownOnceMentioned, ManagerInv
  PROVE  NoRideWithoutWaiting
<1> DEFINE edge(id) == graph_.edges[id]
<1> SUFFICES ASSUME GraphBuilt PROVE NoRideWithoutWaiting
  BY DEF NoRideWithoutWaiting
<1>1. ASSUME NEW id \in EdgeIds(graph_)
      PROVE  \E b \in Buses : \/ IsWait(edge(id), bus_index_[b])
                              \/ IsRide(edge(id), bus_index_[b])
  <2>1. edge(id) \in Elements(graph_.edges)
    BY DEF Elements, EdgeIds
  <2> QED
    BY <2>1, BuiltGraph
<1>2. ASSUME NEW b \in Buses, NEW s \in Route(bus_index_[b])
      PROVE  \E id \in EdgesFromTo("WAIT", "BUS") : reverse_index_[edge(id).from].name = s
  <2> DEFINE e == Boarding(s)
  <2>1. e \in EdgeSet(bus_index_[b]) 
    BY DEF EdgeSet
  <2>2. pc \in {"buses", "ready", "aborted"}
    BY DEF GraphBuilt
  <2>3. IsWait(e, bus_index_[b]) \/ IsRide(e, bus_index_[b])
    BY <2>1, <2>2, EdgeKinds
  <2>4. e \in Elements(graph_.edges)
    BY <2>3, BuiltGraph
  <2>5. PICK id \in EdgeIds(graph_) : edge(id) = e
    BY <2>4 DEF Elements, EdgeIds
  <2>6. s \in stop_index_
    BY BusesAreKnown DEF Route
  <2>7. Start(e) = AtStop(s, "WAIT") /\ Finish(e) = AtStop(s, "BUS")
    BY <2>2, <2>6 DEF NumberInv, Visited, Numbered, TypeOK, AtStop, Boarding, NodeType,
                      Start, Finish
  <2> HIDE DEF e
  <2> QED
    BY <2>5, <2>7 DEF EdgesFromTo, Start, Finish, AtStop
<1> HIDE DEF edge
<1>3. ASSUME NEW id \in EdgeIds(graph_)
      PROVE  \/ /\ id \in EdgesFromTo("BUS", "WAIT")
                /\ id \notin EdgesFromTo("WAIT", "BUS")
                /\ id \notin EdgesFromTo("WAIT", "WAIT")
                /\ id \notin EdgesFromTo("BUS", "BUS")
             \/ /\ id \notin EdgesFromTo("WAIT", "WAIT")
                /\ id \notin EdgesFromTo("BUS", "BUS")
                /\ reverse_index_[edge(id).from].name = reverse_index_[edge(id).to].name
                /\ edge(id).weight.time = wait_time_
                /\ \E b \in Buses :
                     reverse_index_[edge(id).from].name \in Route(bus_index_[b])
  <2>1. PICK b \in Buses : \/ IsWait(edge(id), bus_index_[b])
                           \/ IsRide(edge(id), bus_index_[b])
    BY <1>1
  <2>2. CASE IsWait(edge(id), bus_index_[b])
    <3>1. PICK s \in Route(bus_index_[b]) :
            /\ edge(id) = Boarding(s)
            /\ Start(edge(id)) = AtStop(s, "WAIT")
            /\ Finish(edge(id)) = AtStop(s, "BUS")
      BY <2>2 DEF IsWait
    <3>2. Boarding(s).weight.time = wait_time_
      BY DEF Boarding
    <3>3. edge(id).weight.time = wait_time_
      BY <3>1, <3>2
    <3> QED
      BY <3>1, <3>3 DEF Start, Finish, AtStop, EdgesFromTo, edge
  <2>3. CASE IsRide(edge(id), bus_index_[b])
    BY <2>3 DEF IsRide, Start, Finish, AtStop, EdgesFromTo, edge
  <2> QED
    BY <2>1, <2>2, <2>3
<1>4. EdgesFromTo("BUS", "BUS") = {} /\ EdgesFromTo("WAIT", "WAIT") = {}
  <2>1. \A t, u : EdgesFromTo(t, u) \subseteq EdgeIds(graph_)
    BY DEF EdgesFromTo
  <2> QED
    BY <1>3, <2>1
<1>5. ASSUME NEW id \in EdgesFromTo("WAIT", "BUS")
      PROVE  /\ reverse_index_[edge(id).from].name = reverse_index_[edge(id).to].name
             /\ edge(id).weight.time = wait_time_
             /\ \E b \in Buses : reverse_index_[edge(id).from].name \in Route(bus_index_[b])
  <2>1. id \in EdgeIds(graph_)
    BY DEF EdgesFromTo
  <2> QED
    BY <1>3, <2>1
<1> DEFINE called == UNION {Route(r) : r \in {bus_index_[b] : b \in BusName} \ {NoBus}}
<1>6. \A s : s \in called <=> \E b \in Buses : s \in Route(bus_index_[b])
  BY DEF Buses
<1>7. {reverse_index_[edge(id).from].name : id \in EdgesFromTo("WAIT", "BUS")} = called
  <2> HIDE DEF called
  <2>1. ASSUME NEW id \in EdgesFromTo("WAIT", "BUS")
        PROVE  reverse_index_[edge(id).from].name \in called
    BY <1>5, <1>6
  <2>2. ASSUME NEW s \in called
        PROVE  \E id \in EdgesFromTo("WAIT", "BUS") : s = reverse_index_[edge(id).from].name
    <3>1. PICK b \in Buses : s \in Route(bus_index_[b])
      BY <1>6
    <3> QED
      BY <1>2, <3>1 DEF edge
  <2> QED
    BY <2>1, <2>2
<1> HIDE DEF called
<1> QED
  BY <1>4, <1>5, <1>7 DEF NoRideWithoutWaiting, edge, called

\* Whatever the catalogue and the order of the loops, a ride is only ever boarded
\* by waiting at its own stop, once, and every stop a bus calls at has its wait
\* (AddAllEdges).
THEOREM RidesNeedTheirWait == ManagerSpec => []NoRideWithoutWaiting
  BY ManagerInvariant, WaitsBeforeRides, PTL

-----------------------------------------------------------------------------
(***************************************************************************)
(* The rides of the graph and those of the timetable.  Partial sums are    *)
(* subtracted: a road of unknown length would spoil every ride after it,   *)
(* so the rides are only those of the timetable where there is none.       *)
(***************************************************************************)
RoadsAreKnown ==
  \A b \in Buses : \A run \in Runs(bus_index_[b]) : \A k \in 1 .. Len(run) - 1 :
    Road(run[k], run[k + 1]) # NaN

LEMMA DeclaredType ==
  ASSUME NEW a, NEW b
  PROVE  Declared(a, b) \subseteq Nat
BY StopRequestAssumption DEF Declared, StopRequests

\* What one request declares for a road is one length.
LEMMA DeclaredOnce ==
  ASSUME NoRepeatedStop, NEW a, NEW b,
         NEW x \in Declared(a, b), NEW y \in Declared(a, b)
  PROVE  x = y
<1>1. \A q, r \in StopRequests(a) : q = r
  BY DEF StopRequests, NoRepeatedStop
<1> QED
  BY <1>1 DEF Declared

LEMMA PlaceIsPosition ==
  ASSUME StopsKnownOnceMentioned, NoRepeatedStop, NEW s \in StopName
  PROVE  place_[s] = Position(s)
<1>1. CASE StopRequests(s) = {}
  BY <1>1 DEF StopsKnownOnceMentioned, Position
<1>2. CASE StopRequests(s) # {}
  <2>1. \A q, r \in StopRequests(s) : q = r
    BY DEF StopRequests, NoRepeatedStop
  <2>2. PICK r \in StopRequests(s) : place_[s] = r.pos
    BY <1>2 DEF StopsKnownOnceMentioned
  <2>3. r = CHOOSE q \in StopRequests(s) : TRUE
    BY <2>1, <2>2
  <2> QED
    BY <1>2, <2>2, <2>3 DEF Position
<1> QED
  BY <1>1, <1>2

\* What AddEdgesHelper looks up for two stops is the road the requests ask for.
LEMMA RouteDistanceIsRoad ==
  ASSUME TypeOK, StopsKnownOnceMentioned, DeclaredDistancesWin, NoRepeatedStop,
         NEW a \in StopName, NEW b \in StopName
  PROVE  RouteDistance(a, b) = Road(a, b)
<1>1. /\ NoDist \notin Nat
      /\ Declared(a, b) \subseteq Nat /\ Declared(b, a) \subseteq Nat
  BY SentinelAssumption, DeclaredType
<1>2. CASE Declared(a, b) # {}
  <2>1. distances_[a][b] \in Declared(a, b)
    BY <1>2 DEF DeclaredDistancesWin
  <2>2. Road(a, b) \in Declared(a, b)
    BY <1>2 DEF Road
  <2>3. RouteDistance(a, b) = distances_[a][b]
    BY <1>1, <2>1 DEF RouteDistance
  <2> QED
    BY <2>1, <2>2, <2>3, DeclaredOnce
<1>3. CASE Declared(a, b) = {} /\ Declared(b, a) # {}
  <2>1. distances_[a][b] \in Declared(b, a)
    BY <1>3 DEF DeclaredDistancesWin
  <2>2. Road(a, b) \in Declared(b, a)
    BY <1>3 DEF Road
  <2>3. RouteDistance(a, b) = distances_[a][b]
    BY <1>1, <2>1 DEF RouteDistance
  <2> QED
    BY <2>1, <2>2, <2>3, DeclaredOnce
<1>4. CASE Declared(a, b) = {} /\ Declared(b, a) = {}
  <2>1. distances_[a][b] = NoDist
    BY <1>4 DEF DeclaredDistancesWin
  <2>2. place_[a] = Position(a) /\ place_[b] = Position(b)
    BY PlaceIsPosition
  <2> QED
    BY <1>4, <2>1, <2>2 DEF RouteDistance, Road, Flight
<1> QED
  BY <1>2, <1>3, <1>4

\* Without a hop of unknown length every partial sum is a number.
LEMMA SumsAreKnown ==
  ASSUME TypeOK, NEW run \in Seq(StopName), run # << >>,
         \A k \in 1 .. Len(run) - 1 : RouteDistance(run[k], run[k + 1]) # NaN
  PROVE  \A m \in 1 .. Len(run) : PartialSums(run)[m] \in Nat
<1> DEFINE n == Len(run)
           sums == PartialSums(run)
<1>1. n \in Nat /\ \A k \in 1 .. n : run[k] \in StopName
  OBVIOUS
<1>2. \A k \in 1 .. n - 1 :
        /\ RouteDistance(run[k], run[k + 1]) \in Nat
        /\ sums[k + 1] = Plus(sums[k], RouteDistance(run[k], run[k + 1]))
  <2> TAKE k \in 1 .. n - 1
  <2>1. run[k] \in StopName /\ run[k + 1] \in StopName
    BY <1>1
  <2>2. RouteDistance(run[k], run[k + 1]) \in Length
    BY <2>1, RouteDistanceType
  <2>3. sums[k + 1] = Plus(sums[k], RouteDistance(run[k], run[k + 1]))
    BY <1>1, PartialSumsFacts
  <2> QED
    BY <2>2, <2>3 DEF Length
<1>3. sums[1] = 0
  BY <1>1, PartialSumsFacts
<1> HIDE DEF sums, n
<1> DEFINE Known == {m \in Nat : m \in 1 .. n => sums[m] \in Nat}
<1>4. 0 \in Known
  OBVIOUS
<1>5. \A m \in Nat : m \in Known => m + 1 \in Known
  <2> SUFFICES ASSUME NEW m \in Nat, m \in Known, m + 1 \in 1 .. n
               PROVE  sums[m + 1] \in Nat
    OBVIOUS
  <2>1. CASE m = 0
    BY <1>3, <2>1
  <2>2. CASE m # 0
    <3>1. m \in 1 .. n - 1 /\ m \in 1 .. n
      BY <1>1, <2>2
    <3>2. sums[m] \in Nat
      BY <3>1
    <3> QED
      BY <1>2, <3>1, <3>2, GeometryAssumption DEF Plus
  <2> QED
    BY <2>1, <2>2
<1> HIDE DEF Known
<1>6. Nat \subseteq Known
  BY <1>4, <1>5, StepByStep
<1>7. \A m \in 1 .. n : sums[m] \in Nat
  BY <1>1, <1>6 DEF Known
<1> QED
  BY <1>7 DEF n, sums

\* The difference of two partial sums is the length of the stretch in between.
LEMMA TotalIsDifference ==
  ASSUME TypeOK, StopsKnownOnceMentioned, DeclaredDistancesWin, NoRepeatedStop,
         NEW run \in Seq(StopName),
         \A k \in 1 .. Len(run) - 1 : Road(run[k], run[k + 1]) # NaN,
         NEW i \in 1 .. Len(run), NEW j \in 1 .. Len(run), i < j
  PROVE  Total(Road, run, i, j) = Minus(PartialSums(run)[j], PartialSums(run)[i])
<1> DEFINE n == Len(run)
           sums == PartialSums(run)
           steps == [k \in i .. j - 1 |-> Road(run[k], run[k + 1])]
           road(k) == steps[k - 1]
           Built(f) == f = [k \in 0 .. j |-> IF k <= i THEN 0 ELSE f[k - 1] + road(k)]
           total == CHOOSE f : Built(f)
           stretch == [k \in 0 .. j |-> IF k <= i THEN 0 ELSE sums[k] - sums[i]]
<1>1. n \in Nat /\ run # << >> /\ i \in 1 .. n /\ j \in 1 .. n /\ i < j
      /\ \A k \in 1 .. n : run[k] \in StopName
  OBVIOUS
<1>2. Total(Road, run, i, j) = total[j]
  <2>1. ~ \E k \in i .. j - 1 : steps[k] = NaN
    <3>1. \A k \in i .. j - 1 : k \in 1 .. n - 1
      BY <1>1
    <3> QED
      BY <3>1
  <2>2. Total(Road, run, i, j) = Along(steps, i, j)
    BY DEF Total
  <2>3. Along(steps, i, j) = total[j]
    BY <2>1 DEF Along
  <2> QED
    BY <2>2, <2>3
<1>3. \A k \in 1 .. n - 1 :
        /\ Road(run[k], run[k + 1]) \in Nat
        /\ sums[k + 1] = Plus(sums[k], Road(run[k], run[k + 1]))
  <2> TAKE k \in 1 .. n - 1
  <2>1. run[k] \in StopName /\ run[k + 1] \in StopName
    BY <1>1
  <2>2. Road(run[k], run[k + 1]) = RouteDistance(run[k], run[k + 1])
    BY <2>1, RouteDistanceIsRoad
  <2>3. Road(run[k], run[k + 1]) \in Length
    BY <2>1, <2>2, RouteDistanceType
  <2>4. sums[k + 1] = Plus(sums[k], RouteDistance(run[k], run[k + 1]))
    BY <1>1, PartialSumsFacts
  <2> QED
    BY <2>2, <2>3, <2>4 DEF Length
<1>4. sums[1] = 0
  BY <1>1, PartialSumsFacts
<1> HIDE DEF sums, n, total
<1>5. \A m \in 1 .. n : sums[m] \in Nat
  <2>1. \A k \in 1 .. n - 1 : RouteDistance(run[k], run[k + 1]) # NaN
    BY <1>1, RouteDistanceIsRoad DEF n
  <2> QED
    BY <1>1, <2>1, SumsAreKnown DEF n, sums
<1>6. \A k \in i + 1 .. j : road(k) \in Nat /\ sums[k] = sums[k - 1] + road(k)
  <2> TAKE k \in i + 1 .. j
  <2>1. PICK m : m = k - 1
    OBVIOUS
  <2>2. /\ m \in 1 .. n - 1 /\ m + 1 = k /\ m \in 1 .. n /\ m \in i .. j - 1
        /\ road(k) = Road(run[m], run[m + 1])
    BY <1>1, <2>1
  <2>3. Road(run[m], run[k]) \in Nat /\ sums[k] = Plus(sums[m], Road(run[m], run[k]))
    BY <1>3, <2>2
  <2>4. sums[m] \in Nat /\ NaN \notin Nat
    BY <1>5, <2>2, GeometryAssumption
  <2> QED
    BY <2>1, <2>3, <2>4 DEF Plus
<1> HIDE DEF road
<1>7. Built(stretch)
  <2>1. ASSUME NEW k \in 0 .. j
        PROVE  stretch[k] = IF k <= i THEN 0 ELSE stretch[k - 1] + road(k)
    <3>1. CASE k <= i
      BY <3>1
    <3>2. CASE ~ (k <= i)
      <4>1. k \in i + 1 .. j /\ k \in 1 .. n /\ k - 1 \in 1 .. n /\ k - 1 \in 0 .. j
            /\ i \in 1 .. n
        BY <1>1, <3>2
      <4>2. road(k) \in Nat /\ sums[k] \in Nat /\ sums[k - 1] \in Nat /\ sums[i] \in Nat
            /\ sums[k] = sums[k - 1] + road(k)
        BY <1>5, <1>6, <4>1
      <4>3. stretch[k - 1] = sums[k - 1] - sums[i]
        <5>1. CASE k - 1 <= i
          <6>1. k - 1 = i
            BY <3>2, <5>1
          <6> QED
            BY <4>1, <4>2, <6>1
        <5>2. CASE ~ (k - 1 <= i)
          BY <4>1, <5>2
        <5> QED
          BY <5>1, <5>2
      <4>4. stretch[k] = sums[k] - sums[i]
        BY <3>2
      <4> HIDE DEF stretch
      <4> QED
        BY <3>2, <4>2, <4>3, <4>4
    <3> QED
      BY <3>1, <3>2
  <2> QED
    BY <2>1
<1>8. Built(total)
  BY <1>7 DEF total
<1> HIDE DEF stretch
<1> DEFINE Equal == {m \in Nat : i + m <= j => total[i + m] = sums[i + m] - sums[i]}
<1>9. 0 \in Equal
  <2>1. i + 0 = i /\ i \in 0 .. j /\ i <= i /\ sums[i] \in Nat
    BY <1>1, <1>5
  <2>2. total[i] = 0
    BY <1>8, <2>1
  <2> QED
    BY <2>1, <2>2
<1>10. ASSUME NEW m \in Nat, m \in Equal
       PROVE  m + 1 \in Equal
  <2> SUFFICES ASSUME i + (m + 1) <= j
               PROVE  total[i + (m + 1)] = sums[i + (m + 1)] - sums[i]
    OBVIOUS
  <2>1. PICK k : k = i + (m + 1)
    OBVIOUS
  <2>2. /\ k \in 0 .. j /\ k \in i + 1 .. j /\ ~ (k <= i) /\ k - 1 = i + m /\ i + m <= j
        /\ k \in 1 .. n /\ k - 1 \in 1 .. n /\ i \in 1 .. n
    BY <1>1, <2>1
  <2>3. total[k - 1] = sums[k - 1] - sums[i]
    BY <1>10, <2>2
  <2>4. total[k] = total[k - 1] + road(k)
    BY <1>8, <2>2
  <2>5. sums[k] \in Nat /\ sums[k - 1] \in Nat /\ sums[i] \in Nat /\ road(k) \in Nat
        /\ sums[k] = sums[k - 1] + road(k)
    BY <1>5, <1>6, <2>2
  <2> QED
    BY <2>1, <2>3, <2>4, <2>5
<1> HIDE DEF Equal
<1>11. total[j] = sums[j] - sums[i]
  <2>1. j - i \in Nat /\ i + (j - i) = j /\ j <= j
    BY <1>1
  <2>2. j - i \in Equal
    BY <1>9, <1>10, <2>1, StepByStep
  <2> QED
    BY <2>1, <2>2 DEF Equal
<1>12. Minus(sums[j], sums[i]) = sums[j] - sums[i]
  BY <1>1, <1>5, GeometryAssumption DEF Minus
<1> QED
  BY <1>2, <1>11, <1>12 DEF sums

\* A ride as it is shown: the names of its stops, and its weight.
Shown(e) == [from |-> Start(e).name, to |-> Finish(e).name, weight |-> e.weight]

Planned(r, run, i, j) ==
  [from |-> run[i], to |-> run[j],
   weight |-> [time |-> Over(Total(Road, run, i, j)), span |-> j - i,
               route |-> r.name]]

LEMMA RideShown ==
  ASSUME TypeOK, NumberInv, IndexHoldsRequests, StopsKnownOnceMentioned,
         DeclaredDistancesWin, NoRepeatedStop, RoadsAreKnown,
         pc \in {"buses", "ready", "aborted"},
         NEW b \in Buses, NEW run \in Runs(bus_index_[b]), NEW p \in Pairs(Len(run))
  PROVE  Shown(Ride(run, PartialSums(run), b, p[1], p[2]))
           = Planned(bus_index_[b], run, p[1], p[2])
<1> DEFINE r == bus_index_[b]
           e == Ride(run, PartialSums(run), b, p[1], p[2])
<1>1. r \in done \cap AddBusRequest /\ r.name = b /\ run \in Seq(stop_index_)
  BY BusesAreKnown, RunsFacts
<1>2. run \in Seq(StopName) /\ Len(run) \in Nat
  BY <1>1 DEF TypeOK
<1>3. p[1] \in 1 .. Len(run) /\ p[2] \in 1 .. Len(run) /\ p[1] < p[2]
  BY <1>2, PairsFacts
<1>4. \A k \in 1 .. Len(run) - 1 : Road(run[k], run[k + 1]) # NaN
  BY <1>1 DEF RoadsAreKnown
<1>5. Total(Road, run, p[1], p[2]) = Minus(PartialSums(run)[p[2]], PartialSums(run)[p[1]])
  BY <1>2, <1>3, <1>4, TotalIsDifference
<1>6. Start(e) = AtStop(run[p[1]], "BUS") /\ Finish(e) = AtStop(run[p[2]], "WAIT")
  BY RideEnds
<1>7. e.weight = [time |-> Over(Total(Road, run, p[1], p[2])), span |-> p[2] - p[1],
                  route |-> b]
  BY <1>5 DEF Ride
<1> HIDE DEF e
<1>8. Shown(e) = Planned(r, run, p[1], p[2])
  BY <1>1, <1>6, <1>7 DEF Shown, Planned, AtStop
<1> QED
  BY <1>8 DEF e

\* The buses that are kept are those whose edges were added.
LEMMA RunningBuses ==
  ASSUME TypeOK, IndexHoldsRequests, NEW r
  PROVE  r \in done \cap AddBusRequest /\ bus_index_[r.name] = r
           <=> \E b \in Buses : r = bus_index_[b]
<1>1. ASSUME r \in done \cap AddBusRequest, bus_index_[r.name] = r
      PROVE  \E b \in Buses : r = bus_index_[b]
  <2>1. r.name \in BusName /\ r # NoBus
    BY <1>1, BusRequestAssumption, SentinelAssumption
  <2> QED
    BY <1>1, <2>1 DEF Buses
<1>2. ASSUME NEW b \in Buses, r = bus_index_[b]
      PROVE  r \in done \cap AddBusRequest /\ bus_index_[r.name] = r
  BY <1>2 DEF Buses, IndexHoldsRequests, BusRequests
<1> QED
  BY <1>1, <1>2

LEMMA RidesOfFacts ==
  ASSUME NEW r, NEW x
  PROVE  x \in RidesOf(r)
           <=> \E run \in Runs(r) : \E p \in Pairs(Len(run)) :
                 x = Planned(r, run, p[1], p[2])
BY DEF RidesOf, Planned, Pairs

LEMMA RidesAreKept ==
  ASSUME TypeOK, NumberInv, IndexHoldsRequests, StopsKnownOnceMentioned,
         DeclaredDistancesWin, ManagerInv, RoadsAreKnown
  PROVE  RidesAreTheTimetable
<1> SUFFICES ASSUME GraphBuilt, NoRepeatedStop PROVE RidesAreTheTimetable
  BY DEF RidesAreTheTimetable
<1> DEFINE edge(id) == graph_.edges[id]
           shown == {Shown(edge(id)) : id \in EdgesFromTo("BUS", "WAIT")}
           running == {r \in done \cap AddBusRequest : bus_index_[r.name] = r}
<1>1. pc \in {"buses", "ready", "aborted"}
  BY DEF GraphBuilt
<1>2. ASSUME NEW x \in shown
      PROVE  x \in Timetable(running)
  <2>1. PICK id \in EdgesFromTo("BUS", "WAIT") : x = Shown(edge(id))
    OBVIOUS
  <2>2. /\ id \in EdgeIds(graph_)
        /\ Start(edge(id)).type = "BUS"
    BY DEF EdgesFromTo, Start
  <2>3. edge(id) \in Elements(graph_.edges)
    BY <2>2 DEF Elements, EdgeIds
  <2>4. PICK b \in Buses : \/ IsWait(edge(id), bus_index_[b])
                           \/ IsRide(edge(id), bus_index_[b])
    BY <2>3, BuiltGraph
  <2> DEFINE r == bus_index_[b]
  <2> HIDE DEF edge
  <2>5. IsRide(edge(id), r)
    BY <2>2, <2>4 DEF IsWait, AtStop
  <2>6. PICK run \in Runs(r) : \E p \in Pairs(Len(run)) :
          edge(id) = Ride(run, PartialSums(run), r.name, p[1], p[2])
    BY <2>5 DEF IsRide
  <2>7. PICK p \in Pairs(Len(run)) :
          edge(id) = Ride(run, PartialSums(run), r.name, p[1], p[2])
    BY <2>6
  <2>8. r.name = b
    BY BusesAreKnown
  <2>9. x = Planned(r, run, p[1], p[2])
    BY <1>1, <2>1, <2>7, <2>8, RideShown
  <2>10. r \in running
    BY RunningBuses
  <2>11. x \in RidesOf(r)
    BY <2>9, RidesOfFacts
  <2> HIDE DEF r, running
  <2> QED
    BY <2>10, <2>11 DEF Timetable
<1>3. ASSUME NEW x \in Timetable(running)
      PROVE  x \in shown
  <2>1. PICK r \in running : x \in RidesOf(r)
    BY DEF Timetable
  <2>2. PICK b \in Buses : r = bus_index_[b]
    BY <2>1, RunningBuses
  <2>3. PICK run \in Runs(r) : \E p \in Pairs(Len(run)) : x = Planned(r, run, p[1], p[2])
    BY <2>1, RidesOfFacts
  <2>4. PICK p \in Pairs(Len(run)) : x = Planned(r, run, p[1], p[2])
    BY <2>3
  <2> DEFINE e == Ride(run, PartialSums(run), b, p[1], p[2])
  <2>5. r.name = b
    BY <2>2, BusesAreKnown
  <2>6. Start(e) = AtStop(run[p[1]], "BUS") /\ Finish(e) = AtStop(run[p[2]], "WAIT")
    BY <1>1, <2>2, RideEnds
  <2>7. x = Shown(e)
    BY <1>1, <2>2, <2>4, RideShown
  <2>8. IsRide(e, r)
    BY <2>5, <2>6 DEF IsRide
  <2>9. e \in Elements(graph_.edges)
    BY <2>2, <2>8, BuiltGraph
  <2>10. PICK id \in EdgeIds(graph_) : edge(id) = e
    BY <2>9 DEF Elements, EdgeIds
  <2> HIDE DEF e
  <2>11. id \in EdgesFromTo("BUS", "WAIT")
    BY <2>6, <2>10 DEF EdgesFromTo, Start, Finish, AtStop
  <2> QED
    BY <2>7, <2>10, <2>11
<1>4. shown = Timetable(running)
  <2> HIDE DEF shown, running
  <2> QED
    BY <1>2, <1>3, SetExtensionality
<1> QED
  BY <1>4 DEF RidesAreTheTimetable, Shown, Start, Finish

\* For any requests in any order, and any order of the loops, the rides of the
\* built graph are those of the timetable: every two stops of a bus in the
\* direction it travels, at the length of the stretch, and no others, as long as
\* the distance between any two stops that follow each other on it is a number.
THEOREM RidesAlwaysTheTimetable ==
  ManagerSpec => [](RoadsAreKnown => RidesAreTheTimetable)
<1>1. ASSUME TypeOK, NumberInv, IndexHoldsRequests, StopsKnownOnceMentioned,
             DeclaredDistancesWin, ManagerInv
      PROVE  RoadsAreKnown => RidesAreTheTimetable
  BY <1>1, RidesAreKept
<1> QED
  BY <1>1, ManagerInvariant, PTL

-----------------------------------------------------------------------------
(***************************************************************************)
(* What the router needs of the weights: when its assertion holds, and     *)
(* when it does not.                                                       *)
(***************************************************************************)
StretchTime(run, i, j) == Over(Minus(PartialSums(run)[j], PartialSums(run)[i]))

\* Stretches of steps that take a time take one, too.
LEMMA StretchNotNegative ==
  ASSUME TypeOK, NEW run \in Seq(StopName),
         \A k \in 1 .. Len(run) - 1 : NotNegative(StepTime(run, k)),
         NEW i \in 1 .. Len(run), NEW j \in 1 .. Len(run), i < j
  PROVE  NotNegative(StretchTime(run, i, j))
<1> DEFINE n == Len(run)
           sums == PartialSums(run)
           d(k) == RouteDistance(run[k], run[k + 1])
<1>1. n \in Nat /\ run # << >> /\ \A k \in 1 .. n : run[k] \in StopName
  OBVIOUS
<1>2. \A k \in 1 .. n - 1 :
        /\ d(k) \in Nat
        /\ velocity_ = 0 => d(k) # 0
        /\ velocity_ = -1 => d(k) = 0
        /\ sums[k + 1] = Plus(sums[k], d(k))
  <2> TAKE k \in 1 .. n - 1
  <2>1. run[k] \in StopName /\ run[k + 1] \in StopName
    BY <1>1
  <2>2. d(k) \in Length
    BY <2>1, RouteDistanceType
  <2>3. NotNegative(Over(d(k)))
    BY DEF StepTime
  <2>4. sums[k + 1] = Plus(sums[k], d(k))
    BY <1>1, PartialSumsFacts
  <2> HIDE DEF d, sums
  <2>5. /\ d(k) # NaN
        /\ velocity_ = 0 => d(k) # 0
        /\ velocity_ = -1 => d(k) = 0
    BY <2>2, <2>3, OverFacts
  <2> QED
    BY <2>2, <2>4, <2>5 DEF Length
<1>3. sums[1] = 0
  BY <1>1, PartialSumsFacts
<1>4. \A m \in 1 .. n : sums[m] \in Nat
  <2>1. \A k \in 1 .. n - 1 : d(k) # NaN
    BY <1>2, GeometryAssumption
  <2> QED
    BY <1>1, <2>1, SumsAreKnown
<1>5. /\ j - 1 \in 1 .. n /\ j - 1 \in 1 .. n - 1 /\ (j - 1) + 1 = j /\ i <= j - 1
  BY <1>1
<1>6. sums[i] <= sums[j - 1]
  <2>1. sums[j - 1] # NaN
    BY <1>4, <1>5, GeometryAssumption
  <2> QED
    BY <1>5, <2>1, SumsGrow
<1> HIDE DEF sums, n, d
<1>7. /\ \A k \in 1 .. n - 1 : sums[k + 1] = sums[k] + d(k)
      /\ Minus(sums[j], sums[i]) = sums[j] - sums[i]
  <2>1. \A k \in 1 .. n - 1 : k \in 1 .. n
    BY <1>1
  <2> QED
    BY <1>2, <1>4, <2>1, GeometryAssumption DEF Plus, Minus, n
<1>8. sums[j] = sums[j - 1] + d(j - 1) /\ d(j - 1) \in Nat
  BY <1>2, <1>5, <1>7
<1>9. sums[j] - sums[i] \in Nat
  BY <1>4, <1>5, <1>6, <1>8 DEF n
<1>10. velocity_ = 0 => sums[j] - sums[i] # 0
  BY <1>2, <1>4, <1>5, <1>6, <1>8 DEF n
<1>11. velocity_ = -1 => sums[j] - sums[i] = 0
  <2> SUFFICES ASSUME velocity_ = -1 PROVE sums[j] - sums[i] = 0
    OBVIOUS
  <2> DEFINE None == {m \in Nat : m \in 1 .. n => sums[m] = 0}
  <2>1. 0 \in None
    OBVIOUS
  <2>2. \A m \in Nat : m \in None => m + 1 \in None
    <3> SUFFICES ASSUME NEW m \in Nat, m \in None, m + 1 \in 1 .. n
                 PROVE  sums[m + 1] = 0
      OBVIOUS
    <3>1. CASE m = 0
      BY <1>3, <3>1
    <3>2. CASE m # 0
      <4>1. m \in 1 .. n - 1 /\ m \in 1 .. n
        BY <1>1, <3>2
      <4>2. sums[m] = 0 /\ d(m) = 0 /\ sums[m + 1] = sums[m] + d(m)
        BY <1>2, <1>7, <4>1
      <4> QED
        BY <4>2
    <3> QED
      BY <3>1, <3>2
  <2> HIDE DEF None
  <2>3. Nat \subseteq None
    BY <2>1, <2>2, StepByStep
  <2>4. sums[i] = 0 /\ sums[j] = 0
    <3>1. i \in Nat /\ j \in Nat /\ i \in 1 .. n /\ j \in 1 .. n
      BY <1>1 DEF n
    <3> QED
      BY <2>3, <3>1 DEF None
  <2> QED
    BY <2>4
<1>12. NotNegative(Over(sums[j] - sums[i]))
  <2>1. PICK x : x = sums[j] - sums[i]
    OBVIOUS
  <2>2. x \in Length /\ x # NaN
    BY <1>9, <2>1, GeometryAssumption DEF Length
  <2> QED
    BY <1>10, <1>11, <2>1, <2>2, OverFacts, SettingsAssumption
<1> QED
  BY <1>7, <1>12 DEF StretchTime, sums

\* The stretch from one stop to the next is that step.
LEMMA StepIsStretch ==
  ASSUME TypeOK, NEW run \in Seq(StopName), NEW k \in 1 .. Len(run) - 1,
         NotNegative(StretchTime(run, k, k + 1))
  PROVE  NotNegative(StepTime(run, k))
<1> DEFINE sums == PartialSums(run)
           d == RouteDistance(run[k], run[k + 1])
<1>1. run # << >> /\ k \in 1 .. Len(run) /\ k + 1 \in 1 .. Len(run)
  OBVIOUS
<1>2. run[k] \in StopName /\ run[k + 1] \in StopName
  BY <1>1
<1>3. d \in Length /\ sums[k] \in Length /\ sums[k + 1] = Plus(sums[k], d)
  BY <1>1, <1>2, RouteDistanceType, PartialSumsFacts
<1>4. NotNegative(Over(Minus(sums[k + 1], sums[k])))
  BY DEF StretchTime
<1> HIDE DEF sums, d
<1>5. sums[k + 1] # NaN /\ sums[k] # NaN
  BY <1>4 DEF Minus, Over, NotNegative
<1>6. Minus(sums[k + 1], sums[k]) = d
  <2>1. /\ sums[k] \in Nat /\ d \in Nat
        /\ sums[k + 1] = sums[k] + d
    BY <1>3, <1>5, PlusFacts
  <2> QED
    BY <1>5, <2>1 DEF Minus
<1> QED
  BY <1>4, <1>6 DEF StepTime, d

LEMMA WaitsAndSteps ==
  ASSUME TypeOK, NumberInv, IndexHoldsRequests, StopsKnownOnceMentioned, ManagerInv,
         GraphBuilt
  PROVE  WeightsNotNegative
           <=> (SomeBusCalls => wait_time_ >= 0) /\ StepsNotNegative
<1>1. pc \in {"buses", "ready", "aborted"}
  BY DEF GraphBuilt
<1>2. ASSUME NEW b \in Buses, NEW run \in Runs(bus_index_[b])
      PROVE  run \in Seq(StopName) /\ Len(run) \in Nat /\ bus_index_[b].name = b
  <2>1. run \in Seq(stop_index_)
    BY BusesAreKnown, RunsFacts
  <2> QED
    BY <2>1, BusesAreKnown DEF TypeOK
<1>3. ASSUME WeightsNotNegative, NEW e \in Elements(graph_.edges)
      PROVE  NotNegative(e.weight.time)
  <2>1. PICK id \in EdgeIds(graph_) : e = graph_.edges[id]
    BY <1>3 DEF Elements, EdgeIds
  <2> QED
    BY <1>3, <2>1 DEF WeightsNotNegative
<1>4. ASSUME WeightsNotNegative, SomeBusCalls
      PROVE  wait_time_ >= 0
  <2>1. PICK b \in Buses : Route(bus_index_[b]) # {}
    BY <1>4 DEF SomeBusCalls
  <2>2. PICK s \in Route(bus_index_[b]) : TRUE
    BY <2>1
  <2>3. Boarding(s) \in EdgeSet(bus_index_[b])
    BY DEF EdgeSet
  <2>4. Boarding(s) \in Elements(graph_.edges)
    BY <1>1, <2>3, EdgeKinds, BuiltGraph
  <2>5. Boarding(s).weight.time = wait_time_
    BY DEF Boarding
  <2>6. NotNegative(wait_time_)
    BY <1>3, <1>4, <2>4, <2>5
  <2> QED
    BY <2>6, SettingsAssumption DEF NotNegative
<1>5. ASSUME WeightsNotNegative
      PROVE  StepsNotNegative
  <2> SUFFICES ASSUME NEW b \in Buses, NEW run \in Runs(bus_index_[b]),
                      NEW k \in 1 .. Len(run) - 1
               PROVE  NotNegative(StepTime(run, k))
    BY DEF StepsNotNegative
  <2> DEFINE e == Ride(run, PartialSums(run), b, k, k + 1)
  <2>1. PICK p \in Pairs(Len(run)) : p[1] = k /\ p[2] = k + 1
    <3>1. <<k, k + 1>> \in Pairs(Len(run))
      BY <1>2 DEF Pairs
    <3>2. <<k, k + 1>>[1] = k /\ <<k, k + 1>>[2] = k + 1
      OBVIOUS
    <3> QED
      BY <3>1, <3>2
  <2>2. IsRide(e, bus_index_[b])
    BY <1>1, <1>2, <2>1, RideEnds DEF IsRide
  <2>3. e.weight.time = StretchTime(run, k, k + 1)
    BY DEF Ride, StretchTime
  <2> HIDE DEF e
  <2>4. e \in Elements(graph_.edges)
    BY <2>2, BuiltGraph
  <2>5. NotNegative(StretchTime(run, k, k + 1))
    BY <1>3, <1>5, <2>3, <2>4
  <2> QED
    BY <1>2, <2>5, StepIsStretch
<1>6. ASSUME SomeBusCalls => wait_time_ >= 0, StepsNotNegative
      PROVE  WeightsNotNegative
  <2> SUFFICES ASSUME NEW id \in EdgeIds(graph_)
               PROVE  NotNegative(graph_.edges[id].weight.time)
    BY DEF WeightsNotNegative
  <2> DEFINE e == graph_.edges[id]
  <2>1. PICK b \in Buses : IsWait(e, bus_index_[b]) \/ IsRide(e, bus_index_[b])
    <3>1. e \in Elements(graph_.edges)
      BY DEF Elements, EdgeIds
    <3> QED
      BY <3>1, BuiltGraph
  <2> DEFINE r == bus_index_[b]
  <2> HIDE DEF e
  <2>2. CASE IsWait(e, r)
    <3>1. PICK s \in Route(r) : e = Boarding(s)
      BY <2>2 DEF IsWait
    <3>2. Boarding(s).weight.time = wait_time_
      BY DEF Boarding
    <3>3. e.weight.time = wait_time_ /\ wait_time_ >= 0
      BY <1>6, <3>1, <3>2 DEF SomeBusCalls
    <3> QED
      BY <3>3, SettingsAssumption, GeometryAssumption DEF NotNegative, e
  <2>3. CASE IsRide(e, r)
    <3>1. PICK run \in Runs(r) : \E p \in Pairs(Len(run)) :
            e = Ride(run, PartialSums(run), r.name, p[1], p[2])
      BY <2>3 DEF IsRide
    <3>2. PICK p \in Pairs(Len(run)) : e = Ride(run, PartialSums(run), r.name, p[1], p[2])
      BY <3>1
    <3>3. p[1] \in 1 .. Len(run) /\ p[2] \in 1 .. Len(run) /\ p[1] < p[2]
      BY <1>2, PairsFacts
    <3>4. \A k \in 1 .. Len(run) - 1 : NotNegative(StepTime(run, k))
      BY <1>6 DEF StepsNotNegative
    <3>5. NotNegative(StretchTime(run, p[1], p[2]))
      BY <1>2, <3>3, <3>4, StretchNotNegative
    <3>6. e.weight.time = StretchTime(run, p[1], p[2])
      BY <3>2 DEF Ride, StretchTime
    <3> QED
      BY <3>5, <3>6 DEF e
  <2> QED
    BY <2>1, <2>2, <2>3
<1> QED
  BY <1>4, <1>5, <1>6

\* The router's assertion that no weight is negative holds of the graph the manager
\* built exactly if the wait time is not negative, or no bus calls anywhere, and
\* every length from a stop of a bus to its next, divided by the velocity, is a
\* time that is not negative.  For a positive velocity that is a length that is
\* not a NaN, for the velocity 0 one that is not 0 either, and for a negative
\* velocity one that is 0.
THEOREM WeightsNotNegativeExactlyIf == ManagerSpec => []AssertionHoldsExactlyIf
<1>1. ASSUME TypeOK, NumberInv, IndexHoldsRequests, StopsKnownOnceMentioned, ManagerInv
      PROVE  AssertionHoldsExactlyIf
  BY <1>1, WaitsAndSteps DEF AssertionHoldsExactlyIf
<1> QED
  BY <1>1, ManagerInvariant, PTL

=============================================================================
