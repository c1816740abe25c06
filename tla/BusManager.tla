----------------------------- MODULE BusManager -----------------------------
(***************************************************************************)
(* The catalogue of stops and buses (BusManager.h, BusManager.cpp): the    *)
(* class bus::BusManager with its StopRecords and BusRecords, as it is     *)
(* filled by the base requests, AddStop and AddBus, in whatever order the  *)
(* input lists them.                                                       *)
(*                                                                         *)
(* The records are never moved or erased, so a StopRecord is its name, and *)
(* a BusRecord is the request that made it.  std::string_view and          *)
(* std::weak_ptr do not own what they refer to: a view of a bus name is    *)
(* the BusRecord that owns the characters, and may outlive it.             *)
(***************************************************************************)
EXTENDS Requests

CONSTANTS
  NoDist,           \* std::nullopt of StopRecord::GetDist
  NoBus             \* a name bus_index_ does not hold

ASSUME SentinelAssumption ==
  /\ NoDist \notin Nat
  /\ NoBus \notin AddBusRequest

VARIABLES
  stop_index_,    \* stops that have a StopRecord
  place_,         \* StopRecord::place_
  initialized_,   \* StopRecord::initialized_
  buses_,         \* StopRecord::buses_, as the owners of the views
  distances_,     \* StopRecord::distances_
  bus_index_      \* the BusRecord of each bus name

stopVars == <<stop_index_, place_, initialized_, buses_, distances_>>
catalogue == <<stop_index_, place_, initialized_, buses_, distances_, bus_index_>>
vars == <<done, catalogue>>

\* Type correctness of the records: stops and buses refer to each other by names,
\* and a distance is a number or none.
TypeOK ==
  /\ done \subseteq AddStopRequest \cup AddBusRequest
  /\ stop_index_ \subseteq StopName
  /\ place_ \in [StopName -> Place]
  /\ initialized_ \in [StopName -> BOOLEAN]
  /\ buses_ \in [StopName -> SUBSET AddBusRequest]
  /\ distances_ \in [StopName -> [StopName -> Nat \cup {NoDist}]]
  /\ bus_index_ \in [BusName -> AddBusRequest \cup {NoBus}]

Init ==
  /\ done = {}
  /\ stop_index_ = {}
  /\ place_ = [s \in StopName |-> Origin]
  /\ initialized_ = [s \in StopName |-> FALSE]
  /\ buses_ = [s \in StopName |-> {}]
  /\ distances_ = [s \in StopName |-> [t \in StopName |-> NoDist]]
  /\ bus_index_ = [b \in BusName |-> NoBus]

-----------------------------------------------------------------------------
(***************************************************************************)
(* AddBus.  The shared_ptr of a record bus_index_ refuses, because it      *)
(* holds the name already, is the last one: the record dies when AddBus    *)
(* returns, and the views of its name that were put in the stops dangle.   *)
(***************************************************************************)
Alive(r) == bus_index_[r.name] = r

HasView(s, name) == \E v \in buses_[s] : v.name = name

Dangling(s) == \E v \in buses_[s] : ~ Alive(v)

\* Faulty variant: only the stops AddBus creates are told about the bus.
ViewsOfNewStops(r, inserts) ==
  [s \in StopName |-> IF s \in Route(r) \ stop_index_ THEN {r} ELSE buses_[s]]

\* buses_ is ordered by the characters of its views.  Where one of them
\* dangles the search compares freed memory: insert may or may not take place.
ViewsAfter(r, inserts) ==
  [s \in StopName |->
     IF s \in Route(r) /\ (IF Dangling(s) THEN s \in inserts
                                          ELSE ~ HasView(s, r.name))
       THEN buses_[s] \cup {r}
       ELSE buses_[s]]

\* Faulty variant: bus_index_[name] = record, where the code inserts.
IndexOverwritten(r) == [bus_index_ EXCEPT ![r.name] = r]

IndexAfter(r) ==
  IF bus_index_[r.name] = NoBus THEN [bus_index_ EXCEPT ![r.name] = r]
                                ELSE bus_index_

\* Faulty variant: the bus's name goes into the index of the stops.
AddBusAsStop(r) ==
  /\ r \in AddBusRequest \ done
  /\ done' = done \cup {r}
  /\ stop_index_' = stop_index_ \cup Route(r) \cup {r.name}
  /\ \E inserts \in SUBSET {s \in Route(r) : Dangling(s)} :
       buses_' = ViewsAfter(r, inserts)
  /\ UNCHANGED <<place_, initialized_, distances_, bus_index_>>

AddBus(r) ==
  /\ r \in AddBusRequest \ done
  /\ done' = done \cup {r}
  /\ stop_index_' = stop_index_ \cup Route(r)
  /\ \E inserts \in SUBSET {s \in Route(r) : Dangling(s)} :
       buses_' = ViewsAfter(r, inserts)
  /\ bus_index_' = IndexAfter(r)
  /\ UNCHANGED <<place_, initialized_, distances_>>

(***************************************************************************)
(* AddStop.  The declared distances replace what the stop had; the other   *)
(* end takes a distance over only if it has none (SetDistIfNotExist).      *)
(***************************************************************************)
\* Faulty variant: SetDist for both ends.
DistancesBothWays(r) ==
  [a \in StopName |-> [b \in StopName |->
     IF a = r.name /\ b \in DOMAIN r.dist THEN r.dist[b]
     ELSE IF b = r.name /\ a \in DOMAIN r.dist THEN r.dist[a]
                                              ELSE distances_[a][b]]]

DistancesAfter(r) ==
  [a \in StopName |-> [b \in StopName |->
     IF a = r.name /\ b \in DOMAIN r.dist THEN r.dist[b]
     ELSE IF b = r.name /\ a \in DOMAIN r.dist /\ distances_[a][b] = NoDist
            THEN r.dist[a]
            ELSE distances_[a][b]]]

\* Faulty variant: a stop a route already created keeps its record as it is.
AddStopIfNew(r) ==
  /\ r \in AddStopRequest \ done
  /\ done' = done \cup {r}
  /\ stop_index_' = stop_index_ \cup {r.name} \cup DOMAIN r.dist
  /\ IF r.name \in stop_index_
       THEN UNCHANGED <<place_, initialized_>>
       ELSE /\ place_' = [place_ EXCEPT ![r.name] = r.pos]
            /\ initialized_' = [initialized_ EXCEPT ![r.name] = TRUE]
  /\ distances_' = DistancesAfter(r)
  /\ UNCHANGED <<buses_, bus_index_>>

AddStop(r) ==
  /\ r \in AddStopRequest \ done
  /\ done' = done \cup {r}
  /\ stop_index_' = stop_index_ \cup {r.name} \cup DOMAIN r.dist
  /\ place_' = [place_ EXCEPT ![r.name] = r.pos]
  /\ initialized_' = [initialized_ EXCEPT ![r.name] = TRUE]
  /\ distances_' = DistancesAfter(r)
  /\ UNCHANGED <<buses_, bus_index_>>

Next ==
  \/ \E r \in AddBusRequest : AddBus(r)
  \/ \E r \in AddStopRequest : AddStop(r)

Spec == Init /\ [][Next]_vars

-----------------------------------------------------------------------------
\* A distance a stop declares for itself is never overruled by one its
\* neighbour declares for the way back, whichever request came first, and the
\* neighbour's is used when there is no other (BusManager.cpp, AddStop and
\* SetDistIfNotExist).  With one request per stop this makes the road
\* distances independent of the order of the input.
DeclaredDistancesWin ==
  \A a, b \in StopName :
    IF Declared(a, b) # {} THEN distances_[a][b] \in Declared(a, b)
    ELSE IF Declared(b, a) # {} THEN distances_[a][b] \in Declared(b, a)
    ELSE distances_[a][b] = NoDist

\* A stop is known as soon as any request mentions it, so every weak_ptr of a
\* route can be locked; it is initialized, at a position a request gave it,
\* exactly when a request of its own has come, before or after the mention.
StopsKnownOnceMentioned ==
  /\ stop_index_ = Mentioned
  /\ \A s \in StopName :
       IF StopRequests(s) = {}
         THEN ~ initialized_[s] /\ place_[s] = Origin
         ELSE initialized_[s] /\ place_[s] \in {r.pos : r \in StopRequests(s)}

\* As long as no two requests name the same bus, the two sides of the
\* catalogue agree: a stop lists exactly the buses whose route calls at it,
\* and the characters of every name it lists are owned by a living record.
RoutesAndStopsAgree ==
  NoRepeatedBus =>
    \A s \in StopName :
      buses_[s] = {r \in done \cap AddBusRequest : Alive(r) /\ s \in Route(r)}

\* With repeated names, too: a stop whose views are all alive lists the names
\* of all the buses the requests let call at it, and no others (AddBus), so that
\* GetStopInfo either answers rightly or reads a name that is gone.
ListedOrDangling ==
  \A s \in StopName :
    /\ buses_[s] \subseteq {r \in done \cap AddBusRequest : s \in Route(r)}
    /\ Dangling(s) \/ \A r \in done \cap AddBusRequest :
                       s \in Route(r) => HasView(s, r.name)

\* A repeated bus name changes nothing for the index: the record found under a
\* name is a request for that name, and the first one stays.
FirstBusStays ==
  [][\A b \in BusName :
       /\ bus_index_[b] # NoBus => bus_index_'[b] = bus_index_[b]
       /\ (bus_index_'[b] # NoBus) <=> (BusRequests(b)' # {})]_vars
=============================================================================
