---------------------------- MODULE TripPlanner ----------------------------
(***************************************************************************)
(* What the whole program promises: after the base requests have been      *)
(* taken in, each read request gets the one right answer, or one of the    *)
(* right ones, that follows from the base requests; the same request gets  *)
(* the same answer again.                                                  *)
(***************************************************************************)
EXTENDS Timetable

CONSTANTS
  ReadRequest,  \* requests of type "Bus", "Stop" and "Route"
  NotFound      \* the answer that says error_message "not found"

VARIABLES
  open,         \* base requests are no longer taken
  answers       \* request and reply, in the order of the requests

serviceVars == <<done, open, answers>>

Wait(s) == [type |-> "Wait", stop_name |-> s, time |-> wait_time_]

Ride(ride) == [type |-> "Bus", bus |-> ride.weight.route,
               time |-> ride.weight.time, span_count |-> ride.weight.span]

\* The travel times from one stop to the others in at most n waits and rides.
TravelTimes(fleet, from, n) ==
  LET times[m \in 0 .. n] ==
        IF m = 0
          THEN [s \in Mentioned |-> IF s = from THEN {0} ELSE {}]
          ELSE [s \in Mentioned |->
                  times[m - 1][s] \cup
                  UNION {{Later(Later(t, wait_time_), ride.weight.time) :
                            t \in times[m - 1][ride.from]} :
                         ride \in {r \in Timetable(fleet) : r.to = s}}]
  IN  times[n]

\* Waits and rides in turn, each ride from where the passenger waits to where
\* he waits next or wants to go.
Itinerary(fleet, items, from, to) ==
  LET n == Len(items) \div 2
      stop(k) == IF k = n + 1 THEN to ELSE items[2 * k - 1].stop_name
  IN  /\ Len(items) = 2 * n
      /\ stop(1) = from
      /\ \A k \in 1 .. n :
           /\ items[2 * k - 1] = Wait(stop(k))
           /\ \E ride \in Timetable(fleet) :
                /\ ride.from = stop(k)
                /\ ride.to = stop(k + 1)
                /\ items[2 * k] = Ride(ride)

TotalTime(items) ==
  LET total[n \in 0 .. Len(items)] ==
        IF n = 0 THEN 0 ELSE Later(total[n - 1], items[n].time)
  IN  total[Len(items)]

\* No itinerary that is worth its time calls at a stop twice.
RightRoute(fleet, from, to, reply) ==
  LET times == TravelTimes(fleet, from, Cardinality(Mentioned))[to]
  IN  IF times = {}
        THEN reply = NotFound
        ELSE /\ reply # NotFound
             /\ Itinerary(fleet, reply.items, from, to)
             /\ reply.total_time = TotalTime(reply.items)
             /\ reply.total_time \in times
             /\ \A t \in times : NoLater(reply.total_time, t)

RightBus(b, reply) ==
  IF BusRequests(b) = {}
    THEN reply = NotFound
    ELSE \E r \in BusRequests(b) :
           reply = [stop_count |-> Len(Trip(r)),
                    unique_stop_count |-> Cardinality(Route(r)),
                    route_length |-> Total(Road, Trip(r), 1, Len(Trip(r))),
                    geom_length |-> Total(Flight, Trip(r), 1, Len(Trip(r)))]

RightStop(s, reply) ==
  IF s \notin Mentioned
    THEN reply = NotFound
    ELSE reply = {r.name : r \in {q \in done \cap AddBusRequest : s \in Route(q)}}

RightReply(q, reply) ==
  \/ q.type = "Bus" /\ RightBus(q.name, reply)
  \/ q.type = "Stop" /\ RightStop(q.name, reply)
  \/ /\ q.type = "Route"
     /\ {q.from, q.to} \subseteq Mentioned
     /\ \E fleet \in Fleets : RightRoute(fleet, q.from, q.to, reply)

-----------------------------------------------------------------------------
Init ==
  /\ done = {}
  /\ open = FALSE
  /\ answers = << >>

Submit(r) ==
  /\ ~ open
  /\ r \notin done
  /\ done' = done \cup {r}
  /\ UNCHANGED <<open, answers>>

Open ==
  /\ ~ open
  /\ open' = TRUE
  /\ UNCHANGED <<done, answers>>

Answer(q) ==
  /\ open
  /\ \E a \in Range(answers') :
       /\ answers' = Append(answers, a)
       /\ a.request = q
       /\ RightReply(q, a.reply)
       /\ \A n \in DOMAIN answers :
            answers[n].request = q => answers[n].reply = a.reply
  /\ UNCHANGED <<done, open>>

Next ==
  \/ \E r \in AddStopRequest \cup AddBusRequest : Submit(r)
  \/ Open
  \/ \E q \in ReadRequest : Answer(q)

Spec == Init /\ [][Next]_serviceVars
=============================================================================
