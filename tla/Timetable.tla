----------------------------- MODULE Timetable -----------------------------
(***************************************************************************)
(* The roads and the rides the base requests ask for, when no stop is      *)
(* requested twice, and one of the buses of each name is kept: the         *)
(* reference the answers of the program are held against.  Nothing here    *)
(* knows of records, indices or graphs.                                    *)
(***************************************************************************)
EXTENDS Requests, Integers, SequencesExt

CONSTANTS
  Haversine,   \* HaversineDistance of two places
  NaN,         \* what acos gives for an argument above 1, and what 0/0 is
  Infinity,    \* a length divided by 0
  velocity_,   \* its sign: a unit of time is what a unit of length takes
  wait_time_

Length == Nat \cup {NaN}

ASSUME GeometryAssumption ==
  /\ Haversine \in [Place -> [Place -> Length]]
  /\ NaN \notin Int

\* The settings are any two doubles: the program takes them as they come.
ASSUME SettingsAssumption ==
  /\ wait_time_ \in Int
  /\ velocity_ \in {-1, 0, 1}
  /\ Infinity \notin Int
  /\ Infinity # NaN

\* The products in HaversineDistance commute, and it takes an absolute difference.
ASSUME SymmetryAssumption ==
  \A p, q \in Place : Haversine[p][q] = Haversine[q][p]

Position(s) ==
  IF StopRequests(s) = {} THEN Origin ELSE (CHOOSE r \in StopRequests(s) : TRUE).pos

Flight(a, b) == Haversine[Position(a)][Position(b)]

\* What a declares for the road to b, or else b for the way back.
Road(a, b) ==
  IF Declared(a, b) # {} THEN CHOOSE d \in Declared(a, b) : TRUE
  ELSE IF Declared(b, a) # {} THEN CHOOSE d \in Declared(b, a) : TRUE
  ELSE Flight(a, b)

\* The lengths from steps[i] to steps[j - 1], added up one by one.
Along(steps, i, j) ==
  LET total[k \in 0 .. j] == IF k <= i THEN 0 ELSE total[k - 1] + steps[k - 1]
  IN  IF \E k \in i .. j - 1 : steps[k] = NaN THEN NaN ELSE total[j]

\* A length between the i-th and the j-th stop of a run.
Total(Step(_, _), run, i, j) ==
  Along([k \in i .. j - 1 |-> Step(run[k], run[k + 1])], i, j)

Runs(r) ==
  {r.stops} \cup (IF r.type = "Linear" THEN {Reverse(r.stops)} ELSE {})

\* A length divided by the velocity.
Over(length) ==
  IF length = NaN \/ (velocity_ = 0 /\ length = 0) THEN NaN
  ELSE IF velocity_ = 0 THEN Infinity
  ELSE velocity_ * length

\* Times are added up and compared, infinite ones too.
Later(t, time) == IF Infinity \in {t, time} THEN Infinity ELSE t + time

NoLater(t, u) == u = Infinity \/ (t # Infinity /\ t <= u)

\* The rides of a bus: any two of its stops in the direction it travels.
RidesOf(r) ==
  UNION {{[from |-> run[p[1]], to |-> run[p[2]],
           weight |-> [time |-> Over(Total(Road, run, p[1], p[2])),
                       span |-> p[2] - p[1], route |-> r.name]] :
          p \in {q \in (1 .. Len(run)) \X (1 .. Len(run)) : q[1] < q[2]}} :
         run \in Runs(r)}

\* The buses that may run: one of each name that is requested.
Fleets ==
  {fleet \in SUBSET (done \cap AddBusRequest) :
     \A q \in done \cap AddBusRequest :
       Cardinality({r \in fleet : r.name = q.name}) = 1}

Timetable(fleet) == UNION {RidesOf(r) : r \in fleet}

\* The stops of a bus from where it starts until it is there again.
Trip(r) ==
  IF r.type = "Linear" /\ r.stops # << >>
    THEN r.stops \o Tail(Reverse(r.stops))
    ELSE r.stops
=============================================================================
