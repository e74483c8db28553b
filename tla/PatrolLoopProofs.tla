--------------------------- MODULE PatrolLoopProofs ---------------------------
(***************************************************************************)
(* What holds of the patrol for every topology, every request mode and     *)
(* initial direction, every number of trips and whatever operators ask     *)
(* for: legs alternate and none is skipped, and a leg that is counted is   *)
(* one the executor has driven.                                            *)
(*                                                                         *)
(* The second needs two things of the chain.  All routes that anyone knows *)
(* of agree on what a sequence number stands for.  And a FINISHED that the *)
(* patrol has heard, or may still hear, is of a route that waits to be     *)
(* counted, or is spent: the patrol's baseline lies beyond it.             *)
(***************************************************************************)
EXTENDS PatrolLoop, TLAPS

-----------------------------------------------------------------------------
(* Types *)

Waiting == {"WAITING_PLAN", "WAITING_ROUTE", "WAITING_ARRIVAL"}
Phases == Waiting \cup {"STOPPED", "READY", "DWELL", "COMPLETED", "ERROR"}

Ends == Vertices \cup {NoVertex}
Pairs == [start : Ends, goal : Ends]
Numbered == [sequence : Int, pair : Pairs]
Modes == {"start_goal", "goal_only"}
Plans == [success : BOOLEAN, mode : Modes \cup {"none"}, pair : Pairs]
Requests == [mode : Modes, from : {"patrol", "operator"}, pair : Pairs]

Reports == [route_sequence : Int, active : BOOLEAN,
            state : {"IDLE", "READY", "TRACKING", "FINISHED", "CANCELLED", "ERROR"}]
Statuses == Reports \cup {NoStatus}

Patrols ==
  [phase : Phases, direction : {0, 1}, legs : Nat, trips : Nat, baseline : Int,
   active : Int, pair : Pairs, seen : Int, status : Statuses, sliced : Numbered,
   deadline : BOOLEAN]

TypeOK ==
  /\ patrol \in Patrols
  /\ requests \in SUBSET Requests
  /\ topics \in [plan : Plans, tasks : Numbered, status : Reports]
  /\ sequence \in Nat
  /\ executor \in Reports /\ route \in Pairs
  /\ near \in Ends
  /\ finished \in SUBSET Numbered
  /\ asked \in Nat

LEMMA Constants ==
  /\ StartId \in Ends /\ GoalId \in Ends /\ NoVertex \in Ends
  /\ InitialDirection \in {0, 1} /\ RequestMode \in Modes /\ MaxRoundTrips \in Nat
  /\ WaitForIdle \in BOOLEAN /\ ArrivalTimeout \in BOOLEAN
  /\ NoPair \in Pairs /\ NoRoute \in Numbered /\ NoPlan \in Plans
  /\ NoStatus \in Statuses /\ NoStatus.state = "none" /\ NoStatus.route_sequence = -1
<1>1. /\ StartId \in Ends /\ GoalId \in Ends /\ NoVertex \in Ends
      /\ InitialDirection \in {0, 1} /\ RequestMode \in Modes /\ MaxRoundTrips \in Nat
      /\ WaitForIdle \in BOOLEAN /\ ArrivalTimeout \in BOOLEAN
  BY PatrolAssumption DEF Ends, Modes
<1>2. NoPair \in Pairs
  BY <1>1 DEF NoPair, Pair, Pairs
<1>3. NoRoute \in Numbered /\ NoPlan \in Plans
  BY <1>2 DEF NoRoute, Numbered, NoPlan, Plans
<1>4. NoStatus \in Statuses /\ NoStatus.state = "none" /\ NoStatus.route_sequence = -1
  BY DEF NoStatus, Statuses, Execution!Status
<1> QED  BY <1>1, <1>2, <1>3, <1>4

LEMMA LegType ==
  ASSUME NEW p
  PROVE  LegOf(p) \in Pairs
BY Constants DEF LegOf, Pair, Pairs

Aimed(p, b, a, q, d) ==
  [p EXCEPT !.baseline = b, !.active = a, !.pair = q, !.deadline = d]

LEMMA AimedType ==
  ASSUME NEW p \in Patrols, NEW b \in Int, NEW a \in Int, NEW q \in Pairs, NEW d \in BOOLEAN
  PROVE  Aimed(p, b, a, q, d) \in Patrols
BY DEF Patrols, Aimed

LEMMA MembersType ==
  ASSUME NEW p \in Patrols
  PROVE  /\ InitPatrol \in Patrols /\ Started(p) \in Patrols /\ Stopped(p) \in Patrols
         /\ Fail(p) \in Patrols /\ Asked(p) \in Patrols /\ Arrived(p) \in Patrols
<1>1. InitPatrol \in Patrols
  BY Constants DEF InitPatrol, Patrols, Phases, Waiting
<1>2. Started(p) \in Patrols
  <2> DEFINE n == [p EXCEPT !.phase = "READY", !.direction = InitialDirection,
                            !.legs = 0, !.trips = 0]
  <2>1. n \in Patrols
    BY Constants DEF Patrols, Phases
  <2>2. Started(p) = Aimed(n, -1, -1, NoPair, TRUE)
    BY DEF Started, Aimed
  <2> HIDE DEF n
  <2>3. -1 \in Int /\ TRUE \in BOOLEAN /\ NoPair \in Pairs
    BY Constants
  <2> QED  BY <2>1, <2>2, <2>3, AimedType
<1>3. Stopped(p) \in Patrols
  <2> DEFINE n == [p EXCEPT !.phase = "STOPPED"]
  <2>1. n \in Patrols
    BY DEF Patrols, Phases
  <2>2. Stopped(p) = Aimed(n, p.baseline, -1, NoPair, FALSE)
    BY DEF Stopped, Patrols, Aimed
  <2> HIDE DEF n
  <2>3. p.baseline \in Int /\ -1 \in Int /\ FALSE \in BOOLEAN /\ NoPair \in Pairs
    BY Constants DEF Patrols
  <2> QED  BY <2>1, <2>2, <2>3, AimedType
<1>4. Fail(p) \in Patrols
  BY DEF Fail, Patrols, Phases
<1>5. Asked(p) \in Patrols
  <2> DEFINE n == [p EXCEPT !.phase = "WAITING_PLAN"]
  <2>1. n \in Patrols /\ p.seen \in Int
    BY DEF Patrols, Phases, Waiting
  <2>2. Asked(p) = Aimed(n, p.seen, -1, LegOf(p), TRUE)
    BY DEF Asked, Aimed
  <2> HIDE DEF n
  <2>3. -1 \in Int /\ TRUE \in BOOLEAN /\ LegOf(p) \in Pairs
    BY LegType
  <2> QED  BY <2>1, <2>2, <2>3, AimedType
<1>6. Arrived(p) \in Patrols
  <2> DEFINE n == [p EXCEPT !.legs = @ + 1, !.trips = TripsAfter(p)]
  <2>1. TripsAfter(p) \in Nat
    BY DEF TripsAfter, Patrols
  <2>2. n \in Patrols
    <3>1. p.legs + 1 \in Nat
      BY DEF Patrols
    <3>2. n = [p EXCEPT !.legs = p.legs + 1, !.trips = TripsAfter(p)]
      BY DEF Patrols
    <3> HIDE DEF n
    <3> QED  BY <2>1, <3>1, <3>2 DEF Patrols
  <2> HIDE DEF n
  <2>3. Turned(n) \in Patrols
    <3>1. 1 - n.direction \in {0, 1}
      BY <2>2 DEF Patrols
    <3> QED  BY <2>2, <3>1 DEF Turned, Patrols, Phases
  <2>4. [n EXCEPT !.phase = "COMPLETED", !.deadline = FALSE] \in Patrols
    BY <2>2 DEF Patrols, Phases
  <2>5. Arrived(p) \in {Turned(n), [n EXCEPT !.phase = "COMPLETED", !.deadline = FALSE]}
    BY DEF Arrived, n
  <2> QED  BY <2>3, <2>4, <2>5
<1> QED  BY <1>1, <1>2, <1>3, <1>4, <1>5, <1>6

-----------------------------------------------------------------------------
(* What the coordinator makes of a message *)

\* The status ends the leg, fails it, or is not about it.
LEMMA ControllerOutcome ==
  ASSUME NEW p
  PROVE  LET c == considerController(p)
         IN  \/ c = p
             \/ c = Fail(p) /\ p.phase = "WAITING_ARRIVAL"
             \/ /\ c = Arrived(p) /\ p.phase = "WAITING_ARRIVAL"
                /\ p.status.route_sequence = p.active /\ p.status.state = "FINISHED"
BY DEF considerController

\* The route that answers the leg.
Answered(p) ==
  [p EXCEPT !.phase = "WAITING_ARRIVAL", !.active = p.sliced.sequence,
            !.deadline = ArrivalTimeout]

LEMMA SlicedOutcome ==
  ASSUME NEW p
  PROVE  LET c == considerSliced(p)
         IN  \/ c = p
             \/ /\ p.phase = "WAITING_ROUTE" /\ Matches(p)
                /\ c = considerController(Answered(p))
BY DEF considerSliced, Answered

\* Considering a status twice is considering it once.
LEMMA ControllerTwice ==
  ASSUME NEW p \in Patrols
  PROVE  considerController(considerController(p)) = considerController(p)
<1> DEFINE c == considerController(p)
<1>1. ASSUME c.phase # "WAITING_ARRIVAL" PROVE considerController(c) = c
  BY <1>1 DEF considerController
<1>2. CASE c = p
  BY <1>2
<1>3. CASE c = Fail(p)
  <2>1. Fail(p).phase = "ERROR"
    BY DEF Fail, Patrols
  <2> QED  BY <1>1, <1>3, <2>1
<1>4. CASE c = Arrived(p)
  <2>1. Arrived(p).phase # "WAITING_ARRIVAL"
    BY DEF Arrived, Turned, Patrols
  <2> QED  BY <1>1, <1>4, <2>1
<1> HIDE DEF c
<1>5. c = p \/ c = Fail(p) \/ c = Arrived(p)
  BY ControllerOutcome DEF c
<1> QED  BY <1>2, <1>3, <1>4, <1>5 DEF c

\* The plan fails the leg, or the route it leads to is waited for.
LEMMA PlanOutcome ==
  ASSUME NEW p \in Patrols, NEW m \in Plans
  PROVE  LET c == considerPlan(p, m)
         IN  \/ c = p
             \/ c = Fail(p) /\ p.phase = "WAITING_PLAN"
             \/ /\ p.phase = "WAITING_PLAN" /\ Resolved(p, m) \in Patrols
                /\ c = considerSliced(Resolved(p, m))
<1> DEFINE r == Resolved(p, m)
<1>1. r \in Patrols /\ r.phase = "WAITING_ROUTE"
  BY DEF Resolved, Patrols, Plans, Phases, Waiting
<1> HIDE DEF r
<1>2. considerController(considerSliced(r)) = considerSliced(r)
  <2>1. CASE considerSliced(r) = r
    BY <1>1, <2>1 DEF considerController
  <2>2. CASE considerSliced(r) = considerController(Answered(r))
    <3>1. Answered(r) \in Patrols
      BY <1>1, Constants DEF Answered, Patrols, Numbered, Phases, Waiting
    <3> QED  BY <2>2, <3>1, ControllerTwice
  <2> QED  BY <2>1, <2>2, SlicedOutcome
<1>3. \/ considerPlan(p, m) = p
      \/ considerPlan(p, m) = Fail(p) /\ p.phase = "WAITING_PLAN"
      \/ /\ p.phase = "WAITING_PLAN"
         /\ considerPlan(p, m) = considerController(considerSliced(r))
  BY DEF considerPlan, Concerns, r
<1> QED  BY <1>1, <1>2, <1>3 DEF r

LEMMA ArrivedFields ==
  ASSUME NEW p \in Patrols
  PROVE  /\ Arrived(p).legs = p.legs + 1
         /\ Arrived(p).phase \in {"COMPLETED", "DWELL"}
         /\ Arrived(p).phase = "DWELL" => Arrived(p).direction = 1 - p.direction
         /\ Arrived(p).active = p.active /\ Arrived(p).pair = p.pair
         /\ Arrived(p).seen = p.seen /\ Arrived(p).status = p.status
         /\ Arrived(p).sliced = p.sliced /\ Arrived(p).baseline = p.baseline
<1> DEFINE n == [p EXCEPT !.legs = @ + 1, !.trips = TripsAfter(p)]
<1> DEFINE c == [n EXCEPT !.phase = "COMPLETED", !.deadline = FALSE]
<1>1. /\ DOMAIN n = DOMAIN p
      /\ n.legs = p.legs + 1 /\ n.direction = p.direction
      /\ n.active = p.active /\ n.pair = p.pair /\ n.seen = p.seen
      /\ n.status = p.status /\ n.sliced = p.sliced /\ n.baseline = p.baseline
  BY DEF Patrols
<1>2. Arrived(p) \in {c, Turned(n)}
  BY DEF Arrived
<1>3. DOMAIN p = {"phase", "direction", "legs", "trips", "baseline", "active", "pair",
                  "seen", "status", "sliced", "deadline"}
  BY DEF Patrols
<1> HIDE DEF n
<1>4. /\ Turned(n).legs = n.legs /\ Turned(n).phase = "DWELL"
      /\ Turned(n).direction = 1 - n.direction
      /\ Turned(n).active = n.active /\ Turned(n).pair = n.pair
      /\ Turned(n).seen = n.seen /\ Turned(n).status = n.status
      /\ Turned(n).sliced = n.sliced /\ Turned(n).baseline = n.baseline
  BY <1>1, <1>3 DEF Turned
<1>5. /\ c.legs = n.legs /\ c.phase = "COMPLETED"
      /\ c.active = n.active /\ c.pair = n.pair
      /\ c.seen = n.seen /\ c.status = n.status
      /\ c.sliced = n.sliced /\ c.baseline = n.baseline
  BY <1>1, <1>3
<1> HIDE DEF c
<1>6. CASE Arrived(p) = c
  BY <1>1, <1>5, <1>6
<1>7. CASE Arrived(p) = Turned(n)
  BY <1>1, <1>4, <1>7
<1> QED  BY <1>2, <1>6, <1>7

LEMMA AnsweredType ==
  ASSUME NEW p \in Patrols
  PROVE  /\ Answered(p) \in Patrols /\ Answered(p).phase = "WAITING_ARRIVAL"
         /\ Answered(p).active = p.sliced.sequence /\ Answered(p).pair = p.pair
         /\ Answered(p).legs = p.legs /\ Answered(p).direction = p.direction
         /\ Answered(p).status = p.status /\ Answered(p).seen = p.seen
         /\ Answered(p).sliced = p.sliced /\ Answered(p).baseline = p.baseline
<1>1. Answered(p) \in Patrols
  BY Constants DEF Answered, Patrols, Numbered, Phases, Waiting
<1> QED  BY <1>1 DEF Answered, Patrols

LEMMA ConsideredType ==
  ASSUME NEW p \in Patrols
  PROVE  considerController(p) \in Patrols /\ considerSliced(p) \in Patrols
<1>1. \A q \in Patrols : considerController(q) \in Patrols
  BY ControllerOutcome, MembersType
<1>2. considerSliced(p) \in {p, considerController(Answered(p))}
  BY SlicedOutcome
<1> QED  BY <1>1, <1>2, AnsweredType

LEMMA PlanType ==
  ASSUME NEW p \in Patrols, NEW m \in Plans
  PROVE  considerPlan(p, m) \in Patrols
BY PlanOutcome, ConsideredType, MembersType

-----------------------------------------------------------------------------
(* Types are kept, and legs alternate *)

\* `n' legs were asked for since the patrol was started.
Turns(p, n) ==
  /\ p.phase \in {"READY", "DWELL"} => n = p.legs
  /\ p.phase \in Waiting => n = p.legs + 1
  /\ p.phase \in Waiting \cup {"READY", "DWELL"} =>
       p.direction = (InitialDirection + p.legs) % 2

LEMMA ControllerTurns ==
  ASSUME NEW p \in Patrols, NEW n \in Nat, Turns(p, n)
  PROVE  Turns(considerController(p), n)
<1>1. CASE considerController(p) = p
  BY <1>1
<1>2. CASE considerController(p) = Fail(p)
  <2>1. Fail(p).phase = "ERROR"
    BY DEF Fail, Patrols
  <2> QED  BY <1>2, <2>1 DEF Turns, Waiting
<1>3. CASE considerController(p) = Arrived(p) /\ p.phase = "WAITING_ARRIVAL"
  <2> DEFINE c == Arrived(p)
  <2>1. /\ c.legs = p.legs + 1
        /\ c.phase \in {"COMPLETED", "DWELL"}
        /\ c.phase = "DWELL" => c.direction = 1 - p.direction
    BY ArrivedFields
  <2>2. n = p.legs + 1 /\ p.direction = (InitialDirection + p.legs) % 2
    BY <1>3 DEF Turns, Waiting
  <2>3. p.legs \in Nat
    BY DEF Patrols
  <2> HIDE DEF c
  <2>4. 1 - p.direction = (InitialDirection + c.legs) % 2
    <3>1. p.direction \in {0, 1} /\ InitialDirection \in {0, 1}
      BY Constants DEF Patrols
    <3> QED  BY <2>1, <2>2, <2>3, <3>1
  <2>5. Turns(c, n)
    BY <2>1, <2>2, <2>4 DEF Turns, Waiting
  <2> QED  BY <1>3, <2>5 DEF c
<1> QED  BY <1>1, <1>2, <1>3, ControllerOutcome

LEMMA SlicedTurns ==
  ASSUME NEW p \in Patrols, NEW n \in Nat, Turns(p, n)
  PROVE  Turns(considerSliced(p), n)
<1>1. CASE considerSliced(p) = p
  BY <1>1
<1>2. CASE p.phase = "WAITING_ROUTE" /\ considerSliced(p) = considerController(Answered(p))
  <2>1. Turns(Answered(p), n)
    BY <1>2, AnsweredType DEF Turns, Waiting
  <2> QED  BY <1>2, <2>1, AnsweredType, ControllerTurns
<1> QED  BY <1>1, <1>2, SlicedOutcome

LEMMA PlanTurns ==
  ASSUME NEW p \in Patrols, NEW m \in Plans, NEW n \in Nat, Turns(p, n)
  PROVE  Turns(considerPlan(p, m), n)
<1>1. CASE considerPlan(p, m) = p
  BY <1>1
<1>2. CASE considerPlan(p, m) = Fail(p)
  <2>1. Fail(p).phase = "ERROR"
    BY DEF Fail, Patrols
  <2> QED  BY <1>2, <2>1 DEF Turns, Waiting
<1>3. CASE /\ p.phase = "WAITING_PLAN" /\ Resolved(p, m) \in Patrols
           /\ considerPlan(p, m) = considerSliced(Resolved(p, m))
  <2>1. /\ Resolved(p, m).phase = "WAITING_ROUTE" /\ Resolved(p, m).legs = p.legs
        /\ Resolved(p, m).direction = p.direction
    BY DEF Resolved, Patrols
  <2>2. Turns(Resolved(p, m), n)
    BY <1>3, <2>1 DEF Turns, Waiting
  <2> QED  BY <1>3, <2>2, SlicedTurns
<1> QED  BY <1>1, <1>2, <1>3, PlanOutcome

PatrolInv == TypeOK /\ Turns(patrol, asked)

LEMMA StatusType ==
  ASSUME NEW n \in Int, NEW a \in BOOLEAN,
         NEW s \in {"IDLE", "READY", "TRACKING", "FINISHED", "CANCELLED", "ERROR"}
  PROVE  /\ Execution!Status(n, s, a) \in Reports
         /\ Execution!Status(n, s, a).route_sequence = n
         /\ Execution!Status(n, s, a).state = s
BY DEF Execution!Status, Reports

LEMMA NoRouteYetType ==
  /\ Execution!NoRouteYet \in Reports /\ Execution!NoRouteYet.route_sequence = 0
  /\ Execution!NoRouteYet.state = "IDLE"
BY DEF Execution!NoRouteYet, Execution!Status, Reports

LEMMA FirstPatrol ==
  /\ InitialPhase(InitPatrol) \in Patrols
  /\ Turns(InitialPhase(InitPatrol), 0)
  /\ InitialPhase(InitPatrol).status = NoStatus
  /\ InitialPhase(InitPatrol).sliced = NoRoute
  /\ InitialPhase(InitPatrol).phase \in {"STOPPED", "READY"}
  /\ InitialPhase(InitPatrol).legs = 0
  /\ InitialPhase(InitPatrol).seen = -1
<1>1. InitPatrol \in Patrols /\ Started(InitPatrol) \in Patrols
  <2>1. InitPatrol \in Patrols
    BY Constants DEF InitPatrol, Patrols, Phases, Waiting
  <2> QED  BY <2>1, MembersType
<1>2. /\ InitPatrol.phase = "STOPPED" /\ InitPatrol.status = NoStatus
      /\ InitPatrol.sliced = NoRoute /\ InitPatrol.legs = 0 /\ InitPatrol.seen = -1
  BY DEF InitPatrol
<1>3. /\ Started(InitPatrol).phase = "READY" /\ Started(InitPatrol).status = NoStatus
      /\ Started(InitPatrol).sliced = NoRoute /\ Started(InitPatrol).legs = 0
      /\ Started(InitPatrol).seen = -1
      /\ Started(InitPatrol).direction = InitialDirection
  BY DEF Started, InitPatrol
<1>4. Turns(InitPatrol, 0)
  BY <1>2 DEF Turns, Waiting
<1>5. Turns(Started(InitPatrol), 0)
  <2>1. InitialDirection = (InitialDirection + 0) % 2
    BY Constants
  <2> QED  BY <1>3, <2>1 DEF Turns, Waiting
<1>6. InitialPhase(InitPatrol) \in {InitPatrol, Started(InitPatrol)}
  BY DEF InitialPhase
<1>7. CASE InitialPhase(InitPatrol) = InitPatrol
  BY <1>1, <1>2, <1>4, <1>7
<1>8. CASE InitialPhase(InitPatrol) = Started(InitPatrol)
  BY <1>1, <1>3, <1>5, <1>8
<1> QED  BY <1>6, <1>7, <1>8

\* What the patrol counted is all that a step of its own takes out of `finished'.
LEMMA BecomesKeeps ==
  ASSUME PatrolInv, NEW q \in Patrols, Turns(q, asked), PatrolBecomes(q),
         UNCHANGED <<asked, requests, topics, sequence, executor, route, near>>
  PROVE  PatrolInv'
BY DEF PatrolInv, TypeOK, PatrolBecomes

LEMMA DeliverKeeps ==
  ASSUME PatrolInv, Deliver
  PROVE  PatrolInv'
<1>1. /\ patrol \in Patrols /\ Turns(patrol, asked) /\ asked \in Nat
      /\ topics.plan \in Plans /\ topics.tasks \in Numbered /\ topics.status \in Reports
  BY DEF PatrolInv, TypeOK
<1>2. CASE dijkstra_status_callback
  BY <1>1, <1>2, PlanType, PlanTurns, BecomesKeeps DEF dijkstra_status_callback
<1>3. CASE controller_status_callback
  <2> DEFINE seen == IF topics.status.route_sequence > patrol.seen
                     THEN topics.status.route_sequence ELSE patrol.seen
  <2> DEFINE h == [patrol EXCEPT !.seen = seen, !.status = topics.status]
  <2>1. h \in Patrols
    <3>1. seen \in Int /\ topics.status \in Statuses
      BY <1>1 DEF Patrols, Reports, Statuses
    <3> HIDE DEF seen
    <3> QED  BY <1>1, <3>1 DEF Patrols
  <2>2. Turns(h, asked)
    <3>1. h.phase = patrol.phase /\ h.legs = patrol.legs /\ h.direction = patrol.direction
      BY <1>1 DEF Patrols
    <3> QED  BY <1>1, <3>1 DEF Turns
  <2>3. /\ PatrolBecomes(considerController(h))
        /\ UNCHANGED <<asked, requests, topics, sequence, executor, route, near>>
    BY <1>3 DEF controller_status_callback
  <2> HIDE DEF h
  <2> QED  BY <1>1, <2>1, <2>2, <2>3, ConsideredType, ControllerTurns, BecomesKeeps
<1>4. CASE sliced_route_callback
  <2> DEFINE h == [patrol EXCEPT !.sliced = topics.tasks]
  <2>1. h \in Patrols
    BY <1>1 DEF Patrols
  <2>2. Turns(h, asked)
    <3>1. h.phase = patrol.phase /\ h.legs = patrol.legs /\ h.direction = patrol.direction
      BY <1>1 DEF Patrols
    <3> QED  BY <1>1, <3>1 DEF Turns
  <2>3. /\ PatrolBecomes(considerSliced(h))
        /\ UNCHANGED <<asked, requests, topics, sequence, executor, route, near>>
    BY <1>4 DEF sliced_route_callback
  <2> HIDE DEF h
  <2> QED  BY <1>1, <2>1, <2>2, <2>3, ConsideredType, SlicedTurns, BecomesKeeps
<1> QED  BY <1>2, <1>3, <1>4 DEF Deliver

LEMMA OwnStepsKeep ==
  ASSUME PatrolInv, start_callback \/ stop_callback \/ timer_callback
  PROVE  PatrolInv'
<1>1. /\ patrol \in Patrols /\ Turns(patrol, asked) /\ asked \in Nat
      /\ requests \in SUBSET Requests
  BY DEF PatrolInv, TypeOK
<1> SUFFICES ASSUME UNCHANGED <<topics, sequence, executor, route, near, finished>>
             PROVE  /\ patrol' \in Patrols /\ requests' \in SUBSET Requests
                    /\ asked' \in Nat /\ Turns(patrol, asked)'
  BY DEF PatrolInv, TypeOK, start_callback, stop_callback, timer_callback, TimerAsks,
         TimerEndsDwell, TimerTimesOut
<1>2. CASE start_callback
  <2>1. /\ patrol' = Started(patrol) /\ asked' = 0 /\ requests' = requests
    BY <1>2 DEF start_callback
  <2>2. /\ Started(patrol).phase = "READY" /\ Started(patrol).legs = 0
        /\ Started(patrol).direction = InitialDirection
    BY <1>1 DEF Started, Patrols
  <2>3. InitialDirection = (InitialDirection + 0) % 2
    BY Constants
  <2> QED  BY <1>1, <2>1, <2>2, <2>3, MembersType DEF Turns, Waiting
<1>3. CASE stop_callback
  <2>1. patrol' = Stopped(patrol) /\ asked' = asked /\ requests' = requests
    BY <1>3 DEF stop_callback
  <2>2. Stopped(patrol).phase = "STOPPED"
    BY <1>1 DEF Stopped, Patrols
  <2> QED  BY <1>1, <2>1, <2>2, MembersType DEF Turns, Waiting
<1>4. CASE TimerAsks
  <2>1. patrol' = Asked(patrol) /\ asked' = asked + 1 /\ patrol.phase = "READY"
    BY <1>4 DEF TimerAsks, MayAsk
  <2>2. /\ Asked(patrol).phase = "WAITING_PLAN" /\ Asked(patrol).legs = patrol.legs
        /\ Asked(patrol).direction = patrol.direction
    BY <1>1 DEF Asked, Patrols
  <2>3. Turns(patrol, asked)'
    BY <1>1, <2>1, <2>2 DEF Turns, Waiting
  <2>4. requests' \in SUBSET Requests
    <3> DEFINE q == IF RequestMode = "goal_only"
                    THEN Pair(NoVertex, LegOf(patrol).goal) ELSE LegOf(patrol)
    <3>1. q \in Pairs
      BY LegType, Constants DEF Pairs, Pair
    <3>2. requests' = requests \cup {[mode |-> RequestMode, from |-> "patrol", pair |-> q]}
      BY <1>4 DEF TimerAsks
    <3> HIDE DEF q
    <3>3. [mode |-> RequestMode, from |-> "patrol", pair |-> q] \in Requests
      BY <3>1, Constants DEF Requests
    <3> QED  BY <1>1, <3>2, <3>3
  <2>5. asked' \in Nat
    BY <1>1, <2>1
  <2> QED  BY <1>1, <2>1, <2>3, <2>4, <2>5, MembersType
<1>5. CASE TimerEndsDwell
  <2>1. /\ patrol.phase = "DWELL" /\ asked' = asked /\ requests' = requests
        /\ patrol' = [patrol EXCEPT !.phase = "READY", !.deadline = FALSE]
    BY <1>5 DEF TimerEndsDwell
  <2>2. /\ patrol' \in Patrols /\ patrol'.phase = "READY" /\ patrol'.legs = patrol.legs
        /\ patrol'.direction = patrol.direction
    BY <1>1, <2>1 DEF Patrols, Phases
  <2> QED  BY <1>1, <2>1, <2>2 DEF Turns, Waiting
<1>6. CASE TimerTimesOut
  <2>1. patrol' = Fail(patrol) /\ asked' = asked /\ requests' = requests
    BY <1>6 DEF TimerTimesOut, TimedOut
  <2>2. Fail(patrol).phase = "ERROR"
    BY <1>1 DEF Fail, Patrols
  <2> QED  BY <1>1, <2>1, <2>2, MembersType DEF Turns, Waiting
<1> QED  BY <1>2, <1>3, <1>4, <1>5, <1>6 DEF timer_callback

LEMMA OthersKeep ==
  ASSUME PatrolInv, OperatorAsks \/ Serve \/ Execute \/ LeaveVertex \/ EndRoute
  PROVE  PatrolInv'
<1>1. /\ requests \in SUBSET Requests /\ sequence \in Nat
      /\ topics \in [plan : Plans, tasks : Numbered, status : Reports]
      /\ executor \in Reports /\ route \in Pairs /\ near \in Ends
      /\ finished \in SUBSET Numbered /\ patrol \in Patrols /\ asked \in Nat
      /\ Turns(patrol, asked)
  BY DEF PatrolInv, TypeOK
<1>2. patrol' = patrol /\ asked' = asked
  BY DEF OperatorAsks, Serve, requestCallback, statusCallback, Execute, StageRoute,
         BeginRoute, FinishRoute, Report, LeaveVertex, EndRoute
<1> SUFFICES /\ requests' \in SUBSET Requests /\ sequence' \in Nat
             /\ topics' \in [plan : Plans, tasks : Numbered, status : Reports]
             /\ executor' \in Reports /\ route' \in Pairs /\ near' \in Ends
             /\ finished' \in SUBSET Numbered
  BY <1>1, <1>2 DEF PatrolInv, TypeOK
<1>3. \A t \in Reports : Publishes(t) =>
        topics' \in [plan : Plans, tasks : Numbered, status : Reports] /\ executor' \in Reports
  BY <1>1 DEF Publishes
<1>4. executor.route_sequence \in Int
  BY <1>1 DEF Reports
<1>5. CASE OperatorAsks
  <2>1. PICK q \in OperatorPairs, mode \in {"start_goal", "goal_only"} :
          requests' = requests \cup
            {[mode |-> mode, from |-> "operator",
              pair |-> Pair(IF mode = "goal_only" THEN NoVertex ELSE q[1], q[2])]}
    BY <1>5 DEF OperatorAsks
  <2>2. q[1] \in Ends /\ q[2] \in Ends /\ NoVertex \in Ends
    BY PatrolAssumption DEF Ends
  <2> DEFINE pr == Pair(IF mode = "goal_only" THEN NoVertex ELSE q[1], q[2])
  <2>3. pr \in Pairs
    BY <2>2 DEF Pair, Pairs
  <2> HIDE DEF pr
  <2>4. [mode |-> mode, from |-> "operator", pair |-> pr] \in Requests
    BY <2>3 DEF Requests, Modes
  <2>5. requests' = requests \cup {[mode |-> mode, from |-> "operator", pair |-> pr]}
    BY <2>1 DEF pr
  <2>6. UNCHANGED <<sequence, topics, executor, route, near, finished>>
    BY <1>5 DEF OperatorAsks
  <2> QED  BY <1>1, <2>4, <2>5, <2>6
<1>6. CASE requestCallback
  <2>1. PICK r \in requests : /\ requests' = requests \ {r}
                              /\ topics' = [topics EXCEPT !.plan = PlanFor(r)]
    BY <1>6 DEF requestCallback
  <2>2. PlanFor(r) \in Plans
    <3>1. r.mode \in Modes /\ r.pair.goal \in Ends /\ StartOf(r) \in Ends
      BY <1>1, <2>1 DEF Requests, Pairs, StartOf
    <3> QED  BY <3>1 DEF PlanFor, Plans, Pair, Pairs
  <2>3. UNCHANGED <<sequence, executor, route, near, finished>>
    BY <1>6 DEF requestCallback
  <2> QED  BY <1>1, <2>1, <2>2, <2>3
<1>7. CASE statusCallback
  <2>1. CASE Sliced(topics.plan)
    <3>1. /\ sequence' = sequence + 1
          /\ topics' = [topics EXCEPT !.tasks = [sequence |-> sequence + 1,
                                                 pair |-> topics.plan.pair]]
          /\ UNCHANGED <<requests, executor, route, near, finished>>
      BY <1>7, <2>1 DEF statusCallback
    <3>2. [sequence |-> sequence + 1, pair |-> topics.plan.pair] \in Numbered
      BY <1>1 DEF Plans, Numbered
    <3> QED  BY <1>1, <3>1, <3>2
  <2>2. CASE ~Sliced(topics.plan)
    BY <1>1, <1>7, <2>2 DEF statusCallback
  <2> QED  BY <2>1, <2>2
<1>8. CASE StageRoute
  <2>1. Publishes(Execution!Status(topics.tasks.sequence, "READY", FALSE))
        /\ route' = topics.tasks.pair /\ UNCHANGED <<requests, sequence, near, finished>>
    BY <1>8 DEF StageRoute
  <2>2. topics.tasks.sequence \in Int /\ topics.tasks.pair \in Pairs
    BY <1>1 DEF Numbered
  <2> QED  BY <1>1, <1>3, <2>1, <2>2, StatusType
<1>9. CASE BeginRoute
  <2>1. Publishes(Execution!Status(executor.route_sequence, "TRACKING", TRUE))
        /\ UNCHANGED <<requests, sequence, route, near, finished>>
    BY <1>9 DEF BeginRoute, Report
  <2> QED  BY <1>1, <1>3, <1>4, <2>1, StatusType
<1>10. CASE FinishRoute
  <2>1. /\ Publishes(Execution!Status(executor.route_sequence, "FINISHED", FALSE))
        /\ near' = route.goal /\ UNCHANGED <<requests, sequence, route>>
        /\ finished' = finished \cup {[sequence |-> executor.route_sequence, pair |-> route]}
    BY <1>10 DEF FinishRoute, Report
  <2>2. [sequence |-> executor.route_sequence, pair |-> route] \in Numbered
    BY <1>1, <1>4 DEF Numbered
  <2>3. route.goal \in Ends
    BY <1>1 DEF Pairs
  <2>4. finished' \in SUBSET Numbered
    BY <1>1, <2>1, <2>2
  <2>5. /\ topics' \in [plan : Plans, tasks : Numbered, status : Reports]
        /\ executor' \in Reports
    BY <1>3, <1>4, <2>1, StatusType
  <2> QED  BY <1>1, <2>1, <2>3, <2>4, <2>5
<1>11. CASE EndRoute
  <2>1. PICK s \in {"CANCELLED", "ERROR"} :
          /\ Publishes(Execution!Status(executor.route_sequence, s, FALSE))
          /\ near' = NoVertex /\ UNCHANGED <<requests, sequence, route, finished>>
    BY <1>11 DEF EndRoute, Report
  <2> QED  BY <1>1, <1>3, <1>4, <2>1, StatusType, Constants, ZenonT(30)
<1>12. CASE LeaveVertex
  BY <1>1, <1>12, Constants DEF LeaveVertex
<1> QED  BY <1>5, <1>6, <1>7, <1>8, <1>9, <1>10, <1>11, <1>12 DEF Serve, Execute

LEMMA RestartsKeep ==
  ASSUME PatrolInv, RestartSlicer \/ RestartExecutor \/ RestartPatrol \/ RestartDijkstra
  PROVE  PatrolInv'
<1>1. CASE RestartSlicer
  BY <1>1, Constants DEF RestartSlicer, PatrolInv, TypeOK
<1>2. CASE RestartExecutor
  BY <1>2, Constants, NoRouteYetType DEF RestartExecutor, Publishes, PatrolInv, TypeOK
<1>3. CASE RestartPatrol
  BY <1>3, FirstPatrol DEF RestartPatrol, PatrolInv, TypeOK
<1>4. CASE RestartDijkstra
  BY <1>4, Constants DEF RestartDijkstra, PatrolInv, TypeOK
<1> QED  BY <1>1, <1>2, <1>3, <1>4

LEMMA PatrolStep ==
  ASSUME PatrolInv, [Next]_vars
  PROVE  PatrolInv'
<1>1. CASE UNCHANGED vars
  BY <1>1 DEF vars, PatrolInv, TypeOK
<1>2. CASE Next
  BY <1>2, DeliverKeeps, OwnStepsKeep, OthersKeep, RestartsKeep DEF Next
<1> QED  BY <1>1, <1>2

\* The patrol's members have their types, and each leg it asked for since it was
\* started has been counted when it asks for the next, in the other direction.
THEOREM PatrolInvariant == Spec => []PatrolInv
<1>1. Init => PatrolInv
  <2> SUFFICES ASSUME Init PROVE PatrolInv
    OBVIOUS
  <2>1. StartId \in Ends
    BY Constants
  <2>2. topics \in [plan : Plans, tasks : Numbered, status : Reports]
    BY Constants, NoRouteYetType DEF Init
  <2> QED  BY <2>1, <2>2, FirstPatrol, NoRouteYetType, Constants DEF Init, PatrolInv, TypeOK
<1> QED  BY <1>1, PatrolStep, PTL DEF Spec

\* NoLegIsSkipped for every topology, request mode and initial direction,
\* whatever operators ask for and whichever nodes restart.
THEOREM TurnsCorrect == Spec => NoLegIsSkipped
<1> DEFINE Right == TimerAsks =>
      /\ asked = patrol.legs
      /\ patrol.direction = (InitialDirection + patrol.legs) % 2
<1>1. PatrolInv => Right
  BY DEF PatrolInv, Turns, TimerAsks, MayAsk
<1> QED  BY <1>1, PatrolInvariant, PTL DEF Spec, NoLegIsSkipped

-----------------------------------------------------------------------------
(* A counted leg was driven *)

Named(n, q) == [sequence |-> n, pair |-> q]

Pending(p) ==
  IF p.phase = "WAITING_ARRIVAL" THEN {Named(p.active, p.pair)} ELSE {}

\* Every route that anyone has: latched, taken, staged, finished, waited for.
Known(p, f, x, t, r) ==
  {t, p.sliced, Named(x.route_sequence, r)} \cup f \cup Pending(p)

\* A number the slicer gave stands for one route.
Agreed(known, s) ==
  \A a \in known :
    /\ a.sequence <= s
    /\ a.sequence <= 0 => a.pair = NoPair
    /\ \A b \in known : a.sequence = b.sequence => a.pair = b.pair

\* The FINISHED of n cannot be taken for the arrival of a route to come.
Spent(p, n) ==
  /\ n <= p.seen
  /\ p.phase \in {"WAITING_PLAN", "WAITING_ROUTE"} => n <= p.baseline
  /\ p.phase = "WAITING_ARRIVAL" => n < p.active

Done(f, n) == \E r \in f : r.sequence = n
Unheard(p) == WaitForIdle /\ p.status.state = "none"

Settled(p, f, x) ==
  x.state = "FINISHED" =>
    \/ Done(f, x.route_sequence) \/ Spent(p, x.route_sequence) \/ Unheard(p)

Heard(p) ==
  /\ p.status.route_sequence <= p.seen
  /\ Unheard(p) => p.phase \in {"STOPPED", "READY"} /\ p.legs = 0

LegSound(p, f, x, t, r, s) ==
  /\ Agreed(Known(p, f, x, t, r), s)
  /\ Settled(p, f, x) /\ Settled(p, f, p.status)
  /\ Heard(p)

LEMMA Fewer ==
  ASSUME NEW known, NEW s, Agreed(known, s), NEW some \in SUBSET known
  PROVE  Agreed(some, s)
BY DEF Agreed

\* A patrol that stops waiting keeps what is settled.
LEMMA Resting ==
  ASSUME NEW p \in Patrols, NEW q \in Patrols, NEW f, NEW x, NEW t, NEW r, NEW s,
         LegSound(p, f, x, t, r, s),
         q.seen = p.seen, q.status = p.status, q.sliced = p.sliced,
         q.phase \notin Waiting,
         Unheard(q) => q.phase \in {"STOPPED", "READY"} /\ q.legs = 0
  PROVE  LegSound(q, f, x, t, r, s)
<1>1. Pending(q) = {}
  BY DEF Pending, Waiting
<1>2. Known(q, f, x, t, r) \in SUBSET Known(p, f, x, t, r)
  BY <1>1 DEF Known
<1>3. Agreed(Known(q, f, x, t, r), s)
  BY <1>2, Fewer DEF LegSound
<1>4. \A n : Spent(p, n) => Spent(q, n)
  BY DEF Spent, Waiting
<1>5. Unheard(p) => Unheard(q)
  BY DEF Unheard
<1>6. Settled(q, f, x) /\ Settled(q, f, q.status)
  BY <1>4, <1>5 DEF LegSound, Settled
<1>7. Heard(q)
  BY DEF LegSound, Heard
<1> QED  BY <1>3, <1>6, <1>7 DEF LegSound

\* An arrival is that of a finished route, which is then settled without it.
LEMMA ArrivalLeg ==
  ASSUME NEW p \in Patrols, NEW f \in SUBSET Numbered, NEW x \in Reports,
         NEW t, NEW r, NEW s, LegSound(p, f, x, t, r, s),
         p.phase = "WAITING_ARRIVAL", p.status.route_sequence = p.active,
         p.status.state = "FINISHED"
  PROVE  /\ Named(p.active, p.pair) \in f
         /\ LegSound(Arrived(p), f \ {Named(p.active, p.pair)}, x, t, r, s)
<1> DEFINE a == Named(p.active, p.pair)
<1> DEFINE q == Arrived(p)
<1>1. a.sequence = p.active /\ a.pair = p.pair /\ a \in Known(p, f, x, t, r)
  BY DEF Named, Known, Pending
<1>2. ~Unheard(p)
  BY DEF Unheard
<1>3. p.active \in Int /\ p.seen \in Int
  BY DEF Patrols
<1>4. Done(f, p.active)
  <2>1. ~ (p.active < p.active)
    BY <1>3
  <2>2. ~Spent(p, p.active)
    BY <2>1 DEF Spent
  <2> QED  BY <1>2, <2>2 DEF LegSound, Settled
<1>5. \A b \in f : b.sequence = p.active => b = a
  <2> SUFFICES ASSUME NEW b \in f, b.sequence = p.active PROVE b = a
    OBVIOUS
  <2>1. b \in Known(p, f, x, t, r)
    BY DEF Known
  <2>2. b.pair = p.pair
    BY <1>1, <2>1 DEF LegSound, Agreed
  <2> QED  BY <2>2 DEF Named, Numbered
<1>6. a \in f
  BY <1>4, <1>5 DEF Done
<1>7. /\ q \in Patrols /\ q.phase \notin Waiting /\ q.phase \notin {"STOPPED", "READY"}
      /\ q.seen = p.seen /\ q.status = p.status /\ q.sliced = p.sliced
  BY MembersType, ArrivedFields DEF Waiting
<1> HIDE DEF q
<1>8. ~Unheard(q)
  BY <1>2, <1>7 DEF Unheard
<1>9. LegSound(q, f, x, t, r, s)
  BY <1>7, <1>8, Resting
<1>10. Spent(q, p.active)
  <2>1. p.active <= q.seen
    BY <1>7 DEF LegSound, Heard
  <2> QED  BY <1>7, <2>1 DEF Spent, Waiting
<1>11. \A n : Done(f, n) => Done(f \ {a}, n) \/ Spent(q, n)
  BY <1>1, <1>10 DEF Done
<1>12. Settled(q, f \ {a}, x) /\ Settled(q, f \ {a}, q.status)
  BY <1>9, <1>11 DEF LegSound, Settled
<1>13. Known(q, f \ {a}, x, t, r) \in SUBSET Known(q, f, x, t, r)
  BY DEF Known
<1>14. Agreed(Known(q, f \ {a}, x, t, r), s)
  BY <1>9, <1>13, Fewer DEF LegSound
<1>15. LegSound(q, f \ {a}, x, t, r, s)
  BY <1>9, <1>12, <1>14 DEF LegSound
<1> QED  BY <1>6, <1>15 DEF q

\* What a message may make of a patrol: legs are counted as they are driven.
Driven(p, q, f, x, t, r, s) ==
  /\ LegSound(q, f \ Counted(p, q), x, t, r, s)
  /\ Counted(p, q) \subseteq f

LEMMA NotCounted ==
  ASSUME NEW p \in Patrols, NEW q, q.legs = p.legs
  PROVE  Counted(p, q) = {}
<1>1. ~(q.legs > p.legs)
  <2>1. p.legs \in Nat
    BY DEF Patrols
  <2> QED  BY <2>1
<1> QED  BY <1>1 DEF Counted

LEMMA FailFields ==
  ASSUME NEW p \in Patrols
  PROVE  /\ Fail(p).phase = "ERROR" /\ Fail(p).legs = p.legs /\ Fail(p).seen = p.seen
         /\ Fail(p).status = p.status /\ Fail(p).sliced = p.sliced
BY DEF Fail, Patrols

\* A leg that fails was waited for, so that a status had been heard.
LEMMA FailLeg ==
  ASSUME NEW p \in Patrols, NEW f, NEW x, NEW t, NEW r, NEW s,
         LegSound(p, f, x, t, r, s), p.phase \in Waiting
  PROVE  LegSound(Fail(p), f, x, t, r, s)
<1>1. ~Unheard(p)
  BY DEF LegSound, Heard, Waiting
<1>2. ~Unheard(Fail(p))
  BY <1>1, FailFields DEF Unheard
<1>3. Fail(p).phase \notin Waiting
  BY FailFields DEF Waiting
<1> QED  BY <1>2, <1>3, FailFields, MembersType, Resting

LEMMA ControllerLeg ==
  ASSUME NEW p \in Patrols, NEW f \in SUBSET Numbered, NEW x \in Reports,
         NEW t, NEW r, NEW s, LegSound(p, f, x, t, r, s)
  PROVE  Driven(p, considerController(p), f, x, t, r, s)
<1>1. CASE considerController(p) = p
  BY <1>1, NotCounted DEF Driven
<1>2. CASE considerController(p) = Fail(p) /\ p.phase = "WAITING_ARRIVAL"
  <2>1. Counted(p, Fail(p)) = {}
    BY FailFields, NotCounted
  <2>2. LegSound(Fail(p), f, x, t, r, s)
    BY <1>2, FailLeg DEF Waiting
  <2> QED  BY <1>2, <2>1, <2>2 DEF Driven
<1>3. CASE /\ considerController(p) = Arrived(p) /\ p.phase = "WAITING_ARRIVAL"
           /\ p.status.route_sequence = p.active /\ p.status.state = "FINISHED"
  <2>1. Counted(p, Arrived(p)) = {Named(p.active, p.pair)}
    <3>1. p.legs \in Nat
      BY DEF Patrols
    <3> QED  BY <3>1, ArrivedFields DEF Counted, Named
  <2> QED  BY <1>3, <2>1, ArrivalLeg DEF Driven
<1> QED  BY <1>1, <1>2, <1>3, ControllerOutcome

\* The route that answers the leg is beyond all that is spent.
LEMMA AnsweredLeg ==
  ASSUME NEW p \in Patrols, NEW f, NEW x \in Reports, NEW t, NEW r, NEW s,
         LegSound(p, f, x, t, r, s), p.phase = "WAITING_ROUTE", Matches(p)
  PROVE  LegSound(Answered(p), f, x, t, r, s)
<1> DEFINE q == Answered(p)
<1>1. /\ q \in Patrols /\ q.phase = "WAITING_ARRIVAL" /\ q.active = p.sliced.sequence
      /\ q.pair = p.sliced.pair /\ q.seen = p.seen /\ q.status = p.status
      /\ q.sliced = p.sliced
  BY AnsweredType DEF Matches
<1> HIDE DEF q
<1>2. Named(p.sliced.sequence, p.sliced.pair) = p.sliced
  BY DEF Named, Patrols, Numbered
<1>3. Known(q, f, x, t, r) \in SUBSET Known(p, f, x, t, r)
  BY <1>1, <1>2 DEF Known, Pending
<1>4. Agreed(Known(q, f, x, t, r), s)
  BY <1>3, Fewer DEF LegSound
<1>5. ~Unheard(p)
  BY DEF LegSound, Heard
<1>6. \A n \in Int : Spent(p, n) => Spent(q, n)
  <2> SUFFICES ASSUME NEW n \in Int, Spent(p, n) PROVE Spent(q, n)
    OBVIOUS
  <2>1. n <= p.baseline /\ p.sliced.sequence > p.baseline
    BY DEF Spent, Matches
  <2>2. p.baseline \in Int /\ p.sliced.sequence \in Int
    BY DEF Patrols, Numbered
  <2>3. n < q.active
    BY <1>1, <2>1, <2>2
  <2> QED  BY <1>1, <2>3 DEF Spent
<1>7. x.route_sequence \in Int /\ p.status.route_sequence \in Int
  BY Constants DEF Reports, Patrols, Statuses
<1>8. Settled(q, f, x) /\ Settled(q, f, q.status)
  BY <1>1, <1>5, <1>6, <1>7 DEF LegSound, Settled
<1>9. Heard(q)
  BY <1>1, <1>5 DEF LegSound, Heard, Unheard
<1> QED  BY <1>4, <1>8, <1>9 DEF LegSound, q

LEMMA SlicedLeg ==
  ASSUME NEW p \in Patrols, NEW f \in SUBSET Numbered, NEW x \in Reports,
         NEW t, NEW r, NEW s, LegSound(p, f, x, t, r, s)
  PROVE  Driven(p, considerSliced(p), f, x, t, r, s)
<1>1. CASE considerSliced(p) = p
  BY <1>1, NotCounted DEF Driven
<1>2. CASE /\ p.phase = "WAITING_ROUTE" /\ Matches(p)
           /\ considerSliced(p) = considerController(Answered(p))
  <2>1. Driven(Answered(p), considerController(Answered(p)), f, x, t, r, s)
    BY <1>2, AnsweredLeg, AnsweredType, ControllerLeg
  <2>2. Counted(p, considerController(Answered(p)))
          = Counted(Answered(p), considerController(Answered(p)))
    BY AnsweredType DEF Counted
  <2> QED  BY <1>2, <2>1, <2>2 DEF Driven
<1> QED  BY <1>1, <1>2, SlicedOutcome

LEMMA PlanLeg ==
  ASSUME NEW p \in Patrols, NEW m \in Plans, NEW f \in SUBSET Numbered, NEW x \in Reports,
         NEW t, NEW r, NEW s, LegSound(p, f, x, t, r, s)
  PROVE  Driven(p, considerPlan(p, m), f, x, t, r, s)
<1>1. CASE considerPlan(p, m) = p
  BY <1>1, NotCounted DEF Driven
<1>2. CASE considerPlan(p, m) = Fail(p) /\ p.phase = "WAITING_PLAN"
  <2>1. Counted(p, Fail(p)) = {}
    BY FailFields, NotCounted
  <2>2. LegSound(Fail(p), f, x, t, r, s)
    BY <1>2, FailLeg DEF Waiting
  <2> QED  BY <1>2, <2>1, <2>2 DEF Driven
<1>3. CASE /\ p.phase = "WAITING_PLAN" /\ Resolved(p, m) \in Patrols
           /\ considerPlan(p, m) = considerSliced(Resolved(p, m))
  <2> DEFINE q == Resolved(p, m)
  <2>1. /\ q.phase = "WAITING_ROUTE" /\ q.legs = p.legs /\ q.seen = p.seen
        /\ q.status = p.status /\ q.sliced = p.sliced /\ q.baseline = p.baseline
    BY DEF Resolved, Patrols
  <2>2. q \in Patrols
    BY <1>3
  <2>3. considerPlan(p, m) = considerSliced(q)
    BY <1>3
  <2> HIDE DEF q
  <2>4. Pending(p) = {} /\ Pending(q) = {}
    BY <1>3, <2>1 DEF Pending
  <2>5. Known(q, f, x, t, r) = Known(p, f, x, t, r)
    BY <2>1, <2>4 DEF Known
  <2>6. \A n : Spent(p, n) => Spent(q, n)
    BY <1>3, <2>1 DEF Spent
  <2>7. ~Unheard(p) /\ ~Unheard(q)
    BY <1>3, <2>1 DEF LegSound, Heard, Unheard
  <2>8. LegSound(q, f, x, t, r, s)
    BY <2>1, <2>5, <2>6, <2>7 DEF LegSound, Settled, Heard
  <2>9. Driven(q, considerSliced(q), f, x, t, r, s)
    BY <2>2, <2>8, SlicedLeg
  <2>10. Counted(p, considerSliced(q)) = Counted(q, considerSliced(q))
    BY <2>1 DEF Counted
  <2> QED  BY <2>3, <2>9, <2>10 DEF Driven
<1> QED  BY <1>1, <1>2, <1>3, PlanOutcome

-----------------------------------------------------------------------------
(* The chain *)

\* The slicer has not started over, and a patrol that has asks no question
\* before it has heard a status.
Continuous == "slicer" \notin events /\ (WaitForIdle \/ "patrol" \notin events)

Leg == LegSound(patrol, finished, executor, topics.tasks, route, sequence)

LegInv ==
  /\ topics.status = executor
  /\ Continuous => Leg

LEMMA ContinuousBefore ==
  ASSUME Next, Continuous'
  PROVE  Continuous
<1>1. events \subseteq events'
  BY DEF Next, Deliver, dijkstra_status_callback, controller_status_callback,
         sliced_route_callback, start_callback, stop_callback, timer_callback, TimerAsks,
         TimerEndsDwell, TimerTimesOut, OperatorAsks, Serve, requestCallback,
         statusCallback, Execute, StageRoute, BeginRoute, FinishRoute, LeaveVertex,
         EndRoute, RestartSlicer, RestartExecutor, RestartPatrol, RestartDijkstra, Event
<1> QED  BY <1>1 DEF Continuous

\* Of a message the patrol makes a sound leg, and counts what was driven.
LEMMA DeliverLeg ==
  ASSUME PatrolInv, LegInv, Deliver, Continuous
  PROVE  /\ LegInv' /\ Counted(patrol, patrol') \subseteq finished
<1>1. /\ patrol \in Patrols /\ finished \in SUBSET Numbered /\ executor \in Reports
      /\ topics.plan \in Plans /\ topics.tasks \in Numbered
  BY DEF PatrolInv, TypeOK
<1>2. Leg /\ topics.status = executor
  BY DEF LegInv
<1>3. UNCHANGED <<topics, executor, route, sequence>>
  BY DEF Deliver, dijkstra_status_callback, controller_status_callback,
         sliced_route_callback
<1>4. finished' = finished \ Counted(patrol, patrol')
  BY DEF Deliver, dijkstra_status_callback, controller_status_callback,
         sliced_route_callback, PatrolBecomes
<1> SUFFICES Driven(patrol, patrol', finished, executor, topics.tasks, route, sequence)
  BY <1>2, <1>3, <1>4 DEF Driven, LegInv, Leg
<1>5. ASSUME NEW h \in Patrols, h.legs = patrol.legs,
             LegSound(h, finished, executor, topics.tasks, route, sequence),
             \/ patrol' = considerController(h) \/ patrol' = considerSliced(h)
      PROVE  Driven(patrol, patrol', finished, executor, topics.tasks, route, sequence)
  <2>1. Driven(h, patrol', finished, executor, topics.tasks, route, sequence)
    BY <1>1, <1>5, ControllerLeg, SlicedLeg
  <2>2. Counted(patrol, patrol') = Counted(h, patrol')
    BY <1>5 DEF Counted
  <2> QED  BY <2>1, <2>2 DEF Driven
<1>6. CASE dijkstra_status_callback
  <2>1. patrol' = considerPlan(patrol, topics.plan)
    BY <1>6 DEF dijkstra_status_callback, PatrolBecomes
  <2> QED  BY <1>1, <1>2, <2>1, PlanLeg DEF Leg
<1>7. CASE controller_status_callback
  <2> DEFINE seen == IF topics.status.route_sequence > patrol.seen
                     THEN topics.status.route_sequence ELSE patrol.seen
  <2> DEFINE h == [patrol EXCEPT !.seen = seen, !.status = topics.status]
  <2>1. patrol' = considerController(h)
    BY <1>7 DEF controller_status_callback, PatrolBecomes
  <2>2. executor.route_sequence \in Int /\ executor.state # "none" /\ patrol.seen \in Int
    BY <1>1 DEF Reports, Patrols
  <2>3. seen \in Int /\ patrol.seen <= seen /\ executor.route_sequence <= seen
    BY <1>2, <2>2
  <2>4. executor \in Statuses
    BY <1>1 DEF Statuses
  <2> HIDE DEF seen
  <2>5. /\ h \in Patrols /\ h.seen = seen /\ h.status = executor /\ h.phase = patrol.phase
        /\ h.legs = patrol.legs /\ h.sliced = patrol.sliced /\ h.active = patrol.active
        /\ h.pair = patrol.pair /\ h.baseline = patrol.baseline
    BY <1>1, <1>2, <2>3, <2>4 DEF Patrols
  <2> HIDE DEF h
  <2>6. Known(h, finished, executor, topics.tasks, route)
          = Known(patrol, finished, executor, topics.tasks, route)
    BY <2>5 DEF Known, Pending
  <2>7. Spent(patrol, executor.route_sequence) => Spent(h, executor.route_sequence)
    BY <2>3, <2>5 DEF Spent
  <2>8. Unheard(patrol) => Spent(h, executor.route_sequence)
    BY <1>2, <2>3, <2>5 DEF Leg, LegSound, Heard, Spent
  <2>9. Settled(h, finished, executor)
    BY <1>2, <2>7, <2>8 DEF Leg, LegSound, Settled
  <2>10. Heard(h)
    BY <2>2, <2>3, <2>5 DEF Heard, Unheard
  <2>11. LegSound(h, finished, executor, topics.tasks, route, sequence)
    BY <1>2, <2>5, <2>6, <2>9, <2>10 DEF Leg, LegSound
  <2> QED  BY <1>5, <2>1, <2>5, <2>11
<1>8. CASE sliced_route_callback
  <2> DEFINE h == [patrol EXCEPT !.sliced = topics.tasks]
  <2>1. patrol' = considerSliced(h)
    BY <1>8 DEF sliced_route_callback, PatrolBecomes
  <2>2. /\ h \in Patrols /\ h.seen = patrol.seen /\ h.status = patrol.status
        /\ h.phase = patrol.phase /\ h.legs = patrol.legs /\ h.sliced = topics.tasks
        /\ h.active = patrol.active /\ h.pair = patrol.pair /\ h.baseline = patrol.baseline
    BY <1>1 DEF Patrols
  <2> HIDE DEF h
  <2>3. Known(h, finished, executor, topics.tasks, route)
          \in SUBSET Known(patrol, finished, executor, topics.tasks, route)
    BY <2>2 DEF Known, Pending
  <2>4. \A n : Spent(patrol, n) => Spent(h, n)
    BY <2>2 DEF Spent
  <2>5. Unheard(h) = Unheard(patrol)
    BY <2>2 DEF Unheard
  <2>6. Settled(h, finished, executor) /\ Settled(h, finished, h.status) /\ Heard(h)
    BY <1>2, <2>2, <2>4, <2>5 DEF Leg, LegSound, Settled, Heard
  <2>7. LegSound(h, finished, executor, topics.tasks, route, sequence)
    BY <1>2, <2>3, <2>6, Fewer DEF Leg, LegSound
  <2> QED  BY <1>5, <2>1, <2>2, <2>7
<1> QED  BY <1>6, <1>7, <1>8 DEF Deliver

LEMMA OwnStepsLeg ==
  ASSUME PatrolInv, LegInv, start_callback \/ stop_callback \/ timer_callback, Continuous
  PROVE  LegInv'
<1>1. /\ patrol \in Patrols /\ patrol' \in Patrols
  BY OwnStepsKeep DEF PatrolInv, TypeOK
<1>2. Leg /\ topics.status = executor
  BY DEF LegInv
<1>3. UNCHANGED <<topics, executor, route, sequence, finished>>
  BY DEF start_callback, stop_callback, timer_callback, TimerAsks, TimerEndsDwell,
         TimerTimesOut
<1> SUFFICES LegSound(patrol', finished, executor, topics.tasks, route, sequence)
  BY <1>2, <1>3 DEF LegInv, Leg
<1>4. ASSUME patrol'.seen = patrol.seen, patrol'.status = patrol.status,
             patrol'.sliced = patrol.sliced, patrol'.phase \notin Waiting,
             Unheard(patrol') => patrol'.phase \in {"STOPPED", "READY"} /\ patrol'.legs = 0
      PROVE  LegSound(patrol', finished, executor, topics.tasks, route, sequence)
  BY <1>1, <1>2, <1>4, Resting DEF Leg
<1>5. Unheard(patrol) => patrol.phase \in {"STOPPED", "READY"} /\ patrol.legs = 0
  BY <1>2 DEF Leg, LegSound, Heard
<1>6. CASE start_callback
  <2>1. patrol' = Started(patrol)
    BY <1>6 DEF start_callback
  <2>2. /\ patrol'.phase = "READY" /\ patrol'.legs = 0 /\ patrol'.seen = patrol.seen
        /\ patrol'.status = patrol.status /\ patrol'.sliced = patrol.sliced
    BY <1>1, <2>1 DEF Started, Patrols
  <2> QED  BY <1>4, <2>2 DEF Waiting
<1>7. CASE stop_callback
  <2>1. patrol' = Stopped(patrol)
    BY <1>7 DEF stop_callback
  <2>2. /\ patrol'.phase = "STOPPED" /\ patrol'.legs = patrol.legs
        /\ patrol'.seen = patrol.seen /\ patrol'.status = patrol.status
        /\ patrol'.sliced = patrol.sliced
    BY <1>1, <2>1 DEF Stopped, Patrols
  <2> QED  BY <1>4, <1>5, <2>2 DEF Waiting, Unheard
<1>8. CASE TimerEndsDwell
  <2>1. /\ patrol.phase = "DWELL"
        /\ patrol' = [patrol EXCEPT !.phase = "READY", !.deadline = FALSE]
    BY <1>8 DEF TimerEndsDwell
  <2>2. /\ patrol'.phase = "READY" /\ patrol'.seen = patrol.seen
        /\ patrol'.status = patrol.status /\ patrol'.sliced = patrol.sliced
    BY <1>1, <2>1 DEF Patrols
  <2> QED  BY <1>4, <1>5, <2>1, <2>2 DEF Waiting, Unheard
<1>9. CASE TimerTimesOut
  <2>1. patrol' = Fail(patrol) /\ patrol.phase \in Waiting
    BY <1>9 DEF TimerTimesOut, TimedOut, Waiting
  <2> QED  BY <1>1, <1>2, <2>1, FailLeg DEF Leg
<1>10. CASE TimerAsks
  <2>1. patrol' = Asked(patrol) /\ MayAsk(patrol)
    BY <1>10 DEF TimerAsks
  <2>2. /\ patrol'.phase = "WAITING_PLAN" /\ patrol'.baseline = patrol.seen
        /\ patrol'.seen = patrol.seen /\ patrol'.status = patrol.status
        /\ patrol'.sliced = patrol.sliced
    BY <1>1, <2>1 DEF Asked, Patrols
  <2>3. ~Unheard(patrol)
    BY <1>5, <2>1 DEF MayAsk, AllowsFirst, Unheard
  <2>4. ~Unheard(patrol')
    BY <2>2, <2>3 DEF Unheard
  <2>5. \A n : Spent(patrol, n) => Spent(patrol', n)
    BY <2>2 DEF Spent
  <2>6. Known(patrol', finished, executor, topics.tasks, route)
          \in SUBSET Known(patrol, finished, executor, topics.tasks, route)
    BY <2>2 DEF Known, Pending
  <2>7. /\ Settled(patrol', finished, executor)
        /\ Settled(patrol', finished, patrol'.status) /\ Heard(patrol')
    BY <1>2, <2>2, <2>3, <2>4, <2>5 DEF Leg, LegSound, Settled, Heard
  <2> QED  BY <1>2, <2>6, <2>7, Fewer DEF Leg, LegSound
<1> QED  BY <1>6, <1>7, <1>8, <1>9, <1>10 DEF timer_callback

LEMMA OthersLeg ==
  ASSUME PatrolInv, LegInv, OperatorAsks \/ Serve \/ Execute \/ LeaveVertex \/ EndRoute,
         Continuous
  PROVE  LegInv'
<1>1. /\ patrol \in Patrols /\ finished \in SUBSET Numbered /\ executor \in Reports
      /\ topics \in [plan : Plans, tasks : Numbered, status : Reports]
      /\ topics.tasks \in Numbered /\ route \in Pairs /\ sequence \in Nat
      /\ executor.route_sequence \in Int
  BY DEF PatrolInv, TypeOK, Reports
<1>2. Leg /\ topics.status = executor
  BY DEF LegInv
<1>3. patrol' = patrol
  BY DEF OperatorAsks, Serve, requestCallback, statusCallback, Execute, StageRoute,
         BeginRoute, FinishRoute, Report, LeaveVertex, EndRoute
<1>4. \A t \in Reports : Publishes(t) =>
        /\ executor' = t /\ topics'.status = t /\ topics'.tasks = topics.tasks
  BY <1>1 DEF Publishes
\* Steps that publish a status: no route is known that was not.
<1>5. ASSUME NEW x \in Reports, NEW f \in SUBSET Numbered, NEW r,
             Publishes(x), sequence' = sequence, route' = r, finished' = f,
             finished \subseteq f,
             {Named(x.route_sequence, r)} \cup f \subseteq
               {topics.tasks, Named(executor.route_sequence, route)} \cup finished,
             Settled(patrol, f, x)
      PROVE  LegInv'
  <2>1. Known(patrol, f, x, topics.tasks, r)
          \in SUBSET Known(patrol, finished, executor, topics.tasks, route)
    BY <1>5 DEF Known
  <2>2. Settled(patrol, f, patrol.status)
    BY <1>2, <1>5 DEF Leg, LegSound, Settled, Done
  <2>3. LegSound(patrol, f, x, topics.tasks, r, sequence)
    BY <1>2, <1>5, <2>1, <2>2, Fewer DEF Leg, LegSound
  <2> QED  BY <1>3, <1>4, <1>5, <2>3 DEF LegInv, Leg
<1>6. CASE OperatorAsks \/ LeaveVertex
  BY <1>2, <1>3, <1>6 DEF OperatorAsks, LeaveVertex, LegInv, Leg
<1>7. CASE requestCallback
  <2>1. /\ topics'.tasks = topics.tasks /\ topics'.status = topics.status
        /\ UNCHANGED <<sequence, executor, route, finished>>
    BY <1>1, <1>7 DEF requestCallback
  <2> QED  BY <1>2, <1>3, <2>1 DEF LegInv, Leg
<1>8. CASE statusCallback
  <2>1. CASE ~Sliced(topics.plan)
    BY <1>2, <1>3, <1>8, <2>1 DEF statusCallback, LegInv, Leg
  <2>2. CASE Sliced(topics.plan)
    <3> DEFINE new == [sequence |-> sequence + 1, pair |-> topics.plan.pair]
    <3>1. /\ sequence' = sequence + 1 /\ topics'.tasks = new
          /\ topics'.status = topics.status /\ UNCHANGED <<executor, route, finished>>
      BY <1>1, <1>8, <2>2 DEF statusCallback
    <3>2. new.sequence = sequence + 1
      OBVIOUS
    <3> HIDE DEF new
    <3> DEFINE known == Known(patrol, finished, executor, topics.tasks, route)
    <3>3. Known(patrol, finished, executor, new, route) \in SUBSET (known \cup {new})
      BY DEF Known
    <3>4. Agreed(known, sequence)
      BY <1>2 DEF Leg, LegSound
    <3>5. \A a \in known : a.sequence \in Int
      BY <1>1 DEF Known, Pending, Named, Numbered, Patrols
    <3> HIDE DEF known
    <3>6. Agreed(known \cup {new}, sequence + 1)
      <4>1. \A a \in known : a.sequence <= sequence + 1 /\ a.sequence # sequence + 1
        BY <1>1, <3>4, <3>5 DEF Agreed
      <4>2. ~(sequence + 1 <= 0) /\ sequence + 1 <= sequence + 1
        BY <1>1
      <4> QED  BY <3>2, <3>4, <4>1, <4>2 DEF Agreed
    <3>7. Agreed(Known(patrol, finished, executor, new, route), sequence + 1)
      BY <3>3, <3>6, Fewer
    <3>8. LegSound(patrol, finished, executor, new, route, sequence + 1)
      BY <1>2, <3>7 DEF Leg, LegSound
    <3> QED  BY <1>2, <1>3, <3>1, <3>8 DEF LegInv, Leg
  <2> QED  BY <2>1, <2>2
<1>9. CASE StageRoute
  <2> DEFINE x == Execution!Status(topics.tasks.sequence, "READY", FALSE)
  <2>1. /\ Publishes(x) /\ route' = topics.tasks.pair
        /\ sequence' = sequence /\ finished' = finished
    BY <1>9 DEF StageRoute
  <2>2. topics.tasks.sequence \in Int
    BY <1>1 DEF Numbered
  <2>3. x \in Reports /\ x.route_sequence = topics.tasks.sequence /\ x.state = "READY"
    BY <2>2, StatusType, ZenonT(30)
  <2>4. Named(x.route_sequence, topics.tasks.pair) = topics.tasks
    BY <1>1, <2>3 DEF Named, Numbered
  <2> HIDE DEF x
  <2>5. Settled(patrol, finished, x)
    BY <2>3 DEF Settled
  <2> QED  BY <1>1, <1>5, <2>1, <2>3, <2>4, <2>5
<1>10. CASE BeginRoute
  <2> DEFINE x == Execution!Status(executor.route_sequence, "TRACKING", TRUE)
  <2>1. /\ Publishes(x) /\ route' = route /\ sequence' = sequence /\ finished' = finished
    BY <1>10 DEF BeginRoute, Report
  <2>2. x \in Reports /\ x.route_sequence = executor.route_sequence /\ x.state = "TRACKING"
    BY <1>1, StatusType, ZenonT(30)
  <2> HIDE DEF x
  <2>3. Settled(patrol, finished, x)
    BY <2>2 DEF Settled
  <2> QED  BY <1>1, <1>5, <2>1, <2>2, <2>3
<1>11. CASE EndRoute
  <2>1. PICK e \in {"CANCELLED", "ERROR"} :
          /\ Publishes(Execution!Status(executor.route_sequence, e, FALSE))
          /\ route' = route /\ sequence' = sequence /\ finished' = finished
    BY <1>11 DEF EndRoute, Report
  <2> DEFINE x == Execution!Status(executor.route_sequence, e, FALSE)
  <2>2. x \in Reports /\ x.route_sequence = executor.route_sequence /\ x.state = e
    <3>1. e \in {"IDLE", "READY", "TRACKING", "FINISHED", "CANCELLED", "ERROR"}
      OBVIOUS
    <3>2. x.route_sequence = executor.route_sequence /\ x.state = e
      BY DEF Execution!Status
    <3>3. x \in Reports
      BY <1>1, <3>1 DEF Execution!Status, Reports
    <3> QED  BY <3>2, <3>3
  <2>3. Publishes(x) /\ route' = route /\ sequence' = sequence /\ finished' = finished
    BY <2>1
  <2> HIDE DEF x
  <2>4. Settled(patrol, finished, x)
    BY <2>2 DEF Settled
  <2> QED  BY <1>1, <1>5, <2>2, <2>3, <2>4
<1>12. CASE FinishRoute
  <2> DEFINE x == Execution!Status(executor.route_sequence, "FINISHED", FALSE)
  <2> DEFINE a == Named(executor.route_sequence, route)
  <2> DEFINE f == finished \cup {a}
  <2>1. /\ Publishes(x) /\ route' = route /\ sequence' = sequence /\ finished' = f
    BY <1>12 DEF FinishRoute, Report, Named
  <2>2. x \in Reports /\ x.route_sequence = executor.route_sequence
    BY <1>1, StatusType
  <2>3. a \in Numbered /\ a.sequence = executor.route_sequence
    BY <1>1 DEF Named, Numbered
  <2> HIDE DEF x
  <2>4. Settled(patrol, f, x)
    BY <2>2, <2>3 DEF Settled, Done
  <2>5. f \in SUBSET Numbered /\ finished \subseteq f
    BY <1>1, <2>3
  <2>6. {Named(x.route_sequence, route)} \cup f \subseteq
               {topics.tasks, Named(executor.route_sequence, route)} \cup finished
    BY <2>2
  <2> HIDE DEF f
  <2> QED  BY <1>5, <2>1, <2>2, <2>4, <2>5, <2>6
<1> QED  BY <1>6, <1>7, <1>8, <1>9, <1>10, <1>11, <1>12 DEF Serve, Execute

\* A number that stands for no route may join those that are known.
LEMMA OneMore ==
  ASSUME NEW known, NEW s \in Nat, Agreed(known, s), NEW a,
         a.sequence \in Int, a.sequence <= 0, a.pair = NoPair
  PROVE  Agreed(known \cup {a}, s)
<1>1. a.sequence <= s
  OBVIOUS
<1> QED  BY <1>1 DEF Agreed

LEMMA RestartsLeg ==
  ASSUME PatrolInv, LegInv,
         RestartSlicer \/ RestartExecutor \/ RestartPatrol \/ RestartDijkstra,
         Continuous, Continuous'
  PROVE  LegInv'
<1>1. /\ patrol \in Patrols /\ finished \in SUBSET Numbered /\ sequence \in Nat
      /\ topics \in [plan : Plans, tasks : Numbered, status : Reports]
  BY DEF PatrolInv, TypeOK
<1>2. Leg /\ topics.status = executor
  BY DEF LegInv
<1> DEFINE known == Known(patrol, finished, executor, topics.tasks, route)
<1>3. Agreed(known, sequence)
  BY <1>2 DEF Leg, LegSound
<1>4. CASE RestartSlicer
  BY <1>4 DEF RestartSlicer, Event, Continuous
<1>5. CASE RestartExecutor
  <2> DEFINE x == Execution!NoRouteYet
  <2>1. /\ executor' = x /\ topics'.status = x /\ topics'.tasks = topics.tasks
        /\ route' = NoPair /\ UNCHANGED <<patrol, sequence, finished>>
    BY <1>1, <1>5 DEF RestartExecutor, Publishes
  <2>2. x.route_sequence = 0 /\ x.state = "IDLE"
    BY NoRouteYetType
  <2> HIDE DEF x
  <2> DEFINE a == Named(0, NoPair)
  <2>3. a.sequence = 0 /\ a.pair = NoPair
    BY DEF Named
  <2>4. Known(patrol, finished, x, topics.tasks, NoPair) \in SUBSET (known \cup {a})
    BY <2>2 DEF Known
  <2> HIDE DEF a, known
  <2>5. Agreed(known \cup {a}, sequence)
    BY <1>1, <1>3, <2>3, OneMore
  <2>6. Agreed(Known(patrol, finished, x, topics.tasks, NoPair), sequence)
    BY <2>4, <2>5, Fewer
  <2>7. LegSound(patrol, finished, x, topics.tasks, NoPair, sequence)
    BY <1>2, <2>2, <2>6 DEF Leg, LegSound, Settled
  <2> QED  BY <2>1, <2>7 DEF LegInv, Leg
<1>6. CASE RestartPatrol
  <2> DEFINE q == InitialPhase(InitPatrol)
  <2>1. patrol' = q /\ UNCHANGED <<topics, executor, route, sequence, finished>>
    BY <1>6 DEF RestartPatrol
  <2>2. WaitForIdle
    BY <1>6 DEF RestartPatrol, Event, Continuous
  <2>3. /\ q.status = NoStatus /\ q.sliced = NoRoute /\ q.phase \in {"STOPPED", "READY"}
        /\ q.legs = 0 /\ q.seen = -1
    BY FirstPatrol
  <2> HIDE DEF q
  <2>4. NoRoute.sequence = -1 /\ NoRoute.pair = NoPair
    BY DEF NoRoute
  <2>5. Known(q, finished, executor, topics.tasks, route) \in SUBSET (known \cup {NoRoute})
    BY <2>3 DEF Known, Pending
  <2> HIDE DEF known
  <2>6. Agreed(known \cup {NoRoute}, sequence)
    BY <1>1, <1>3, <2>4, OneMore
  <2>7. Agreed(Known(q, finished, executor, topics.tasks, route), sequence)
    BY <2>5, <2>6, Fewer
  <2>8. Unheard(q)
    BY <2>2, <2>3, Constants DEF Unheard
  <2>9. Heard(q)
    BY <2>3, Constants DEF Heard
  <2>10. LegSound(q, finished, executor, topics.tasks, route, sequence)
    BY <2>7, <2>8, <2>9 DEF LegSound, Settled
  <2> QED  BY <1>2, <2>1, <2>10 DEF LegInv, Leg
<1>7. CASE RestartDijkstra
  <2>1. /\ topics'.tasks = topics.tasks /\ topics'.status = topics.status
        /\ UNCHANGED <<patrol, sequence, executor, route, finished>>
    BY <1>1, <1>7 DEF RestartDijkstra
  <2> QED  BY <1>2, <2>1 DEF LegInv, Leg
<1> QED  BY <1>4, <1>5, <1>6, <1>7

LEMMA LegStep ==
  ASSUME PatrolInv, LegInv, [Next]_vars
  PROVE  LegInv'
<1>1. CASE UNCHANGED vars
  BY <1>1 DEF vars, LegInv, Leg, Continuous
<1>2. CASE Next /\ Continuous'
  BY <1>2, ContinuousBefore, DeliverLeg, OwnStepsLeg, OthersLeg, RestartsLeg DEF Next
<1>3. CASE Next /\ ~Continuous'
  <2>1. /\ topics.status = executor
        /\ topics \in [plan : Plans, tasks : Numbered, status : Reports]
    BY DEF LegInv, PatrolInv, TypeOK
  <2>2. ASSUME NEW t, Publishes(t)
        PROVE  topics'.status = executor'
    BY <2>1, <2>2 DEF Publishes
  <2> SUFFICES topics'.status = executor'
    BY <1>3 DEF LegInv
  <2>3. CASE Deliver \/ start_callback \/ stop_callback \/ timer_callback
    BY <2>1, <2>3 DEF Deliver, dijkstra_status_callback, controller_status_callback,
       sliced_route_callback, start_callback, stop_callback, timer_callback, TimerAsks,
       TimerEndsDwell, TimerTimesOut
  <2>4. CASE OperatorAsks \/ LeaveVertex \/ RestartPatrol
    BY <2>1, <2>4 DEF OperatorAsks, LeaveVertex, RestartPatrol
  <2>5. CASE Serve \/ RestartSlicer \/ RestartDijkstra
    BY <2>1, <2>5 DEF Serve, requestCallback, statusCallback, RestartSlicer,
       RestartDijkstra
  <2>6. CASE Execute \/ EndRoute \/ RestartExecutor
    BY <2>2, <2>6 DEF Execute, StageRoute, BeginRoute, FinishRoute, Report, EndRoute,
       RestartExecutor
  <2> QED  BY <1>3, <2>3, <2>4, <2>5, <2>6 DEF Next
<1> QED  BY <1>1, <1>2, <1>3

\* Until the slicer starts over, everyone who knows a route by its number knows
\* the same route, and a FINISHED on its way to the patrol is of a route that
\* waits to be counted, or lies below the patrol's baseline.
THEOREM LegInvariant == Spec => [](PatrolInv /\ LegInv)
<1>1. Init => LegInv
  <2> SUFFICES ASSUME Init PROVE LegInv
    OBVIOUS
  <2> DEFINE x == Execution!NoRouteYet
  <2>1. /\ patrol.status = NoStatus /\ patrol.sliced = NoRoute /\ patrol.legs = 0
        /\ patrol.phase \in {"STOPPED", "READY"} /\ patrol.seen = -1
    BY FirstPatrol DEF Init
  <2>2. /\ topics.tasks = NoRoute /\ topics.status = x /\ executor = x /\ sequence = 0
        /\ route = NoPair /\ finished = {} /\ x.route_sequence = 0 /\ x.state = "IDLE"
    BY NoRouteYetType DEF Init
  <2> HIDE DEF x
  <2>3. Known(patrol, finished, executor, topics.tasks, route)
          \in SUBSET {NoRoute, Named(0, NoPair)}
    BY <2>1, <2>2 DEF Known, Pending
  <2>4. Agreed({NoRoute, Named(0, NoPair)}, 0)
    BY DEF Agreed, NoRoute, Named
  <2>5. Agreed(Known(patrol, finished, executor, topics.tasks, route), sequence)
    BY <2>2, <2>3, <2>4, Fewer
  <2>6. Settled(patrol, finished, executor) /\ Settled(patrol, finished, patrol.status)
    BY <2>1, <2>2, Constants DEF Settled
  <2>7. Heard(patrol)
    BY <2>1, Constants DEF Heard
  <2> QED  BY <2>2, <2>5, <2>6, <2>7 DEF LegInv, Leg, LegSound
<1> QED  BY <1>1, LegStep, PatrolInvariant, PTL DEF Spec

\* LegIsDriven for every topology, request mode, initial direction and number of
\* trips, whatever operators ask for and whichever nodes restart.
THEOREM LegCorrect == Spec => LegIsDriven
<1> DEFINE Sound == patrol'.legs > patrol.legs =>
      \/ [sequence |-> patrol'.active, pair |-> patrol'.pair] \in finished
      \/ "slicer" \in events
      \/ ~WaitForIdle /\ "patrol" \in events
<1>1. PatrolInv /\ LegInv /\ [Next]_vars => [Sound]_vars
  <2> SUFFICES ASSUME PatrolInv, LegInv, Next, patrol'.legs > patrol.legs, Continuous
               PROVE  [sequence |-> patrol'.active, pair |-> patrol'.pair] \in finished
    BY Constants DEF Continuous
  <2>1. CASE Deliver
    BY <2>1, DeliverLeg DEF Counted
  <2>2. CASE ~Deliver
    <3>1. patrol \in Patrols /\ patrol.legs \in Nat
      BY DEF PatrolInv, TypeOK, Patrols
    <3>2. patrol'.legs \in {patrol.legs, 0}
      <4>1. /\ Started(patrol).legs = 0 /\ Stopped(patrol).legs = patrol.legs
            /\ Fail(patrol).legs = patrol.legs /\ Asked(patrol).legs = patrol.legs
            /\ [patrol EXCEPT !.phase = "READY", !.deadline = FALSE].legs = patrol.legs
        BY <3>1 DEF Started, Stopped, Fail, Asked, Patrols
      <4>2. CASE start_callback \/ stop_callback \/ timer_callback
        BY <4>1, <4>2 DEF start_callback, stop_callback, timer_callback, TimerAsks,
           TimerEndsDwell, TimerTimesOut, TimedOut
      <4>3. CASE RestartPatrol
        BY <4>3, FirstPatrol DEF RestartPatrol
      <4>4. CASE patrol' = patrol
        BY <4>4
      <4> QED  BY <2>2, <4>2, <4>3, <4>4 DEF Next, OperatorAsks, Serve, requestCallback,
                  statusCallback, Execute, StageRoute, BeginRoute, FinishRoute, Report,
                  LeaveVertex, EndRoute, RestartSlicer, RestartExecutor, RestartDijkstra
    <3>3. ~(patrol.legs > patrol.legs) /\ ~(0 > patrol.legs)
      BY <3>1
    <3> QED  BY <3>2, <3>3
  <2> QED  BY <2>1, <2>2
<1> QED  BY <1>1, LegInvariant, PTL DEF Spec, LegIsDriven
=============================================================================
