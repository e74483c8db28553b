------------------------------ MODULE PatrolLoop ------------------------------
(***************************************************************************)
(* route3d_loop_patrol and the chain that serves it: the patrol node asks  *)
(* for one leg after the other, the Dijkstra node plans it, the slicer     *)
(* numbers it and hands it to the executor, whose status tells the patrol  *)
(* that the robot arrived.  Operators ask for routes at the same node.     *)
(*                                                                         *)
(* The four topics on the way are latched with depth 1: the last message   *)
(* is all a slow or a late subscriber gets.  `topics' holds that message,  *)
(* `unread' the subscriptions that have not taken it yet.                  *)
(***************************************************************************)
EXTENDS Integers, FiniteSets

CONSTANTS
  StartId, GoalId,          \* patrol.start_vertex_id, patrol.goal_vertex_id
  RequestMode,              \* patrol.request_mode: "start_goal" or "goal_only"
  InitialDirection,         \* patrol.initial_direction: 0 is start_to_goal
  MaxRoundTrips,            \* patrol.max_round_trips, 0 for ever
  PatrolAutoStart,          \* patrol.auto_start
  WaitForIdle,              \* patrol.wait_for_idle_before_first_request
  ArrivalTimeout,           \* timeouts.arrival_s is not 0
  Vertices,                 \* of the topology graph
  Connected,                \* the pairs Dijkstra finds a path for
  Sliceable,                \* the pairs whose path the slicer accepts
  OperatorPairs,            \* the routes operators ask for
  MaxSequence,              \* bound: route_sequence_ of the slicer
  MaxEvents                 \* bound: how many of these happen, each once: an
                            \*   operator's route, ~/start, ~/stop, a route that
                            \*   is CANCELLED or in ERROR, a restart of each node

NoVertex == -1

ASSUME PatrolAssumption ==
  /\ {StartId, GoalId} \subseteq Vertices /\ StartId # GoalId
  /\ NoVertex \notin Vertices
  /\ RequestMode \in {"start_goal", "goal_only"}
  /\ InitialDirection \in {0, 1}
  /\ {PatrolAutoStart, WaitForIdle, ArrivalTimeout} \subseteq BOOLEAN
  /\ Sliceable \subseteq Connected /\ Connected \subseteq Vertices \X Vertices
  /\ OperatorPairs \subseteq Vertices \X Vertices
  /\ {MaxRoundTrips, MaxSequence, MaxEvents} \subseteq Nat

VARIABLES
  patrol,     \* the members of LoopPatrolNode and of its PatrolCoordinator
  requests,   \* plan requests on their way to the Dijkstra node
  topics,     \* the last message of each latched topic
  unread,     \* subscriptions that have yet to take it
  sequence,   \* the slicer's route_sequence_
  executor,   \* what the executor's status says
  route,      \* the pair the executor's route leads from and to
  near,       \* the vertex within start_snap_radius of the robot, if any
  finished,   \* history: routes finished and not yet counted as a leg
  asked,      \* history: legs asked for since the patrol was started
  events      \* what happened, against the bound

vars == <<patrol, requests, topics, unread, sequence, executor, route, near,
          finished, asked, events>>

Execution == INSTANCE RouteExecution WITH status <- executor

Pair(s, g) == [start |-> s, goal |-> g]
NoPair == Pair(NoVertex, NoVertex)
NoRoute == [sequence |-> -1, pair |-> NoPair]
NoStatus == Execution!Status(-1, "none", FALSE)
NoPlan == [success |-> FALSE, mode |-> "none", pair |-> NoPair]

-----------------------------------------------------------------------------
(* PatrolCoordinator *)

InitPatrol ==
  [phase |-> "STOPPED", direction |-> 0, legs |-> 0, trips |-> 0,
   baseline |-> -1, active |-> -1, pair |-> NoPair,
   seen |-> -1, status |-> NoStatus, sliced |-> NoRoute, deadline |-> FALSE]

Started(p) ==
  [p EXCEPT !.phase = "READY", !.direction = InitialDirection, !.legs = 0,
            !.trips = 0, !.baseline = -1, !.active = -1, !.pair = NoPair,
            !.deadline = TRUE]

Stopped(p) ==
  [p EXCEPT !.phase = "STOPPED", !.active = -1, !.pair = NoPair,
            !.deadline = FALSE]

Fail(p) == [p EXCEPT !.phase = "ERROR", !.deadline = FALSE]

LegOf(p) == IF p.direction = 0 THEN Pair(StartId, GoalId) ELSE Pair(GoalId, StartId)

\* request_pair and the timer around it
Asked(p) ==
  [p EXCEPT !.phase = "WAITING_PLAN", !.baseline = p.seen, !.active = -1,
            !.pair = LegOf(p), !.deadline = TRUE]

TripsAfter(p) == IF p.direction = 1 THEN p.trips + 1 ELSE p.trips

\* (mutated: the deadline of the arrival is kept)
TurnedLateMutant(p) == [p EXCEPT !.phase = "DWELL", !.direction = 1 - @]
Turned(p) == [p EXCEPT !.phase = "DWELL", !.direction = 1 - @, !.deadline = TRUE]
Arrived(p) ==
  LET n == [p EXCEPT !.legs = @ + 1, !.trips = TripsAfter(p)]
  IN IF MaxRoundTrips > 0 /\ TripsAfter(p) >= MaxRoundTrips
     THEN [n EXCEPT !.phase = "COMPLETED", !.deadline = FALSE]
     ELSE Turned(n)

\* _consider_last_controller_status: FINISHED and inactive is the arrival.
considerController(p) ==
  IF p.phase # "WAITING_ARRIVAL" \/ p.status.route_sequence < p.active THEN p
  ELSE IF p.status.route_sequence # p.active THEN Fail(p)
  ELSE IF p.status.state \in {"ERROR", "CANCELLED"} THEN Fail(p)
  ELSE IF p.status.state = "FINISHED" /\ ~p.status.active THEN Arrived(p)
  ELSE p

\* _consider_last_sliced_route: the route must be the pending pair's, and newer
\* than all the executor had when the leg was asked for.
MatchesMutant(p) == p.sliced.sequence > p.baseline   \* (mutated: of any pair)
Matches(p) == p.sliced.pair = p.pair /\ p.sliced.sequence > p.baseline
considerSliced(p) ==
  IF p.phase # "WAITING_ROUTE" \/ ~Matches(p) THEN p
  ELSE considerController([p EXCEPT !.phase = "WAITING_ARRIVAL",
                                    !.active = p.sliced.sequence,
                                    !.deadline = ArrivalTimeout])

\* dijkstra_status_callback
Concerns(p, m) ==
  /\ p.phase = "WAITING_PLAN" /\ m.mode = RequestMode
  /\ m.pair.goal = p.pair.goal

\* In goal_only mode the planner's start becomes the pair's.
Resolved(p, m) ==
  [p EXCEPT !.pair = IF RequestMode = "goal_only" THEN m.pair ELSE @,
            !.phase = "WAITING_ROUTE", !.deadline = TRUE]

considerPlan(p, m) ==
  IF ~Concerns(p, m) THEN p
  ELSE IF ~m.success THEN Fail(p)
  ELSE IF RequestMode = "start_goal" /\ m.pair.start # p.pair.start THEN p
  ELSE considerController(considerSliced(Resolved(p, m)))

-----------------------------------------------------------------------------
(* The patrol node.  A deadline that is set may be found elapsed or not. *)

Event(e) ==
  /\ e \notin events /\ Cardinality(events) < MaxEvents
  /\ events' = events \cup {e}

Counted(p, q) ==             \* the route that a new leg was counted for
  IF q.legs > p.legs THEN {[sequence |-> q.active, pair |-> q.pair]} ELSE {}

PatrolBecomes(q) ==
  /\ patrol' = q
  /\ finished' = finished \ Counted(patrol, q)

Take(s) == s \in unread /\ unread' = unread \ {s}

dijkstra_status_callback ==
  /\ Take("plan to patrol")
  /\ PatrolBecomes(considerPlan(patrol, topics.plan))
  /\ UNCHANGED <<asked, requests, topics, sequence, executor, route, near, events>>

controller_status_callback ==
  LET s == topics.status
      seen == IF s.route_sequence > patrol.seen THEN s.route_sequence ELSE patrol.seen
  IN
  /\ Take("status to patrol")
  /\ PatrolBecomes(considerController([patrol EXCEPT !.seen = seen, !.status = s]))
  /\ UNCHANGED <<asked, requests, topics, sequence, executor, route, near, events>>

sliced_route_callback ==
  /\ Take("tasks to patrol")
  /\ PatrolBecomes(considerSliced([patrol EXCEPT !.sliced = topics.tasks]))
  /\ UNCHANGED <<asked, requests, topics, sequence, executor, route, near, events>>

start_callback ==
  /\ patrol.phase \in {"STOPPED", "COMPLETED", "ERROR"}
  /\ Event("start")
  /\ patrol' = Started(patrol)
  /\ asked' = 0
  /\ UNCHANGED <<requests, topics, unread, sequence, executor, route, near, finished>>

stop_callback ==
  /\ Event("stop")
  /\ patrol' = Stopped(patrol)
  /\ UNCHANGED <<asked, requests, topics, unread, sequence, executor, route, near, finished>>

\* _controller_allows_first_request
AllowsFirst(p) == ~p.status.active /\ p.status.state \in {"IDLE", "FINISHED", "CANCELLED"}
MayAsk(p) == p.phase = "READY" /\ (p.legs = 0 /\ WaitForIdle => AllowsFirst(p))

\* The timer publishes the request for the next leg.
TimerAsks ==
  /\ MayAsk(patrol)
  /\ patrol' = Asked(patrol)
  /\ asked' = asked + 1
  /\ requests' = requests \cup
       {[mode |-> RequestMode, from |-> "patrol",
         pair |-> IF RequestMode = "goal_only"
                  THEN Pair(NoVertex, LegOf(patrol).goal) ELSE LegOf(patrol)]}
  /\ UNCHANGED <<topics, unread, sequence, executor, route, near, finished, events>>

TimerEndsDwell ==
  /\ patrol.phase = "DWELL" /\ patrol.deadline
  /\ patrol' = [patrol EXCEPT !.phase = "READY", !.deadline = FALSE]
  /\ UNCHANGED <<asked, requests, topics, unread, sequence, executor, route, near,
                 finished, events>>

\* "A timeout never advances to the next pair."
TimedOutMutant(p) == [p EXCEPT !.phase = "READY", !.deadline = FALSE]
TimedOut(p) == Fail(p)

TimerTimesOut ==
  /\ patrol.phase \in {"WAITING_PLAN", "WAITING_ROUTE", "WAITING_ARRIVAL"}
  /\ patrol.deadline
  /\ patrol' = TimedOut(patrol)
  /\ UNCHANGED <<asked, requests, topics, unread, sequence, executor, route, near,
                 finished, events>>

timer_callback == TimerAsks \/ TimerEndsDwell \/ TimerTimesOut

-----------------------------------------------------------------------------
(* The Dijkstra node and the slicer *)

\* An operator asks for a route, by its ends or by its goal alone.
OperatorAsks ==
  \E q \in OperatorPairs, mode \in {"start_goal", "goal_only"} :
    /\ Event("operator")
    /\ requests' = requests \cup
         {[mode |-> mode, from |-> "operator",
           pair |-> Pair(IF mode = "goal_only" THEN NoVertex ELSE q[1], q[2])]}
    /\ UNCHANGED <<asked, patrol, topics, unread, sequence, executor, route, near, finished>>

\* goalRequestCallback takes the nearest vertex, unless it is too far.
StartOf(r) == IF r.mode = "goal_only" THEN near ELSE r.pair.start

PlanFor(r) ==
  LET p == Pair(StartOf(r), r.pair.goal)
  IN [success |-> <<p.start, p.goal>> \in Connected, mode |-> r.mode, pair |-> p]

requestCallback ==
  \E r \in requests :
    /\ requests' = requests \ {r}
    /\ topics' = [topics EXCEPT !.plan = PlanFor(r)]
    /\ unread' = unread \cup {"plan to slicer", "plan to patrol"}
    /\ UNCHANGED <<asked, patrol, sequence, executor, route, near, finished, events>>

\* A failed request, or a path it cannot slice, leaves the last tasks latched.
Sliced(m) == m.success /\ <<m.pair.start, m.pair.goal>> \in Sliceable

statusCallback ==
  /\ "plan to slicer" \in unread
  /\ IF Sliced(topics.plan)
     THEN /\ sequence < MaxSequence
          /\ sequence' = sequence + 1
          /\ topics' = [topics EXCEPT !.tasks = [sequence |-> sequence + 1,
                                                 pair |-> topics.plan.pair]]
          /\ unread' = (unread \ {"plan to slicer"})
                         \cup {"tasks to executor", "tasks to patrol"}
     ELSE /\ unread' = unread \ {"plan to slicer"}
          /\ UNCHANGED <<sequence, topics>>
  /\ UNCHANGED <<asked, patrol, requests, executor, route, near, finished, events>>

-----------------------------------------------------------------------------
(* The executor, as RouteExecution promises it; the robot follows it. *)

Publishes(t) ==
  /\ executor' = t
  /\ topics' = [topics EXCEPT !.status = t]

StageRoute ==
  /\ "tasks to executor" \in unread
  /\ Publishes(Execution!Status(topics.tasks.sequence, "READY", FALSE))
  /\ Execution!Stages(executor, executor')
  /\ route' = topics.tasks.pair
  /\ unread' = (unread \ {"tasks to executor"}) \cup {"status to patrol"}
  /\ UNCHANGED <<asked, patrol, requests, sequence, near, finished, events>>

Report(t) ==
  /\ Publishes(t)
  /\ unread' = unread \cup {"status to patrol"}
  /\ UNCHANGED <<patrol, requests, sequence, route>>

BeginRoute ==
  /\ executor.state = "READY"
  /\ Report(Execution!Status(executor.route_sequence, "TRACKING", TRUE))
  /\ Execution!CarriesOn(executor, executor')
  /\ UNCHANGED <<asked, near, finished, events>>

\* On its way the robot leaves the vertex it stood at.
LeaveVertex ==
  /\ executor.active /\ near # NoVertex
  /\ near' = NoVertex
  /\ UNCHANGED <<patrol, requests, topics, unread, sequence, executor, route,
                 finished, asked, events>>

FinishRoute ==
  /\ executor.active
  /\ Report(Execution!Status(executor.route_sequence, "FINISHED", FALSE))
  /\ Execution!Finishes(executor, executor')
  /\ near' = route.goal
  /\ finished' = finished \cup {[sequence |-> executor.route_sequence, pair |-> route]}
  /\ UNCHANGED <<events, asked>>

EndRoute ==
  \E s \in {"CANCELLED", "ERROR"} :
    /\ executor.active /\ Event("end")
    /\ Report(Execution!Status(executor.route_sequence, s, FALSE))
    /\ Execution!CarriesOn(executor, executor')
    /\ near' = NoVertex
    /\ UNCHANGED <<finished, asked>>

-----------------------------------------------------------------------------
(* Restarts: a node comes back with its initial members, and is given what is
   still latched; what it had latched itself is gone. *)

\* The last plan is sliced again, under a sequence that starts over.
RestartSlicer ==
  /\ Event("slicer")
  /\ sequence' = 0
  /\ topics' = [topics EXCEPT !.tasks = NoRoute]
  /\ unread' = (unread \ {"tasks to executor", "tasks to patrol"}) \cup
                 (IF topics.plan = NoPlan THEN {} ELSE {"plan to slicer"})
  /\ UNCHANGED <<asked, patrol, requests, executor, route, near, finished>>

\* The latched route is staged again.
RestartExecutor ==
  /\ Event("executor")
  /\ Publishes(Execution!NoRouteYet)
  /\ route' = NoPair
  /\ unread' = unread \cup {"status to patrol"} \cup
                 (IF topics.tasks = NoRoute THEN {} ELSE {"tasks to executor"})
  /\ UNCHANGED <<asked, patrol, requests, sequence, near, finished>>

InitialPhase(p) == IF PatrolAutoStart THEN Started(p) ELSE p

RestartPatrol ==
  /\ Event("patrol")
  /\ patrol' = InitialPhase(InitPatrol)
  /\ unread' = unread \cup {"status to patrol"} \cup
                 (IF topics.plan = NoPlan THEN {} ELSE {"plan to patrol"}) \cup
                 (IF topics.tasks = NoRoute THEN {} ELSE {"tasks to patrol"})
  /\ asked' = 0
  /\ UNCHANGED <<requests, topics, sequence, executor, route, near, finished>>

\* Requests that had not been taken are lost with the planner that had them.
RestartDijkstra ==
  /\ Event("dijkstra")
  /\ requests' = {}
  /\ topics' = [topics EXCEPT !.plan = NoPlan]
  /\ unread' = unread \ {"plan to slicer", "plan to patrol"}
  /\ UNCHANGED <<asked, patrol, sequence, executor, route, near, finished>>

-----------------------------------------------------------------------------
Init ==
  /\ patrol = InitialPhase(InitPatrol)
  /\ requests = {}
  /\ topics = [plan |-> NoPlan, tasks |-> NoRoute, status |-> Execution!NoRouteYet]
  /\ unread = {"status to patrol"}
  /\ sequence = 0
  /\ executor = Execution!NoRouteYet
  /\ route = NoPair
  /\ near = StartId
  /\ finished = {}
  /\ asked = 0
  /\ events = {}

Deliver == dijkstra_status_callback \/ controller_status_callback \/ sliced_route_callback
Serve == requestCallback \/ statusCallback
Execute == StageRoute \/ BeginRoute \/ FinishRoute

Next ==
  \/ Deliver \/ start_callback \/ stop_callback \/ timer_callback
  \/ OperatorAsks \/ Serve \/ Execute \/ LeaveVertex \/ EndRoute
  \/ RestartSlicer \/ RestartExecutor \/ RestartPatrol \/ RestartDijkstra

Spec == Init /\ [][Next]_vars

\* The nodes spin: deadlines elapse, messages are taken, requests served, and
\* a route that is tracked comes to an end.  Nothing is assumed of operators.
Fairness ==
  /\ WF_vars(timer_callback)
  /\ WF_vars(dijkstra_status_callback)
  /\ WF_vars(controller_status_callback)
  /\ WF_vars(sliced_route_callback)
  /\ WF_vars(requestCallback) /\ WF_vars(statusCallback)
  /\ WF_vars(StageRoute) /\ WF_vars(BeginRoute) /\ WF_vars(FinishRoute)

FairSpec == Spec /\ Fairness

-----------------------------------------------------------------------------
(* Properties *)

\* README: only the executor's FINISHED for that very route_sequence counts.
\* So a counted leg is a route between the ends of the leg that the executor
\* has really finished, and no finished route is counted for two legs, whatever
\* operators ask for meanwhile and whichever node restarts, with two exceptions.
\* The slicer numbers its routes from 1 again, and the FINISHED of an older route
\* is then taken for the arrival of a new one.  And a patrol that restarts and
\* does not wait for a status before it asks has no baseline: it may take the
\* route latched, and finished, before its restart for the answer.
LegIsDriven ==
  [][patrol'.legs > patrol.legs =>
       \/ [sequence |-> patrol'.active, pair |-> patrol'.pair] \in finished
       \/ "slicer" \in events
       \/ ~WaitForIdle /\ "patrol" \in events]_vars

\* "A timeout never advances to the next pair": the patrol asks for a leg only
\* when each leg it asked for since it was started has been counted, and the
\* legs lead there and back in turn.
NoLegIsSkipped ==
  [][TimerAsks =>
       /\ asked = patrol.legs
       /\ patrol.direction = (InitialDirection + patrol.legs) % 2]_vars

\* A patrol that waits for an answer goes on, fails or is stopped.  A restart of
\* the slicer is excluded: its sequence starts over, and a patrol that waits
\* without arrival timeout for a later one waits for ever.
PatrolGoesOn ==
  patrol.phase \in {"WAITING_PLAN", "WAITING_ROUTE", "WAITING_ARRIVAL", "DWELL"}
    ~> \/ patrol.phase \in {"READY", "COMPLETED", "ERROR", "STOPPED"}
       \/ "slicer" \in events

=============================================================================
