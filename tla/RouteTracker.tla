---------------------------- MODULE RouteTracker ----------------------------
(***************************************************************************)
(* RouteTracker (controller_core.cpp): the part of the PID executor that   *)
(* drives one task.  Each tick passes the mandatory corners the robot is   *)
(* in, projects the robot on the route up to the open corner and turns or  *)
(* drives to a point ahead of the projection; near the end of the route it *)
(* changes to a slow final adjustment.  Lengths are multiples of a         *)
(* resolution, the stretches of a route run along the axes, and so do the  *)
(* headings: distances and projections are exact.  What is left of a       *)
(* command is whether it turns the robot or moves it.                      *)
(***************************************************************************)
EXTENDS Integers, Sequences, FiniteSetsExt

CONSTANTS
  Tracks,         \* [tasks, at]: tasks for the tracker, and where the robot may start
  Lookahead,      \* lookahead_distance_m
  Backtrack,      \* projection_backtrack_m
  Entry,          \* adjustment_entry_distance_m
  Window,         \* the 0.28 m of progress_finish_window
  GoalTolerance,  \* adjustment_route_goal_position_tolerance_m
  StopTolerance,  \* the 0.31 m that bound the position tolerance of other tasks
  MaxSlips        \* bound on how often the robot slips

VARIABLES
  track,          \* the track being driven
  number,         \* which of its tasks is task_
  robot, heading, \* where the robot is, and its yaw
  progress_m_, active_segment_, gate_index_, adjusting_,
  reached,        \* what the output of the last tick says
  entered,        \* history: the corners entered, in the order of the route
  slips           \* how often the robot has slipped

trackerVars == <<track, number, robot, heading, progress_m_, active_segment_,
                 gate_index_, adjusting_, reached, entered, slips>>

Stretches(t) == 1..(Len(t.points) - 1)

\* A stretch along an axis is as long as it is wide.
Wide(x) == IF x < 0 THEN -x ELSE x
Apart(p, q) == Wide(q[1] - p[1]) + Wide(q[2] - p[2])

\* A task of setTask: points, the arc at each (cumulative_lengths_), the inner
\* points that must be passed through, and a pass radius for each.
IsTask(t) ==
  /\ t.points \in Seq(Int \X Int) /\ Len(t.points) > 0
  /\ t.arc \in [DOMAIN t.points -> Nat] /\ t.arc[1] = 0
  /\ \A k \in Stretches(t) : t.arc[k + 1] = t.arc[k] + Apart(t.points[k], t.points[k + 1])
  /\ t.gates \subseteq 2..(Len(t.points) - 1)
  /\ t.radius \in [DOMAIN t.points -> Nat] /\ t.tolerance \in Nat

ASSUME TrackerAssumption ==
  /\ {Lookahead, Backtrack, Entry, Window, GoalTolerance, StopTolerance, MaxSlips} \subseteq Nat
  /\ \A a \in Tracks : /\ Len(a.tasks) \in Nat \ {0} /\ a.at \subseteq Int \X Int
                       /\ \A n \in 1..Len(a.tasks) : IsTask(a.tasks[n])
-----------------------------------------------------------------------------
task_ == track.tasks[number]
Ends == Len(task_.points)
Goal == task_.points[Ends]
ArcAt(k) == task_.arc[k]
LengthOf(k) == ArcAt(k + 1) - ArcAt(k)
Total == ArcAt(Ends)

Headings == {<<1, 0>>, <<-1, 0>>, <<0, 1>>, <<0, -1>>}
Minus(p, q) == <<p[1] - q[1], p[2] - q[2]>>
Plus(p, q) == <<p[1] + q[1], p[2] + q[2]>>
Times(n, p) == <<n * p[1], n * p[2]>>
Dot(p, q) == p[1] * q[1] + p[2] * q[2]
Within(p, q, r) == LET d == Minus(p, q) IN Dot(d, d) <= r * r
Larger(x, y) == IF x < y THEN y ELSE x
Bounded(x, low, high) == IF x < low THEN low ELSE IF x > high THEN high ELSE x

\* The direction of stretch k, or <<0, 0>> when it has no length.
Tangent(k) ==
  LET d == Minus(task_.points[k + 1], task_.points[k])
  IN  <<Bounded(d[1], -1, 1), Bounded(d[2], -1, 1)>>

\* upper_bound: the first stretch that ends beyond an arc, or the last one.
StretchAt(arc) == Min({k \in 1..(Ends - 1) : ArcAt(k + 1) > arc} \cup {Ends - 1})

sampleAt(arc) ==
  IF Ends = 1 THEN Goal
  ELSE LET k == StretchAt(arc)
       IN  Plus(task_.points[k], Times(Bounded(arc - ArcAt(k), 0, LengthOf(k)), Tangent(k)))

\* Stretches without a length are skipped; after the last one the goal's yaw.
tangentYawAt(arc) ==
  LET long == {k \in 1..(Ends - 1) : k >= StretchAt(arc) /\ LengthOf(k) > 0}
  IN  IF long = {} THEN task_.yaw ELSE Tangent(Min(long))
-----------------------------------------------------------------------------
(* The beginning of update, updateProgress *)

Inside(g) == Within(robot, task_.points[g], task_.radius[g])

GateAfterMutant(t, index) == Min({g \in t.gates : g > index + 1} \cup {Len(t.points)})

\* nextGateAfter, of an index of a task
GateAfter(t, index) == Min({g \in t.gates : g > index} \cup {Len(t.points)})

\* The loop over the gates passes every corner from the open one on whose
\* circle the robot is in.
OpenGate == Min({g \in task_.gates : g >= gate_index_ /\ ~Inside(g)} \cup {Ends})
PassedGates == {g \in task_.gates : gate_index_ <= g /\ g < OpenGate}
GateProgress == Max({progress_m_} \cup {ArcAt(g) : g \in PassedGates})

\* How far along stretch k the point of it nearest to the robot lies, and the
\* square of its distance.
Along(k) == Bounded(Dot(Minus(robot, task_.points[k]), Tangent(k)), 0, LengthOf(k))
Offset(k) ==
  LET d == Minus(robot, Plus(task_.points[k], Times(Along(k), Tangent(k))))
  IN  Dot(d, d)

\* From one stretch behind the active one to the open gate.
Searched == Larger(active_segment_ - 1, 1)..(OpenGate - 1)
Ahead == {k \in Searched : ArcAt(k) + Along(k) + Backtrack >= GateProgress}

Candidates == {<<Offset(k), k, ArcAt(k) + Along(k)>> : k \in Ahead}

\* The nearest stretch, the first of several; the progress never falls.
UpdateProgress ==
  /\ gate_index_' = OpenGate
  /\ \/ /\ Candidates = {} /\ progress_m_' = GateProgress
        /\ UNCHANGED active_segment_
     \/ \E best \in Candidates :
          /\ \A c \in Candidates : best[1] < c[1] \/ (best[1] = c[1] /\ best[2] <= c[2])
          /\ progress_m_' = Larger(GateProgress, best[3])
          /\ active_segment_' = best[2]

\* The history: a corner counts when the corners before it have been entered.
Enter ==
  LET inside == {g \in task_.gates : Inside(g)}
  IN  entered' = entered \cup
        {g \in inside : \A h \in task_.gates : h < g => h \in entered \cup inside}
-----------------------------------------------------------------------------
(* The rest of update *)

FinishWindow == Larger(task_.tolerance, Window)

\* The adjustment goes on once begun; it begins near the goal, at the end of the
\* route.  Read after UpdateProgress.
Adjusts ==
  \/ adjusting_
  \/ progress_m_' >= Total - FinishWindow /\ Within(robot, Goal, Entry)

PositionTolerance ==
  IF task_.isGoal THEN GoalTolerance
  ELSE IF task_.tolerance > 0 THEN Bounded(task_.tolerance, 0, StopTolerance) ELSE Window

BrakingToleranceMutant == IF task_.isGoal THEN GoalTolerance ELSE task_.tolerance

\* The distance of the goal at which the speed limit of tracking is zero.
BrakingTolerance ==
  IF task_.isGoal THEN GoalTolerance ELSE Bounded(task_.tolerance, 0, Entry)

Arrived == Within(robot, Goal, PositionTolerance) /\ (task_.align => heading = task_.yaw)

\* A tick in the adjustment that finds the robot at the goal.
Arrive ==
  /\ ~reached /\ UpdateProgress /\ Enter
  /\ Adjusts /\ Arrived
  /\ adjusting_' = TRUE /\ reached' = TRUE
  /\ UNCHANGED <<track, number, robot, heading, slips>>

\* A tick of the adjustment: forwards, sideways and round, each until its error
\* is within its tolerance.
Adjust ==
  /\ ~reached /\ UpdateProgress /\ Enter
  /\ Adjusts /\ ~Arrived
  /\ adjusting_' = TRUE
  /\ \/ /\ ~Within(robot, Goal, PositionTolerance)
        /\ \E h \in Headings :
             Dot(h, Minus(Goal, robot)) > 0 /\ robot' = Plus(robot, h)
        /\ UNCHANGED heading
     \/ /\ task_.align /\ heading # task_.yaw
        /\ \E h \in Headings :
             Dot(h, heading) = 0 /\ Dot(h, task_.yaw) >= 0 /\ heading' = h
        /\ UNCHANGED robot
  /\ UNCHANGED <<track, number, reached, slips>>

\* Where a tick of tracking looks: the lookahead, clamped at the open gate.
DesiredArc ==
  LET arc == progress_m_' + Lookahead
      open == ArcAt(gate_index_')
  IN  IF arc < open THEN arc ELSE open

\* The way the robot drives with a heading: backwards on a reverse task.
Forward(h) == IF task_.reverse THEN Times(-1, h) ELSE h

\* From 60 degrees of yaw error on the robot only turns (requiresInPlaceRotation).
TurnsOnly(aim) ==
  LET ahead == Dot(aim, Forward(heading))
  IN  ahead <= 0 \/ 4 * ahead * ahead <= Dot(aim, aim)

\* A tick of tracking drives on, or turns, unless it stands at the speed limit zero.
TrackRoute ==
  /\ ~reached /\ UpdateProgress /\ Enter
  /\ ~Adjusts
  /\ \E target \in {Minus(sampleAt(DesiredArc), robot)} :
     LET aim == IF target = <<0, 0>> THEN tangentYawAt(DesiredArc) ELSE target
         brakes == Within(robot, Goal, BrakingTolerance)
     IN  \/ /\ ~TurnsOnly(aim) /\ target # <<0, 0>> /\ ~brakes
            /\ robot' = Plus(robot, Forward(heading))
            /\ UNCHANGED heading
         \/ /\ TurnsOnly(aim) \/ ~brakes
            /\ \E h \in Headings :
                 /\ Dot(h, heading) = 0
                 /\ Dot(aim, Forward(h)) > Dot(aim, Forward(heading))
                 /\ heading' = h
            /\ UNCHANGED robot
  /\ UNCHANGED <<track, number, adjusting_, reached, slips>>

\* setTask, when the executor goes on to the next task of the route.
setTask ==
  /\ reached /\ number < Len(track.tasks)
  /\ number' = number + 1
  /\ progress_m_' = 0 /\ active_segment_' = 1
  /\ gate_index_' = GateAfter(track.tasks[number + 1], 1)
  /\ adjusting_' = FALSE /\ reached' = FALSE /\ entered' = {}
  /\ UNCHANGED <<track, robot, heading, slips>>

\* The robot slips, or its localization moves, by one resolution.
Slip ==
  /\ ~reached /\ slips < MaxSlips /\ slips' = slips + 1
  /\ \E h \in Headings : robot' = Plus(robot, h)
  /\ UNCHANGED <<track, number, heading, progress_m_, active_segment_, gate_index_,
                 adjusting_, reached, entered>>

TrackerInit ==
  /\ track \in Tracks /\ number = 1
  /\ robot \in track.at /\ heading \in Headings
  /\ progress_m_ = 0 /\ active_segment_ = 1 /\ gate_index_ = GateAfter(task_, 1)
  /\ adjusting_ = FALSE /\ reached = FALSE
  /\ entered = {} /\ slips = 0

Tick == TrackRoute \/ Adjust \/ Arrive
TrackerNext == Tick \/ setTask \/ Slip
TrackerSpec == TrackerInit /\ [][TrackerNext]_trackerVars

\* The control timer fires.
TrackerFairSpec == TrackerSpec /\ WF_trackerVars(Tick)
-----------------------------------------------------------------------------
(* A task is not finished before the robot has been inside the circle of     *)
(* every mandatory corner, in the order of the route, up to the finish       *)
(* window (the gates, updateProgress and progressed_to_goal of update()).    *)
NoCornerIsCut ==
  [][reached' /\ ~reached =>
       \A g \in task_.gates : ArcAt(g) < Total - FinishWindow => g \in entered']_trackerVars

(* On a route that comes near its own goal only at its end, a robot that     *)
(* slips now and then is driven to the end: the speed limit never brakes it  *)
(* to zero "just outside the transition point" (update(), its comment).      *)
Arrives == ~reached ~> reached
=============================================================================
