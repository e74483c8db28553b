---------------------------- MODULE TargetSequencer ----------------------------
(***************************************************************************)
(* recorded_waypoint_route: target_route_sequencer_node.cpp over           *)
(* route_sequencer_core.hpp and planning_profile.hpp.  It receives a       *)
(* recorded route on four latched topics, takes goals, exposes to the      *)
(* planner the stretch of the route it may plan on now, and before that    *)
(* switches the parameters of three nodes to what the stretch needs.       *)
(*                                                                         *)
(* The node is spun by one thread: each callback is one action.  Its       *)
(* members are the fields of the record seq; a method is an operator from  *)
(* such a record to the next.  Targets lie on a line one unit apart, so a  *)
(* target is its index and a distance the difference of two indices.       *)
(* Indices count from 1 here and from 0 in the code.                       *)
(***************************************************************************)
EXTENDS Integers, Sequences, FiniteSets

CONSTANTS
  Nodes,            \* planner, mapper and extension
  Recordings,       \* the routes the generator is started with, in this order
  NormalReach, CornerReach, GoalReach,  \* route.*_arrival_tolerance
  MaxStart,         \* route.max_start_distance
  Positions,        \* where the robot of this instance may be
  Goals,            \* goal ids sent in this instance
  MaxGoals,         \* bound: goals sent
  MaxRejections     \* bound: parameter requests answered with failure

VARIABLES
  seq,        \* the members of TargetRouteSequencerNode, and what it published
  published,  \* how many of them were published, the last one latched
  requests,   \* set_parameters calls waiting at each node, oldest first
  replies,    \* answers on their way back
  params,     \* the profile each node runs with
  body,       \* environment: where the robot is
  goals, rejections   \* how much the environment did, against the bounds

nodes == <<requests, replies, params>>
counts == <<goals, rejections>>
vars == <<seq, published, nodes, body, counts>>

Profiles == {"normal", "slope"}
Topics == {"targets", "path", "types", "slope_flags"}

ASSUME SequencerAssumption ==
  /\ IsFiniteSet(Nodes) /\ Nodes # {}
  /\ Recordings \in Seq([types : Seq({"normal", "corner"}), slope : Seq(BOOLEAN)])
  /\ \A k \in DOMAIN Recordings :
       Len(Recordings[k].types) = Len(Recordings[k].slope) /\ Len(Recordings[k].types) >= 2
  /\ {NormalReach, CornerReach, GoalReach, MaxStart, MaxGoals, MaxRejections} \subseteq Nat
  /\ Positions \subseteq Int /\ Goals \subseteq Int

NoTransition == [revision |-> 0, profile |-> "none", sent |-> {}, confirmed |-> {}]
\* `needs' is the profile that was resolved for the window.
NoSegment == [publication |-> 0, first |-> 0, last |-> 0, needs |-> "none"]
Nowhere == -99

InitSeq ==
  [received |-> [t \in Topics |-> 0],     \* the publication each topic last delivered
   signature |-> 0,                       \* route_signature_
   types |-> 0, flags |-> 0,              \* whose types and slope flags are in use
   sequence |-> <<>>, position |-> 1, complete |-> FALSE,    \* progress_
   floor |-> 1, applied |-> "none", transition |-> NoTransition, revision |-> 0,
   odom |-> Nowhere, fresh |-> FALSE,     \* latest_odom_, a generation not processed
   located |-> Nowhere,                   \* latest_body_position_
   goal |-> 0,                            \* pending_goal_id_
   segment |-> NoSegment]

Init ==
  /\ seq = InitSeq
  /\ published = 0
  /\ requests = [n \in Nodes |-> <<>>] /\ replies = {}
  /\ params = [n \in Nodes |-> "launch"]
  /\ body \in Positions
  /\ goals = 0 /\ rejections = 0

-----------------------------------------------------------------------------
(* Routes and progress *)

TargetCount(s) == IF s.signature = 0 THEN 0 ELSE Len(Recordings[s.signature].types)
Distance(a, b) == IF a < b THEN b - a ELSE a - b
HasProgress(s) == s.sequence # <<>>
Required(s) == s.sequence[s.position]
RequiredIsGoal(s) == s.position = Len(s.sequence)

\* The first place of the positions `at' that is nearest to x
nearestTarget(x, at) ==
  CHOOSE i \in DOMAIN at :
    \A j \in DOMAIN at : \/ Distance(x, at[i]) < Distance(x, at[j])
                         \/ Distance(x, at[i]) = Distance(x, at[j]) /\ i <= j

orderedTargetIndices(start, goal) ==
  IF goal >= start THEN [i \in 1 .. goal - start + 1 |-> start + i - 1]
  ELSE [i \in 1 .. start - goal + 1 |-> start - i + 1]

effectiveTolerance(s) ==
  IF RequiredIsGoal(s) THEN GoalReach
  ELSE IF Recordings[s.types].types[Required(s)] = "corner" THEN CornerReach
  ELSE NormalReach

-----------------------------------------------------------------------------
(* The window the planner may use, and the profile it needs *)

\* plannerWindowStartPosition moves the floor of its next search ...
WithFloor(s, x) ==
  IF s.position = 1 THEN s
  ELSE LET low == IF s.floor < s.position THEN s.floor ELSE s.position
       IN [s EXCEPT !.floor =
             nearestTarget(x, [i \in low .. s.position |-> s.sequence[i]])]

\* ... and returns the position before the nearest one.
WindowStart(s) ==
  IF s.position = 1 \/ s.floor = 1 THEN 1 ELSE s.floor - 1

\* profileForPlannerWindow, with the slope flags of publication k
ProfileOfWindow(s, k) ==
  IF \E i \in WindowStart(s) .. s.position : Recordings[k].slope[s.sequence[i]]
  THEN "slope" ELSE "normal"

publishPlannerWindow(s) ==
  [s EXCEPT !.segment = [publication |-> s.signature,
                         first |-> s.sequence[WindowStart(s)], last |-> Required(s),
                         needs |-> ProfileOfWindow(s, s.flags)]]

Pending(s) == s.transition.revision # 0

dispatchProfileRequests(s, up) ==
  IF Pending(s) THEN [s EXCEPT !.transition.sent = @ \cup up] ELSE s

requestPlannerWindow(s, x, up) ==
  LET w == WithFloor(s, x)
      desired == ProfileOfWindow(w, w.flags)
  IN IF w.applied = desired THEN publishPlannerWindow(w)
     ELSE [w EXCEPT !.segment = NoSegment,
                    !.revision = @ + 1,
                    !.transition = [revision |-> w.revision + 1, profile |-> desired,
                                    sent |-> up, confirmed |-> {}]]

FinishTransition(s, up) ==
  requestPlannerWindow([s EXCEPT !.applied = s.transition.profile,
                                 !.transition = NoTransition], s.located, up)

finishProfileTransitionIfReady(s, up) ==
  IF Pending(s) /\ s.transition.confirmed = Nodes /\ s.located # Nowhere
  THEN FinishTransition(s, up) ELSE s

-----------------------------------------------------------------------------
(* Goals *)

Reached(s, x) == Distance(x, Required(s)) <= effectiveTolerance(s)

advanceProgress(s, x, up) ==
  IF s.complete \/ ~ Reached(s, x) THEN s
  ELSE IF RequiredIsGoal(s) THEN [s EXCEPT !.complete = TRUE, !.segment = NoSegment]
  ELSE requestPlannerWindow([s EXCEPT !.position = @ + 1], x, up)

\* A goal whose nearest target is too far: the robot is stopped.
RejectTooFar(s) ==
  [s EXCEPT !.sequence = <<>>, !.position = 1, !.complete = FALSE, !.floor = 1,
            !.segment = NoSegment]

\* (mutated: the floor of the last goal stays)
AcceptGoalMutant(s, nearest, goal) ==
  [s EXCEPT !.sequence = orderedTargetIndices(nearest, goal), !.position = 1,
            !.complete = FALSE]
AcceptGoal(s, nearest, goal) ==
  [s EXCEPT !.sequence = orderedTargetIndices(nearest, goal), !.position = 1,
            !.complete = FALSE, !.floor = 1]

tryActivatePendingGoal(s, up) ==
  LET x == s.located
      nearest == nearestTarget(x, [i \in 1 .. TargetCount(s) |-> i])
      c == [s EXCEPT !.goal = 0]
      accepted == requestPlannerWindow(AcceptGoal(c, nearest, s.goal), x, up)
  IN IF s.goal \notin 1 .. TargetCount(s) THEN c
     ELSE IF Distance(x, nearest) > MaxStart THEN RejectTooFar(c)
     ELSE IF Pending(accepted) \/ ~ Reached(accepted, x) THEN accepted
     ELSE advanceProgress(accepted, x, up)

-----------------------------------------------------------------------------
(* updateTimer, when the position of the robot is known in the route frame   *)

TimerWithPosition(s, up) ==
  LET f == finishProfileTransitionIfReady(s, up) IN
  IF Pending(f) THEN f
  ELSE IF f.goal # 0 THEN tryActivatePendingGoal(f, up)
  ELSE IF ~ HasProgress(f) THEN f
  ELSE advanceProgress(f, f.located, up)

\* `transformed': whether the frame of the odometry can be transformed
updateTimerResult(s, up, transformed) ==
  LET d == dispatchProfileRequests(s, up)
      p == [d EXCEPT !.fresh = FALSE]
  IN IF d.odom = Nowhere \/ (~ d.fresh /\ d.goal = 0) THEN d
     ELSE IF d.signature = 0 \/ ~ transformed THEN p
     ELSE TimerWithPosition([p EXCEPT !.located = p.odom], up)

\* tryInitializeRoute.  Types and flags carry no stamp: only their number is
\* compared.  The generator publishes no values that are refused here.
Counted(s, t) == Len(Recordings[s.received[t]].types)

NewRoute(s) ==
  /\ \A t \in Topics : s.received[t] # 0
  /\ s.received["targets"] = s.received["path"]
  /\ \A t \in Topics : Counted(s, t) = Counted(s, "targets")
  /\ s.signature # s.received["targets"]

tryInitializeRoute(s) ==
  IF ~ NewRoute(s) THEN s
  ELSE [s EXCEPT !.signature = s.received["targets"], !.types = s.received["types"],
                 !.flags = s.received["slope_flags"],
                 !.sequence = <<>>, !.position = 1, !.complete = FALSE, !.floor = 1,
                 !.transition = NoTransition, !.applied = "none"]

-----------------------------------------------------------------------------
(* Actions.  The requests a callback sends are those of the pending          *)
(* transition that it marks as sent.                                         *)

Sends(after) ==
  LET new == IF after.transition.revision = seq.transition.revision
             THEN after.transition.sent \ seq.transition.sent ELSE after.transition.sent
  IN requests' = [n \in Nodes |->
       IF n \in new
       THEN Append(requests[n], [revision |-> after.transition.revision,
                                 profile |-> after.transition.profile])
       ELSE requests[n]]

\* The generator is started: it publishes all of its topics once.
Publish ==
  /\ published < Len(Recordings)
  /\ published' = published + 1
  /\ UNCHANGED <<seq, nodes, body, counts>>

Receive(t) ==
  /\ seq.received[t] # published
  /\ seq' = tryInitializeRoute([seq EXCEPT !.received[t] = published])
  /\ UNCHANGED <<published, nodes, body, counts>>

odomCallback ==
  /\ seq' = [seq EXCEPT !.odom = body, !.fresh = TRUE]
  /\ UNCHANGED <<published, nodes, body, counts>>

goalCallback(goal) ==
  /\ goals < MaxGoals /\ goals' = goals + 1
  /\ IF seq.signature # 0 /\ goal \notin 1 .. TargetCount(seq) THEN UNCHANGED seq
     ELSE seq' = [seq EXCEPT !.goal = goal]
  /\ UNCHANGED <<published, nodes, body, rejections>>

updateTimer(up, transformed) ==
  /\ seq' = updateTimerResult(seq, up, transformed)
  /\ Sends(seq')
  /\ UNCHANGED <<published, replies, params, body, counts>>

\* A node applies the oldest request, or refuses it.
Serve(n) ==
  /\ requests[n] # <<>>
  /\ requests' = [requests EXCEPT ![n] = Tail(@)]
  /\ \/ /\ params' = [params EXCEPT ![n] = Head(requests[n]).profile]
        /\ replies' = replies \cup
             {[node |-> n, revision |-> Head(requests[n]).revision, success |-> TRUE]}
        /\ UNCHANGED rejections
     \/ /\ rejections < MaxRejections /\ rejections' = rejections + 1
        /\ replies' = replies \cup
             {[node |-> n, revision |-> Head(requests[n]).revision, success |-> FALSE]}
        /\ UNCHANGED params
  /\ UNCHANGED <<seq, published, body, goals>>

\* (mutated: an answer to an abandoned transition counts for the pending one)
StaleMutant(reply) == ~ Pending(seq)
Stale(reply) == ~ Pending(seq) \/ reply.revision # seq.transition.revision

\* (mutated: a refused request is not sent again)
AnsweredMutant(reply, up) ==
  IF Stale(reply) \/ ~ reply.success THEN seq
  ELSE finishProfileTransitionIfReady(
         [seq EXCEPT !.transition.confirmed = @ \cup {reply.node}], up)

\* handleProfileResponse
Answered(reply, up) ==
  IF Stale(reply) THEN seq
  ELSE IF ~ reply.success THEN [seq EXCEPT !.transition.sent = @ \ {reply.node}]
  ELSE finishProfileTransitionIfReady(
         [seq EXCEPT !.transition.confirmed = @ \cup {reply.node}], up)

handleProfileResponse(reply, up) ==
  /\ reply \in replies
  /\ replies' = replies \ {reply}
  /\ seq' = Answered(reply, up)
  /\ Sends(seq')
  /\ UNCHANGED <<published, params, body, counts>>

\* The robot follows the segment it was given, or is moved otherwise.
Towards(x) == IF body < x THEN body + 1 ELSE IF body > x THEN body - 1 ELSE body
Drive ==
  /\ seq.segment # NoSegment /\ body # seq.segment.last
  /\ body' = Towards(seq.segment.last)
  /\ UNCHANGED <<seq, published, nodes, counts>>

Next ==
  \/ Publish
  \/ \E t \in Topics : Receive(t)
  \/ odomCallback
  \/ \E goal \in Goals : goalCallback(goal)
  \/ \E up \in SUBSET Nodes, transformed \in BOOLEAN : updateTimer(up, transformed)
  \/ \E n \in Nodes : Serve(n)
  \/ \E reply \in replies, up \in SUBSET Nodes : handleProfileResponse(reply, up)
  \/ Drive

Spec == Init /\ [][Next]_vars

\* The timer has an odometry it has not looked at, or a request to send.
TimerDue == seq.fresh \/ (Pending(seq) /\ seq.transition.sent # Nodes)

\* Strong fairness of the timer and weak fairness of the answers, with what
\* enables them spelled out: the timer may miss the transform or a service again
\* and again, but not each time it is due.
TimerIsFair ==
  \/ <>[](~ TimerDue)
  \/ []<><<updateTimer(Nodes, TRUE)>>_vars
AnswersAreFair ==
  \/ []<>(replies = {})
  \/ []<><<\E reply \in replies : handleProfileResponse(reply, Nodes)>>_vars

\* Topics are delivered, the odometry goes on, nodes answer and the robot follows
\* what it is given.
FairSpec ==
  /\ Spec
  /\ TimerIsFair /\ AnswersAreFair
  /\ WF_vars(\E t \in Topics : Receive(t)) /\ WF_vars(odomCallback)
  /\ \A n \in Nodes : WF_vars(Serve(n))
  /\ WF_vars(Drive)

-----------------------------------------------------------------------------
(* Properties *)

Windows == {seq.segment} \ {NoSegment}

SequencerTypeOK ==
  /\ seq.received \in [Topics -> 0 .. published]
  /\ {seq.signature, seq.types, seq.flags} \subseteq 0 .. published
  /\ \A i \in DOMAIN seq.sequence : seq.sequence[i] \in 1 .. TargetCount(seq)
  /\ HasProgress(seq) => seq.position \in DOMAIN seq.sequence
  /\ seq.floor \in 1 .. seq.position
  /\ seq.applied \in Profiles \cup {"none"}
  /\ seq.transition.sent \cup seq.transition.confirmed \subseteq Nodes
  /\ Pending(seq) => HasProgress(seq) /\ ~ seq.complete
  /\ \A w \in Windows : w.needs \in Profiles
  /\ params \in [Nodes -> Profiles \cup {"launch"}]

\* While the planner has a stretch to plan on, all three nodes really run with
\* the profile that stretch needs: also when a transition was abandoned for a
\* new route or answered late (requestPlannerWindow: "No new segment is exposed
\* until all remote parameter services confirm this same revision").
SegmentUnderItsProfile ==
  \A w \in Windows : \A n \in Nodes : params[n] = w.needs

\* The state is well typed, progress stays inside the sequence that was loaded,
\* and the segment runs under its profile.
SequencerSafe == SequencerTypeOK /\ SegmentUnderItsProfile

\* A goal that was taken is activated or refused in the end, however often nodes
\* refuse their parameters and whatever transition was under way (updateTimer).
GoalIsServed == seq.goal # 0 /\ seq.signature # 0 ~> seq.goal = 0
=============================================================================
