---------------------------- MODULE PidController ----------------------------
(***************************************************************************)
(* The route executor of route3d_pid_controller (pid_controller_node.cpp): *)
(* it stages a sliced route, activates its tasks one after the other on    *)
(* the PID tracker or on efficient_3d_local_planner, switches the          *)
(* parameters of the three efficient-planner nodes before an efficient     *)
(* task, and stops for safety.                                             *)
(*                                                                         *)
(* The node is spun by one thread, so each callback is one action.  The    *)
(* members a callback reads and writes are the fields of the record ctl; a *)
(* method is an operator from such a record to the next one, and a         *)
(* callback composes the methods in the order the code calls them.  `up'   *)
(* is always the set of nodes whose service_is_ready() answers true.       *)
(* One control period is one step of the clock: ages count timer firings.  *)
(***************************************************************************)
EXTENDS Integers, Sequences, FiniteSets

CONSTANTS
  Nodes,                    \* EfficientProfileNode: planner, mapper, extension
  Routes,                   \* the task arrays the slicer may publish
  AutoStart,                \* execution.auto_start
  SwitchingEnabled,         \* efficient_profile.enabled
  ObstacleStopUsesStopMove, \* safety.obstacle_stop_uses_stop_move
  EnterFrames, ExitFrames,  \* obstacle.swept.confirmation.*_frames
  ClearHold,                \* safety.clear_hold_s, in control periods
  Clouds,                   \* bound: what a cloud may turn out to be
  MaxRoutes,                \* bound: routes published
  MaxRevision,              \* bound: efficient_profile_revision_
  MaxRejections,            \* bound: parameter requests answered with failure
  MaxRestarts,              \* bound: restarts of an efficient-planner node
  MaxAlarms                 \* bound: times a global stop input is raised

Efficient == "efficient_3d_local_planner"
Sources == {"none", "profile_hold", "safety_hold", "pid", Efficient}
MotionSources == {"pid", Efficient}
Profiles == {"normal", "slope"}

States == {"IDLE", "READY", "TRACKING", "PAUSED", "WAITING_TRANSITION",
           "HANDOVER_REQUIRED", "FINISHED", "CANCELLED", "ERROR",
           "APPLYING_EFFICIENT_PROFILE"}

\* RouteTask.msg, reduced to the fields the executor branches on; `accepted'
\* says whether RouteTracker::setTask takes the task or throws.
Tasks == [resolved_controller_mode : {"pid", Efficient, "external_grid"},
          obstacle_mode : 0..4, contains_slope : BOOLEAN,
          requires_stop_at_end : BOOLEAN,
          completion_policy : {"transition", "route_goal", "business_stop"},
          is_route_goal : BOOLEAN, accepted : BOOLEAN]

ASSUME ConstantsAssumption ==
  /\ IsFiniteSet(Nodes) /\ Nodes # {}
  /\ Routes \subseteq Seq(Tasks) \ {<<>>}
  /\ {AutoStart, SwitchingEnabled, ObstacleStopUsesStopMove} \subseteq BOOLEAN
  /\ {EnterFrames, ExitFrames} \subseteq Nat \ {0}
  /\ Clouds \subseteq {"clear", "obstacle", "unparsed"}
  /\ {ClearHold, MaxRoutes, MaxRevision, MaxRejections, MaxRestarts, MaxAlarms}
       \subseteq Nat

VARIABLES
  ctl,        \* the members of PidControllerNode, and what it last published
  env,        \* what odometry, clouds and stop topics have told it
  requests,   \* set_parameters calls waiting at each node, oldest first
  replies,    \* answers on their way back to the controller
  params,     \* the profile each node really runs with
  faults,     \* how often the environment failed, against the bounds
  quiet       \* history: control periods since a firing last saw a stop condition

vars == <<ctl, env, requests, replies, params, faults, quiet>>

-----------------------------------------------------------------------------
(* Members *)

NoTransition == [revision |-> 0, route_sequence |-> 0, task_index |-> 0,
                 profile |-> "none", sent |-> {}, confirmed |-> {}]
NoPath == [route_sequence |-> 0, task_index |-> 0, profile |-> "none"]
ClearGate == [obstacle_frames |-> 0, clear_frames |-> 0, blocked |-> FALSE]
Unset == -1                                    \* clear_since_ holds no value

InitCtl ==
  [state |-> "IDLE", route_sequence |-> 0, route |-> <<>>, index |-> 0,
   active |-> FALSE, paused |-> FALSE, task_controller |-> "none",
   selected |-> "none", command |-> "zero", path |-> NoPath,
   safety_stopped |-> FALSE, preserves |-> FALSE, clear_age |-> Unset,
   gate |-> ClearGate, counted |-> FALSE,
   applied |-> "none", transition |-> NoTransition, revision |-> 0]

HasTask(c) == c.route_sequence # 0 /\ c.index < Len(c.route)
Task(c) == c.route[c.index + 1]
UsesPid(t) == t.resolved_controller_mode = "pid" /\ t.obstacle_mode # 4
UsesEfficient(t) == t.resolved_controller_mode = Efficient
ControllerOf(t) == IF UsesPid(t) THEN "pid" ELSE Efficient

-----------------------------------------------------------------------------
(* Switching the parameters of the three efficient-planner nodes *)

desiredEfficientProfile(t) == IF t.contains_slope THEN "slope" ELSE "normal"

Pending(c) == c.transition.revision # 0

cancelEfficientProfileTransition(c) ==
  IF Pending(c)
  THEN [c EXCEPT !.revision = @ + 1, !.transition = NoTransition]
  ELSE c

dispatchEfficientProfileRequests(c, up) ==
  IF Pending(c) THEN [c EXCEPT !.transition.sent = @ \cup up] ELSE c

\* (mutated: any applied profile counts as the desired one)
ProfileInForceMutant(c, t) == ~SwitchingEnabled \/ c.applied # "none"

\* ensureEfficientProfile returns true at once ...
ProfileInForce(c, t) ==
  ~SwitchingEnabled \/ c.applied = desiredEfficientProfile(t)

\* ... or false, leaving alone a transition for this very task ...
AlreadySwitching(c, t) ==
  /\ Pending(c)
  /\ c.transition.route_sequence = c.route_sequence
  /\ c.transition.task_index = c.index
  /\ c.transition.profile = desiredEfficientProfile(t)

\* ... or false, holding zero velocity and starting one.
BeginSwitch(c, t, up) ==
  LET k == cancelEfficientProfileTransition(c)
      rev == k.revision + 1
  IN [k EXCEPT !.command = "zero", !.selected = "profile_hold", !.path = NoPath,
               !.active = FALSE, !.paused = FALSE, !.task_controller = "none",
               !.revision = rev,
               !.transition = [revision |-> rev,
                               route_sequence |-> k.route_sequence,
                               task_index |-> k.index,
                               profile |-> desiredEfficientProfile(t),
                               sent |-> up, confirmed |-> {}],
               !.state = "APPLYING_EFFICIENT_PROFILE"]

-----------------------------------------------------------------------------
(* Activating and advancing tasks *)

\* resetSweptObstacleConfirmation: the present cloud may be counted again.
ForgetFrames(c) == [c EXCEPT !.gate = ClearGate, !.counted = FALSE]

\* safety_clear_gate_->reset()
ResetHoldMutant(c) == c      \* (mutated: the clear hold is not reset)
ResetHold(c) == [c EXCEPT !.clear_age = Unset]

\* publishEfficientPath, or publishEfficientStop for a PID task
EfficientPath(c, t) ==
  [route_sequence |-> c.route_sequence, task_index |-> c.index,
   profile |-> desiredEfficientProfile(t)]
PathForMutant(c, t) ==       \* (mutated: a PID task does not withdraw the path)
  IF UsesEfficient(t) THEN EfficientPath(c, t) ELSE c.path
PathFor(c, t) == IF UsesEfficient(t) THEN EfficientPath(c, t) ELSE NoPath

StartTracking(c, t) ==
  [ResetHold(ForgetFrames(c)) EXCEPT
     !.active = TRUE, !.task_controller = ControllerOf(t), !.paused = FALSE,
     !.safety_stopped = FALSE, !.path = PathFor(c, t),
     !.command = IF UsesEfficient(t) THEN "zero" ELSE @,
     !.selected = ControllerOf(t), !.state = "TRACKING"]

activateTask(c, up) ==
  IF ~HasTask(c) THEN [c EXCEPT !.state = "ERROR"]
  ELSE LET t == Task(c) IN
    IF ~UsesPid(t) /\ ~UsesEfficient(t)
    THEN [c EXCEPT !.active = FALSE, !.selected = "none",
                   !.state = "HANDOVER_REQUIRED"]
    ELSE IF UsesEfficient(t) /\ ~ProfileInForce(c, t)
    THEN IF AlreadySwitching(c, t) THEN c ELSE BeginSwitch(c, t, up)
    ELSE IF ~t.accepted
    THEN [c EXCEPT !.active = FALSE, !.state = "ERROR"]
    ELSE StartTracking(c, t)

LastTask(c) == Task(c).is_route_goal \/ c.index + 1 >= Len(c.route)
Seamless(t) == ~t.requires_stop_at_end /\ t.completion_policy # "business_stop"
NextTask(c) == [c EXCEPT !.index = @ + 1]

\* (mutated: the selection is left as it was)
StopAtBoundaryMutant(c) ==
  [c EXCEPT !.command = "zero", !.path = NoPath,
            !.active = FALSE, !.task_controller = "none"]

StopAtBoundaryActiveMutant(c) ==    \* (mutated: the ended task stays active)
  [c EXCEPT !.command = "zero", !.selected = "none", !.path = NoPath,
            !.task_controller = "none"]

StopAtBoundary(c) ==
  [c EXCEPT !.command = "zero", !.selected = "none", !.path = NoPath,
            !.active = FALSE, !.task_controller = "none"]

advanceTask(c, up) ==
  IF LastTask(c)
  THEN [StopAtBoundary(c) EXCEPT !.state = "FINISHED"]
  ELSE IF Seamless(Task(c))
  THEN activateTask(NextTask(c), up)
  ELSE IF Task(c).completion_policy = "business_stop"
  THEN [NextTask(StopAtBoundary(c)) EXCEPT !.state = "WAITING_TRANSITION"]
  ELSE activateTask(NextTask(StopAtBoundary(c)), up)

finishEfficientProfileTransitionIfReady(c, up) ==
  IF c.transition.confirmed # Nodes THEN c
  ELSE IF \/ ~HasTask(c)
          \/ c.transition.route_sequence # c.route_sequence
          \/ c.transition.task_index # c.index
  THEN [c EXCEPT !.transition = NoTransition]
  ELSE activateTask([c EXCEPT !.applied = c.transition.profile,
                              !.transition = NoTransition], up)

StaleMutant(c, r) == ~Pending(c)  \* (mutated: any pending revision will do)
Stale(c, r) == ~Pending(c) \/ c.transition.revision # r.revision

RejectedMutant(c, n) == c         \* (mutated: the call is not made again)
Rejected(c, n) == [c EXCEPT !.transition.sent = @ \ {n}]

handleEfficientProfileResponse(c, r, up) ==
  IF Stale(c, r) THEN c
  ELSE IF ~r.success THEN Rejected(c, r.node)
  ELSE finishEfficientProfileTransitionIfReady(
         [c EXCEPT !.transition.confirmed = @ \cup {r.node}], up)

-----------------------------------------------------------------------------
(* The safety gates of the control timer *)

obstacleDetectionEnabledForTask(c) ==
  c.active /\ HasTask(c) /\ c.task_controller = "pid" /\ Task(c).obstacle_mode = 0

\* ConsecutiveFrameGate::update
StillBlockedMutant(clear) == clear <= ExitFrames   \* (mutated: off by one)
StillBlocked(clear) == clear < ExitFrames

GateUpdate(g, obstacle) ==
  IF obstacle
  THEN LET seen == IF g.obstacle_frames < EnterFrames
                   THEN g.obstacle_frames + 1 ELSE g.obstacle_frames
       IN [obstacle_frames |-> seen, clear_frames |-> 0,
           blocked |-> g.blocked \/ seen >= EnterFrames]
  ELSE IF ~g.blocked THEN ClearGate
  ELSE LET clear == IF g.clear_frames < ExitFrames
                    THEN g.clear_frames + 1 ELSE g.clear_frames
       IN [obstacle_frames |-> 0, clear_frames |-> clear,
           blocked |-> StillBlocked(clear)]

\* sweptVolumeBlocked: a cloud is counted once, however often the timer fires.
sweptVolumeBlocked(c, e) ==
  IF ~obstacleDetectionEnabledForTask(c) \/ e.cloud = "unparsed" THEN c
  ELSE IF e.cloud = "none" THEN ForgetFrames(c)
  ELSE IF c.counted THEN c
  ELSE [c EXCEPT !.gate = GateUpdate(@, e.cloud = "obstacle"), !.counted = TRUE]

HardStop(c, e) ==
  \/ e.alarm \/ ~e.has_odometry
  \/ obstacleDetectionEnabledForTask(c) /\ e.cloud \in {"none", "unparsed"}

ObstacleStop(c, e) ==
  /\ obstacleDetectionEnabledForTask(c)
  /\ e.cloud # "unparsed"
  /\ c.gate.blocked

MustStop(c, e) == HardStop(c, e) \/ ObstacleStop(c, e)

\* (mutated: every stop is taken for a soft one)
PreserveControllerMutant(c, e) == ~ObstacleStopUsesStopMove

PreserveController(c, e) == ~HardStop(c, e) /\ ~ObstacleStopUsesStopMove

EscalateMutant(c) == c       \* (mutated: a soft stop never escalates)
Escalate(c) == [c EXCEPT !.preserves = FALSE, !.selected = "none"]

SafetyStop(c, soft) ==
  LET z == [ResetHold(c) EXCEPT !.command = "zero"] IN
  IF ~c.safety_stopped
  THEN [z EXCEPT !.safety_stopped = TRUE, !.preserves = soft,
                 !.selected = IF soft THEN "safety_hold" ELSE "none"]
  ELSE IF c.preserves /\ ~soft THEN Escalate(z) ELSE z

\* SafetyClearGate::ready remembers the first clear firing and ages from it.
ClearWait(c) ==
  [c EXCEPT !.command = "zero", !.clear_age = IF @ = Unset THEN 0 ELSE @]

ReleaseSafetyStop(c) ==
  [ResetHold(c) EXCEPT !.command = "zero", !.safety_stopped = FALSE,
                       !.preserves = FALSE, !.selected = c.task_controller,
                       !.state = "TRACKING"]

\* What every firing does first: time passes and unsent requests go out.
Elapse(c) ==
  [c EXCEPT !.clear_age = IF @ \in 0..(ClearHold - 1) THEN @ + 1 ELSE @]
Tick(c, up) == dispatchEfficientProfileRequests(Elapse(c), up)

\* ... and, when a task is driven, the swept volume is looked at.
Sense(c, e, up) == sweptVolumeBlocked(Tick(c, up), e)

-----------------------------------------------------------------------------
(* Requests leave the node when `sent' grows *)

NewlySent(c, d) ==
  IF d.transition.revision = c.transition.revision
  THEN d.transition.sent \ c.transition.sent
  ELSE d.transition.sent

Posted(q, c, d) ==
  [n \in Nodes |->
     IF n \in NewlySent(c, d)
     THEN Append(q[n], [revision |-> d.transition.revision,
                        profile |-> d.transition.profile])
     ELSE q[n]]

\* The callback leaves the members as d; `revision' may not outgrow its bound.
Become(d) == d.revision <= MaxRevision /\ ctl' = d

-----------------------------------------------------------------------------
Init ==
  /\ ctl = InitCtl
  /\ env = [has_odometry |-> FALSE, alarm |-> TRUE, cloud |-> "none"]
  /\ requests = [n \in Nodes |-> <<>>]
  /\ replies = {}
  /\ params = [n \in Nodes |-> "launch"]
  /\ faults = [rejections |-> 0, restarts |-> 0, alarms |-> 0, routes |-> 0]
  /\ quiet = 0

(* Topics *)

Staged(c, r, seq) ==
  [ResetHold(ForgetFrames(cancelEfficientProfileTransition(c))) EXCEPT
     !.command = "zero", !.selected = "none", !.path = NoPath,
     !.route = r, !.route_sequence = seq, !.index = 0, !.active = FALSE,
     !.task_controller = "none", !.paused = FALSE, !.safety_stopped = FALSE,
     !.state = "READY"]

tasksCallback ==
  \E r \in Routes, up \in SUBSET Nodes :
    LET staged == Staged(ctl, r, faults.routes + 1)
        d == IF AutoStart THEN activateTask(staged, up) ELSE staged
    IN /\ faults.routes < MaxRoutes
       /\ Become(d)
       /\ requests' = Posted(requests, ctl, d)
       /\ faults' = [faults EXCEPT !.routes = @ + 1]
       /\ UNCHANGED <<env, replies, params, quiet>>

\* An array without tasks: the node reports ERROR, and nothing else changes.
tasksCallbackEmpty ==
  /\ Become([ctl EXCEPT !.state = "ERROR", !.command = "zero"])
  /\ UNCHANGED <<env, requests, replies, params, faults, quiet>>

odometryCallback ==
  /\ ~env.has_odometry
  /\ env' = [env EXCEPT !.has_odometry = TRUE]
  /\ UNCHANGED <<ctl, requests, replies, params, faults, quiet>>

\* A new cloud (a new generation) is parsed, or not.  An unparsed cloud leaves
\* swept_cloud_generation_ alone, so the last cloud stays counted.
cloudCallback ==
  \E k \in Clouds :
    /\ env' = [env EXCEPT !.cloud = k]
    /\ ctl' = IF k = "unparsed" THEN ctl ELSE [ctl EXCEPT !.counted = FALSE]
    /\ UNCHANGED <<requests, replies, params, faults, quiet>>

\* External stop, emergency collision level, odometry or cloud timeout: the
\* stop inputs that hold for every task.
RaiseAlarm ==
  /\ ~env.alarm /\ faults.alarms < MaxAlarms
  /\ env' = [env EXCEPT !.alarm = TRUE]
  /\ faults' = [faults EXCEPT !.alarms = @ + 1]
  /\ UNCHANGED <<ctl, requests, replies, params, quiet>>

\* All of them are clear only once odometry and a cloud have arrived.
ClearAlarm ==
  /\ env.alarm /\ env.has_odometry /\ env.cloud # "none"
  /\ env' = [env EXCEPT !.alarm = FALSE]
  /\ UNCHANGED <<ctl, requests, replies, params, faults, quiet>>

-----------------------------------------------------------------------------
(* Services *)

Operate(d) ==
  /\ Become(d)
  /\ requests' = Posted(requests, ctl, d)
  /\ UNCHANGED <<env, replies, params, faults, quiet>>

startCallback ==
  /\ ctl.route_sequence # 0 /\ env.has_odometry
  /\ \E up \in SUBSET Nodes : Operate(activateTask([ctl EXCEPT !.index = 0], up))

continueCallback ==
  /\ ctl.state = "WAITING_TRANSITION"
  /\ \E up \in SUBSET Nodes : Operate(activateTask(ctl, up))

\* (mutated: pausing leaves the source selected)
PausedMutant(c) ==
  [ForgetFrames(c) EXCEPT !.paused = TRUE, !.command = "zero",
                          !.state = "PAUSED"]

Paused(c) ==
  [ForgetFrames(c) EXCEPT !.paused = TRUE, !.command = "zero",
                          !.selected = "none", !.state = "PAUSED"]

pauseCallback == ctl.active /\ Operate(Paused(ctl))

Resumed(c) ==
  [c EXCEPT !.paused = FALSE, !.selected = c.task_controller,
            !.state = "TRACKING"]

resumeCallback == ctl.active /\ ctl.paused /\ Operate(Resumed(ctl))

Cancelled(c) ==
  [cancelEfficientProfileTransition(c) EXCEPT
     !.active = FALSE, !.paused = FALSE, !.command = "zero",
     !.selected = "none", !.path = NoPath, !.state = "CANCELLED"]

cancelCallback == Operate(Cancelled(ctl))

-----------------------------------------------------------------------------
(* The control timer: one action for each way through controlTimer *)

Older == IF quiet <= ClearHold THEN quiet + 1 ELSE quiet

\* The services found up by dispatchEfficientProfileRequests; for a node that has
\* been asked already, and when nothing is pending, the answer makes no difference.
Ready(c) == IF Pending(c) THEN SUBSET (Nodes \ c.transition.sent) ELSE {{}}

\* A firing that ends with the members d after sensing left them as c.
Fire(c, d) ==
  /\ Become(d)
  /\ requests' = Posted(Posted(requests, ctl, c), c, d)
  /\ UNCHANGED <<env, replies, params, faults>>

TimerIdle ==
  /\ ~ctl.active \/ ctl.paused
  /\ \E up \in Ready(ctl) : Fire(Tick(ctl, up), Tick(ctl, up))
  /\ quiet' = Older

TimerStop ==
  /\ ctl.active /\ ~ctl.paused
  /\ \E up \in Ready(ctl) :
       LET c == Sense(ctl, env, up) IN
       /\ MustStop(c, env)
       /\ Fire(c, SafetyStop(c, PreserveController(c, env)))
  /\ quiet' = 0

TimerHold ==
  /\ ctl.active /\ ~ctl.paused /\ ctl.safety_stopped
  /\ \E up \in Ready(ctl) :
       LET c == Sense(ctl, env, up) IN
       /\ ~MustStop(c, env)
       /\ ClearWait(c).clear_age < ClearHold
       /\ Fire(c, ClearWait(c))
  /\ quiet' = Older

TimerRelease ==
  /\ ctl.active /\ ~ctl.paused /\ ctl.safety_stopped
  /\ \E up \in Ready(ctl) :
       LET c == Sense(ctl, env, up) IN
       /\ ~MustStop(c, env)
       /\ ClearWait(c).clear_age >= ClearHold
       /\ Fire(c, ReleaseSafetyStop(c))
  /\ quiet' = Older

\* Whether the endpoint is reached is the robot's geometry: either may happen.
TimerTrack ==
  /\ ctl.active /\ ~ctl.paused /\ ~ctl.safety_stopped
  /\ \E up \in Ready(ctl) :
       LET c == Sense(ctl, env, up) IN
       /\ ~MustStop(c, env)
       /\ Fire(c, [c EXCEPT !.command =
                                  IF c.task_controller = "pid" THEN "track" ELSE @])
  /\ quiet' = Older

TimerAdvance ==
  /\ ctl.active /\ ~ctl.paused /\ ~ctl.safety_stopped
  /\ \E up \in SUBSET Nodes :
       LET c == Sense(ctl, env, up) IN
       /\ ~MustStop(c, env)
       /\ Fire(c, advanceTask(c, up))
  /\ quiet' = Older

Failed(c) == [c EXCEPT !.command = "zero", !.active = FALSE, !.state = "ERROR"]

\* tracker_->update throws when the odometry pose is not finite.
TimerThrow ==
  /\ ctl.active /\ ~ctl.paused /\ ~ctl.safety_stopped
  /\ \E up \in Ready(ctl) :
       LET c == Sense(ctl, env, up) IN
       /\ ~MustStop(c, env)
       /\ Fire(c, Failed(c))
  /\ quiet' = Older

controlTimer ==
  \/ TimerIdle \/ TimerStop \/ TimerHold \/ TimerRelease
  \/ TimerTrack \/ TimerAdvance \/ TimerThrow

-----------------------------------------------------------------------------
(* The parameter services of the efficient-planner nodes *)

Serve(n, success) ==
  /\ requests[n] # <<>>
  /\ requests' = [requests EXCEPT ![n] = Tail(@)]
  /\ replies' = replies \cup {[node |-> n, revision |-> Head(requests[n]).revision,
                               success |-> success]}
  /\ params' = IF success
               THEN [params EXCEPT ![n] = Head(requests[n]).profile] ELSE params
  /\ UNCHANGED <<ctl, env, quiet>>

Accept(n) == Serve(n, TRUE) /\ UNCHANGED faults

Reject(n) ==
  /\ faults.rejections < MaxRejections
  /\ Serve(n, FALSE)
  /\ faults' = [faults EXCEPT !.rejections = @ + 1]

\* A node comes back with its launch parameters; calls it had not served die.
Restart(n) ==
  /\ faults.restarts < MaxRestarts
  /\ faults' = [faults EXCEPT !.restarts = @ + 1]
  /\ params' = [params EXCEPT ![n] = "launch"]
  /\ requests' = [requests EXCEPT ![n] = <<>>]
  /\ UNCHANGED <<ctl, env, replies, quiet>>

DeliverReply ==
  \E r \in replies, up \in SUBSET Nodes :
    LET d == handleEfficientProfileResponse(ctl, r, up) IN
    /\ Become(d)
    /\ requests' = Posted(requests, ctl, d)
    /\ replies' = replies \ {r}
    /\ UNCHANGED <<env, params, faults, quiet>>

-----------------------------------------------------------------------------
Next ==
  \/ tasksCallback \/ tasksCallbackEmpty
  \/ odometryCallback \/ cloudCallback \/ RaiseAlarm \/ ClearAlarm
  \/ startCallback \/ continueCallback
  \/ pauseCallback \/ resumeCallback \/ cancelCallback
  \/ controlTimer
  \/ \E n \in Nodes : Accept(n) \/ Reject(n) \/ Restart(n)
  \/ DeliverReply

Spec == Init /\ [][Next]_vars

-----------------------------------------------------------------------------
(* Fairness: the executor keeps spinning its timer, answers are delivered,  *)
(* the parameter services are up and serve their calls, clouds keep coming. *)
(* Nothing is assumed of operators, of the slicer or of the stop inputs.    *)

DispatchAll == TimerIdle /\ ctl'.transition.sent \in {{}, Nodes}
CloudArrives == cloudCallback /\ env'.cloud # "unparsed"

Fairness ==
  /\ WF_vars(controlTimer) /\ WF_vars(DispatchAll)
  /\ WF_vars(CloudArrives) /\ WF_vars(DeliverReply)
  /\ \A n \in Nodes : WF_vars(Accept(n))

FairSpec == Spec /\ Fairness

-----------------------------------------------------------------------------
(* Properties *)

Transitions ==
  [revision : Nat, route_sequence : Nat, task_index : Nat,
   profile : Profiles \cup {"none"}, sent : SUBSET Nodes, confirmed : SUBSET Nodes]

Paths ==
  [route_sequence : Nat, task_index : Nat, profile : Profiles \cup {"none"}]

Gates == [obstacle_frames : 0..EnterFrames, clear_frames : 0..ExitFrames,
          blocked : BOOLEAN]

Ctls ==
  [state : States, route_sequence : Nat, route : Routes \cup {<<>>}, index : Nat,
   active : BOOLEAN, paused : BOOLEAN,
   task_controller : MotionSources \cup {"none"}, selected : Sources,
   command : {"zero", "track"},
   path : Paths,
   safety_stopped : BOOLEAN, preserves : BOOLEAN, clear_age : Unset..ClearHold,
   gate : Gates, counted : BOOLEAN, applied : Profiles \cup {"none"},
   transition : Transitions, revision : Nat]

Requests == [revision : Nat, profile : Profiles \cup {"none"}]
Replies == [node : Nodes, revision : Nat, success : BOOLEAN]

\* The types of every variable.
TypeOK ==
  /\ ctl \in Ctls
  /\ env \in [has_odometry : BOOLEAN, alarm : BOOLEAN,
              cloud : {"none", "clear", "obstacle", "unparsed"}]
  /\ requests \in [Nodes -> Seq(Requests)]
  /\ replies \subseteq Replies
  /\ params \in [Nodes -> Profiles \cup {"launch", "none"}]
  /\ faults \in [rejections : Nat, restarts : Nat, alarms : Nat, routes : Nat]
  /\ quiet \in 0..(ClearHold + 1)

\* A paused executor lets no source through: pauseCallback selects "none", and
\* neither the timer, a late parameter answer nor an array without tasks
\* selects a source again while paused_ holds.
PausedSelectsNothing == ctl.paused => ctl.selected = "none"

\* A motion source is selected only while a task is active and not paused, or
\* after the executor gave up with ERROR (the tracker threw, or an empty array).
SourceOnlyWhileActive ==
  ctl.selected \in MotionSources =>
    (ctl.active /\ ~ctl.paused) \/ ctl.state = "ERROR"

\* The two controllers never drive together: while efficient is selected the
\* last PID command is zero, while PID is selected efficient has an empty path.
OneMotionSource ==
  /\ ctl.selected = Efficient => ctl.command = "zero"
  /\ ctl.selected = "pid" => ctl.path = NoPath

\* "safety_hold", which keeps the robot's mode instead of stopping it, is
\* selected only in a soft stop of a PID task; every other stop says "none".
SafetyHoldOnlyForPidObstacle ==
  ctl.selected = "safety_hold" =>
    ctl.safety_stopped /\ ctl.preserves /\ ctl.task_controller = "pid"

\* What the selection promises the adapter, all four together: in every state the
\* source that may move the robot is at most one, running, and of this task.
SelectionSafe ==
  PausedSelectsNothing /\ SourceOnlyWhileActive /\ OneMotionSource
    /\ SafetyHoldOnlyForPidObstacle

\* A soft stop that turns into a hard one says so at once: no firing that sees a
\* hard stop leaves "safety_hold" selected.
HardStopEscalates ==
  [][TimerStop /\ HardStop(ctl', env) => ctl'.selected # "safety_hold"]_vars

\* The path efficient drives was published under the profile that the executor
\* believes applied, whatever was staged, restarted or answered in between.
EfficientUnderItsProfile ==
  ctl.active /\ ctl.selected = Efficient =>
    /\ ctl.path # NoPath
    /\ SwitchingEnabled => ctl.applied = ctl.path.profile

\* The inductive form of the five invariants above, on the members alone: what
\* the selection says, and what an active task carries while it is selected,
\* paused or stopped for safety.
Selection(c) ==
  /\ c.paused => c.selected = "none"
  /\ c.selected \in MotionSources => (c.active /\ ~c.paused) \/ c.state = "ERROR"
  /\ c.selected = Efficient => c.command = "zero"
  /\ c.selected = "pid" => c.path = NoPath
  /\ c.selected = "safety_hold" =>
       c.safety_stopped /\ c.preserves /\ c.task_controller = "pid"

Carried(c) ==
  /\ c.task_controller \in MotionSources
  /\ c.selected \in MotionSources => c.selected = c.task_controller
  /\ c.task_controller = "pid" => c.path = NoPath
  /\ c.task_controller = Efficient =>
       /\ c.command = "zero" /\ c.path # NoPath
       /\ SwitchingEnabled => c.applied = c.path.profile

Drive(c) == Selection(c) /\ (c.active => Carried(c))
DriveInv == Drive(ctl)

\* While no node restarts, a node counted as confirmed really runs with the
\* pending profile: calls of cancelled revisions never overwrite it, and their
\* late answers never confirm it.
ConfirmedMeansApplied ==
  faults.restarts = 0 =>
    \A n \in ctl.transition.confirmed : params[n] = ctl.transition.profile

\* The timer ends a safety stop only after clear_hold_s without any firing that
\* saw a stop condition: a flickering obstacle restarts the hold.
HoldServed ==
  [][controlTimer /\ ctl.safety_stopped /\ ~ctl'.safety_stopped
       => quiet' > ClearHold]_vars

\* Applying a profile ends when the services answer: rejected calls are sent
\* again, answers of older revisions are skipped, and the task is activated.
\* A node that restarts loses the call it had, which nothing sends again.
SwitchEnds ==
  ctl.state = "APPLYING_EFFICIENT_PROFILE"
    ~> ctl.state # "APPLYING_EFFICIENT_PROFILE" \/ faults.restarts > 0

\* Once the stop conditions are gone for good, a safety stop ends.
SafetyStopEnds ==
  <>[](~env.alarm /\ env.cloud = "clear" /\ ~ctl.paused) =>
    (ctl.active /\ ctl.safety_stopped) ~> ~(ctl.active /\ ctl.safety_stopped)

\* What the followers of the status topic rely on (see RouteExecution): FINISHED
\* is said only of a route that was driven, and of the route last staged.
Execution == INSTANCE RouteExecution
               WITH status <- [route_sequence |-> ctl.route_sequence,
                               state |-> ctl.state, active |-> ctl.active]
ImplementsExecution == Execution!Spec

=============================================================================
