------------------------- MODULE PidControllerProofs -------------------------
(***************************************************************************)
(* What holds of the route executor for every set of routes, every number  *)
(* of planner nodes, every parameter value, every hold and every order of  *)
(* refused calls and answers.  The lemmas follow the methods of            *)
(* PidControllerNode from the inside out.                                  *)
(*                                                                         *)
(* First the types, and Drive, the inductive invariant of what a task      *)
(* selects.  Then the safety stop: what each method of the control timer   *)
(* leaves alone, and an invariant that relates SafetyClearGate's clock to  *)
(* the last firing that saw a stop condition.  Then what the status topic  *)
(* says of a route.  Last the calls of a profile switch: numbers only      *)
(* grow, a node has at most one unserved call of the pending revision, the *)
(* last of its queue, and none once it has answered.                       *)
(***************************************************************************)
EXTENDS PidController, SequenceTheorems, TLAPS

-----------------------------------------------------------------------------
(* Types *)

\* The task a valid index names is one of the slicer's tasks.
LEMMA TaskType ==
  ASSUME NEW c \in Ctls, HasTask(c)
  PROVE  Task(c) \in Tasks
<1>1. c.route \in Seq(Tasks) /\ c.index \in Nat
  BY ConstantsAssumption DEF Ctls, HasTask
<1>2. c.index + 1 \in 1..Len(c.route)
  BY <1>1 DEF HasTask
<1> QED  BY <1>1, <1>2, ElementOfSeq DEF Task

\* The empty transition and the empty path are of their types.
LEMMA EmptyTypes ==
  /\ NoTransition \in Transitions
  /\ NoPath \in Paths
  /\ ClearGate \in Gates
  /\ Unset \in Unset..ClearHold
BY ConstantsAssumption 
  DEF NoTransition, Transitions, NoPath, Paths, ClearGate, Gates, Unset

\* Cancelling a transition keeps the types.
LEMMA CancelType ==
  ASSUME NEW c \in Ctls
  PROVE  cancelEfficientProfileTransition(c) \in Ctls
<1>1. NoTransition \in Transitions
  BY EmptyTypes
<1>2. c.revision + 1 \in Nat
  BY DEF Ctls
<1>3. [c EXCEPT !.revision = c.revision + 1, !.transition = NoTransition] \in Ctls
  BY <1>1, <1>2 DEF Ctls
<1> QED  BY <1>3 DEF cancelEfficientProfileTransition

\* So does dispatching the requests of a transition.
LEMMA DispatchType ==
  ASSUME NEW c \in Ctls, NEW up \in SUBSET Nodes
  PROVE  dispatchEfficientProfileRequests(c, up) \in Ctls
BY DEF dispatchEfficientProfileRequests, Ctls, Transitions

\* Starting a switch keeps the types.
LEMMA BeginSwitchType ==
  ASSUME NEW c \in Ctls, NEW t \in Tasks, NEW up \in SUBSET Nodes
  PROVE  BeginSwitch(c, t, up) \in Ctls
<1> DEFINE k == cancelEfficientProfileTransition(c)
           tr == [revision |-> k.revision + 1,
                  route_sequence |-> k.route_sequence,
                  task_index |-> k.index,
                  profile |-> desiredEfficientProfile(t),
                  sent |-> up, confirmed |-> {}]
<1>1. k \in Ctls
  BY CancelType
<1>2. desiredEfficientProfile(t) \in Profiles
  BY DEF desiredEfficientProfile, Profiles
<1>3. BeginSwitch(c, t, up) =
        [k EXCEPT !.command = "zero", !.selected = "profile_hold", !.path = NoPath,
               !.active = FALSE, !.paused = FALSE, !.task_controller = "none",
               !.revision = k.revision + 1, !.transition = tr,
               !.state = "APPLYING_EFFICIENT_PROFILE"]
  BY DEF BeginSwitch
<1> HIDE DEF k
<1>4. tr \in Transitions /\ k.revision + 1 \in Nat
  <2>1. k.revision \in Nat /\ k.route_sequence \in Nat /\ k.index \in Nat
    BY <1>1 DEF Ctls
  <2> QED  BY <1>2, <2>1 DEF Transitions
<1> HIDE DEF tr
<1>5. "profile_hold" \in Sources /\ "APPLYING_EFFICIENT_PROFILE" \in States
  BY DEF Sources, States
<1>6. NoPath \in Paths
  BY EmptyTypes
<1>7. [k EXCEPT !.command = "zero", !.selected = "profile_hold", !.path = NoPath,
               !.active = FALSE, !.paused = FALSE, !.task_controller = "none",
               !.revision = k.revision + 1, !.transition = tr,
               !.state = "APPLYING_EFFICIENT_PROFILE"] \in Ctls
  BY <1>1, <1>4, <1>5, <1>6 DEF Ctls
<1> QED  BY <1>3, <1>7

\* Forgetting the counted frames and resetting the clear hold keep the types.
LEMMA ResetTypes ==
  ASSUME NEW c \in Ctls
  PROVE  ForgetFrames(c) \in Ctls /\ ResetHold(c) \in Ctls
<1>1. [c EXCEPT !.gate = ClearGate, !.counted = FALSE] \in Ctls
  <2>1. ClearGate \in Gates
    BY EmptyTypes
  <2> QED  BY <2>1 DEF Ctls
<1>2. [c EXCEPT !.clear_age = Unset] \in Ctls
  <2>1. Unset \in Unset..ClearHold
    BY EmptyTypes
  <2> QED  BY <2>1 DEF Ctls
<1> QED  BY <1>1, <1>2 DEF ForgetFrames, ResetHold

\* Starting to track keeps the types.
LEMMA StartTrackingType ==
  ASSUME NEW c \in Ctls, NEW t \in Tasks
  PROVE  StartTracking(c, t) \in Ctls
<1> DEFINE k == ResetHold(ForgetFrames(c))
           cmd == IF UsesEfficient(t) THEN "zero" ELSE k.command
<1>1. k \in Ctls
  BY ResetTypes
<1>2. StartTracking(c, t) =
        [k EXCEPT !.active = TRUE, !.task_controller = ControllerOf(t),
                  !.paused = FALSE, !.safety_stopped = FALSE,
                  !.path = PathFor(c, t), !.command = cmd,
                  !.selected = ControllerOf(t), !.state = "TRACKING"]
  BY DEF StartTracking
<1> HIDE DEF k
<1>3. cmd \in {"zero", "track"}
  BY <1>1 DEF Ctls
<1>4. ControllerOf(t) \in MotionSources \cup {"none"} /\ ControllerOf(t) \in Sources
  BY DEF ControllerOf, MotionSources, Sources
<1>5. PathFor(c, t) \in Paths
  <2>1. desiredEfficientProfile(t) \in Profiles
    BY DEF desiredEfficientProfile, Profiles
  <2>2. c.route_sequence \in Nat /\ c.index \in Nat
    BY DEF Ctls
  <2>3. EfficientPath(c, t) \in Paths
    BY <2>1, <2>2 DEF EfficientPath, Paths
  <2> QED  BY <2>3, EmptyTypes DEF PathFor
<1>6. "TRACKING" \in States
  BY DEF States
<1> DEFINE ctr == ControllerOf(t)
           pth == PathFor(c, t)
<1> HIDE DEF cmd
<1>7. [k EXCEPT !.active = TRUE, !.task_controller = ControllerOf(t),
                !.paused = FALSE, !.safety_stopped = FALSE,
                !.path = PathFor(c, t), !.command = cmd,
                !.selected = ControllerOf(t), !.state = "TRACKING"] \in Ctls
  BY <1>1, <1>3, <1>4, <1>5, <1>6, ZenonT(30) DEF Ctls
<1> QED  BY <1>2, <1>7

\* Activating a task keeps the types, whichever way it ends.
LEMMA ActivateType ==
  ASSUME NEW c \in Ctls, NEW up \in SUBSET Nodes
  PROVE  activateTask(c, up) \in Ctls
<1>1. CASE ~HasTask(c)
  <2>1. [c EXCEPT !.state = "ERROR"] \in Ctls
    BY DEF Ctls, States
  <2> QED  BY <1>1, <2>1 DEF activateTask
<1>2. CASE HasTask(c)
  <2>1. Task(c) \in Tasks
    BY <1>2, TaskType
  <2>2. /\ [c EXCEPT !.active = FALSE, !.selected = "none",
                     !.state = "HANDOVER_REQUIRED"] \in Ctls
        /\ [c EXCEPT !.active = FALSE, !.state = "ERROR"] \in Ctls
    <3>1. "none" \in Sources /\ {"HANDOVER_REQUIRED", "ERROR"} \subseteq States
      BY DEF Sources, States
    <3> QED  BY <3>1 DEF Ctls
  <2>3. BeginSwitch(c, Task(c), up) \in Ctls /\ StartTracking(c, Task(c)) \in Ctls
    BY <2>1, BeginSwitchType, StartTrackingType
  <2> QED  BY <1>2, <2>2, <2>3 DEF activateTask
<1> QED  BY <1>1, <1>2

\* So does ending a task.
LEMMA AdvanceType ==
  ASSUME NEW c \in Ctls, NEW up \in SUBSET Nodes
  PROVE  advanceTask(c, up) \in Ctls
<1>1. \A k \in Ctls : NextTask(k) \in Ctls
  <2>1. \A k \in Ctls : k.index + 1 \in Nat
    BY DEF Ctls
  <2> QED  BY <2>1 DEF NextTask, Ctls
<1>2. StopAtBoundary(c) \in Ctls
  <2>1. NoPath \in Paths
    BY EmptyTypes
  <2> QED  BY <2>1 DEF StopAtBoundary, Ctls, Sources
<1>3. \A k \in Ctls : /\ [k EXCEPT !.state = "FINISHED"] \in Ctls
                      /\ [k EXCEPT !.state = "WAITING_TRANSITION"] \in Ctls
  <2>1. {"FINISHED", "WAITING_TRANSITION"} \subseteq States
    BY DEF States
  <2> QED  BY <2>1 DEF Ctls
<1>4. \A k \in Ctls : activateTask(k, up) \in Ctls
  BY ActivateType
<1> QED  BY <1>1, <1>2, <1>3, <1>4 DEF advanceTask

\* Handling an answer of a parameter service keeps the types.
LEMMA ResponseType ==
  ASSUME NEW c \in Ctls, NEW r \in Replies, NEW up \in SUBSET Nodes
  PROVE  handleEfficientProfileResponse(c, r, up) \in Ctls
<1>1. \A k \in Ctls : finishEfficientProfileTransitionIfReady(k, up) \in Ctls
  <2> TAKE k \in Ctls
  <2>1. [k EXCEPT !.transition = NoTransition] \in Ctls
    BY EmptyTypes DEF Ctls
  <2>2. [k EXCEPT !.applied = k.transition.profile,
                  !.transition = NoTransition] \in Ctls
    <3>1. NoTransition \in Transitions
      BY EmptyTypes
    <3>2. k.transition.profile \in Profiles \cup {"none"}
      BY DEF Ctls, Transitions
    <3> QED  BY <3>1, <3>2 DEF Ctls
  <2> QED  BY <2>1, <2>2, ActivateType
           DEF finishEfficientProfileTransitionIfReady
<1>2. r.node \in Nodes
  BY DEF Replies
<1>3. /\ [c EXCEPT !.transition.sent = @ \ {r.node}] \in Ctls
      /\ [c EXCEPT !.transition.confirmed = @ \cup {r.node}] \in Ctls
  BY <1>2 DEF Ctls, Transitions
<1> QED  BY <1>1, <1>3 DEF handleEfficientProfileResponse, Rejected

\* One more frame keeps the counters of the confirmation gate in range.
LEMMA GateType ==
  ASSUME NEW g \in Gates, NEW b \in BOOLEAN
  PROVE  GateUpdate(g, b) \in Gates
<1> DEFINE seen == IF g.obstacle_frames < EnterFrames
                   THEN g.obstacle_frames + 1 ELSE g.obstacle_frames
           clear == IF g.clear_frames < ExitFrames
                    THEN g.clear_frames + 1 ELSE g.clear_frames
<1>1. seen \in 0..EnterFrames /\ clear \in 0..ExitFrames
  <2>1. EnterFrames \in Nat /\ ExitFrames \in Nat
    BY ConstantsAssumption
  <2>2. g.obstacle_frames \in 0..EnterFrames /\ g.clear_frames \in 0..ExitFrames
    BY DEF Gates
  <2> QED  BY <2>1, <2>2
<1>2. 0 \in 0..EnterFrames /\ 0 \in 0..ExitFrames
  BY ConstantsAssumption
<1>3. (g.blocked \/ seen >= EnterFrames) \in BOOLEAN /\ StillBlocked(clear) \in BOOLEAN
  BY DEF Gates, StillBlocked
<1>4. ClearGate \in Gates
  BY EmptyTypes
<1> HIDE DEF seen, clear
<1>5. /\ [obstacle_frames |-> seen, clear_frames |-> 0,
          blocked |-> g.blocked \/ seen >= EnterFrames] \in Gates
      /\ [obstacle_frames |-> 0, clear_frames |-> clear,
          blocked |-> StillBlocked(clear)] \in Gates
  BY <1>1, <1>2, <1>3 DEF Gates
<1> QED  BY <1>4, <1>5 DEF GateUpdate, seen, clear

\* Every part of a firing of the control timer keeps the types.
LEMMA TimerTypes ==
  ASSUME NEW c \in Ctls, NEW e, NEW up \in SUBSET Nodes, NEW soft \in BOOLEAN
  PROVE  /\ Tick(c, up) \in Ctls
         /\ Sense(c, e, up) \in Ctls
         /\ SafetyStop(c, soft) \in Ctls
         /\ ReleaseSafetyStop(c) \in Ctls
         /\ ClearWait(c) \in Ctls
<1>0. ClearHold \in Nat /\ Unset \in Unset..ClearHold /\ 0 \in Unset..ClearHold
  BY ConstantsAssumption DEF Unset
<1>1. \A k \in Ctls : Elapse(k) \in Ctls
  <2> TAKE k \in Ctls
  <2> DEFINE age == IF k.clear_age \in 0..(ClearHold - 1)
                    THEN k.clear_age + 1 ELSE k.clear_age
  <2>1. age \in Unset..ClearHold
    <3>1. k.clear_age \in Unset..ClearHold
      BY DEF Ctls
    <3> QED  BY <1>0, <3>1 DEF Unset
  <2> HIDE DEF age
  <2>2. [k EXCEPT !.clear_age = age] \in Ctls
    BY <2>1 DEF Ctls
  <2> QED  BY <2>2 DEF Elapse, age
<1>2. \A k \in Ctls : Tick(k, up) \in Ctls
  BY <1>1, DispatchType DEF Tick
<1>3. \A k \in Ctls : sweptVolumeBlocked(k, e) \in Ctls
  <2> TAKE k \in Ctls
  <2>1. GateUpdate(k.gate, e.cloud = "obstacle") \in Gates
    BY GateType DEF Ctls
  <2>2. [k EXCEPT !.gate = GateUpdate(k.gate, e.cloud = "obstacle"),
                  !.counted = TRUE] \in Ctls
    BY <2>1, ZenonT(30) DEF Ctls
  <2> QED  BY <2>2, ResetTypes DEF sweptVolumeBlocked
<1>4. \A k \in Ctls : ResetHold(k) \in Ctls
  BY ResetTypes
<1>5. SafetyStop(c, soft) \in Ctls
  <2> DEFINE z == [ResetHold(c) EXCEPT !.command = "zero"]
             sel == IF soft THEN "safety_hold" ELSE "none"
  <2>1. z \in Ctls
    BY <1>4 DEF Ctls
  <2>2. sel \in Sources /\ "none" \in Sources
    BY DEF Sources
  <2> HIDE DEF z, sel
  <2>3. [z EXCEPT !.safety_stopped = TRUE, !.preserves = soft,
                  !.selected = sel] \in Ctls
    BY <2>1, <2>2 DEF Ctls
  <2>4. Escalate(z) \in Ctls
    BY <2>1, <2>2 DEF Ctls, Escalate
  <2> QED  BY <2>1, <2>3, <2>4 DEF SafetyStop, z, sel
<1>6. ReleaseSafetyStop(c) \in Ctls
  <2>1. ResetHold(c) \in Ctls /\ "TRACKING" \in States
    BY <1>4 DEF States
  <2>2. c.task_controller \in Sources
    BY DEF Ctls, Sources, MotionSources
  <2> QED  BY <2>1, <2>2 DEF ReleaseSafetyStop, Ctls
<1>7. ClearWait(c) \in Ctls
  <2> DEFINE age == IF c.clear_age = Unset THEN 0 ELSE c.clear_age
  <2>1. age \in Unset..ClearHold
    BY <1>0 DEF Ctls
  <2> HIDE DEF age
  <2>2. [c EXCEPT !.command = "zero", !.clear_age = age] \in Ctls
    BY <2>1 DEF Ctls
  <2> QED  BY <2>2 DEF ClearWait, age
<1> QED  BY <1>2, <1>3, <1>5, <1>6, <1>7 DEF Sense

\* The operator's services and a new route keep the types.
LEMMA ServiceTypes ==
  ASSUME NEW c \in Ctls
  PROVE  /\ \A r \in Routes, seq \in Nat : Staged(c, r, seq) \in Ctls
         /\ Paused(c) \in Ctls
         /\ Resumed(c) \in Ctls
         /\ Cancelled(c) \in Ctls
<1>1. /\ NoPath \in Paths /\ {"none"} \subseteq Sources
      /\ {"READY", "PAUSED", "TRACKING", "CANCELLED"} \subseteq States
  BY EmptyTypes DEF Sources, States
<1>2. ASSUME NEW r \in Routes, NEW seq \in Nat
      PROVE  Staged(c, r, seq) \in Ctls
  <2> DEFINE k == ResetHold(ForgetFrames(cancelEfficientProfileTransition(c)))
  <2>1. k \in Ctls
    BY CancelType, ResetTypes
  <2> HIDE DEF k
  <2>2. [k EXCEPT !.command = "zero", !.selected = "none", !.path = NoPath,
                  !.route = r, !.route_sequence = seq, !.index = 0,
                  !.active = FALSE, !.task_controller = "none", !.paused = FALSE,
                  !.safety_stopped = FALSE, !.state = "READY"] \in Ctls
    BY <1>1, <2>1, ZenonT(30) DEF Ctls
  <2> QED  BY <2>2 DEF Staged, k
<1>3. Paused(c) \in Ctls
  <2>1. ForgetFrames(c) \in Ctls
    BY ResetTypes
  <2> QED  BY <1>1, <2>1 DEF Paused, Ctls
<1>4. Resumed(c) \in Ctls
  <2>1. c.task_controller \in Sources
    BY DEF Ctls, Sources, MotionSources
  <2> QED  BY <1>1, <2>1 DEF Resumed, Ctls
<1>5. Cancelled(c) \in Ctls
  <2> DEFINE k == cancelEfficientProfileTransition(c)
  <2>1. k \in Ctls
    BY CancelType
  <2> HIDE DEF k
  <2>2. [k EXCEPT !.active = FALSE, !.paused = FALSE, !.command = "zero",
                  !.selected = "none", !.path = NoPath,
                  !.state = "CANCELLED"] \in Ctls
    BY <1>1, <2>1 DEF Ctls
  <2> QED  BY <2>2 DEF Cancelled, k
<1> QED  BY <1>2, <1>3, <1>4, <1>5

\* Posting requests keeps the queues of calls well formed.
LEMMA PostedType ==
  ASSUME NEW q \in [Nodes -> Seq(Requests)], NEW c, NEW d \in Ctls
  PROVE  Posted(q, c, d) \in [Nodes -> Seq(Requests)]
<1> DEFINE call == [revision |-> d.transition.revision,
                    profile |-> d.transition.profile]
<1>1. call \in Requests
  BY DEF Ctls, Transitions, Requests
<1> HIDE DEF call
<1>2. \A n \in Nodes : Append(q[n], call) \in Seq(Requests)
  BY <1>1, AppendProperties
<1>3. [n \in Nodes |-> IF n \in NewlySent(c, d) THEN Append(q[n], call) ELSE q[n]]
        \in [Nodes -> Seq(Requests)]
  BY <1>2
<1> QED  BY <1>3 DEF Posted, call

\* The initial state is well typed.
LEMMA InitType == Init => TypeOK
<1> SUFFICES ASSUME Init PROVE TypeOK
  OBVIOUS
<1>1. InitCtl \in Ctls
  <2>1. /\ NoPath \in Paths /\ ClearGate \in Gates /\ NoTransition \in Transitions
        /\ Unset \in Unset..ClearHold /\ "none" \in Sources /\ "IDLE" \in States
    BY EmptyTypes DEF Sources, States
  <2> QED  BY <2>1 DEF InitCtl, Ctls
<1>2. <<>> \in Seq(Requests) /\ 0 \in 0..(ClearHold + 1)
  BY ConstantsAssumption
<1> QED  BY <1>1, <1>2 DEF Init, TypeOK, Replies

\* Every step keeps the types.
LEMMA NextType == TypeOK /\ [Next]_vars => TypeOK'
<1> SUFFICES ASSUME TypeOK, [Next]_vars PROVE TypeOK'
  OBVIOUS
<1> USE DEF TypeOK
<1>1. \A c, d \in Ctls : Posted(requests, c, d) \in [Nodes -> Seq(Requests)]
  BY PostedType
<1>2. \A up \in SUBSET Nodes : \A c \in Ctls : activateTask(c, up) \in Ctls
  BY ActivateType
<1>3. Older \in 0..(ClearHold + 1) /\ 0 \in 0..(ClearHold + 1)
  BY ConstantsAssumption DEF Older
<1>4. \A d \in Ctls : Operate(d) => TypeOK'
  BY <1>1 DEF Operate, Become
<1>5. \A c, d \in Ctls : Fire(c, d) /\ quiet' \in 0..(ClearHold + 1) => TypeOK'
  <2> SUFFICES ASSUME NEW c \in Ctls, NEW d \in Ctls, Fire(c, d),
                      quiet' \in 0..(ClearHold + 1)
               PROVE  TypeOK'
    OBVIOUS
  <2>1. Posted(Posted(requests, ctl, c), c, d) \in [Nodes -> Seq(Requests)]
    BY <1>1, PostedType
  <2> QED  BY <2>1 DEF Fire, Become
<1>6. Ready(ctl) \subseteq SUBSET Nodes
  BY DEF Ready
<1>7. \A up \in SUBSET Nodes : Tick(ctl, up) \in Ctls /\ Sense(ctl, env, up) \in Ctls
  BY TimerTypes, <1>3
<1>10. CASE tasksCallback
  <2> PICK r \in Routes, up \in SUBSET Nodes :
        LET staged == Staged(ctl, r, faults.routes + 1)
            d == IF AutoStart THEN activateTask(staged, up) ELSE staged
        IN /\ Become(d)
           /\ requests' = Posted(requests, ctl, d)
           /\ faults' = [faults EXCEPT !.routes = @ + 1]
           /\ UNCHANGED <<env, replies, params, quiet>>
    BY <1>10 DEF tasksCallback
  <2>0. faults.routes + 1 \in Nat
    OBVIOUS
  <2>1. Staged(ctl, r, faults.routes + 1) \in Ctls
    BY <2>0, ServiceTypes
  <2>2. ctl' \in Ctls
    BY <1>2, <2>1 DEF Become
  <2>3. requests' \in [Nodes -> Seq(Requests)]
    BY <1>1, <1>2, <2>1
  <2> QED  BY <2>0, <2>2, <2>3
<1>11. CASE tasksCallbackEmpty
  <2>1. [ctl EXCEPT !.state = "ERROR", !.command = "zero"] \in Ctls
    BY DEF Ctls, States
  <2> QED  BY <1>11, <2>1 DEF tasksCallbackEmpty, Become
<1>12. CASE odometryCallback
  BY <1>12 DEF odometryCallback
<1>13. CASE cloudCallback
  <2>1. [ctl EXCEPT !.counted = FALSE] \in Ctls
    BY DEF Ctls
  <2> QED  BY <1>13, <2>1, ConstantsAssumption, ZenonT(30) DEF cloudCallback
<1>14. CASE RaiseAlarm \/ ClearAlarm
  <2>1. faults.alarms + 1 \in Nat
    OBVIOUS
  <2>2. CASE RaiseAlarm
    BY <2>1, <2>2 DEF RaiseAlarm
  <2>3. CASE ClearAlarm
    BY <2>3 DEF ClearAlarm
  <2> QED  BY <1>14, <2>2, <2>3
<1>15. CASE startCallback \/ continueCallback
  <2>1. [ctl EXCEPT !.index = 0] \in Ctls
    BY DEF Ctls
  <2> QED  BY <1>15, <1>2, <1>4, <2>1 DEF startCallback, continueCallback
<1>16. CASE pauseCallback \/ resumeCallback \/ cancelCallback
  <2>1. Paused(ctl) \in Ctls /\ Resumed(ctl) \in Ctls /\ Cancelled(ctl) \in Ctls
    BY ServiceTypes
  <2> QED  BY <1>16, <1>4, <2>1 DEF pauseCallback, resumeCallback, cancelCallback
<1>17. CASE controlTimer
  <2>1. CASE TimerIdle
    BY <2>1, <1>3, <1>5, <1>6, <1>7 DEF TimerIdle
  <2>2. CASE TimerStop
    <3>1. \A up \in SUBSET Nodes :
            SafetyStop(Sense(ctl, env, up),
                       PreserveController(Sense(ctl, env, up), env)) \in Ctls
      BY <1>7, TimerTypes, ConstantsAssumption DEF PreserveController
    <3> QED  BY <2>2, <3>1, <1>3, <1>5, <1>6, <1>7 DEF TimerStop
  <2>3. CASE TimerHold \/ TimerRelease
    <3>1. \A up \in SUBSET Nodes : /\ ClearWait(Sense(ctl, env, up)) \in Ctls
                                   /\ ReleaseSafetyStop(Sense(ctl, env, up)) \in Ctls
      BY <1>7, TimerTypes
    <3> QED  BY <2>3, <3>1, <1>3, <1>5, <1>6, <1>7 DEF TimerHold, TimerRelease
  <2>4. CASE TimerTrack
    <3>1. \A c \in Ctls :
            [c EXCEPT !.command =
               IF c.task_controller = "pid" THEN "track" ELSE @] \in Ctls
      <4> TAKE c \in Ctls
      <4> DEFINE cmd == IF c.task_controller = "pid" THEN "track" ELSE c.command
      <4>1. cmd \in {"zero", "track"}
        BY DEF Ctls
      <4> HIDE DEF cmd
      <4>2. [c EXCEPT !.command = cmd] \in Ctls
        BY <4>1 DEF Ctls
      <4> QED  BY <4>2 DEF cmd
    <3> QED  BY <2>4, <3>1, <1>3, <1>5, <1>6, <1>7 DEF TimerTrack
  <2>5. CASE TimerAdvance
    <3>1. \A up \in SUBSET Nodes : advanceTask(Sense(ctl, env, up), up) \in Ctls
      BY <1>7, AdvanceType
    <3> QED  BY <2>5, <3>1, <1>3, <1>5, <1>7 DEF TimerAdvance
  <2>6. CASE TimerThrow
    <3>1. \A c \in Ctls : Failed(c) \in Ctls
      <4>1. "ERROR" \in States
        BY DEF States
      <4> QED  BY <4>1, ZenonT(30) DEF Failed, Ctls
    <3> QED  BY <2>6, <3>1, <1>3, <1>5, <1>6, <1>7 DEF TimerThrow
  <2> QED  BY <1>17, <2>1, <2>2, <2>3, <2>4, <2>5, <2>6 DEF controlTimer
<1>18. ASSUME NEW n \in Nodes, Accept(n) \/ Reject(n)
       PROVE  TypeOK'
  <2>1. requests[n] \in Seq(Requests) /\ requests[n] # <<>>
    BY <1>18 DEF Accept, Reject, Serve
  <2>2. Head(requests[n]) \in Requests /\ Tail(requests[n]) \in Seq(Requests)
    BY <2>1, HeadTailProperties
  <2>3. \A s \in BOOLEAN : Serve(n, s) =>
          /\ requests' \in [Nodes -> Seq(Requests)]
          /\ replies' \subseteq Replies
          /\ params' \in [Nodes -> Profiles \cup {"launch", "none"}]
          /\ UNCHANGED <<ctl, env, quiet>>
    <3> SUFFICES ASSUME NEW s \in BOOLEAN, Serve(n, s)
                 PROVE  /\ requests' \in [Nodes -> Seq(Requests)]
                        /\ replies' \subseteq Replies
                        /\ params' \in [Nodes -> Profiles \cup {"launch", "none"}]
                        /\ UNCHANGED <<ctl, env, quiet>>
      OBVIOUS
    <3>1. requests' \in [Nodes -> Seq(Requests)]
      BY <2>2 DEF Serve
    <3>2. [node |-> n, revision |-> Head(requests[n]).revision,
           success |-> s] \in Replies
      BY <2>2 DEF Requests, Replies
    <3>3. replies' \subseteq Replies
      BY <3>2 DEF Serve
    <3>4. Head(requests[n]).profile \in Profiles \cup {"launch", "none"}
      BY <2>2 DEF Requests
    <3>5. params' \in [Nodes -> Profiles \cup {"launch", "none"}]
      BY <3>4 DEF Serve
    <3> QED  BY <3>1, <3>3, <3>5 DEF Serve
  <2>4. faults.rejections + 1 \in Nat
    OBVIOUS
  <2>5. CASE Accept(n)
    BY <2>3, <2>5 DEF Accept
  <2>6. CASE Reject(n)
    <3>1. faults' \in [rejections : Nat, restarts : Nat, alarms : Nat, routes : Nat]
      BY <2>4, <2>6 DEF Reject
    <3> QED  BY <2>3, <2>6, <3>1 DEF Reject
  <2> QED  BY <1>18, <2>5, <2>6
<1>19. ASSUME NEW n \in Nodes, Restart(n)
       PROVE  TypeOK'
  <2>1. <<>> \in Seq(Requests) /\ faults.restarts + 1 \in Nat
    OBVIOUS
  <2>2. faults' \in [rejections : Nat, restarts : Nat, alarms : Nat, routes : Nat]
    BY <1>19, <2>1 DEF Restart
  <2>3. requests' \in [Nodes -> Seq(Requests)]
    BY <1>19, <2>1 DEF Restart
  <2>4. params' \in [Nodes -> Profiles \cup {"launch", "none"}]
    BY <1>19 DEF Restart
  <2> QED  BY <1>19, <2>2, <2>3, <2>4 DEF Restart
<1>20. CASE DeliverReply
  <2>1. PICK r \in replies, up \in SUBSET Nodes :
          LET d == handleEfficientProfileResponse(ctl, r, up) IN
          /\ Become(d)
          /\ requests' = Posted(requests, ctl, d)
          /\ replies' = replies \ {r}
          /\ UNCHANGED <<env, params, faults, quiet>>
    BY <1>20 DEF DeliverReply
  <2>2. handleEfficientProfileResponse(ctl, r, up) \in Ctls
    BY ResponseType
  <2>3. ctl' \in Ctls
    BY <2>1, <2>2 DEF Become
  <2>4. requests' \in [Nodes -> Seq(Requests)]
    BY <1>1, <2>1, <2>2
  <2> QED  BY <2>1, <2>3, <2>4
<1>21. CASE UNCHANGED vars
  BY <1>21 DEF vars
<1> QED
  BY <1>10, <1>11, <1>12, <1>13, <1>14, <1>15, <1>16, <1>17, <1>18, <1>19,
     <1>20, <1>21 DEF Next

\* The types hold in every reachable state, whatever the routes and parameters.
THEOREM TypeCorrect == Spec => []TypeOK
<1>1. Init => TypeOK
  BY InitType
<1>2. TypeOK /\ [Next]_vars => TypeOK'
  BY NextType
<1> QED  BY <1>1, <1>2, PTL DEF Spec

-----------------------------------------------------------------------------
(* What drives: the selection, the PID command and the efficient path *)

\* Giving up a task keeps the invariant: only the selection matters then.
LEMMA GiveUpDrive ==
  ASSUME NEW c \in Ctls, Selection(c)
  PROVE  /\ Drive([c EXCEPT !.active = FALSE, !.selected = "none",
                            !.state = "HANDOVER_REQUIRED"])
         /\ Drive([c EXCEPT !.active = FALSE, !.state = "ERROR"])
         /\ Drive(Failed(c))
BY DEF Ctls, Drive, Selection, MotionSources, Efficient, Failed

\* Starting a switch establishes the invariant: nothing is active then.
LEMMA BeginSwitchDrive ==
  ASSUME NEW c \in Ctls, NEW t \in Tasks, NEW up \in SUBSET Nodes
  PROVE  Drive(BeginSwitch(c, t, up))
<1> DEFINE k == cancelEfficientProfileTransition(c)
           b == BeginSwitch(c, t, up)
<1>1. k \in Ctls
  BY CancelType
<1>2. /\ b.active = FALSE /\ b.paused = FALSE /\ b.selected = "profile_hold"
  <2> HIDE DEF k
  <2> QED  BY <1>1 DEF BeginSwitch, Ctls, k
<1> HIDE DEF b
<1>3. Drive(b)
  BY <1>2 DEF Drive, Selection, MotionSources, Efficient
<1> QED  BY <1>3 DEF b

\* Starting to track establishes it, if the profile is in force.
LEMMA StartTrackingDrive ==
  ASSUME NEW c \in Ctls, NEW t \in Tasks,
         UsesPid(t) \/ UsesEfficient(t),
         UsesEfficient(t) => ProfileInForce(c, t)
  PROVE  Drive(StartTracking(c, t))
<1> DEFINE k == ResetHold(ForgetFrames(c))
           s == StartTracking(c, t)
<1>1. k \in Ctls /\ k.applied = c.applied /\ k.command = c.command
  <2>1. ForgetFrames(c) \in Ctls /\ k \in Ctls
    BY ResetTypes
  <2> QED  BY <2>1 DEF ResetHold, ForgetFrames, Ctls
<1>2. UsesPid(t) => ~UsesEfficient(t)
  BY DEF UsesPid, UsesEfficient, Efficient
<1>3. /\ s.active = TRUE /\ s.paused = FALSE
      /\ s.task_controller = ControllerOf(t) /\ s.selected = ControllerOf(t)
      /\ s.path = PathFor(c, t) /\ s.applied = c.applied
      /\ UsesEfficient(t) => s.command = "zero"
  <2> HIDE DEF k
  <2>1. s = [k EXCEPT !.active = TRUE, !.task_controller = ControllerOf(t),
                      !.paused = FALSE, !.safety_stopped = FALSE,
                      !.path = PathFor(c, t),
                      !.command = IF UsesEfficient(t) THEN "zero" ELSE @,
                      !.selected = ControllerOf(t), !.state = "TRACKING"]
    BY DEF StartTracking, k
  <2> HIDE DEF s
  <2> QED  BY <1>1, <2>1 DEF Ctls
<1> HIDE DEF s
<1>4. CASE UsesPid(t)
  <2>1. s.selected = "pid" /\ s.task_controller = "pid" /\ s.path = NoPath
    BY <1>2, <1>3, <1>4 DEF ControllerOf, PathFor
  <2>2. Drive(s)
    BY <1>3, <2>1 DEF Drive, Selection, Carried, MotionSources, Efficient
  <2> QED  BY <2>2 DEF s
<1>5. CASE UsesEfficient(t)
  <2>1. /\ s.selected = Efficient /\ s.task_controller = Efficient
        /\ s.path = EfficientPath(c, t) /\ s.command = "zero"
    BY <1>2, <1>3, <1>5 DEF ControllerOf, PathFor
  <2>2. /\ s.path.profile = desiredEfficientProfile(t)
        /\ SwitchingEnabled => s.applied = desiredEfficientProfile(t)
    BY <1>3, <1>5, <2>1 DEF EfficientPath, ProfileInForce
  <2>3. s.path # NoPath
    BY <2>2 DEF NoPath, desiredEfficientProfile
  <2>4. Drive(s)
    BY <1>3, <2>1, <2>2, <2>3 DEF Drive, Selection, Carried, MotionSources, Efficient
  <2> QED  BY <2>4 DEF s
<1> QED  BY <1>4, <1>5

\* Activating keeps the invariant, whatever task the index names.
LEMMA ActivateDrive ==
  ASSUME NEW c \in Ctls, NEW up \in SUBSET Nodes, Drive(c)
  PROVE  Drive(activateTask(c, up))
<1>1. CASE ~HasTask(c)
  <2>1. Drive([c EXCEPT !.state = "ERROR"])
    BY DEF Ctls, Drive, Selection, Carried, MotionSources, Efficient
  <2> QED  BY <1>1, <2>1 DEF activateTask
<1>2. CASE HasTask(c)
  <2>1. Task(c) \in Tasks
    BY <1>2, TaskType
  <2>2. Selection(c)
    BY DEF Drive
  <2> QED  BY <1>2, <2>1, <2>2, GiveUpDrive, BeginSwitchDrive, StartTrackingDrive
           DEF activateTask
<1> QED  BY <1>1, <1>2

\* Finishing a transition activates under the new profile: what the previous
\* task carried does not matter, because none is left active as it was.
LEMMA FinishDrive ==
  ASSUME NEW c \in Ctls, NEW up \in SUBSET Nodes, Drive(c)
  PROVE  Drive(finishEfficientProfileTransitionIfReady(c, up))
<1> DEFINE k == [c EXCEPT !.applied = c.transition.profile,
                          !.transition = NoTransition]
<1>1. Drive([c EXCEPT !.transition = NoTransition])
  BY DEF Ctls, Drive, Selection, Carried
<1>2. ASSUME HasTask(c)
      PROVE  Drive(activateTask(k, up))
  <2>1. k \in Ctls
    <3>1. NoTransition \in Transitions
      BY EmptyTypes
    <3>2. c.transition.profile \in Profiles \cup {"none"}
      BY DEF Ctls, Transitions
    <3> QED  BY <3>1, <3>2 DEF Ctls
  <2>2. Selection(k) /\ HasTask(k) /\ k.transition = NoTransition
    BY <1>2 DEF Ctls, Drive, Selection, HasTask
  <2> HIDE DEF k
  <2>3. ~Pending(k)
    BY <2>2 DEF Pending, NoTransition
  <2>4. Task(k) \in Tasks
    BY <2>1, <2>2, TaskType
  <2> QED  BY <2>1, <2>2, <2>3, <2>4, GiveUpDrive, BeginSwitchDrive,
              StartTrackingDrive DEF activateTask, AlreadySwitching
<1> QED  BY <1>1, <1>2 DEF finishEfficientProfileTransitionIfReady

\* Ending a task keeps the invariant.
LEMMA AdvanceDrive ==
  ASSUME NEW c \in Ctls, NEW up \in SUBSET Nodes, Drive(c)
  PROVE  Drive(advanceTask(c, up))
<1>1. \A k \in Ctls : NextTask(k) \in Ctls /\ (Drive(k) => Drive(NextTask(k)))
  <2> TAKE k \in Ctls
  <2>1. k.index + 1 \in Nat
    BY DEF Ctls
  <2>2. NextTask(k) \in Ctls
    BY <2>1 DEF NextTask, Ctls
  <2>3. Drive(k) => Drive(NextTask(k))
    BY DEF NextTask, Ctls, Drive, Selection, Carried
  <2> QED  BY <2>2, <2>3
<1>2. StopAtBoundary(c) \in Ctls
  <2>1. NoPath \in Paths /\ "none" \in Sources
    BY EmptyTypes DEF Sources
  <2> QED  BY <2>1 DEF StopAtBoundary, Ctls
<1>3. Drive(StopAtBoundary(c))
  BY DEF StopAtBoundary, Ctls, Drive, Selection, MotionSources, Efficient
<1>4. Drive([StopAtBoundary(c) EXCEPT !.state = "FINISHED"])
  BY DEF StopAtBoundary, Ctls, Drive, Selection, MotionSources, Efficient
<1>5. Drive([NextTask(StopAtBoundary(c)) EXCEPT !.state = "WAITING_TRANSITION"])
  BY DEF StopAtBoundary, NextTask, Ctls, Drive, Selection, MotionSources, Efficient
<1> QED  BY <1>1, <1>2, <1>3, <1>4, <1>5, ActivateDrive DEF advanceTask

\* An answer of a parameter service keeps the invariant.
LEMMA ResponseDrive ==
  ASSUME NEW c \in Ctls, NEW r \in Replies, NEW up \in SUBSET Nodes, Drive(c)
  PROVE  Drive(handleEfficientProfileResponse(c, r, up))
<1> DEFINE k == [c EXCEPT !.transition.confirmed = @ \cup {r.node}]
<1>1. r.node \in Nodes
  BY DEF Replies
<1>2. k \in Ctls
  BY <1>1 DEF Ctls, Transitions
<1>3. Drive(k) /\ Drive(Rejected(c, r.node))
  BY DEF Rejected, Ctls, Drive, Selection, Carried
<1> HIDE DEF k
<1>4. Drive(finishEfficientProfileTransitionIfReady(k, up))
  BY <1>2, <1>3, FinishDrive
<1> QED  BY <1>3, <1>4 DEF handleEfficientProfileResponse, k

\* What a firing does before it decides changes neither selection nor task.
LEMMA SenseDrive ==
  ASSUME NEW c \in Ctls, NEW e, NEW up \in SUBSET Nodes, Drive(c)
  PROVE  /\ Drive(Tick(c, up)) /\ Drive(Sense(c, e, up))
         /\ Sense(c, e, up).active = c.active
         /\ Sense(c, e, up).paused = c.paused
<1> DEFINE k == Elapse(c)
           d == Tick(c, up)
<1>1. k \in Ctls /\ d \in Ctls
  <2>1. d \in Ctls
    BY TimerTypes
  <2>2. ClearHold \in Nat
    BY ConstantsAssumption
  <2> DEFINE age == IF c.clear_age \in 0..(ClearHold - 1)
                    THEN c.clear_age + 1 ELSE c.clear_age
  <2>3. age \in Unset..ClearHold
    <3>1. c.clear_age \in Unset..ClearHold
      BY DEF Ctls
    <3> QED  BY <2>2, <3>1 DEF Unset
  <2> HIDE DEF age
  <2>4. [c EXCEPT !.clear_age = age] \in Ctls
    BY <2>3 DEF Ctls
  <2>5. k \in Ctls
    BY <2>4 DEF Elapse, age
  <2> QED  BY <2>1, <2>5
<1>2. Drive(k) /\ k.active = c.active /\ k.paused = c.paused
  BY DEF Elapse, Ctls, Drive, Selection, Carried
<1> HIDE DEF k
<1>3. Drive(d) /\ d.active = k.active /\ d.paused = k.paused
  <2> DEFINE q == dispatchEfficientProfileRequests(k, up)
  <2>1. Drive(q) /\ q.active = k.active /\ q.paused = k.paused
    BY <1>1, <1>2 DEF dispatchEfficientProfileRequests, Ctls, Drive,
                      Selection, Carried
  <2> QED  BY <2>1 DEF Tick, k
<1> HIDE DEF d
<1>4. /\ Drive(sweptVolumeBlocked(d, e))
      /\ sweptVolumeBlocked(d, e).active = d.active
      /\ sweptVolumeBlocked(d, e).paused = d.paused
  BY <1>1, <1>3 DEF sweptVolumeBlocked, ForgetFrames, Ctls, Drive, Selection, Carried
<1> QED  BY <1>2, <1>3, <1>4 DEF Sense, d

\* The stops and the release: a soft stop is a stop of a PID task.
LEMMA StopDrive ==
  ASSUME NEW c \in Ctls, NEW e, Drive(c), c.active, ~c.paused
  PROVE  /\ MustStop(c, e) => Drive(SafetyStop(c, PreserveController(c, e)))
         /\ Drive(ClearWait(c))
         /\ Drive(ReleaseSafetyStop(c))
<1> DEFINE soft == PreserveController(c, e)
           z == [ResetHold(c) EXCEPT !.command = "zero"]
<1>1. MustStop(c, e) /\ soft => c.task_controller = "pid"
  BY DEF MustStop, PreserveController, ObstacleStop, HardStop,
         obstacleDetectionEnabledForTask
<1>2. ResetHold(c) \in Ctls
  BY ResetTypes
<1>3. z \in Ctls
  BY <1>2 DEF Ctls
<1>4. /\ z.active = c.active /\ z.paused = c.paused /\ z.selected = c.selected
      /\ z.task_controller = c.task_controller /\ z.path = c.path
      /\ z.applied = c.applied /\ z.command = "zero"
      /\ z.safety_stopped = c.safety_stopped /\ z.preserves = c.preserves
      /\ z.state = c.state
  BY DEF ResetHold, Ctls
<1> HIDE DEF z
<1>5. Drive(z)
  BY <1>4 DEF Drive, Selection, Carried
<1>6. ASSUME MustStop(c, e)
      PROVE  Drive(SafetyStop(c, soft))
  <2> HIDE DEF soft
  <2>1. CASE ~c.safety_stopped
    <3> DEFINE sel == IF soft THEN "safety_hold" ELSE "none"
               s == [z EXCEPT !.safety_stopped = TRUE, !.preserves = soft,
                              !.selected = sel]
    <3>1. /\ s.active = z.active /\ s.paused = z.paused /\ s.selected = sel
          /\ s.task_controller = z.task_controller /\ s.path = z.path
          /\ s.applied = z.applied /\ s.command = z.command
          /\ s.safety_stopped = TRUE /\ s.preserves = soft
      BY <1>3 DEF Ctls
    <3>2. soft => z.task_controller = "pid"
      BY <1>1, <1>4, <1>6 DEF soft
    <3> HIDE DEF s
    <3>3. Drive(s)
      BY <1>4, <1>5, <3>1, <3>2 DEF Drive, Selection, Carried, MotionSources, Efficient
    <3> QED  BY <2>1, <3>3 DEF SafetyStop, s, z
  <2>2. CASE c.safety_stopped
    <3>1. Drive(Escalate(z))
      BY <1>3, <1>4, <1>5 DEF Escalate, Ctls, Drive, Selection, Carried, MotionSources, Efficient
    <3> QED  BY <2>2, <1>5, <3>1 DEF SafetyStop, z
  <2> QED  BY <2>1, <2>2
<1>7. Drive(ClearWait(c))
  BY DEF ClearWait, Ctls, Drive, Selection, Carried
<1>8. Drive(ReleaseSafetyStop(c))
  <2> DEFINE k == ResetHold(c)
             s == ReleaseSafetyStop(c)
  <2>1. /\ s.active = c.active /\ s.paused = c.paused
        /\ s.selected = c.task_controller /\ s.task_controller = c.task_controller
        /\ s.path = c.path /\ s.applied = c.applied /\ s.command = "zero"
    BY DEF ReleaseSafetyStop, ResetHold, Ctls
  <2> HIDE DEF s
  <2>2. Drive(s)
    BY <2>1 DEF Drive, Selection, Carried, MotionSources, Efficient
  <2> QED  BY <2>2 DEF s
<1> QED  BY <1>6, <1>7, <1>8 DEF soft

\* Tracking commands the robot only for the PID controller.
LEMMA TrackDrive ==
  ASSUME NEW c \in Ctls, Drive(c), c.active
  PROVE  Drive([c EXCEPT !.command =
                  IF c.task_controller = "pid" THEN "track" ELSE @])
<1>1. CASE c.task_controller = "pid"
  <2>1. Drive([c EXCEPT !.command = "track"])
    BY <1>1 DEF Ctls, Drive, Selection, Carried, MotionSources, Efficient
  <2> QED  BY <1>1, <2>1
<1>2. CASE c.task_controller # "pid"
  <2>1. Drive([c EXCEPT !.command = c.command])
    BY DEF Ctls, Drive, Selection, Carried
  <2> QED  BY <1>2, <2>1
<1> QED  BY <1>1, <1>2

\* A new route and the operator's services keep the invariant.
LEMMA ServiceDrive ==
  ASSUME NEW c \in Ctls, Drive(c)
  PROVE  /\ \A r \in Routes, seq \in Nat : Drive(Staged(c, r, seq))
         /\ Drive(Paused(c))
         /\ c.active /\ c.paused => Drive(Resumed(c))
         /\ Drive(Cancelled(c))
         /\ Drive([c EXCEPT !.index = 0])
         /\ Drive([c EXCEPT !.state = "ERROR", !.command = "zero"])
         /\ Drive([c EXCEPT !.counted = FALSE])
<1>1. ASSUME NEW r \in Routes, NEW seq \in Nat
      PROVE  Drive(Staged(c, r, seq))
  <2> DEFINE k == ResetHold(ForgetFrames(cancelEfficientProfileTransition(c)))
             s == Staged(c, r, seq)
  <2>1. k \in Ctls
    BY CancelType, ResetTypes
  <2> HIDE DEF k
  <2>2. s.active = FALSE /\ s.paused = FALSE /\ s.selected = "none"
    BY <2>1 DEF Staged, Ctls, k
  <2> HIDE DEF s
  <2>3. Drive(s)
    BY <2>2 DEF Drive, Selection, MotionSources, Efficient
  <2> QED  BY <2>3 DEF s
<1>2. Drive(Paused(c))
  BY DEF Paused, ForgetFrames, Ctls, Drive, Selection, Carried, MotionSources, Efficient
<1>3. c.active /\ c.paused => Drive(Resumed(c))
  BY DEF Resumed, Ctls, Drive, Selection, Carried, MotionSources, Efficient
<1>4. Drive(Cancelled(c))
  <2> DEFINE k == cancelEfficientProfileTransition(c)
             s == Cancelled(c)
  <2>1. k \in Ctls
    BY CancelType
  <2> HIDE DEF k
  <2>2. s.active = FALSE /\ s.paused = FALSE /\ s.selected = "none"
    BY <2>1 DEF Cancelled, Ctls, k
  <2> HIDE DEF s
  <2>3. Drive(s)
    BY <2>2 DEF Drive, Selection, MotionSources, Efficient
  <2> QED  BY <2>3 DEF s
<1>5. Drive([c EXCEPT !.index = 0]) /\ Drive([c EXCEPT !.counted = FALSE])
  BY DEF Ctls, Drive, Selection, Carried
<1>6. Drive([c EXCEPT !.state = "ERROR", !.command = "zero"])
  BY DEF Ctls, Drive, Selection, Carried
<1> QED  BY <1>1, <1>2, <1>3, <1>4, <1>5, <1>6

\* Every step keeps the invariant: the timer, the services and the topics act on
\* ctl through the methods above, and the environment leaves ctl alone.
LEMMA DriveNext == TypeOK /\ DriveInv /\ [Next]_vars => DriveInv'
<1> SUFFICES ASSUME TypeOK, Drive(ctl), [Next]_vars
             PROVE  Drive(ctl')
  BY DEF DriveInv
<1>1. ctl \in Ctls /\ replies \subseteq Replies /\ faults.routes + 1 \in Nat
  BY DEF TypeOK
<1>2. Ready(ctl) \subseteq SUBSET Nodes
  BY DEF Ready
<1>3. ASSUME tasksCallback
      PROVE  Drive(ctl')
  <2> PICK r \in Routes, up \in SUBSET Nodes :
        LET staged == Staged(ctl, r, faults.routes + 1)
        IN  Become(IF AutoStart THEN activateTask(staged, up) ELSE staged)
    BY <1>3 DEF tasksCallback
  <2> DEFINE s == Staged(ctl, r, faults.routes + 1)
  <2>1. s \in Ctls /\ Drive(s)
    BY <1>1, ServiceTypes, ServiceDrive
  <2> HIDE DEF s
  <2>2. Drive(activateTask(s, up))
    BY <2>1, ActivateDrive
  <2> QED  BY <2>1, <2>2 DEF Become, s
<1>4. CASE tasksCallbackEmpty
  BY <1>1, <1>4, ServiceDrive DEF tasksCallbackEmpty, Become
<1>5. CASE odometryCallback \/ RaiseAlarm \/ ClearAlarm
  BY <1>5 DEF odometryCallback, RaiseAlarm, ClearAlarm
<1>6. CASE cloudCallback
  BY <1>1, <1>6, ServiceDrive DEF cloudCallback
<1>7. CASE startCallback
  <2>1. [ctl EXCEPT !.index = 0] \in Ctls /\ Drive([ctl EXCEPT !.index = 0])
    BY <1>1, ServiceDrive DEF Ctls
  <2> QED  BY <1>7, <2>1, ActivateDrive DEF startCallback, Operate, Become
<1>8. CASE continueCallback
  BY <1>1, <1>8, ActivateDrive DEF continueCallback, Operate, Become
<1>9. CASE pauseCallback \/ resumeCallback \/ cancelCallback
  BY <1>1, <1>9, ServiceDrive
     DEF pauseCallback, resumeCallback, cancelCallback, Operate, Become
<1>10. CASE controlTimer
  <2>1. \A up \in SUBSET Nodes :
          /\ Tick(ctl, up) \in Ctls /\ Sense(ctl, env, up) \in Ctls
          /\ Drive(Tick(ctl, up)) /\ Drive(Sense(ctl, env, up))
          /\ Sense(ctl, env, up).active = ctl.active
          /\ Sense(ctl, env, up).paused = ctl.paused
    BY <1>1, TimerTypes, SenseDrive
  <2>2. CASE TimerIdle
    BY <1>2, <2>1, <2>2 DEF TimerIdle, Fire, Become
  <2>3. CASE TimerStop
    <3> PICK up \in Ready(ctl) :
          /\ MustStop(Sense(ctl, env, up), env)
          /\ ctl' = SafetyStop(Sense(ctl, env, up),
                               PreserveController(Sense(ctl, env, up), env))
      BY <2>3 DEF TimerStop, Fire, Become
    <3> QED  BY <1>2, <2>1, <2>3, StopDrive DEF TimerStop
  <2>4. CASE TimerHold
    <3> PICK up \in Ready(ctl) : ctl' = ClearWait(Sense(ctl, env, up))
      BY <2>4 DEF TimerHold, Fire, Become
    <3> QED  BY <1>2, <2>1, <2>4, StopDrive DEF TimerHold
  <2>5. CASE TimerRelease
    <3> PICK up \in Ready(ctl) : ctl' = ReleaseSafetyStop(Sense(ctl, env, up))
      BY <2>5 DEF TimerRelease, Fire, Become
    <3> QED  BY <1>2, <2>1, <2>5, StopDrive DEF TimerRelease
  <2>6. CASE TimerTrack
    <3> PICK up \in Ready(ctl) :
          ctl' = [Sense(ctl, env, up) EXCEPT !.command =
                    IF Sense(ctl, env, up).task_controller = "pid"
                    THEN "track" ELSE @]
      BY <2>6 DEF TimerTrack, Fire, Become
    <3> QED  BY <1>2, <2>1, <2>6, TrackDrive DEF TimerTrack
  <2>7. CASE TimerAdvance
    <3> PICK up \in SUBSET Nodes : ctl' = advanceTask(Sense(ctl, env, up), up)
      BY <2>7 DEF TimerAdvance, Fire, Become
    <3> QED  BY <2>1, AdvanceDrive
  <2>8. CASE TimerThrow
    <3> PICK up \in Ready(ctl) : ctl' = Failed(Sense(ctl, env, up))
      BY <2>8 DEF TimerThrow, Fire, Become
    <3> QED  BY <1>2, <2>1, GiveUpDrive DEF Drive
  <2> QED  BY <1>10, <2>2, <2>3, <2>4, <2>5, <2>6, <2>7, <2>8 DEF controlTimer
<1>11. ASSUME NEW n \in Nodes, Accept(n) \/ Reject(n) \/ Restart(n)
       PROVE  Drive(ctl')
  BY <1>11 DEF Accept, Reject, Restart, Serve
<1>12. CASE DeliverReply
  <2> PICK r \in replies, up \in SUBSET Nodes :
        ctl' = handleEfficientProfileResponse(ctl, r, up)
    BY <1>12 DEF DeliverReply, Become
  <2> QED  BY <1>1, ResponseDrive
<1>13. CASE UNCHANGED vars
  BY <1>13 DEF vars
<1> QED
  BY <1>3, <1>4, <1>5, <1>6, <1>7, <1>8, <1>9, <1>10, <1>11, <1>12, <1>13 DEF Next

\* What drives is decided by the executor alone: in every reachable state the
\* selection, the PID command and the efficient path agree with the active task,
\* whatever routes, answers, restarts, stops and operators do in between.
THEOREM DriveCorrect == Spec => []DriveInv
<1>1. Init => DriveInv
  BY DEF Init, InitCtl, DriveInv, Drive, Selection, MotionSources, Efficient
<1>2. TypeOK /\ DriveInv /\ [Next]_vars => DriveInv'
  BY DriveNext
<1> QED  BY <1>1, <1>2, TypeCorrect, PTL DEF Spec

\* While pauseCallback's pause lasts, /controller_selection says "none".
THEOREM PauseCorrect == Spec => []PausedSelectsNothing
<1>1. DriveInv => PausedSelectsNothing
  BY DEF DriveInv, Drive, Selection, PausedSelectsNothing
<1> QED  BY <1>1, DriveCorrect, PTL

\* A source is let through only for an active task, or after an ERROR.
THEOREM SourceCorrect == Spec => []SourceOnlyWhileActive
<1>1. DriveInv => SourceOnlyWhileActive
  BY DEF DriveInv, Drive, Selection, SourceOnlyWhileActive
<1> QED  BY <1>1, DriveCorrect, PTL

\* PID and efficient never drive together.
THEOREM OneSourceCorrect == Spec => []OneMotionSource
<1>1. DriveInv => OneMotionSource
  BY DEF DriveInv, Drive, Selection, OneMotionSource
<1> QED  BY <1>1, DriveCorrect, PTL

\* A hold that keeps the robot's mode is only ever a soft stop of a PID task.
THEOREM SafetyHoldCorrect == Spec => []SafetyHoldOnlyForPidObstacle
<1>1. DriveInv => SafetyHoldOnlyForPidObstacle
  BY DEF DriveInv, Drive, Selection, SafetyHoldOnlyForPidObstacle
<1> QED  BY <1>1, DriveCorrect, PTL

\* The four together: the selection is safe in every state (publishSource and all
\* that leads to it).
THEOREM SelectionCorrect == Spec => []SelectionSafe
<1>1. PausedSelectsNothing /\ SourceOnlyWhileActive /\ OneMotionSource
        /\ SafetyHoldOnlyForPidObstacle => SelectionSafe
  BY DEF SelectionSafe
<1> QED
  BY <1>1, PauseCorrect, SourceCorrect, OneSourceCorrect, SafetyHoldCorrect, PTL

\* Efficient drives a path published under the profile believed applied.
THEOREM ProfileCorrect == Spec => []EfficientUnderItsProfile
<1>1. DriveInv => EfficientUnderItsProfile
  BY DEF DriveInv, Drive, Carried, EfficientUnderItsProfile, MotionSources, Efficient
<1> QED  BY <1>1, DriveCorrect, PTL

-----------------------------------------------------------------------------
(* What the methods of the control timer leave alone *)

\* c and d drive the same task, and stand the same towards the safety stop.
SameTask(c, d) ==
  /\ d.active = c.active /\ d.paused = c.paused
  /\ d.route = c.route /\ d.route_sequence = c.route_sequence
  /\ d.index = c.index /\ d.task_controller = c.task_controller

SameStop(c, d) ==
  /\ d.safety_stopped = c.safety_stopped /\ d.preserves = c.preserves
  /\ d.selected = c.selected /\ d.state = c.state

\* Time passing and requests going out.
LEMMA TickKeeps ==
  ASSUME NEW c \in Ctls, NEW up \in SUBSET Nodes
  PROVE  /\ SameTask(c, Tick(c, up)) /\ SameStop(c, Tick(c, up))
         /\ Tick(c, up).clear_age = Elapse(c).clear_age
<1> DEFINE k == Elapse(c)
<1>1. k \in Ctls
  <2>1. ClearHold \in Nat
    BY ConstantsAssumption
  <2> DEFINE age == IF c.clear_age \in 0..(ClearHold - 1)
                    THEN c.clear_age + 1 ELSE c.clear_age
  <2>2. age \in Unset..ClearHold
    <3>1. c.clear_age \in Unset..ClearHold
      BY DEF Ctls
    <3> QED  BY <2>1, <3>1 DEF Unset
  <2> HIDE DEF age
  <2>3. [c EXCEPT !.clear_age = age] \in Ctls
    BY <2>2 DEF Ctls
  <2> QED  BY <2>3 DEF Elapse, age
<1>2. SameTask(c, k) /\ SameStop(c, k)
  BY DEF Elapse, Ctls, SameTask, SameStop
<1> HIDE DEF k
<1> DEFINE d == dispatchEfficientProfileRequests(k, up)
<1>3. SameTask(k, d) /\ SameStop(k, d) /\ d.clear_age = k.clear_age
  BY <1>1 DEF dispatchEfficientProfileRequests, Ctls, SameTask, SameStop
<1>4. d = Tick(c, up)
  BY DEF Tick, k
<1> HIDE DEF d
<1> QED  BY <1>2, <1>3, <1>4 DEF SameTask, SameStop, k

\* Looking at the swept volume.
LEMMA SenseKeeps ==
  ASSUME NEW c \in Ctls, NEW e, NEW up \in SUBSET Nodes
  PROVE  /\ SameTask(c, Sense(c, e, up)) /\ SameStop(c, Sense(c, e, up))
         /\ Sense(c, e, up).clear_age = Elapse(c).clear_age
<1> DEFINE k == Tick(c, up)
           d == sweptVolumeBlocked(k, e)
<1>1. k \in Ctls /\ ClearHold \in Nat
  BY TimerTypes, ConstantsAssumption
<1>2. SameTask(c, k) /\ SameStop(c, k) /\ k.clear_age = Elapse(c).clear_age
  BY TickKeeps
<1> HIDE DEF k
<1>3. SameTask(k, d) /\ SameStop(k, d) /\ d.clear_age = k.clear_age
  BY <1>1 DEF sweptVolumeBlocked, ForgetFrames, Ctls, SameTask, SameStop
<1>4. d = Sense(c, e, up)
  BY DEF Sense, k
<1> HIDE DEF d
<1> QED  BY <1>2, <1>3, <1>4 DEF SameTask, SameStop

\* Stopping.
LEMMA SafetyStopKeeps ==
  ASSUME NEW c \in Ctls, NEW soft \in BOOLEAN
  PROVE  /\ SameTask(c, SafetyStop(c, soft))
         /\ SafetyStop(c, soft).state = c.state
         /\ SafetyStop(c, soft).safety_stopped
         /\ SafetyStop(c, soft).clear_age = Unset
<1> DEFINE z == [ResetHold(c) EXCEPT !.command = "zero"]
<1>1. ResetHold(c) \in Ctls
  BY ResetTypes
<1>2. z \in Ctls
  BY <1>1 DEF Ctls
<1>3. SameTask(c, z) /\ SameStop(c, z) /\ z.clear_age = Unset
  BY DEF ResetHold, Ctls, SameTask, SameStop
<1> DEFINE sel == IF soft THEN "safety_hold" ELSE "none"
           s == [z EXCEPT !.safety_stopped = TRUE, !.preserves = soft,
                          !.selected = sel]
<1> HIDE DEF z, sel
<1>4. SameTask(z, s) /\ s.state = z.state /\ s.safety_stopped /\ s.clear_age = z.clear_age
  BY <1>2 DEF Ctls, SameTask
<1>5. /\ SameTask(z, Escalate(z)) /\ Escalate(z).state = z.state
      /\ Escalate(z).safety_stopped = z.safety_stopped
      /\ Escalate(z).clear_age = z.clear_age
  BY <1>2 DEF Escalate, Ctls, SameTask
<1>6. SafetyStop(c, soft) = IF ~c.safety_stopped THEN s
                            ELSE IF c.preserves /\ ~soft THEN Escalate(z) ELSE z
  BY DEF SafetyStop, z, s, sel
<1>7. c.safety_stopped \in BOOLEAN
  BY DEF Ctls
<1> HIDE DEF s
<1> QED  BY <1>3, <1>4, <1>5, <1>6, <1>7 DEF SameTask, SameStop

\* A hard stop is a matter of the task and of the inputs, not of the stop itself.
LEMMA HardStopOfTask ==
  ASSUME NEW c, NEW d, NEW e, SameTask(c, d)
  PROVE  HardStop(d, e) = HardStop(c, e)
BY DEF SameTask, HardStop, obstacleDetectionEnabledForTask, HasTask, Task

-----------------------------------------------------------------------------
(* A stop turns hard at once *)

\* A firing that sees a hard stop leaves the hold of a soft one.
LEMMA HardStopStep ==
  ASSUME NEW c \in Ctls, NEW e, Drive(c), HardStop(c, e)
  PROVE  SafetyStop(c, PreserveController(c, e)).selected # "safety_hold"
<1> DEFINE z == [ResetHold(c) EXCEPT !.command = "zero"]
<1>1. PreserveController(c, e) = FALSE
  BY DEF PreserveController
<1>2. ResetHold(c) \in Ctls
  BY ResetTypes
<1>3. z \in Ctls /\ z.selected = c.selected
  BY <1>2 DEF Ctls, ResetHold
<1> HIDE DEF z
<1>4. [z EXCEPT !.safety_stopped = TRUE, !.preserves = FALSE,
                !.selected = "none"].selected = "none"
  BY <1>3 DEF Ctls
<1>5. Escalate(z).selected = "none"
  BY <1>3 DEF Escalate, Ctls
<1>6. c.safety_stopped /\ ~c.preserves => z.selected # "safety_hold"
  BY <1>3 DEF Drive, Selection
<1>7. SafetyStop(c, FALSE) =
        IF ~c.safety_stopped
        THEN [z EXCEPT !.safety_stopped = TRUE, !.preserves = FALSE,
                       !.selected = "none"]
        ELSE IF c.preserves THEN Escalate(z) ELSE z
  BY DEF SafetyStop, z
<1> QED  BY <1>1, <1>4, <1>5, <1>6, <1>7

\* Whatever a soft stop holds on to, and however long it has been held, the firing
\* that finds a hard stop condition says so (controlTimer, beginSafetyStop).
THEOREM EscalationCorrect == Spec => HardStopEscalates
<1>1. TypeOK /\ DriveInv =>
        [TimerStop /\ HardStop(ctl', env) => ctl'.selected # "safety_hold"]_vars
  <2> SUFFICES ASSUME TypeOK, DriveInv, TimerStop, HardStop(ctl', env)
               PROVE  ctl'.selected # "safety_hold"
    OBVIOUS
  <2>1. ctl \in Ctls /\ Drive(ctl)
    BY DEF TypeOK, DriveInv
  <2>2. PICK up \in SUBSET Nodes :
          ctl' = SafetyStop(Sense(ctl, env, up),
                            PreserveController(Sense(ctl, env, up), env))
    BY DEF TimerStop, Fire, Become, Ready
  <2> DEFINE c == Sense(ctl, env, up)
  <2>3. c \in Ctls /\ Drive(c)
    <3>1. c \in Ctls
      BY <2>1, TimerTypes
    <3> QED  BY <2>1, <3>1, SenseDrive
  <2>4. ctl' = SafetyStop(c, PreserveController(c, env))
    BY <2>2
  <2> HIDE DEF c
  <2>5. PreserveController(c, env) \in BOOLEAN
    BY ConstantsAssumption DEF PreserveController
  <2>6. SameTask(c, ctl')
    BY <2>3, <2>4, <2>5, SafetyStopKeeps
  <2>7. HardStop(c, env)
    BY <2>6, HardStopOfTask
  <2> QED  BY <2>3, <2>4, <2>7, HardStopStep
<1> QED  BY <1>1, TypeCorrect, DriveCorrect, PTL DEF HardStopEscalates

-----------------------------------------------------------------------------
(* The hold is served before the stop ends *)

\* The clock of SafetyClearGate is behind the quiet firings: it was started by a
\* firing without a stop condition, and has been reset by each one that saw some.
HoldInv == ctl.clear_age # Unset => quiet > ctl.clear_age

\* What a method may do to that clock apart from letting it run.
KeepsClock(c, d) == d.clear_age \in {c.clear_age, Unset}

\* Activating, ending and switching only ever reset it ...
LEMMA ActivateClock ==
  ASSUME NEW c \in Ctls, NEW up \in SUBSET Nodes
  PROVE  KeepsClock(c, activateTask(c, up))
<1>1. KeepsClock(c, [c EXCEPT !.state = "ERROR"])
  BY DEF Ctls, KeepsClock
<1>2. /\ KeepsClock(c, [c EXCEPT !.active = FALSE, !.selected = "none",
                                 !.state = "HANDOVER_REQUIRED"])
      /\ KeepsClock(c, [c EXCEPT !.active = FALSE, !.state = "ERROR"])
      /\ KeepsClock(c, c)
  BY DEF Ctls, KeepsClock
<1>3. KeepsClock(c, BeginSwitch(c, Task(c), up))
  <2> DEFINE k == cancelEfficientProfileTransition(c)
  <2>1. k \in Ctls /\ k.clear_age = c.clear_age
    BY CancelType DEF cancelEfficientProfileTransition, Ctls
  <2> HIDE DEF k
  <2>2. BeginSwitch(c, Task(c), up).clear_age = k.clear_age
    BY <2>1 DEF BeginSwitch, Ctls, k
  <2> QED  BY <2>1, <2>2 DEF KeepsClock
<1>4. KeepsClock(c, StartTracking(c, Task(c)))
  <2> DEFINE k == ResetHold(ForgetFrames(c))
  <2>1. ForgetFrames(c) \in Ctls /\ k \in Ctls
    BY ResetTypes
  <2>2. k.clear_age = Unset
    BY <2>1 DEF ResetHold, Ctls
  <2> HIDE DEF k
  <2>3. StartTracking(c, Task(c)).clear_age = k.clear_age
    BY <2>1 DEF StartTracking, Ctls, k
  <2> QED  BY <2>2, <2>3 DEF KeepsClock
<1> QED  BY <1>1, <1>2, <1>3, <1>4 DEF activateTask

LEMMA AdvanceClock ==
  ASSUME NEW c \in Ctls, NEW up \in SUBSET Nodes
  PROVE  KeepsClock(c, advanceTask(c, up))
<1> DEFINE b == StopAtBoundary(c)
<1>1. b \in Ctls /\ b.clear_age = c.clear_age
  <2>1. NoPath \in Paths /\ "none" \in Sources
    BY EmptyTypes DEF Sources
  <2> QED  BY <2>1 DEF StopAtBoundary, Ctls
<1>2. \A k \in Ctls : NextTask(k) \in Ctls /\ NextTask(k).clear_age = k.clear_age
  <2> TAKE k \in Ctls
  <2>1. k.index + 1 \in Nat
    BY DEF Ctls
  <2> QED  BY <2>1 DEF NextTask, Ctls
<1> HIDE DEF b
<1>3. /\ [b EXCEPT !.state = "FINISHED"].clear_age = b.clear_age
      /\ \A k \in Ctls :
           [k EXCEPT !.state = "WAITING_TRANSITION"].clear_age = k.clear_age
  BY <1>1 DEF Ctls
<1>4. /\ KeepsClock(c, activateTask(NextTask(c), up))
      /\ KeepsClock(c, activateTask(NextTask(b), up))
  BY <1>1, <1>2, ActivateClock DEF KeepsClock
<1>5. /\ KeepsClock(c, [b EXCEPT !.state = "FINISHED"])
      /\ KeepsClock(c, [NextTask(b) EXCEPT !.state = "WAITING_TRANSITION"])
  BY <1>1, <1>2, <1>3 DEF KeepsClock
<1> QED  BY <1>4, <1>5 DEF advanceTask, b

LEMMA ResponseClock ==
  ASSUME NEW c \in Ctls, NEW r \in Replies, NEW up \in SUBSET Nodes
  PROVE  KeepsClock(c, handleEfficientProfileResponse(c, r, up))
<1>1. ASSUME NEW k \in Ctls
      PROVE  KeepsClock(k, finishEfficientProfileTransitionIfReady(k, up))
  <2> DEFINE f == [k EXCEPT !.applied = k.transition.profile,
                            !.transition = NoTransition]
  <2>1. NoTransition \in Transitions /\ k.transition.profile \in Profiles \cup {"none"}
    BY EmptyTypes DEF Ctls, Transitions
  <2>2. f \in Ctls /\ f.clear_age = k.clear_age
    BY <2>1 DEF Ctls
  <2>3. [k EXCEPT !.transition = NoTransition].clear_age = k.clear_age
    BY DEF Ctls
  <2> HIDE DEF f
  <2>4. KeepsClock(k, activateTask(f, up))
    BY <2>2, ActivateClock DEF KeepsClock
  <2> QED  BY <2>3, <2>4 DEF finishEfficientProfileTransitionIfReady, KeepsClock, f
<1> DEFINE k == [c EXCEPT !.transition.confirmed = @ \cup {r.node}]
<1>2. k \in Ctls /\ k.clear_age = c.clear_age
  BY DEF Ctls, Transitions, Replies
<1>3. Rejected(c, r.node).clear_age = c.clear_age
  BY DEF Rejected, Ctls
<1>4. KeepsClock(k, finishEfficientProfileTransitionIfReady(k, up))
  BY <1>1, <1>2
<1> HIDE DEF k
<1> QED  BY <1>2, <1>3, <1>4 DEF handleEfficientProfileResponse, KeepsClock, k

\* ... and so do the services and a new route.
LEMMA ServiceClock ==
  ASSUME NEW c \in Ctls
  PROVE  /\ \A r \in Routes, seq \in Nat : Staged(c, r, seq).clear_age = Unset
         /\ \A d \in {Paused(c), Resumed(c), Cancelled(c),
                      [c EXCEPT !.index = 0], [c EXCEPT !.counted = FALSE],
                      [c EXCEPT !.state = "ERROR", !.command = "zero"]} :
              d.clear_age = c.clear_age
<1> DEFINE x == cancelEfficientProfileTransition(c)
           k == ResetHold(ForgetFrames(x))
<1>1. x \in Ctls /\ x.clear_age = c.clear_age
  BY CancelType DEF cancelEfficientProfileTransition, Ctls
<1> HIDE DEF x
<1>2. ForgetFrames(x) \in Ctls /\ k \in Ctls
  BY <1>1, ResetTypes
<1>3. k.clear_age = Unset
  BY <1>2 DEF ResetHold, Ctls
<1> HIDE DEF k
<1>4. \A r \in Routes, seq \in Nat : Staged(c, r, seq).clear_age = Unset
  BY <1>2, <1>3 DEF Staged, Ctls, k, x
<1>5. Cancelled(c).clear_age = c.clear_age
  BY <1>1 DEF Cancelled, Ctls, x
<1>6. Paused(c).clear_age = c.clear_age /\ Resumed(c).clear_age = c.clear_age
  BY DEF Paused, Resumed, ForgetFrames, Ctls
<1>7. /\ [c EXCEPT !.index = 0].clear_age = c.clear_age
      /\ [c EXCEPT !.counted = FALSE].clear_age = c.clear_age
      /\ [c EXCEPT !.state = "ERROR", !.command = "zero"].clear_age = c.clear_age
  BY DEF Ctls
<1> QED  BY <1>4, <1>5, <1>6, <1>7

\* A quiet firing: the clock gains no more than the count of quiet firings.
LEMMA QuietFiring ==
  ASSUME NEW c \in Ctls, NEW q \in 0..(ClearHold + 1),
         c.clear_age # Unset => q > c.clear_age
  PROVE  LET e == Elapse(c)
             older == IF q <= ClearHold THEN q + 1 ELSE q
         IN /\ e.clear_age # Unset => older > e.clear_age
            /\ older > 0
            /\ (IF e.clear_age = Unset THEN 0 ELSE e.clear_age) >= ClearHold
                 => older > ClearHold
<1>1. ClearHold \in Nat /\ c.clear_age \in Unset..ClearHold
  BY ConstantsAssumption DEF Ctls
<1>2. Elapse(c).clear_age = IF c.clear_age \in 0..(ClearHold - 1)
                            THEN c.clear_age + 1 ELSE c.clear_age
  BY DEF Elapse, Ctls
<1> QED  BY <1>1, <1>2 DEF Unset

\* Every step keeps the clock behind the quiet firings.
LEMMA HoldNext == TypeOK /\ HoldInv /\ [Next]_vars => HoldInv'
<1> SUFFICES ASSUME TypeOK, HoldInv, [Next]_vars
             PROVE  HoldInv'
  OBVIOUS
<1>1. /\ ctl \in Ctls /\ replies \subseteq Replies /\ faults.routes + 1 \in Nat
      /\ quiet \in 0..(ClearHold + 1) /\ ClearHold \in Nat
  BY ConstantsAssumption DEF TypeOK
<1>2. KeepsClock(ctl, ctl') /\ UNCHANGED quiet => HoldInv'
  BY DEF HoldInv, KeepsClock
<1>3. CASE tasksCallback
  <2> PICK r \in Routes, up \in SUBSET Nodes :
        LET staged == Staged(ctl, r, faults.routes + 1)
        IN  Become(IF AutoStart THEN activateTask(staged, up) ELSE staged)
    BY <1>3 DEF tasksCallback
  <2> DEFINE s == Staged(ctl, r, faults.routes + 1)
  <2>1. s \in Ctls /\ s.clear_age = Unset
    BY <1>1, ServiceTypes, ServiceClock
  <2> HIDE DEF s
  <2>2. KeepsClock(s, activateTask(s, up))
    BY <2>1, ActivateClock
  <2>3. ctl'.clear_age = Unset
    BY <2>1, <2>2 DEF Become, KeepsClock, s
  <2> QED  BY <2>3 DEF HoldInv
<1>4. CASE tasksCallbackEmpty
  BY <1>1, <1>2, <1>4, ServiceClock DEF tasksCallbackEmpty, Become, KeepsClock
<1>5. CASE odometryCallback \/ RaiseAlarm \/ ClearAlarm
  BY <1>2, <1>5 DEF odometryCallback, RaiseAlarm, ClearAlarm, KeepsClock
<1>6. CASE cloudCallback
  BY <1>1, <1>2, <1>6, ServiceClock DEF cloudCallback, KeepsClock
<1>7. CASE startCallback
  <2>1. [ctl EXCEPT !.index = 0] \in Ctls
    BY <1>1 DEF Ctls
  <2>2. [ctl EXCEPT !.index = 0].clear_age = ctl.clear_age
    BY <1>1, ServiceClock
  <2>3. KeepsClock(ctl, ctl') /\ UNCHANGED quiet
    BY <1>7, <2>1, <2>2, ActivateClock DEF startCallback, Operate, Become, KeepsClock
  <2> QED  BY <1>2, <2>3
<1>8. CASE continueCallback
  <2>1. KeepsClock(ctl, ctl') /\ UNCHANGED quiet
    BY <1>1, <1>8, ActivateClock DEF continueCallback, Operate, Become
  <2> QED  BY <1>2, <2>1
<1>9. CASE pauseCallback \/ resumeCallback \/ cancelCallback
  <2>1. KeepsClock(ctl, ctl') /\ UNCHANGED quiet
    BY <1>1, <1>9, ServiceClock
       DEF pauseCallback, resumeCallback, cancelCallback, Operate, Become, KeepsClock
  <2> QED  BY <1>2, <2>1
<1>10. CASE controlTimer
  <2>1. \A up \in SUBSET Nodes :
          /\ Tick(ctl, up) \in Ctls /\ Sense(ctl, env, up) \in Ctls
          /\ Tick(ctl, up).clear_age = Elapse(ctl).clear_age
          /\ Sense(ctl, env, up).clear_age = Elapse(ctl).clear_age
    BY <1>1, TimerTypes, TickKeeps, SenseKeeps
  <2>2. /\ Elapse(ctl).clear_age # Unset => Older > Elapse(ctl).clear_age
        /\ Older > 0
    BY <1>1, QuietFiring DEF HoldInv, Older
  <2>3. ctl'.clear_age \in {Elapse(ctl).clear_age, 0, Unset} /\ quiet' = Older
          => HoldInv'
    BY <2>2 DEF HoldInv
  <2>4. CASE TimerIdle
    <3>1. ctl'.clear_age = Elapse(ctl).clear_age /\ quiet' = Older
      BY <2>1, <2>4 DEF TimerIdle, Fire, Become, Ready
    <3> QED  BY <2>3, <3>1
  <2>5. CASE TimerStop
    <3> PICK up \in SUBSET Nodes :
          ctl' = SafetyStop(Sense(ctl, env, up),
                            PreserveController(Sense(ctl, env, up), env))
      BY <2>5 DEF TimerStop, Fire, Become, Ready
    <3>1. PreserveController(Sense(ctl, env, up), env) \in BOOLEAN
      BY ConstantsAssumption DEF PreserveController
    <3>2. ctl'.clear_age = Unset
      BY <2>1, <3>1, SafetyStopKeeps
    <3> QED  BY <3>2 DEF HoldInv
  <2>6. CASE TimerHold
    <3> PICK up \in SUBSET Nodes : ctl' = ClearWait(Sense(ctl, env, up))
      BY <2>6 DEF TimerHold, Fire, Become, Ready
    <3>1. ctl'.clear_age \in {Sense(ctl, env, up).clear_age, 0}
      BY <2>1 DEF ClearWait, Ctls
    <3> QED  BY <2>1, <2>3, <2>6, <3>1 DEF TimerHold
  <2>7. CASE TimerRelease
    <3> PICK up \in SUBSET Nodes : ctl' = ReleaseSafetyStop(Sense(ctl, env, up))
      BY <2>7 DEF TimerRelease, Fire, Become, Ready
    <3> DEFINE k == ResetHold(Sense(ctl, env, up))
    <3>1. k \in Ctls /\ k.clear_age = Unset
      BY <2>1, ResetTypes, ZenonT(30) DEF ResetHold, Ctls
    <3> HIDE DEF k
    <3>2. ctl'.clear_age = Unset
      BY <3>1 DEF ReleaseSafetyStop, Ctls, k
    <3> QED  BY <3>2 DEF HoldInv
  <2>8. CASE TimerTrack
    <3> PICK up \in SUBSET Nodes :
          ctl' = [Sense(ctl, env, up) EXCEPT !.command =
                    IF Sense(ctl, env, up).task_controller = "pid"
                    THEN "track" ELSE @]
      BY <2>8 DEF TimerTrack, Fire, Become, Ready
    <3>1. ctl'.clear_age = Sense(ctl, env, up).clear_age
      BY <2>1 DEF Ctls
    <3> QED  BY <2>1, <2>3, <2>8, <3>1 DEF TimerTrack
  <2>9. CASE TimerAdvance
    <3> PICK up \in SUBSET Nodes : ctl' = advanceTask(Sense(ctl, env, up), up)
      BY <2>9 DEF TimerAdvance, Fire, Become
    <3>1. ctl'.clear_age \in {Sense(ctl, env, up).clear_age, Unset}
      BY <2>1, AdvanceClock DEF KeepsClock
    <3> QED  BY <2>1, <2>3, <2>9, <3>1 DEF TimerAdvance
  <2>10. CASE TimerThrow
    <3> PICK up \in SUBSET Nodes : ctl' = Failed(Sense(ctl, env, up))
      BY <2>10 DEF TimerThrow, Fire, Become, Ready
    <3>1. ctl'.clear_age = Sense(ctl, env, up).clear_age
      BY <2>1 DEF Failed, Ctls
    <3> QED  BY <2>1, <2>3, <2>10, <3>1 DEF TimerThrow
  <2> QED
    BY <1>10, <2>4, <2>5, <2>6, <2>7, <2>8, <2>9, <2>10 DEF controlTimer
<1>11. ASSUME NEW n \in Nodes, Accept(n) \/ Reject(n) \/ Restart(n)
       PROVE  HoldInv'
  BY <1>2, <1>11 DEF Accept, Reject, Restart, Serve, KeepsClock
<1>12. CASE DeliverReply
  <2> PICK r \in replies, up \in SUBSET Nodes :
        /\ ctl' = handleEfficientProfileResponse(ctl, r, up)
        /\ UNCHANGED quiet
    BY <1>12 DEF DeliverReply, Become
  <2> QED  BY <1>1, <1>2, ResponseClock
<1>13. CASE UNCHANGED vars
  BY <1>2, <1>13 DEF vars, KeepsClock
<1> QED
  BY <1>3, <1>4, <1>5, <1>6, <1>7, <1>8, <1>9, <1>10, <1>11, <1>12, <1>13 DEF Next

\* A firing that ends a safety stop found the clock at clear_hold_s.
LEMMA HoldStep ==
  TypeOK /\ HoldInv =>
    [controlTimer /\ ctl.safety_stopped /\ ~ctl'.safety_stopped
       => quiet' > ClearHold]_vars
<1> SUFFICES ASSUME TypeOK, HoldInv, controlTimer,
                    ctl.safety_stopped, ~ctl'.safety_stopped
             PROVE  quiet' > ClearHold
  OBVIOUS
<1>1. ctl \in Ctls /\ quiet \in 0..(ClearHold + 1)
  BY DEF TypeOK
<1>2. \A up \in SUBSET Nodes :
        /\ Tick(ctl, up).safety_stopped /\ Sense(ctl, env, up) \in Ctls
        /\ Sense(ctl, env, up).safety_stopped
        /\ Sense(ctl, env, up).clear_age = Elapse(ctl).clear_age
  <2> TAKE up \in SUBSET Nodes
  <2>1. SameStop(ctl, Tick(ctl, up)) /\ SameStop(ctl, Sense(ctl, env, up))
    BY <1>1, TickKeeps, SenseKeeps
  <2>2. /\ Tick(ctl, up).safety_stopped = ctl.safety_stopped
        /\ Sense(ctl, env, up).safety_stopped = ctl.safety_stopped
    BY <2>1 DEF SameStop
  <2>3. Sense(ctl, env, up) \in Ctls
    BY <1>1, TimerTypes
  <2>4. Sense(ctl, env, up).clear_age = Elapse(ctl).clear_age
    BY <1>1, SenseKeeps
  <2> QED  BY <2>2, <2>3, <2>4
<1>3. ~TimerIdle
  BY <1>2 DEF TimerIdle, Fire, Become, Ready
<1>4. ~TimerStop
  <2>1. \A up \in SUBSET Nodes :
          SafetyStop(Sense(ctl, env, up),
                     PreserveController(Sense(ctl, env, up), env)).safety_stopped
    BY <1>2, SafetyStopKeeps, ConstantsAssumption DEF PreserveController
  <2> QED  BY <2>1 DEF TimerStop, Fire, Become, Ready
<1>5. ~TimerHold
  <2>1. \A up \in SUBSET Nodes : ClearWait(Sense(ctl, env, up)).safety_stopped
    BY <1>2 DEF ClearWait, Ctls
  <2> QED  BY <2>1 DEF TimerHold, Fire, Become, Ready
<1>6. ~TimerTrack /\ ~TimerAdvance /\ ~TimerThrow
  BY DEF TimerTrack, TimerAdvance, TimerThrow
<1>7. TimerRelease
  BY <1>3, <1>4, <1>5, <1>6 DEF controlTimer
<1>8. PICK up \in SUBSET Nodes : ClearWait(Sense(ctl, env, up)).clear_age >= ClearHold
  BY <1>7 DEF TimerRelease, Ready
<1>9. ClearWait(Sense(ctl, env, up)).clear_age =
        IF Elapse(ctl).clear_age = Unset THEN 0 ELSE Elapse(ctl).clear_age
  BY <1>2 DEF ClearWait, Ctls
<1>10. Older > ClearHold
  BY <1>1, <1>8, <1>9, QuietFiring DEF HoldInv, Older
<1> QED  BY <1>7, <1>10 DEF TimerRelease

\* The robot starts again only after clear_hold_s without one firing that saw a
\* reason to stop, however the reasons came and went (SafetyClearGate::ready).
THEOREM HoldCorrect == Spec => HoldServed
<1>1. Init => HoldInv
  BY DEF Init, InitCtl, HoldInv
<1>2. TypeOK /\ HoldInv /\ [Next]_vars => HoldInv'
  BY HoldNext
<1> QED  BY <1>1, <1>2, HoldStep, TypeCorrect, PTL DEF Spec, HoldServed

-----------------------------------------------------------------------------
(* What the followers of the status topic are promised *)

\* The status of the members c, and what one callback may make of it.
StatusOf(c) == [route_sequence |-> c.route_sequence, state |-> c.state,
                active |-> c.active]

Moves(c, d) ==
  \/ StatusOf(d) = StatusOf(c)
  \/ Execution!Advances(StatusOf(c), StatusOf(d))

\* The followers' part of the invariant: an active task is a task of some route,
\* and has been announced.
Running(c) ==
  c.active => c.route_sequence # 0 /\ c.state \notin {"IDLE", "FINISHED"}
RouteInv == Running(ctl)

\* How a callback leaves an active route, with d for the members after it: as it
\* is, tracked, or not active in some other state.
Follows(c, d) ==
  /\ d.route_sequence = c.route_sequence
  /\ \/ d.state = c.state /\ d.active = c.active
     \/ /\ d.state \in States \ {"IDLE", "FINISHED"}
        /\ d.active =>
             c.active \/ (d.state = "TRACKING" /\ c.route_sequence # 0)
     \/ d.state = "FINISHED" /\ ~d.active /\ c.active

\* A step that follows an existing route keeps the invariant and is allowed to
\* the followers' specification.
LEMMA FollowsMoves ==
  ASSUME NEW c \in Ctls, NEW d \in Ctls, Follows(c, d), Running(c)
  PROVE  Running(d) /\ Moves(c, d)
<1>0. Running(d)
  BY DEF Follows, Running
<1>1. CASE d.state = c.state /\ d.active = c.active
  BY <1>0, <1>1 DEF Follows, Moves, StatusOf
<1>2. CASE /\ d.state \in States \ {"IDLE", "FINISHED"}
           /\ d.active => c.active \/ (d.state = "TRACKING" /\ c.route_sequence # 0)
  <2>1. Execution!CarriesOn(StatusOf(c), StatusOf(d))
    BY <1>2 DEF Follows, Running, StatusOf, Execution!CarriesOn, Execution!Same,
                Execution!States, States
  <2> QED  BY <1>0, <2>1 DEF Moves, Execution!Advances
<1>3. CASE d.state = "FINISHED" /\ ~d.active /\ c.active
  <2>1. d.active = FALSE
    BY <1>3 DEF Ctls
  <2>2. Execution!Finishes(StatusOf(c), StatusOf(d))
    BY <1>3, <2>1 DEF Follows, StatusOf, Execution!Finishes, Execution!Same
  <2> QED  BY <1>0, <2>2 DEF Moves, Execution!Advances
<1> QED  BY <1>1, <1>2, <1>3 DEF Follows

\* How an activation of the members c may end: with the task tracked, refused or
\* waiting for its profile, or, when there is no task or the switch for it is on
\* its way already, without a change of what is active.
Launched(c, d) ==
  /\ d.route_sequence = c.route_sequence /\ c.route_sequence # 0
  /\ \/ d.active /\ d.state = "TRACKING"
     \/ ~d.active /\ d.state \in {"HANDOVER_REQUIRED", "ERROR",
                                  "APPLYING_EFFICIENT_PROFILE"}

Activated(c, d) ==
  \/ Launched(c, d)
  \/ /\ d.route_sequence = c.route_sequence /\ d.active = c.active
     /\ d.state = c.state \/ d.state = "ERROR"

LEMMA ActivateStatus ==
  ASSUME NEW c \in Ctls, NEW up \in SUBSET Nodes
  PROVE  /\ Activated(c, activateTask(c, up))
         /\ HasTask(c) /\ ~Pending(c) => Launched(c, activateTask(c, up))
<1>1. Activated(c, [c EXCEPT !.state = "ERROR"]) /\ Activated(c, c)
  BY DEF Activated, Ctls
<1>2. HasTask(c) =>
      /\ Launched(c, [c EXCEPT !.active = FALSE, !.selected = "none",
                               !.state = "HANDOVER_REQUIRED"])
      /\ Launched(c, [c EXCEPT !.active = FALSE, !.state = "ERROR"])
  BY DEF Launched, HasTask, Ctls
<1>3. HasTask(c) => Launched(c, BeginSwitch(c, Task(c), up))
  <2> DEFINE k == cancelEfficientProfileTransition(c)
             b == BeginSwitch(c, Task(c), up)
  <2>1. k \in Ctls /\ k.route_sequence = c.route_sequence
    BY CancelType DEF cancelEfficientProfileTransition, Ctls
  <2> HIDE DEF k
  <2>2. /\ b.route_sequence = k.route_sequence /\ b.active = FALSE
        /\ b.state = "APPLYING_EFFICIENT_PROFILE"
    BY <2>1 DEF BeginSwitch, Ctls, k
  <2> HIDE DEF b
  <2>3. HasTask(c) => Launched(c, b)
    BY <2>1, <2>2 DEF Launched, HasTask
  <2> QED  BY <2>3 DEF b
<1>4. HasTask(c) => Launched(c, StartTracking(c, Task(c)))
  <2> DEFINE k == ResetHold(ForgetFrames(c))
             s == StartTracking(c, Task(c))
  <2>1. k \in Ctls /\ k.route_sequence = c.route_sequence
    <3>1. ForgetFrames(c) \in Ctls /\ k \in Ctls
      BY ResetTypes
    <3> QED  BY <3>1 DEF ResetHold, ForgetFrames, Ctls
  <2> HIDE DEF k
  <2>2. /\ s.route_sequence = k.route_sequence /\ s.active = TRUE
        /\ s.state = "TRACKING"
    BY <2>1 DEF StartTracking, Ctls, k
  <2> HIDE DEF s
  <2>3. HasTask(c) => Launched(c, s)
    BY <2>1, <2>2 DEF Launched, HasTask
  <2> QED  BY <2>3 DEF s
<1>5. ~Pending(c) => ~AlreadySwitching(c, Task(c))
  BY DEF AlreadySwitching
<1> QED  BY <1>1, <1>2, <1>3, <1>4, <1>5 DEF activateTask, Activated

\* An activation of the members c in place of the members b follows b, if c is of
\* the same route and no more active than b.
LEMMA ActivateFollows ==
  ASSUME NEW b \in Ctls, NEW c \in Ctls, NEW up \in SUBSET Nodes, Running(b),
         c.route_sequence = b.route_sequence, c.state = b.state,
         c.active # b.active => b.active
  PROVE  Follows(b, activateTask(c, up))
<1>1. {"TRACKING", "HANDOVER_REQUIRED", "ERROR", "APPLYING_EFFICIENT_PROFILE"}
        \subseteq States \ {"IDLE", "FINISHED"}
  BY DEF States
<1> DEFINE d == activateTask(c, up)
<1>2. Activated(c, d)
  BY ActivateStatus
<1>3. c.active \in BOOLEAN /\ b.active \in BOOLEAN /\ c.state \in States
  BY DEF Ctls
<1> HIDE DEF d
<1>4. ASSUME Launched(c, d)
      PROVE  Follows(b, d)
  BY <1>1, <1>3, <1>4 DEF Launched, Follows
<1>5. ASSUME /\ d.route_sequence = c.route_sequence /\ d.active = c.active
             /\ d.state = c.state \/ d.state = "ERROR"
      PROVE  Follows(b, d)
  <2>1. CASE c.active = b.active
    BY <1>1, <1>5, <2>1 DEF Follows
  <2>2. CASE b.active /\ ~c.active
    BY <1>1, <1>3, <1>5, <2>2 DEF Follows, Running
  <2> QED  BY <1>3, <2>1, <2>2
<1>6. Follows(b, d)
  BY <1>2, <1>4, <1>5 DEF Activated
<1> QED  BY <1>6 DEF d

\* Ending a task.
LEMMA AdvanceFollows ==
  ASSUME NEW c \in Ctls, NEW up \in SUBSET Nodes, Running(c), c.active
  PROVE  Follows(c, advanceTask(c, up))
<1> DEFINE b == StopAtBoundary(c)
<1>1. /\ b \in Ctls /\ b.active = FALSE /\ b.state = c.state
      /\ b.route_sequence = c.route_sequence
  <2>1. NoPath \in Paths /\ "none" \in Sources
    BY EmptyTypes DEF Sources
  <2> QED  BY <2>1 DEF StopAtBoundary, Ctls
<1>2. \A k \in Ctls : /\ NextTask(k) \in Ctls /\ NextTask(k).active = k.active
                      /\ NextTask(k).state = k.state
                      /\ NextTask(k).route_sequence = k.route_sequence
  <2> TAKE k \in Ctls
  <2>1. k.index + 1 \in Nat
    BY DEF Ctls
  <2> QED  BY <2>1 DEF NextTask, Ctls
<1> HIDE DEF b
<1>3. Follows(c, [b EXCEPT !.state = "FINISHED"])
  BY <1>1 DEF Ctls, Follows
<1>4. ASSUME NEW k \in Ctls, k.active = FALSE, k.route_sequence = c.route_sequence
      PROVE  Follows(c, [k EXCEPT !.state = "WAITING_TRANSITION"])
  BY <1>4 DEF Ctls, Follows, States
<1>5. /\ Follows(c, activateTask(NextTask(c), up))
      /\ Follows(c, activateTask(NextTask(b), up))
  BY <1>1, <1>2, ActivateFollows
<1>6. Follows(c, [NextTask(b) EXCEPT !.state = "WAITING_TRANSITION"])
  BY <1>1, <1>2, <1>4
<1> QED  BY <1>3, <1>5, <1>6 DEF advanceTask, b

\* An answer of a parameter service.
LEMMA ResponseFollows ==
  ASSUME NEW c \in Ctls, NEW r \in Replies, NEW up \in SUBSET Nodes, Running(c)
  PROVE  Follows(c, handleEfficientProfileResponse(c, r, up))
<1>1. ASSUME NEW k \in Ctls, k.route_sequence = c.route_sequence,
             k.state = c.state, k.active = c.active
      PROVE  Follows(c, finishEfficientProfileTransitionIfReady(k, up))
  <2> DEFINE f == [k EXCEPT !.applied = k.transition.profile,
                            !.transition = NoTransition]
  <2>1. NoTransition \in Transitions /\ k.transition.profile \in Profiles \cup {"none"}
    BY EmptyTypes DEF Ctls, Transitions
  <2>2. /\ f \in Ctls /\ f.route_sequence = c.route_sequence
        /\ f.state = c.state /\ f.active = c.active
    BY <1>1, <2>1 DEF Ctls
  <2>3. Follows(c, k) /\ Follows(c, [k EXCEPT !.transition = NoTransition])
    BY <1>1 DEF Ctls, Follows
  <2> HIDE DEF f
  <2>4. Follows(c, activateTask(f, up))
    BY <2>2, ActivateFollows
  <2> QED  BY <2>3, <2>4 DEF finishEfficientProfileTransitionIfReady, f
<1> DEFINE k == [c EXCEPT !.transition.confirmed = @ \cup {r.node}]
<1>2. /\ k \in Ctls /\ k.route_sequence = c.route_sequence
      /\ k.state = c.state /\ k.active = c.active
  BY DEF Ctls, Transitions, Replies
<1>3. Follows(c, c) /\ Follows(c, Rejected(c, r.node))
  BY DEF Rejected, Ctls, Follows
<1> HIDE DEF k
<1>4. Follows(c, finishEfficientProfileTransitionIfReady(k, up))
  BY <1>1, <1>2
<1> QED  BY <1>3, <1>4 DEF handleEfficientProfileResponse, k

\* A new route: nothing of the one before is left.
LEMMA StagedMoves ==
  ASSUME NEW c \in Ctls, NEW r \in Routes, NEW seq \in Nat \ {0},
         NEW up \in SUBSET Nodes
  PROVE  \A d \in {Staged(c, r, seq), activateTask(Staged(c, r, seq), up)} :
           Running(d) /\ Moves(c, d)
<1> DEFINE x == cancelEfficientProfileTransition(c)
           k == ResetHold(ForgetFrames(x))
           s == Staged(c, r, seq)
<1>1. x \in Ctls /\ ~Pending(x)
  BY CancelType DEF cancelEfficientProfileTransition, Ctls, Pending, NoTransition
<1> HIDE DEF x
<1>2. ForgetFrames(x) \in Ctls /\ k \in Ctls
  BY <1>1, ResetTypes
<1>3. k.transition = x.transition
  BY <1>1, <1>2 DEF ResetHold, ForgetFrames, Ctls
<1> HIDE DEF k
<1>4. /\ s.route_sequence = seq /\ s.route = r /\ s.index = 0 /\ s.active = FALSE
      /\ s.state = "READY" /\ s.transition = k.transition
  BY <1>2 DEF Staged, Ctls, k, x
<1>5. s \in Ctls
  BY ServiceTypes
<1> HIDE DEF s
<1>6. HasTask(s) /\ ~Pending(s)
  <2>1. r \in Seq(Tasks) /\ r # <<>>
    BY ConstantsAssumption
  <2>2. Len(r) # 0 /\ Len(r) \in Nat
    BY <2>1, EmptySeq, LenProperties
  <2> QED  BY <1>1, <1>3, <1>4, <2>2 DEF HasTask, Pending
<1>7. Launched(s, activateTask(s, up))
  BY <1>5, <1>6, ActivateStatus
<1>8. ASSUME NEW d, d = s \/ Launched(s, d)
      PROVE  Running(d) /\ Moves(c, d)
  <2>1. Running(d)
    BY <1>4, <1>8 DEF Launched, Running
  <2>2. Execution!Stages(StatusOf(c), StatusOf(d))
    BY <1>4, <1>8 DEF Launched, StatusOf, Execution!Stages
  <2> QED  BY <2>1, <2>2 DEF Moves, Execution!Advances
<1> QED  BY <1>7, <1>8 DEF s

\* The services, and what the topics other than the route's do to the members.
LEMMA ServiceFollows ==
  ASSUME NEW c \in Ctls, Running(c)
  PROVE  \A d \in {[c EXCEPT !.state = "ERROR", !.command = "zero"],
                   [c EXCEPT !.counted = FALSE],
                   Paused(c), Resumed(c), Cancelled(c)} :
           Follows(c, d)
<1> DEFINE x == cancelEfficientProfileTransition(c)
<1>1. x \in Ctls /\ x.route_sequence = c.route_sequence
  BY CancelType DEF cancelEfficientProfileTransition, Ctls
<1> HIDE DEF x
<1>2. {"ERROR", "PAUSED", "CANCELLED", "TRACKING"} \subseteq States \ {"IDLE", "FINISHED"}
  BY DEF States
<1>3. Follows(c, Cancelled(c))
  BY <1>1, <1>2 DEF Cancelled, Ctls, Follows, x
<1>4. Follows(c, Paused(c))
  BY <1>2 DEF Paused, ForgetFrames, Ctls, Follows
<1>5. Follows(c, Resumed(c))
  BY <1>2 DEF Resumed, Ctls, Follows
<1>6. /\ Follows(c, [c EXCEPT !.state = "ERROR", !.command = "zero"])
      /\ Follows(c, [c EXCEPT !.counted = FALSE])
  BY <1>2 DEF Ctls, Follows
<1> QED  BY <1>3, <1>4, <1>5, <1>6

\* The control timer, from what sensing leaves of the members.
LEMMA TimerFollows ==
  TypeOK /\ RouteInv /\ controlTimer => Follows(ctl, ctl')
<1> SUFFICES ASSUME TypeOK, Running(ctl), controlTimer
             PROVE  Follows(ctl, ctl')
  BY DEF RouteInv
<1>1. ctl \in Ctls
  BY DEF TypeOK
<1>2. ASSUME NEW up \in SUBSET Nodes
      PROVE  \A c \in {Tick(ctl, up), Sense(ctl, env, up)} :
               /\ c \in Ctls /\ c.active = ctl.active /\ c.state = ctl.state
               /\ c.route_sequence = ctl.route_sequence /\ Running(c)
  <2>1. \A c \in {Tick(ctl, up), Sense(ctl, env, up)} :
          c \in Ctls /\ SameTask(ctl, c) /\ SameStop(ctl, c)
    BY <1>1, TimerTypes, TickKeeps, SenseKeeps
  <2> QED  BY <2>1 DEF SameTask, SameStop, Running
<1>3. ASSUME NEW up \in SUBSET Nodes, NEW d,
             \E c \in {Tick(ctl, up), Sense(ctl, env, up)} : Follows(c, d)
      PROVE  Follows(ctl, d)
  BY <1>2, <1>3 DEF Follows
<1>4. CASE TimerIdle
  <2> PICK up \in SUBSET Nodes : ctl' = Tick(ctl, up)
    BY <1>4 DEF TimerIdle, Fire, Become, Ready
  <2>1. Follows(Tick(ctl, up), ctl')
    BY DEF Follows
  <2> QED  BY <1>3, <2>1
<1>5. CASE TimerStop
  <2> PICK up \in SUBSET Nodes :
        ctl' = SafetyStop(Sense(ctl, env, up),
                          PreserveController(Sense(ctl, env, up), env))
    BY <1>5 DEF TimerStop, Fire, Become, Ready
  <2>1. PreserveController(Sense(ctl, env, up), env) \in BOOLEAN
    BY ConstantsAssumption DEF PreserveController
  <2>2. Follows(Sense(ctl, env, up), ctl')
    BY <1>2, <2>1, SafetyStopKeeps DEF SameTask, Follows
  <2> QED  BY <1>3, <2>2
<1>6. CASE TimerHold
  <2> PICK up \in SUBSET Nodes : ctl' = ClearWait(Sense(ctl, env, up))
    BY <1>6 DEF TimerHold, Fire, Become, Ready
  <2>1. Follows(Sense(ctl, env, up), ctl')
    BY <1>2 DEF ClearWait, Ctls, Follows
  <2> QED  BY <1>3, <2>1
<1>7. CASE TimerRelease
  <2> PICK up \in SUBSET Nodes : ctl' = ReleaseSafetyStop(Sense(ctl, env, up))
    BY <1>7 DEF TimerRelease, Fire, Become, Ready
  <2> DEFINE c == Sense(ctl, env, up)
             k == ResetHold(c)
  <2>1. c \in Ctls
    BY <1>2
  <2> HIDE DEF c
  <2>2. k \in Ctls /\ k.active = c.active /\ k.route_sequence = c.route_sequence
    BY <2>1, ResetTypes DEF ResetHold, Ctls
  <2> HIDE DEF k
  <2>3. /\ ReleaseSafetyStop(c).active = c.active
        /\ ReleaseSafetyStop(c).route_sequence = c.route_sequence
        /\ ReleaseSafetyStop(c).state = "TRACKING"
    BY <2>2 DEF ReleaseSafetyStop, Ctls, k
  <2>4. Follows(c, ctl')
    BY <2>3 DEF c, Follows, States
  <2> QED  BY <1>3, <2>4 DEF c
<1>8. CASE TimerTrack
  <2> PICK up \in SUBSET Nodes :
        ctl' = [Sense(ctl, env, up) EXCEPT !.command =
                  IF Sense(ctl, env, up).task_controller = "pid"
                  THEN "track" ELSE @]
    BY <1>8 DEF TimerTrack, Fire, Become, Ready
  <2>1. Follows(Sense(ctl, env, up), ctl')
    BY <1>2 DEF Ctls, Follows
  <2> QED  BY <1>3, <2>1
<1>9. CASE TimerAdvance
  <2> PICK up \in SUBSET Nodes : ctl' = advanceTask(Sense(ctl, env, up), up)
    BY <1>9 DEF TimerAdvance, Fire, Become
  <2>1. ctl.active
    BY <1>9 DEF TimerAdvance
  <2>2. Follows(Sense(ctl, env, up), ctl')
    BY <1>2, <2>1, AdvanceFollows
  <2> QED  BY <1>3, <2>2
<1>10. CASE TimerThrow
  <2> PICK up \in SUBSET Nodes : ctl' = Failed(Sense(ctl, env, up))
    BY <1>10 DEF TimerThrow, Fire, Become, Ready
  <2>1. Follows(Sense(ctl, env, up), ctl')
    BY <1>2 DEF Failed, Ctls, Follows, States
  <2> QED  BY <1>3, <2>1
<1> QED
  BY <1>4, <1>5, <1>6, <1>7, <1>8, <1>9, <1>10 DEF controlTimer

\* Every step is one the followers' specification allows, or none for them.
LEMMA StatusStep == TypeOK /\ RouteInv /\ [Next]_vars => RouteInv' /\ Moves(ctl, ctl')
<1> SUFFICES ASSUME TypeOK, Running(ctl), [Next]_vars
             PROVE  Running(ctl') /\ Moves(ctl, ctl')
  BY DEF RouteInv
<1>1. /\ ctl \in Ctls /\ replies \subseteq Replies
      /\ faults.routes + 1 \in Nat \ {0}
  BY DEF TypeOK
<1>2. ctl' \in Ctls
  BY NextType DEF TypeOK
<1>3. Follows(ctl, ctl') => Running(ctl') /\ Moves(ctl, ctl')
  BY <1>1, <1>2, FollowsMoves
<1>4. UNCHANGED ctl => Follows(ctl, ctl')
  BY DEF Follows
<1>5. CASE tasksCallback
  <2> PICK r \in Routes, up \in SUBSET Nodes :
        LET staged == Staged(ctl, r, faults.routes + 1)
        IN  Become(IF AutoStart THEN activateTask(staged, up) ELSE staged)
    BY <1>5 DEF tasksCallback
  <2>1. ctl' \in {Staged(ctl, r, faults.routes + 1),
                  activateTask(Staged(ctl, r, faults.routes + 1), up)}
    BY DEF Become
  <2> QED  BY <1>1, <2>1, StagedMoves
<1>6. CASE tasksCallbackEmpty \/ cloudCallback
  <2>1. Follows(ctl, ctl')
    BY <1>1, <1>4, <1>6, ServiceFollows DEF tasksCallbackEmpty, cloudCallback, Become
  <2> QED  BY <1>3, <2>1
<1>7. CASE odometryCallback \/ RaiseAlarm \/ ClearAlarm
  BY <1>3, <1>4, <1>7 DEF odometryCallback, RaiseAlarm, ClearAlarm
<1>8. CASE startCallback
  <2> DEFINE s == [ctl EXCEPT !.index = 0]
  <2>1. /\ s \in Ctls /\ s.route_sequence = ctl.route_sequence
        /\ s.state = ctl.state /\ s.active = ctl.active
    BY <1>1 DEF Ctls
  <2> PICK up \in SUBSET Nodes : ctl' = activateTask(s, up)
    BY <1>8 DEF startCallback, Operate, Become
  <2> HIDE DEF s
  <2>2. Follows(ctl, ctl')
    BY <1>1, <2>1, ActivateFollows
  <2> QED  BY <1>3, <2>2
<1>9. CASE continueCallback
  <2>1. Follows(ctl, ctl')
    BY <1>1, <1>9, ActivateFollows DEF continueCallback, Operate, Become
  <2> QED  BY <1>3, <2>1
<1>10. CASE pauseCallback \/ resumeCallback \/ cancelCallback
  <2>1. Follows(ctl, ctl')
    BY <1>1, <1>10, ServiceFollows
       DEF pauseCallback, resumeCallback, cancelCallback, Operate, Become
  <2> QED  BY <1>3, <2>1
<1>11. CASE controlTimer
  BY <1>3, <1>11, TimerFollows DEF RouteInv
<1>12. ASSUME NEW n \in Nodes, Accept(n) \/ Reject(n) \/ Restart(n)
       PROVE  Running(ctl') /\ Moves(ctl, ctl')
  BY <1>3, <1>4, <1>12 DEF Accept, Reject, Restart, Serve
<1>13. CASE DeliverReply
  <2> PICK r \in replies, up \in SUBSET Nodes :
        ctl' = handleEfficientProfileResponse(ctl, r, up)
    BY <1>13 DEF DeliverReply, Become
  <2>1. Follows(ctl, ctl')
    BY <1>1, ResponseFollows
  <2> QED  BY <1>3, <2>1
<1>14. CASE UNCHANGED vars
  BY <1>3, <1>4, <1>14 DEF vars
<1> QED
  BY <1>5, <1>6, <1>7, <1>8, <1>9, <1>10, <1>11, <1>12, <1>13, <1>14 DEF Next

\* The executor implements what PatrolLoop relies on: FINISHED is said only of a
\* route that was driven, once, and of the route last staged (publishStatus).
THEOREM ExecutionCorrect == Spec => ImplementsExecution
<1> DEFINE st == StatusOf(ctl)
<1>1. Init => RouteInv /\ st = Execution!NoRouteYet
  BY DEF Init, InitCtl, RouteInv, Running, StatusOf, Execution!NoRouteYet,
         Execution!Status
<1>2. TypeOK /\ RouteInv /\ [Next]_vars => RouteInv'
  BY StatusStep
<1>3. TypeOK /\ RouteInv /\ [Next]_vars => [Execution!Advances(st, st')]_st
  BY StatusStep DEF Moves, StatusOf
<1>4. Spec => st = Execution!NoRouteYet /\ [][Execution!Advances(st, st')]_st
  BY <1>1, <1>2, <1>3, TypeCorrect, PTL DEF Spec
<1> QED  BY <1>4 DEF ImplementsExecution, Execution!Spec, StatusOf

-----------------------------------------------------------------------------
(* The inductive invariant, of the members c, the queues q, the answers on   *)
(* their way reps and the profiles p the nodes run with                      *)

\* No call and no answer carries a number that was not given out yet.
Numbered(c, q, reps) ==
  /\ c.transition.revision <= c.revision
  /\ c.transition.revision = 0 => c.transition = NoTransition
  /\ \A n \in Nodes : \A i \in DOMAIN q[n] : q[n][i].revision \in 1..c.revision
  /\ \A r \in reps : r.revision \in 1..c.revision

\* The answers of node n to the pending revision, and whether n may be believed
\* to run with the pending profile now or once they are delivered.
Answers(c, reps, n) == {r \in reps : r.node = n /\ r.revision = c.transition.revision}

Believed(c, reps, n) ==
  n \in c.transition.confirmed \/ \E r \in Answers(c, reps, n) : r.success

\* A node that is not marked as sent has nothing to do with the pending revision.
Unsent(c, q, reps) ==
  \A n \in Nodes \ c.transition.sent :
    /\ n \notin c.transition.confirmed
    /\ Answers(c, reps, n) = {}
    /\ \A i \in DOMAIN q[n] : q[n][i].revision # c.transition.revision

\* A call of the pending revision is the youngest of its node.
YoungestCall(c, q) ==
  \A n \in Nodes : \A i \in DOMAIN q[n] :
    q[n][i].revision = c.transition.revision =>
      i = Len(q[n]) /\ q[n][i].profile = c.transition.profile

\* A node that has answered has no call left, and does not answer both ways.
Answered(c, q, reps) ==
  \A n \in Nodes :
    /\ n \in c.transition.confirmed \/ Answers(c, reps, n) # {} => q[n] = <<>>
    /\ Believed(c, reps, n) => \A r \in Answers(c, reps, n) : r.success

Calls(c, q, reps) ==
  /\ Numbered(c, q, reps) /\ Unsent(c, q, reps)
  /\ YoungestCall(c, q) /\ Answered(c, q, reps)

Runs(c, reps, p) ==
  \A n \in Nodes : Believed(c, reps, n) => p[n] = c.transition.profile

SwitchInv ==
  /\ Calls(ctl, requests, replies)
  /\ faults.restarts = 0 => Runs(ctl, replies, params)

-----------------------------------------------------------------------------
(* What a callback may do to the transition                                  *)

\* d has no transition, or the one of c with more calls sent, or a new one under
\* a number that nothing carries yet.
Goes(c, d) ==
  /\ d.revision >= c.revision
  /\ \/ d.transition = NoTransition
     \/ /\ d.transition.revision = c.transition.revision
        /\ d.transition.profile = c.transition.profile
        /\ d.transition.confirmed = c.transition.confirmed
        /\ c.transition.sent \subseteq d.transition.sent
        /\ c.transition.revision = 0 => d.transition = c.transition
     \/ /\ d.transition.revision > c.revision
        /\ d.transition.revision <= d.revision
        /\ d.transition.confirmed = {}

SameSwitch(c, d) == d.transition = c.transition /\ d.revision = c.revision

\* Leaving the transition alone is one such way, before or after another.
LEMMA SameGoes ==
  ASSUME NEW c \in Ctls, NEW k \in Ctls, SameSwitch(c, k)
  PROVE  /\ Goes(c, k)
         /\ \A d : Goes(k, d) => Goes(c, d)
<1>1. c.revision \in Nat /\ k.revision \in Nat
  BY DEF Ctls
<1> QED  BY <1>1 DEF SameSwitch, Goes

\* Two such steps are one.
LEMMA GoesOn ==
  ASSUME NEW c \in Ctls, NEW k \in Ctls, NEW d \in Ctls, Goes(c, k), Goes(k, d),
         c.transition.revision <= c.revision
  PROVE  Goes(c, d)
<1>1. /\ c.revision \in Nat /\ k.revision \in Nat /\ d.revision \in Nat
      /\ c.transition.revision \in Nat /\ k.transition.revision \in Nat
      /\ d.transition.revision \in Nat
  BY DEF Ctls, Transitions
<1>2. d.revision >= c.revision
  BY <1>1 DEF Goes
<1>3. CASE d.transition = NoTransition
  BY <1>2, <1>3 DEF Goes
<1>4. CASE /\ d.transition.revision > k.revision
           /\ d.transition.revision <= d.revision
           /\ d.transition.confirmed = {}
  BY <1>1, <1>2, <1>4 DEF Goes
<1>5. CASE /\ d.transition.revision = k.transition.revision
           /\ d.transition.profile = k.transition.profile
           /\ d.transition.confirmed = k.transition.confirmed
           /\ k.transition.sent \subseteq d.transition.sent
           /\ k.transition.revision = 0 => d.transition = k.transition
  <2>1. CASE k.transition = NoTransition
    BY <1>2, <1>5, <2>1 DEF Goes, NoTransition
  <2>2. CASE k.transition # NoTransition
    BY <1>1, <1>2, <1>5, <2>2 DEF Goes
  <2> QED  BY <2>1, <2>2
<1> QED  BY <1>3, <1>4, <1>5 DEF Goes

-----------------------------------------------------------------------------
(* Such a step keeps the invariant                                           *)

\* What sending does to one queue: nothing, or one call of the pending revision
\* of d at its end.
LEMMA PostedQueue ==
  ASSUME NEW q \in [Nodes -> Seq(Requests)], NEW c \in Ctls, NEW d \in Ctls,
         NEW n \in Nodes
  PROVE  /\ n \notin NewlySent(c, d) => Posted(q, c, d)[n] = q[n]
         /\ n \in NewlySent(c, d) =>
              /\ Len(Posted(q, c, d)[n]) = Len(q[n]) + 1
              /\ \A i \in 1..Len(q[n]) : Posted(q, c, d)[n][i] = q[n][i]
              /\ Posted(q, c, d)[n][Len(q[n]) + 1].revision = d.transition.revision
              /\ Posted(q, c, d)[n][Len(q[n]) + 1].profile = d.transition.profile
<1> DEFINE call == [revision |-> d.transition.revision,
                    profile |-> d.transition.profile]
<1>1. Posted(q, c, d)[n] = IF n \in NewlySent(c, d) THEN Append(q[n], call) ELSE q[n]
  BY DEF Posted
<1>2. call \in Requests
  BY DEF Ctls, Transitions, Requests
<1>3. call.revision = d.transition.revision /\ call.profile = d.transition.profile
  OBVIOUS
<1> HIDE DEF call
<1>4. q[n] \in Seq(Requests)
  OBVIOUS
<1>5. /\ Len(Append(q[n], call)) = Len(q[n]) + 1
      /\ \A i \in 1..Len(q[n]) : Append(q[n], call)[i] = q[n][i]
      /\ Append(q[n], call)[Len(q[n]) + 1] = call
  BY <1>2, <1>4, AppendProperties
<1> QED  BY <1>1, <1>3, <1>5

\* A step that sends nothing leaves all queues as they are.
LEMMA PostedNothing ==
  ASSUME NEW q \in [Nodes -> Seq(Requests)], NEW c, NEW d, NewlySent(c, d) = {}
  PROVE  Posted(q, c, d) = q
<1>1. Posted(q, c, d) = [n \in Nodes |-> q[n]]
  BY DEF Posted
<1> QED  BY <1>1

\* The invariant survives giving a transition up ...
LEMMA GiveUpCalls ==
  ASSUME NEW c \in Ctls, NEW d \in Ctls, NEW q \in [Nodes -> Seq(Requests)],
         NEW reps \in SUBSET Replies, Calls(c, q, reps), Goes(c, d),
         d.transition = NoTransition
  PROVE  Calls(d, Posted(q, c, d), reps)
<1>1. /\ d.transition.revision = 0 /\ d.transition.sent = {}
      /\ d.transition.confirmed = {}
  BY DEF NoTransition
<1>2. Posted(q, c, d) = q
  <2>1. NewlySent(c, d) = {}
    BY <1>1 DEF NewlySent
  <2> QED  BY <2>1, PostedNothing
<1>3. c.revision \in Nat /\ d.revision \in Nat /\ d.revision >= c.revision
  BY DEF Ctls, Goes
<1>4. /\ \A n \in Nodes : \A i \in DOMAIN q[n] : q[n][i].revision \in 1..c.revision
      /\ \A r \in reps : r.revision \in 1..c.revision
  BY DEF Calls, Numbered
<1>5. Numbered(d, q, reps)
  <2>1. 1..c.revision \subseteq 1..d.revision
    BY <1>3
  <2> QED  BY <1>1, <1>3, <1>4, <2>1 DEF Numbered
<1>6. /\ \A n \in Nodes : Answers(d, reps, n) = {}
      /\ \A n \in Nodes : \A i \in DOMAIN q[n] :
           q[n][i].revision # d.transition.revision
  BY <1>1, <1>3, <1>4 DEF Answers
<1>7. Unsent(d, q, reps) /\ YoungestCall(d, q) /\ Answered(d, q, reps)
  BY <1>1, <1>6 DEF Unsent, YoungestCall, Answered, Believed
<1> QED  BY <1>2, <1>5, <1>7 DEF Calls

\* ... sending more calls of it ...
LEMMA SendCalls ==
  ASSUME NEW c \in Ctls, NEW d \in Ctls, NEW q \in [Nodes -> Seq(Requests)],
         NEW reps \in SUBSET Replies, Calls(c, q, reps), Goes(c, d),
         d.transition.revision = c.transition.revision,
         d.transition.profile = c.transition.profile,
         d.transition.confirmed = c.transition.confirmed,
         c.transition.sent \subseteq d.transition.sent,
         c.transition.revision = 0 => d.transition = c.transition
  PROVE  Calls(d, Posted(q, c, d), reps)
<1> DEFINE p == Posted(q, c, d)
<1>1. /\ c.revision \in Nat /\ d.revision \in Nat /\ d.revision >= c.revision
      /\ c.transition.revision \in Nat
  BY DEF Ctls, Transitions, Goes
<1>2. \A n \in Nodes : n \in NewlySent(c, d) =>
        n \in d.transition.sent /\ n \notin c.transition.sent
  BY DEF NewlySent
<1>3. ASSUME NEW n \in Nodes
      PROVE  /\ n \notin NewlySent(c, d) => p[n] = q[n]
             /\ n \in NewlySent(c, d) =>
                  /\ Len(p[n]) = Len(q[n]) + 1
                  /\ \A i \in 1..Len(q[n]) : p[n][i] = q[n][i]
                  /\ p[n][Len(q[n]) + 1].revision = d.transition.revision
                  /\ p[n][Len(q[n]) + 1].profile = d.transition.profile
  BY PostedQueue
<1>4. /\ p \in [Nodes -> Seq(Requests)]
      /\ \A n \in Nodes : Len(q[n]) \in Nat /\ DOMAIN q[n] = 1..Len(q[n])
      /\ \A n \in Nodes : Len(p[n]) \in Nat /\ DOMAIN p[n] = 1..Len(p[n])
  <2>1. p \in [Nodes -> Seq(Requests)]
    BY PostedType
  <2> QED  BY <2>1, LenProperties
<1> HIDE DEF p
<1>5. Numbered(d, p, reps)
  <2>1. ASSUME NEW n \in Nodes, NEW i \in DOMAIN p[n]
        PROVE  p[n][i].revision \in 1..d.revision
    <3>1. CASE n \notin NewlySent(c, d)
      BY <1>1, <1>3, <3>1 DEF Calls, Numbered
    <3>2. CASE n \in NewlySent(c, d)
      <4>1. c.transition.revision \in 1..d.revision
        <5>1. c.transition.revision # 0
          BY <1>2, <3>2
        <5> QED  BY <1>1, <5>1 DEF Calls, Numbered
      <4>2. i \in 1..Len(q[n]) \/ i = Len(q[n]) + 1
        BY <1>3, <1>4, <3>2
      <4>3. CASE i \in 1..Len(q[n])
        <5>1. p[n][i] = q[n][i] /\ i \in DOMAIN q[n]
          BY <1>3, <1>4, <3>2, <4>3
        <5> QED  BY <1>1, <5>1 DEF Calls, Numbered
      <4>4. CASE i = Len(q[n]) + 1
        BY <1>3, <3>2, <4>1, <4>4
      <4> QED  BY <4>2, <4>3, <4>4
    <3> QED  BY <3>1, <3>2
  <2> QED  BY <1>1, <2>1 DEF Calls, Numbered
<1>6. \A n \in Nodes : Answers(d, reps, n) = Answers(c, reps, n)
  BY DEF Answers
<1>7. Unsent(d, p, reps)
  BY <1>2, <1>3, <1>6 DEF Calls, Unsent, NewlySent
<1>8. YoungestCall(d, p)
  <2> SUFFICES ASSUME NEW n \in Nodes, NEW i \in DOMAIN p[n],
                      p[n][i].revision = d.transition.revision
               PROVE  i = Len(p[n]) /\ p[n][i].profile = d.transition.profile
    BY DEF YoungestCall
  <2>1. CASE n \notin NewlySent(c, d)
    BY <1>3, <2>1 DEF Calls, YoungestCall
  <2>2. CASE n \in NewlySent(c, d)
    <3>1. i \notin 1..Len(q[n])
      <4>1. \A j \in DOMAIN q[n] : q[n][j].revision # c.transition.revision
        BY <1>2, <2>2 DEF Calls, Unsent
      <4> QED  BY <1>3, <1>4, <2>2, <4>1
    <3>2. i = Len(q[n]) + 1
      BY <1>3, <1>4, <2>2, <3>1
    <3> QED  BY <1>3, <2>2, <3>2
  <2> QED  BY <2>1, <2>2
<1>9. Answered(d, p, reps)
  <2>1. \A n \in Nodes : n \in c.transition.confirmed \/ Answers(c, reps, n) # {}
          => n \notin NewlySent(c, d)
    BY <1>2 DEF Calls, Unsent
  <2>2. \A n \in Nodes : Believed(d, reps, n) <=> Believed(c, reps, n)
    BY <1>6 DEF Believed
  <2> QED  BY <1>3, <1>6, <2>1, <2>2 DEF Calls, Answered
<1> QED  BY <1>5, <1>7, <1>8, <1>9 DEF Calls, p

\* ... and starting a new one, whose number nothing carries yet.
LEMMA StartCalls ==
  ASSUME NEW c \in Ctls, NEW d \in Ctls, NEW q \in [Nodes -> Seq(Requests)],
         NEW reps \in SUBSET Replies, Calls(c, q, reps), Goes(c, d),
         d.transition.revision > c.revision,
         d.transition.revision <= d.revision,
         d.transition.confirmed = {}
  PROVE  Calls(d, Posted(q, c, d), reps)
<1> DEFINE p == Posted(q, c, d)
<1>1. /\ c.revision \in Nat /\ d.revision \in Nat /\ d.revision >= c.revision
      /\ c.transition.revision \in Nat /\ d.transition.revision \in Nat
      /\ d.transition.revision > c.transition.revision
  BY DEF Ctls, Transitions, Goes, Calls, Numbered
<1>2. NewlySent(c, d) = d.transition.sent
  BY <1>1 DEF NewlySent
<1>3. ASSUME NEW n \in Nodes
      PROVE  /\ n \notin d.transition.sent => p[n] = q[n]
             /\ n \in d.transition.sent =>
                  /\ Len(p[n]) = Len(q[n]) + 1
                  /\ \A i \in 1..Len(q[n]) : p[n][i] = q[n][i]
                  /\ p[n][Len(q[n]) + 1].revision = d.transition.revision
                  /\ p[n][Len(q[n]) + 1].profile = d.transition.profile
  <2>1. n \in NewlySent(c, d) <=> n \in d.transition.sent
    BY <1>2
  <2>2. /\ n \notin NewlySent(c, d) => p[n] = q[n]
        /\ n \in NewlySent(c, d) =>
             /\ Len(p[n]) = Len(q[n]) + 1
             /\ \A i \in 1..Len(q[n]) : p[n][i] = q[n][i]
             /\ p[n][Len(q[n]) + 1].revision = d.transition.revision
             /\ p[n][Len(q[n]) + 1].profile = d.transition.profile
    BY PostedQueue
  <2> HIDE DEF p
  <2> QED  BY <2>1, <2>2
<1>4. /\ \A n \in Nodes : Len(q[n]) \in Nat /\ DOMAIN q[n] = 1..Len(q[n])
      /\ \A n \in Nodes : Len(p[n]) \in Nat /\ DOMAIN p[n] = 1..Len(p[n])
  <2>1. p \in [Nodes -> Seq(Requests)]
    BY PostedType
  <2> QED  BY <2>1, LenProperties
<1> HIDE DEF p
<1>5. /\ \A n \in Nodes : \A i \in DOMAIN q[n] : q[n][i].revision \in 1..c.revision
      /\ \A r \in reps : r.revision \in 1..c.revision
  BY DEF Calls, Numbered
<1>6. ASSUME NEW n \in Nodes, NEW i \in DOMAIN p[n]
      PROVE  \/ p[n][i].revision \in 1..c.revision
             \/ /\ i = Len(p[n]) /\ n \in d.transition.sent
                /\ p[n][i].revision = d.transition.revision
                /\ p[n][i].profile = d.transition.profile
  <2>1. CASE n \notin d.transition.sent
    BY <1>3, <1>5, <2>1
  <2>2. CASE n \in d.transition.sent
    <3>1. i \in 1..Len(q[n]) \/ i = Len(q[n]) + 1
      BY <1>3, <1>4, <2>2
    <3>2. CASE i \in 1..Len(q[n])
      <4>1. p[n][i] = q[n][i] /\ i \in DOMAIN q[n]
        BY <1>3, <1>4, <2>2, <3>2
      <4> QED  BY <1>5, <4>1
    <3>3. CASE i = Len(q[n]) + 1
      BY <1>3, <2>2, <3>3
    <3> QED  BY <3>1, <3>2, <3>3
  <2> QED  BY <2>1, <2>2
<1>7. Numbered(d, p, reps)
  <2>1. /\ 1..c.revision \subseteq 1..d.revision
        /\ d.transition.revision \in 1..d.revision
    BY <1>1
  <2> QED  BY <1>1, <1>5, <1>6, <2>1 DEF Numbered
<1>8. \A n \in Nodes : Answers(d, reps, n) = {}
  BY <1>1, <1>5 DEF Answers
<1>9. \A n \in Nodes : \A i \in DOMAIN p[n] :
        p[n][i].revision = d.transition.revision =>
          /\ i = Len(p[n]) /\ n \in d.transition.sent
          /\ p[n][i].profile = d.transition.profile
  BY <1>1, <1>6
<1>10. Unsent(d, p, reps) /\ YoungestCall(d, p) /\ Answered(d, p, reps)
  BY <1>8, <1>9 DEF Unsent, YoungestCall, Answered, Believed
<1> QED  BY <1>7, <1>10 DEF Calls, p

\* Together: whatever a callback does to the transition and sends.
LEMMA GoesCalls ==
  ASSUME NEW c \in Ctls, NEW d \in Ctls, NEW q \in [Nodes -> Seq(Requests)],
         NEW reps \in SUBSET Replies, Calls(c, q, reps), Goes(c, d)
  PROVE  /\ Calls(d, Posted(q, c, d), reps)
         /\ \A p : Runs(c, reps, p) => Runs(d, reps, p)
<1>1. Calls(d, Posted(q, c, d), reps)
  BY GiveUpCalls, SendCalls, StartCalls DEF Goes
<1>2. \A r \in reps : r.revision \in 1..c.revision
  BY DEF Calls, Numbered
<1>3. \A n \in Nodes : Believed(d, reps, n) =>
        Believed(c, reps, n) /\ d.transition.profile = c.transition.profile
  <2>1. c.revision \in Nat
    BY DEF Ctls
  <2>2. CASE d.transition = NoTransition \/ d.transition.revision > c.revision
    <3>1. d.transition.confirmed = {} /\ d.transition.revision \notin 1..c.revision
      BY <2>1, <2>2 DEF Goes, NoTransition, Ctls, Transitions, Calls, Numbered
    <3> QED  BY <1>2, <3>1 DEF Believed, Answers
  <2>3. CASE ~ (d.transition = NoTransition \/ d.transition.revision > c.revision)
    BY <2>3 DEF Goes, Believed, Answers
  <2> QED  BY <2>2, <2>3
<1>4. \A p : Runs(c, reps, p) => Runs(d, reps, p)
  BY <1>3 DEF Runs
<1> QED  BY <1>1, <1>4

-----------------------------------------------------------------------------
(* Every method takes such steps                                             *)

Tidy(c) ==
  /\ c.transition.revision <= c.revision
  /\ c.transition.revision = 0 => c.transition = NoTransition

\* Cancelling gives the transition up under a number of its own.
LEMMA CancelGoes ==
  ASSUME NEW c \in Ctls, Tidy(c)
  PROVE  /\ Goes(c, cancelEfficientProfileTransition(c))
         /\ cancelEfficientProfileTransition(c).transition = NoTransition
<1> DEFINE d == [c EXCEPT !.revision = c.revision + 1, !.transition = NoTransition]
<1>1. d.transition = NoTransition /\ d.revision = c.revision + 1 /\ c.revision \in Nat
  BY DEF Ctls
<1> HIDE DEF d
<1>2. Goes(c, d) /\ Goes(c, c)
  BY <1>1 DEF Goes
<1> QED  BY <1>1, <1>2 DEF cancelEfficientProfileTransition, Pending, Tidy, d

\* A new switch has a new number, and nothing confirmed.
LEMMA BeginSwitchGoes ==
  ASSUME NEW c \in Ctls, NEW t \in Tasks, NEW up \in SUBSET Nodes, Tidy(c)
  PROVE  Goes(c, BeginSwitch(c, t, up))
<1> DEFINE k == cancelEfficientProfileTransition(c)
           d == BeginSwitch(c, t, up)
<1>1. k \in Ctls /\ Goes(c, k)
  BY CancelType, CancelGoes
<1>2. /\ d.revision = k.revision + 1 /\ d.transition.revision = k.revision + 1
      /\ d.transition.confirmed = {}
  <2> HIDE DEF k
  <2>1. /\ BeginSwitch(c, t, up).revision = k.revision + 1
        /\ BeginSwitch(c, t, up).transition =
             [revision |-> k.revision + 1, route_sequence |-> k.route_sequence,
              task_index |-> k.index, profile |-> desiredEfficientProfile(t),
              sent |-> up, confirmed |-> {}]
    BY <1>1 DEF BeginSwitch, Ctls, k
  <2> QED  BY <2>1
<1>3. k.revision \in Nat /\ c.revision \in Nat /\ k.revision >= c.revision
  BY <1>1 DEF Ctls, Goes
<1> HIDE DEF k, d
<1>4. Goes(c, d)
  BY <1>2, <1>3 DEF Goes
<1> QED  BY <1>4 DEF d

\* Activating a task leaves the transition alone or starts one.
LEMMA ActivateGoes ==
  ASSUME NEW c \in Ctls, NEW up \in SUBSET Nodes, Tidy(c)
  PROVE  Goes(c, activateTask(c, up))
<1>1. \A d : SameSwitch(c, d) => Goes(c, d)
  <2>1. c.revision \in Nat
    BY DEF Ctls
  <2> QED  BY <2>1 DEF SameSwitch, Goes
<1>2. /\ SameSwitch(c, c) /\ SameSwitch(c, [c EXCEPT !.state = "ERROR"])
      /\ SameSwitch(c, [c EXCEPT !.active = FALSE, !.selected = "none",
                                 !.state = "HANDOVER_REQUIRED"])
      /\ SameSwitch(c, [c EXCEPT !.active = FALSE, !.state = "ERROR"])
  BY DEF SameSwitch, Ctls
<1>3. ASSUME NEW t \in Tasks
      PROVE  SameSwitch(c, StartTracking(c, t))
  <2> DEFINE k == ResetHold(ForgetFrames(c))
  <2>1. k \in Ctls /\ SameSwitch(c, k)
    <3>1. k \in Ctls
      BY ResetTypes
    <3> QED  BY <3>1 DEF ResetHold, ForgetFrames, Ctls, SameSwitch
  <2> HIDE DEF k
  <2>2. SameSwitch(k, StartTracking(c, t))
    BY <2>1 DEF StartTracking, Ctls, SameSwitch, k
  <2> QED  BY <2>1, <2>2 DEF SameSwitch
<1>4. CASE ~HasTask(c)
  BY <1>1, <1>2, <1>4 DEF activateTask
<1>5. CASE HasTask(c)
  <2>1. Task(c) \in Tasks
    BY <1>5, TaskType
  <2> QED  BY <1>1, <1>2, <1>3, <1>5, <2>1, BeginSwitchGoes DEF activateTask
<1> QED  BY <1>4, <1>5

\* Ending a task touches the transition only by activating the next one.
LEMMA AdvanceGoes ==
  ASSUME NEW c \in Ctls, NEW up \in SUBSET Nodes, Tidy(c)
  PROVE  Goes(c, advanceTask(c, up))
<1> DEFINE b == StopAtBoundary(c)
<1>1. b \in Ctls /\ SameSwitch(c, b)
  <2>1. NoPath \in Paths
    BY EmptyTypes
  <2> QED  BY <2>1 DEF StopAtBoundary, Ctls, Sources, SameSwitch
<1> HIDE DEF b
<1>2. \A k \in Ctls : /\ NextTask(k) \in Ctls
                      /\ SameSwitch(k, NextTask(k))
  <2>1. \A k \in Ctls : k.index + 1 \in Nat
    BY DEF Ctls
  <2> QED  BY <2>1 DEF NextTask, Ctls, SameSwitch
<1>3. ASSUME NEW k \in Ctls, SameSwitch(c, k)
      PROVE  Goes(c, activateTask(k, up)) /\ Goes(c, k)
  <2>1. Tidy(k)
    BY <1>3 DEF Tidy, SameSwitch
  <2> QED  BY <1>3, <2>1, ActivateGoes, SameGoes
<1>4. /\ NextTask(c) \in Ctls /\ SameSwitch(c, NextTask(c))
      /\ NextTask(b) \in Ctls /\ SameSwitch(c, NextTask(b))
  BY <1>1, <1>2 DEF SameSwitch
<1>5. ASSUME NEW k \in Ctls, SameSwitch(c, k)
      PROVE  /\ Goes(c, [k EXCEPT !.state = "FINISHED"])
             /\ Goes(c, [k EXCEPT !.state = "WAITING_TRANSITION"])
  <2>1. k.revision \in Nat
    BY DEF Ctls
  <2> QED  BY <1>5, <2>1 DEF Ctls, SameSwitch, Goes
<1> QED  BY <1>1, <1>3, <1>4, <1>5 DEF advanceTask, b

\* A complete transition ends, and its task is activated.
LEMMA FinishGoes ==
  ASSUME NEW c \in Ctls, NEW up \in SUBSET Nodes, Tidy(c)
  PROVE  Goes(c, finishEfficientProfileTransitionIfReady(c, up))
<1>1. c.revision \in Nat /\ c.transition.profile \in Profiles \cup {"none"}
  BY DEF Ctls, Transitions
<1>2. Goes(c, c) /\ Goes(c, [c EXCEPT !.transition = NoTransition])
  BY <1>1 DEF Goes, Ctls
<1> DEFINE k == [c EXCEPT !.applied = c.transition.profile,
                          !.transition = NoTransition]
<1>3. k \in Ctls /\ k.transition = NoTransition /\ k.revision = c.revision
  <2>1. NoTransition \in Transitions
    BY EmptyTypes
  <2> QED  BY <1>1, <2>1 DEF Ctls
<1>4. Goes(c, activateTask(k, up))
  <2> HIDE DEF k
  <2>1. Goes(c, k) /\ Tidy(k)
    BY <1>1, <1>3 DEF Goes, Tidy, NoTransition
  <2>2. Goes(k, activateTask(k, up)) /\ activateTask(k, up) \in Ctls
    BY <1>3, <2>1, ActivateGoes, ActivateType
  <2> QED  BY <1>3, <2>1, <2>2, GoesOn DEF Tidy
<1> QED  BY <1>2, <1>4 DEF finishEfficientProfileTransitionIfReady

\* The parts of a firing of the control timer send calls at most.
LEMMA TimerGoes ==
  ASSUME NEW c \in Ctls, NEW e, NEW up \in SUBSET Nodes, NEW soft \in BOOLEAN,
         Tidy(c)
  PROVE  /\ Goes(c, Tick(c, up)) /\ Goes(c, Sense(c, e, up))
         /\ Goes(c, c)
         /\ \A d \in {SafetyStop(c, soft), ClearWait(c), ReleaseSafetyStop(c),
                      Failed(c), [c EXCEPT !.command =
                        IF c.task_controller = "pid" THEN "track" ELSE @]} :
              Goes(c, d)
<1>1. \A k \in Ctls : \A d : SameSwitch(k, d) => Goes(k, d)
  <2>1. \A k \in Ctls : k.revision \in Nat
    BY DEF Ctls
  <2> QED  BY <2>1 DEF SameSwitch, Goes
<1> DEFINE k == Elapse(c)
<1>2. k \in Ctls /\ SameSwitch(c, k)
  <2>1. ClearHold \in Nat
    BY ConstantsAssumption
  <2> DEFINE age == IF c.clear_age \in 0..(ClearHold - 1)
                    THEN c.clear_age + 1 ELSE c.clear_age
  <2>2. age \in Unset..ClearHold
    <3>1. c.clear_age \in Unset..ClearHold
      BY DEF Ctls
    <3> QED  BY <2>1, <3>1 DEF Unset
  <2> HIDE DEF age
  <2>3. [c EXCEPT !.clear_age = age] \in Ctls
    BY <2>2 DEF Ctls
  <2>4. SameSwitch(c, [c EXCEPT !.clear_age = age])
    BY DEF Ctls, SameSwitch
  <2> QED  BY <2>3, <2>4 DEF Elapse, age
<1> HIDE DEF k
<1>3. Goes(c, Tick(c, up)) /\ Tick(c, up) \in Ctls
  <2> DEFINE d == dispatchEfficientProfileRequests(k, up)
  <2>1. Goes(k, d)
    <3>1. k.revision \in Nat
      BY <1>2 DEF Ctls
    <3>2. CASE Pending(k)
      <4>1. /\ d.transition.revision = k.transition.revision
            /\ d.transition.profile = k.transition.profile
            /\ d.transition.confirmed = k.transition.confirmed
            /\ k.transition.sent \subseteq d.transition.sent
            /\ d.revision = k.revision
        BY <1>2, <3>2 DEF dispatchEfficientProfileRequests, Ctls, Transitions
      <4> QED  BY <3>1, <3>2, <4>1 DEF Goes, Pending
    <3>3. CASE ~Pending(k)
      BY <3>1, <3>3 DEF dispatchEfficientProfileRequests, Goes
    <3> QED  BY <3>2, <3>3
  <2>2. d = Tick(c, up)
    BY DEF Tick, k
  <2> HIDE DEF d
  <2> QED  BY <1>2, <2>1, <2>2, SameGoes, TimerTypes
<1> DEFINE d == Tick(c, up)
<1> HIDE DEF d
<1>4. Goes(c, Sense(c, e, up))
  <2>1. d \in Ctls /\ Goes(c, d)
    BY <1>3 DEF d
  <2>2. SameSwitch(d, sweptVolumeBlocked(d, e))
    BY <2>1 DEF sweptVolumeBlocked, ForgetFrames, Ctls, SameSwitch
  <2>3. Goes(c, sweptVolumeBlocked(d, e))
    BY <2>1, <2>2 DEF SameSwitch, Goes
  <2> QED  BY <2>3 DEF Sense, d
<1>5. SameSwitch(c, SafetyStop(c, soft))
  <2> DEFINE z == [ResetHold(c) EXCEPT !.command = "zero"]
  <2>1. z \in Ctls /\ SameSwitch(c, z)
    <3>1. ResetHold(c) \in Ctls /\ SameSwitch(c, ResetHold(c))
      BY ResetTypes DEF ResetHold, Ctls, SameSwitch
    <3> QED  BY <3>1 DEF Ctls, SameSwitch
  <2> HIDE DEF z
  <2>2. /\ SameSwitch(z, Escalate(z))
        /\ SameSwitch(z, [z EXCEPT !.safety_stopped = TRUE, !.preserves = soft,
                            !.selected = IF soft THEN "safety_hold" ELSE "none"])
    BY <2>1 DEF Escalate, Ctls, SameSwitch
  <2> QED  BY <2>1, <2>2 DEF SafetyStop, SameSwitch, z
<1>6. SameSwitch(c, ClearWait(c)) /\ SameSwitch(c, Failed(c)) /\ SameSwitch(c, c)
  BY DEF ClearWait, Failed, Ctls, SameSwitch
<1>7. SameSwitch(c, ReleaseSafetyStop(c))
  BY DEF ReleaseSafetyStop, ResetHold, Ctls, SameSwitch
<1>8. SameSwitch(c, [c EXCEPT !.command =
                        IF c.task_controller = "pid" THEN "track" ELSE @])
  BY DEF Ctls, SameSwitch
<1> QED  BY <1>1, <1>3, <1>4, <1>5, <1>6, <1>7, <1>8

\* A new route and a cancelled one give the transition up; pausing, resuming and
\* the other topics leave it alone.
LEMMA ServiceGoes ==
  ASSUME NEW c \in Ctls, Tidy(c)
  PROVE  /\ \A r \in Routes, seq \in Nat :
              Goes(c, Staged(c, r, seq)) /\ Tidy(Staged(c, r, seq))
         /\ Goes(c, Cancelled(c))
         /\ \A d \in {Paused(c), Resumed(c), [c EXCEPT !.index = 0],
                      [c EXCEPT !.counted = FALSE],
                      [c EXCEPT !.state = "ERROR", !.command = "zero"]} :
              SameSwitch(c, d) /\ Goes(c, d)
<1> DEFINE x == cancelEfficientProfileTransition(c)
<1>1. /\ x \in Ctls /\ Goes(c, x) /\ x.transition = NoTransition
      /\ x.revision \in Nat
  <2>1. x \in Ctls
    BY CancelType
  <2> QED  BY <2>1, CancelGoes DEF Ctls
<1> HIDE DEF x
<1>2. \A d : d.transition = NoTransition /\ d.revision = x.revision
        => Goes(c, d) /\ Tidy(d)
  BY <1>1 DEF Goes, Tidy, NoTransition
<1>3. ASSUME NEW r \in Routes, NEW seq \in Nat
      PROVE  Goes(c, Staged(c, r, seq)) /\ Tidy(Staged(c, r, seq))
  <2> DEFINE k == ResetHold(ForgetFrames(x))
             s == Staged(c, r, seq)
  <2>1. k \in Ctls /\ k.transition = x.transition /\ k.revision = x.revision
    <3>1. ForgetFrames(x) \in Ctls /\ k \in Ctls
      BY <1>1, ResetTypes
    <3> QED  BY <1>1, <3>1 DEF ResetHold, ForgetFrames, Ctls
  <2> HIDE DEF k
  <2>2. s.transition = k.transition /\ s.revision = k.revision
    BY <2>1 DEF Staged, Ctls, k, x
  <2> HIDE DEF s
  <2>3. Goes(c, s) /\ Tidy(s)
    BY <1>1, <1>2, <2>1, <2>2
  <2> QED  BY <2>3 DEF s
<1>4. Goes(c, Cancelled(c))
  <2>1. Cancelled(c).transition = x.transition /\ Cancelled(c).revision = x.revision
    BY <1>1 DEF Cancelled, Ctls, x
  <2> QED  BY <1>1, <1>2, <2>1
<1>5. ASSUME NEW d \in {Paused(c), Resumed(c), [c EXCEPT !.index = 0],
                        [c EXCEPT !.counted = FALSE],
                        [c EXCEPT !.state = "ERROR", !.command = "zero"]}
      PROVE  SameSwitch(c, d) /\ Goes(c, d)
  <2>1. SameSwitch(c, d)
    BY DEF Paused, Resumed, ForgetFrames, Ctls, SameSwitch
  <2>2. c.revision \in Nat
    BY DEF Ctls
  <2> QED  BY <2>1, <2>2 DEF SameSwitch, Goes
<1> QED  BY <1>3, <1>4, <1>5

-----------------------------------------------------------------------------
(* The answers and the parameter services                                    *)

\* An answer that is dropped, or no longer there, disturbs nothing.
LEMMA DroppedAnswer ==
  ASSUME NEW c \in Ctls, NEW q, NEW reps, NEW fewer \in SUBSET reps,
         Calls(c, q, reps)
  PROVE  /\ Calls(c, q, fewer)
         /\ \A p : Runs(c, reps, p) => Runs(c, fewer, p)
<1>1. \A n \in Nodes : /\ Answers(c, fewer, n) \subseteq Answers(c, reps, n)
                       /\ Believed(c, fewer, n) => Believed(c, reps, n)
  BY DEF Answers, Believed
<1> QED  BY <1>1 DEF Calls, Numbered, Unsent, YoungestCall, Answered, Runs

\* A refusal of the pending revision: the node counts as not asked.
LEMMA RejectedAnswer ==
  ASSUME NEW c \in Ctls, NEW q, NEW reps \in SUBSET Replies, NEW r \in reps,
         Calls(c, q, reps), ~Stale(c, r), ~r.success
  PROVE  /\ Calls(Rejected(c, r.node), q, reps \ {r})
         /\ \A p : Runs(c, reps, p) => Runs(Rejected(c, r.node), reps \ {r}, p)
<1> DEFINE d == Rejected(c, r.node)
           fewer == reps \ {r}
<1>1. /\ d.transition.revision = c.transition.revision
      /\ d.transition.profile = c.transition.profile
      /\ d.transition.confirmed = c.transition.confirmed
      /\ d.transition.sent = c.transition.sent \ {r.node}
      /\ d.revision = c.revision
  BY DEF Rejected, Ctls, Transitions
<1>2. r \in Answers(c, reps, r.node) /\ r.node \in Nodes /\ c.transition.revision # 0
  BY DEF Answers, Stale, Pending, Replies
<1>3. /\ q[r.node] = <<>> /\ r.node \notin c.transition.confirmed
      /\ \A s \in Answers(c, reps, r.node) : ~s.success
  BY <1>2 DEF Calls, Answered, Believed
<1>4. Answers(c, fewer, r.node) = {}
  <2> SUFFICES ASSUME NEW s \in Answers(c, fewer, r.node)
               PROVE  FALSE
    OBVIOUS
  <2>1. s \in Replies /\ s # r /\ s.node = r.node /\ s.revision = r.revision
    BY DEF Answers, Stale
  <2>2. s.success = FALSE /\ r.success = FALSE
    <3>1. s.success \in BOOLEAN /\ r.success \in BOOLEAN
      BY <2>1 DEF Replies
    <3>2. s \in Answers(c, reps, r.node)
      BY DEF Answers
    <3> QED  BY <1>3, <3>1, <3>2
  <2> QED  BY <2>1, <2>2 DEF Replies
<1> HIDE DEF d
<1>5. \A n \in Nodes : /\ Answers(d, fewer, n) = Answers(c, fewer, n)
                       /\ Believed(d, fewer, n) <=> Believed(c, fewer, n)
  BY <1>1 DEF Answers, Believed
<1>6. /\ Calls(c, q, fewer)
      /\ \A p : Runs(c, reps, p) => Runs(c, fewer, p)
  BY DroppedAnswer
<1> HIDE DEF fewer
<1>7. Numbered(d, q, fewer)
  BY <1>1, <1>2, <1>6 DEF Calls, Numbered
<1>8. Unsent(d, q, fewer)
  <2> SUFFICES ASSUME NEW n \in Nodes \ d.transition.sent
               PROVE  /\ n \notin d.transition.confirmed
                      /\ Answers(d, fewer, n) = {}
                      /\ \A i \in DOMAIN q[n] : q[n][i].revision # d.transition.revision
    BY DEF Unsent
  <2>1. CASE n = r.node
    BY <1>1, <1>3, <1>4, <1>5, <2>1
  <2>2. CASE n # r.node
    BY <1>1, <1>5, <1>6, <2>2 DEF Calls, Unsent
  <2> QED  BY <2>1, <2>2
<1>9. YoungestCall(d, q) /\ Answered(d, q, fewer)
  BY <1>1, <1>5, <1>6 DEF Calls, YoungestCall, Answered
<1>10. \A p : Runs(c, reps, p) => Runs(d, fewer, p)
  BY <1>1, <1>5, <1>6 DEF Runs
<1> QED  BY <1>7, <1>8, <1>9, <1>10 DEF Calls, d, fewer

Confirmed(c, n) == [c EXCEPT !.transition.confirmed = @ \cup {n}]

\* A confirmation of the pending revision: the node is believed as before.
LEMMA ConfirmedAnswer ==
  ASSUME NEW c \in Ctls, NEW q, NEW reps \in SUBSET Replies, NEW r \in reps,
         Calls(c, q, reps), ~Stale(c, r), r.success
  PROVE  /\ Calls(Confirmed(c, r.node), q, reps \ {r})
         /\ \A p : Runs(c, reps, p) => Runs(Confirmed(c, r.node), reps \ {r}, p)
<1> DEFINE d == Confirmed(c, r.node)
           fewer == reps \ {r}
<1>1. /\ d.transition.revision = c.transition.revision
      /\ d.transition.profile = c.transition.profile
      /\ d.transition.confirmed = c.transition.confirmed \cup {r.node}
      /\ d.transition.sent = c.transition.sent
      /\ d.revision = c.revision
  BY DEF Confirmed, Ctls, Transitions
<1>2. r \in Answers(c, reps, r.node) /\ r.node \in Nodes /\ c.transition.revision # 0
  BY DEF Answers, Stale, Pending, Replies
<1>3. /\ q[r.node] = <<>> /\ r.node \in c.transition.sent
      /\ Believed(c, reps, r.node)
  BY <1>2 DEF Calls, Answered, Unsent, Believed
<1> HIDE DEF d
<1>4. \A n \in Nodes : /\ Answers(d, fewer, n) \subseteq Answers(c, reps, n)
                       /\ Believed(d, fewer, n) => Believed(c, reps, n)
  BY <1>1, <1>3 DEF Answers, Believed
<1> HIDE DEF fewer
<1>5. Numbered(d, q, fewer)
  BY <1>1, <1>2 DEF Calls, Numbered, fewer
<1>6. Unsent(d, q, fewer)
  BY <1>1, <1>3, <1>4 DEF Calls, Unsent
<1>7. YoungestCall(d, q)
  BY <1>1 DEF Calls, YoungestCall
<1>8. Answered(d, q, fewer)
  BY <1>1, <1>3, <1>4 DEF Calls, Answered
<1>9. \A p : Runs(c, reps, p) => Runs(d, fewer, p)
  BY <1>1, <1>4 DEF Runs
<1> QED  BY <1>5, <1>6, <1>7, <1>8, <1>9 DEF Calls, d, fewer

\* A call is served: the oldest one of node n, and the answer goes back.
LEMMA ServeCalls ==
  ASSUME TypeOK, Calls(ctl, requests, replies), NEW n \in Nodes,
         NEW success \in BOOLEAN, Serve(n, success)
  PROVE  /\ Calls(ctl, requests', replies')
         /\ Runs(ctl, replies, params) => Runs(ctl, replies', params')
<1> DEFINE h == Head(requests[n])
           a == [node |-> n, revision |-> h.revision, success |-> success]
           rev == ctl.transition.revision
<1>1. /\ requests \in [Nodes -> Seq(Requests)] /\ requests[n] # <<>>
      /\ params \in [Nodes -> Profiles \cup {"launch", "none"}]
      /\ replies' = replies \cup {a}
      /\ requests' = [requests EXCEPT ![n] = Tail(requests[n])]
      /\ params' = IF success THEN [params EXCEPT ![n] = h.profile] ELSE params
  BY DEF TypeOK, Serve
<1>2. requests[n] \in Seq(Requests)
  BY <1>1
<1>3. /\ Len(requests[n]) \in Nat \ {0} /\ h = requests[n][1]
      /\ DOMAIN requests[n] = 1..Len(requests[n])
      /\ 1 \in DOMAIN requests[n]
      /\ Len(requests'[n]) = Len(requests[n]) - 1
      /\ DOMAIN requests'[n] = 1..(Len(requests[n]) - 1)
      /\ \A i \in 1..(Len(requests[n]) - 1) : requests'[n][i] = requests[n][i + 1]
  <2>1. requests'[n] = Tail(requests[n])
    BY <1>1
  <2> QED  BY <1>1, <1>2, <2>1, HeadTailProperties, LenProperties, EmptySeq
<1>4. \A m \in Nodes \ {n} : requests'[m] = requests[m]
  BY <1>1
<1>5. /\ n \notin ctl.transition.confirmed
      /\ Answers(ctl, replies, n) = {}
  BY <1>1 DEF Calls, Answered
<1>6. /\ \A m \in Nodes \ {n} : /\ Answers(ctl, replies', m) = Answers(ctl, replies, m)
                                /\ Believed(ctl, replies', m)
                                     <=> Believed(ctl, replies, m)
      /\ h.revision # rev => Answers(ctl, replies', n) = {}
      /\ h.revision = rev => Answers(ctl, replies', n) = {a}
  BY <1>1, <1>5 DEF Answers, Believed
<1>7. h.revision = rev =>
        /\ h.profile = ctl.transition.profile /\ n \in ctl.transition.sent
        /\ Len(requests[n]) = 1
  BY <1>3, ZenonT(30) DEF Calls, YoungestCall, Unsent
<1>8. h.revision = rev => requests'[n] = <<>>
  <2>1. requests'[n] \in Seq(Requests)
    BY <1>1, <1>2, HeadTailProperties
  <2> QED  BY <1>3, <1>7, <2>1, EmptySeq, LenProperties
<1> HIDE DEF h
<1>9. Numbered(ctl, requests', replies')
  <2>1. \A m \in Nodes : \A i \in DOMAIN requests'[m] :
          requests'[m][i].revision \in 1..ctl.revision
    <3> TAKE m \in Nodes
    <3>1. CASE m = n
      <4> TAKE i \in DOMAIN requests'[m]
      <4>1. requests'[n][i] = requests[n][i + 1] /\ i + 1 \in DOMAIN requests[n]
        BY <1>3, <3>1
      <4> QED  BY <3>1, <4>1 DEF Calls, Numbered
    <3>2. CASE m # n
      BY <1>4, <3>2 DEF Calls, Numbered
    <3> QED  BY <3>1, <3>2
  <2>2. a.revision \in 1..ctl.revision
    BY <1>3 DEF Calls, Numbered
  <2> QED  BY <1>1, <2>1, <2>2 DEF Calls, Numbered
<1>10. Unsent(ctl, requests', replies')
  <2> SUFFICES ASSUME NEW m \in Nodes \ ctl.transition.sent
               PROVE  /\ m \notin ctl.transition.confirmed
                      /\ Answers(ctl, replies', m) = {}
                      /\ \A i \in DOMAIN requests'[m] :
                           requests'[m][i].revision # rev
    BY DEF Unsent
  <2>1. CASE m = n
    <3>1. \A i \in DOMAIN requests'[n] :
            requests'[n][i] = requests[n][i + 1] /\ i + 1 \in DOMAIN requests[n]
      BY <1>3
    <3> QED  BY <1>5, <1>6, <1>7, <2>1, <3>1 DEF Calls, Unsent
  <2>2. CASE m # n
    BY <1>4, <1>6, <2>2 DEF Calls, Unsent
  <2> QED  BY <2>1, <2>2
<1>11. YoungestCall(ctl, requests')
  <2> SUFFICES ASSUME NEW m \in Nodes, NEW i \in DOMAIN requests'[m],
                      requests'[m][i].revision = rev
               PROVE  /\ i = Len(requests'[m])
                      /\ requests'[m][i].profile = ctl.transition.profile
    BY DEF YoungestCall
  <2>1. CASE m = n
    <3>1. /\ requests'[n][i] = requests[n][i + 1] /\ i + 1 \in DOMAIN requests[n]
          /\ i \in Nat
      BY <1>3, <2>1
    <3>2. i + 1 = Len(requests[n]) /\ requests[n][i + 1].profile = ctl.transition.profile
      BY <2>1, <3>1 DEF Calls, YoungestCall
    <3> QED  BY <1>3, <2>1, <3>1, <3>2
  <2>2. CASE m # n
    BY <1>4, <2>2 DEF Calls, YoungestCall
  <2> QED  BY <2>1, <2>2
<1>12. Answered(ctl, requests', replies')
  <2> SUFFICES ASSUME NEW m \in Nodes
               PROVE  /\ m \in ctl.transition.confirmed \/ Answers(ctl, replies', m) # {}
                           => requests'[m] = <<>>
                      /\ Believed(ctl, replies', m) =>
                           \A r \in Answers(ctl, replies', m) : r.success
    BY DEF Answered
  <2>1. CASE m = n
    BY <1>5, <1>6, <1>8, <2>1 DEF Believed
  <2>2. CASE m # n
    BY <1>4, <1>6, <2>2 DEF Calls, Answered
  <2> QED  BY <2>1, <2>2
<1>13. ASSUME Runs(ctl, replies, params), NEW m \in Nodes, Believed(ctl, replies', m)
       PROVE  params'[m] = ctl.transition.profile
  <2>1. CASE m = n
    <3>1. h.revision = rev /\ success
      BY <1>5, <1>6, <1>13, <2>1 DEF Believed
    <3> QED  BY <1>1, <1>7, <2>1, <3>1
  <2>2. CASE m # n
    <3>1. params'[m] = params[m]
      BY <1>1, <2>2
    <3> QED  BY <1>6, <1>13, <2>2, <3>1 DEF Runs
  <2> QED  BY <2>1, <2>2
<1> QED  BY <1>9, <1>10, <1>11, <1>12, <1>13 DEF Calls, Runs

\* A node that restarts loses its calls, and nothing else that the numbers say.
LEMMA RestartCalls ==
  ASSUME TypeOK, Calls(ctl, requests, replies), NEW n \in Nodes,
         requests' = [requests EXCEPT ![n] = <<>>]
  PROVE  Calls(ctl, requests', replies)
<1>1. /\ requests'[n] = <<>> /\ DOMAIN requests'[n] = {}
      /\ \A m \in Nodes \ {n} : requests'[m] = requests[m]
  BY DEF TypeOK
<1> QED  BY <1>1 DEF Calls, Numbered, Unsent, YoungestCall, Answered

\* An answer is delivered.
LEMMA DeliverCalls ==
  ASSUME TypeOK, Calls(ctl, requests, replies), NEW r \in replies,
         NEW up \in SUBSET Nodes, NEW d,
         d = handleEfficientProfileResponse(ctl, r, up)
  PROVE  /\ Calls(d, Posted(requests, ctl, d), replies \ {r})
         /\ \A p : Runs(ctl, replies, p) => Runs(d, replies \ {r}, p)
<1>1. /\ ctl \in Ctls /\ replies \in SUBSET Replies /\ r \in Replies
      /\ requests \in [Nodes -> Seq(Requests)] /\ replies \ {r} \in SUBSET replies
  BY DEF TypeOK
<1>2. CASE Stale(ctl, r)
  <2>1. d = ctl
    BY <1>2 DEF handleEfficientProfileResponse
  <2>2. Posted(requests, ctl, ctl) = requests
    <3>1. NewlySent(ctl, ctl) = {}
      BY DEF NewlySent
    <3> QED  BY <1>1, <3>1, PostedNothing
  <2>3. /\ Calls(ctl, requests, replies \ {r})
        /\ \A p : Runs(ctl, replies, p) => Runs(ctl, replies \ {r}, p)
    BY <1>1, DroppedAnswer
  <2> QED  BY <2>1, <2>2, <2>3
<1>3. CASE ~Stale(ctl, r) /\ ~r.success
  <2>1. d = Rejected(ctl, r.node)
    BY <1>3 DEF handleEfficientProfileResponse
  <2>2. Posted(requests, ctl, d) = requests
    <3>1. /\ d.transition.revision = ctl.transition.revision
          /\ d.transition.sent = ctl.transition.sent \ {r.node}
      BY <1>1, <2>1 DEF Rejected, Ctls, Transitions
    <3>2. NewlySent(ctl, d) = {}
      BY <3>1 DEF NewlySent
    <3> QED  BY <1>1, <3>2, PostedNothing
  <2>3. /\ Calls(Rejected(ctl, r.node), requests, replies \ {r})
        /\ \A p : Runs(ctl, replies, p)
             => Runs(Rejected(ctl, r.node), replies \ {r}, p)
    BY <1>1, <1>3, RejectedAnswer
  <2> QED  BY <2>1, <2>2, <2>3
<1>4. CASE ~Stale(ctl, r) /\ r.success
  <2> DEFINE k == Confirmed(ctl, r.node)
  <2>1. d = finishEfficientProfileTransitionIfReady(k, up)
    BY <1>4 DEF handleEfficientProfileResponse, Confirmed
  <2>2. k \in Ctls
    <3>1. r.node \in Nodes
      BY <1>1 DEF Replies
    <3> QED  BY <1>1, <3>1 DEF Ctls, Transitions, Confirmed
  <2>3. /\ k.transition.revision = ctl.transition.revision
        /\ k.transition.sent = ctl.transition.sent
    BY <1>1 DEF Ctls, Transitions, Confirmed
  <2>4. /\ Calls(k, requests, replies \ {r})
        /\ \A p : Runs(ctl, replies, p) => Runs(k, replies \ {r}, p)
    BY <1>1, <1>4, ConfirmedAnswer
  <2> HIDE DEF k
  <2>5. Goes(k, d) /\ d \in Ctls
    <3>1. Tidy(k)
      BY <2>4 DEF Tidy, Calls, Numbered
    <3>2. handleEfficientProfileResponse(ctl, r, up) \in Ctls
      BY <1>1, ResponseType
    <3> QED  BY <2>1, <2>2, <3>1, <3>2, FinishGoes
  <2>6. Posted(requests, ctl, d) = Posted(requests, k, d)
    BY <2>3 DEF Posted, NewlySent
  <2>7. replies \ {r} \in SUBSET Replies
    BY <1>1
  <2>8. /\ Calls(d, Posted(requests, k, d), replies \ {r})
        /\ \A p : Runs(k, replies \ {r}, p) => Runs(d, replies \ {r}, p)
    BY <1>1, <2>2, <2>4, <2>5, <2>7, GoesCalls
  <2> QED  BY <2>4, <2>6, <2>8
<1> QED  BY <1>2, <1>3, <1>4

-----------------------------------------------------------------------------
(* The theorem                                                               *)

\* A firing of the control timer sends twice: for what sensing left, and for what
\* the firing ends with.
LEMMA TimerSwitch ==
  TypeOK /\ SwitchInv /\ controlTimer => SwitchInv'
<1> SUFFICES ASSUME TypeOK, SwitchInv, controlTimer
             PROVE  SwitchInv'
  OBVIOUS
<1>1. /\ ctl \in Ctls /\ requests \in [Nodes -> Seq(Requests)]
      /\ replies \in SUBSET Replies /\ Tidy(ctl)
  BY DEF TypeOK, SwitchInv, Calls, Numbered, Tidy
<1>2. Ready(ctl) \subseteq SUBSET Nodes
  BY DEF Ready
<1>3. ASSUME NEW c \in Ctls, NEW d \in Ctls, Goes(ctl, c), Goes(c, d), Fire(c, d)
      PROVE  SwitchInv'
  <2>1. /\ Calls(c, Posted(requests, ctl, c), replies)
        /\ Runs(ctl, replies, params) => Runs(c, replies, params)
    BY <1>1, <1>3, GoesCalls DEF SwitchInv
  <2>2. Posted(requests, ctl, c) \in [Nodes -> Seq(Requests)]
    BY <1>1, PostedType
  <2> DEFINE q == Posted(requests, ctl, c)
  <2> HIDE DEF q
  <2>3. /\ Calls(d, Posted(q, c, d), replies)
        /\ Runs(c, replies, params) => Runs(d, replies, params)
    BY <1>1, <1>3, <2>1, <2>2, GoesCalls DEF q
  <2>4. /\ ctl' = d /\ requests' = Posted(q, c, d) /\ replies' = replies
        /\ params' = params /\ faults' = faults
    BY <1>3 DEF Fire, Become, q
  <2> QED  BY <2>1, <2>3, <2>4 DEF SwitchInv
<1>4. ASSUME NEW up \in SUBSET Nodes
      PROVE  /\ Tick(ctl, up) \in Ctls /\ Goes(ctl, Tick(ctl, up))
             /\ Goes(Tick(ctl, up), Tick(ctl, up))
             /\ Sense(ctl, env, up) \in Ctls /\ Goes(ctl, Sense(ctl, env, up))
             /\ Tidy(Sense(ctl, env, up))
  <2>1. Tick(ctl, up) \in Ctls /\ Sense(ctl, env, up) \in Ctls
    BY <1>1, TimerTypes
  <2>2. Goes(ctl, Tick(ctl, up)) /\ Goes(ctl, Sense(ctl, env, up))
    BY <1>1, TimerGoes
  <2>3. ASSUME NEW d \in Ctls, Goes(ctl, d) PROVE Tidy(d)
    <3>1. Calls(d, Posted(requests, ctl, d), replies)
      BY <1>1, <2>3, GoesCalls DEF SwitchInv
    <3> QED  BY <3>1 DEF Calls, Numbered, Tidy
  <2>4. Goes(Tick(ctl, up), Tick(ctl, up))
    BY <2>1, <2>2, <2>3, TimerGoes
  <2> QED  BY <2>1, <2>2, <2>3, <2>4
<1>5. CASE TimerIdle
  BY <1>2, <1>3, <1>4, <1>5 DEF TimerIdle
<1>6. ASSUME NEW up \in SUBSET Nodes, NEW d,
             d \in {SafetyStop(Sense(ctl, env, up),
                               PreserveController(Sense(ctl, env, up), env)),
                    ClearWait(Sense(ctl, env, up)),
                    ReleaseSafetyStop(Sense(ctl, env, up)),
                    Failed(Sense(ctl, env, up)),
                    [Sense(ctl, env, up) EXCEPT !.command =
                       IF Sense(ctl, env, up).task_controller = "pid"
                       THEN "track" ELSE @]},
             Fire(Sense(ctl, env, up), d)
      PROVE  SwitchInv'
  <2> DEFINE c == Sense(ctl, env, up)
             soft == PreserveController(c, env)
  <2>1. c \in Ctls /\ Goes(ctl, c) /\ Tidy(c)
    BY <1>4
  <2>2. soft \in BOOLEAN
    BY ConstantsAssumption DEF PreserveController
  <2> HIDE DEF c, soft
  <2>3. d \in {SafetyStop(c, soft), ClearWait(c), ReleaseSafetyStop(c), Failed(c),
               [c EXCEPT !.command =
                  IF c.task_controller = "pid" THEN "track" ELSE @]}
    BY <1>6 DEF c, soft
  <2>4. Goes(c, d)
    BY <2>1, <2>2, <2>3, TimerGoes
  <2>5. d \in Ctls
    <3>1. /\ SafetyStop(c, soft) \in Ctls /\ ClearWait(c) \in Ctls
          /\ ReleaseSafetyStop(c) \in Ctls
      BY <2>1, <2>2, TimerTypes
    <3>2. Failed(c) \in Ctls
      BY <2>1 DEF Failed, Ctls, States
    <3>3. [c EXCEPT !.command =
                  IF c.task_controller = "pid" THEN "track" ELSE @] \in Ctls
      BY <2>1 DEF Ctls
    <3> QED  BY <2>3, <3>1, <3>2, <3>3
  <2> QED  BY <1>3, <1>6, <2>1, <2>4, <2>5 DEF c
<1>7. CASE TimerStop
  BY <1>2, <1>6, <1>7 DEF TimerStop
<1>8. CASE TimerHold
  BY <1>2, <1>6, <1>8 DEF TimerHold
<1>9. CASE TimerRelease
  BY <1>2, <1>6, <1>9 DEF TimerRelease
<1>10. CASE TimerTrack
  BY <1>2, <1>6, <1>10 DEF TimerTrack
<1>11. CASE TimerThrow
  BY <1>2, <1>6, <1>11 DEF TimerThrow
<1>12. CASE TimerAdvance
  <2> PICK up \in SUBSET Nodes :
        Fire(Sense(ctl, env, up), advanceTask(Sense(ctl, env, up), up))
    BY <1>12 DEF TimerAdvance
  <2> QED  BY <1>3, <1>4, AdvanceGoes, AdvanceType
<1> QED
  BY <1>5, <1>7, <1>8, <1>9, <1>10, <1>11, <1>12 DEF controlTimer

\* A callback that ends with the members d and sends what d marks as sent.
LEMMA OperateSwitch ==
  ASSUME TypeOK, SwitchInv, NEW d \in Ctls, Goes(ctl, d), ctl' = d,
         requests' = Posted(requests, ctl, d), replies' = replies,
         params' = params, faults'.restarts = faults.restarts
  PROVE  SwitchInv'
<1>1. /\ ctl \in Ctls /\ requests \in [Nodes -> Seq(Requests)]
      /\ replies \in SUBSET Replies
  BY DEF TypeOK
<1>2. /\ Calls(d, Posted(requests, ctl, d), replies)
      /\ Runs(ctl, replies, params) => Runs(d, replies, params)
  BY <1>1, GoesCalls DEF SwitchInv
<1> QED  BY <1>2 DEF SwitchInv

\* Every step keeps the invariant.
LEMMA SwitchNext == TypeOK /\ SwitchInv /\ [Next]_vars => SwitchInv'
<1> SUFFICES ASSUME TypeOK, SwitchInv, [Next]_vars
             PROVE  SwitchInv'
  OBVIOUS
<1>1. /\ ctl \in Ctls /\ requests \in [Nodes -> Seq(Requests)]
      /\ replies \in SUBSET Replies /\ Tidy(ctl)
      /\ faults \in [rejections : Nat, restarts : Nat, alarms : Nat, routes : Nat]
  BY DEF TypeOK, SwitchInv, Calls, Numbered, Tidy
<1>2. ASSUME NEW d \in Ctls, SameSwitch(ctl, d)
      PROVE  Posted(requests, ctl, d) = requests /\ Goes(ctl, d)
  <2>1. NewlySent(ctl, d) = {}
    BY <1>2 DEF SameSwitch, NewlySent
  <2> QED  BY <1>1, <1>2, <2>1, PostedNothing, SameGoes
<1>3. CASE tasksCallback
  <2> PICK r \in Routes, up \in SUBSET Nodes :
        LET staged == Staged(ctl, r, faults.routes + 1)
            d == IF AutoStart THEN activateTask(staged, up) ELSE staged
        IN /\ Become(d) /\ requests' = Posted(requests, ctl, d)
           /\ faults' = [faults EXCEPT !.routes = @ + 1]
           /\ UNCHANGED <<replies, params>>
    BY <1>3 DEF tasksCallback
  <2> DEFINE s == Staged(ctl, r, faults.routes + 1)
             d == IF AutoStart THEN activateTask(s, up) ELSE s
  <2>1. faults.routes + 1 \in Nat
    BY <1>1
  <2>2. s \in Ctls /\ Goes(ctl, s) /\ Tidy(s)
    BY <1>1, <2>1, ServiceTypes, ServiceGoes
  <2>3. ctl' = d /\ requests' = Posted(requests, ctl, d)
    BY DEF Become
  <2>4. faults'.restarts = faults.restarts
    BY <1>1
  <2> HIDE DEF s
  <2>5. d \in Ctls /\ Goes(ctl, d)
    <3>1. activateTask(s, up) \in Ctls /\ Goes(s, activateTask(s, up))
      BY <2>2, ActivateType, ActivateGoes
    <3> QED  BY <1>1, <2>2, <3>1, GoesOn DEF Tidy
  <2> HIDE DEF d
  <2> QED  BY <2>3, <2>4, <2>5, OperateSwitch
<1>4. CASE tasksCallbackEmpty
  <2> DEFINE d == [ctl EXCEPT !.state = "ERROR", !.command = "zero"]
  <2>1. d \in Ctls /\ SameSwitch(ctl, d)
    BY <1>1, ServiceGoes DEF Ctls, States
  <2> HIDE DEF d
  <2>2. /\ ctl' = d /\ requests' = Posted(requests, ctl, d) /\ replies' = replies
        /\ params' = params /\ faults'.restarts = faults.restarts
    BY <1>2, <1>4, <2>1 DEF tasksCallbackEmpty, Become, d
  <2> QED  BY <1>2, <2>1, <2>2, OperateSwitch
<1>5. CASE odometryCallback \/ RaiseAlarm \/ ClearAlarm
  <2>1. /\ ctl' = ctl /\ requests' = requests /\ replies' = replies
        /\ params' = params /\ faults'.restarts = faults.restarts
    BY <1>1, <1>5 DEF odometryCallback, RaiseAlarm, ClearAlarm
  <2> QED  BY <2>1 DEF SwitchInv
<1>6. CASE cloudCallback
  <2>1. /\ requests' = requests /\ replies' = replies
        /\ params' = params /\ faults'.restarts = faults.restarts
        /\ ctl' = ctl \/ ctl' = [ctl EXCEPT !.counted = FALSE]
    BY <1>6 DEF cloudCallback
  <2>2. [ctl EXCEPT !.counted = FALSE] \in Ctls
    BY <1>1 DEF Ctls
  <2>3. SameSwitch(ctl, [ctl EXCEPT !.counted = FALSE]) /\ SameSwitch(ctl, ctl)
    BY <1>1, ServiceGoes DEF SameSwitch
  <2>4. /\ ctl' \in Ctls /\ Goes(ctl, ctl')
        /\ requests' = Posted(requests, ctl, ctl')
    BY <1>1, <1>2, <2>1, <2>2, <2>3
  <2> QED  BY <2>1, <2>4, OperateSwitch
<1>7. ASSUME NEW d \in Ctls, Goes(ctl, d), Operate(d)
      PROVE  SwitchInv'
  BY <1>7, OperateSwitch DEF Operate, Become
<1>8. CASE startCallback
  <2> DEFINE k == [ctl EXCEPT !.index = 0]
  <2>1. k \in Ctls /\ SameSwitch(ctl, k) /\ Tidy(k)
    <3>1. SameSwitch(ctl, k)
      BY <1>1, ServiceGoes
    <3> QED  BY <1>1, <3>1 DEF Ctls, SameSwitch, Tidy
  <2> HIDE DEF k
  <2> PICK up \in SUBSET Nodes : Operate(activateTask(k, up))
    BY <1>8 DEF startCallback, k
  <2>2. activateTask(k, up) \in Ctls /\ Goes(ctl, activateTask(k, up))
    BY <1>1, <2>1, ActivateType, ActivateGoes, SameGoes
  <2> QED  BY <1>7, <2>2
<1>9. CASE continueCallback
  BY <1>1, <1>7, <1>9, ActivateType, ActivateGoes DEF continueCallback
<1>10. CASE pauseCallback \/ resumeCallback \/ cancelCallback
  <2>1. \A d \in {Paused(ctl), Resumed(ctl), Cancelled(ctl)} :
          d \in Ctls /\ Goes(ctl, d)
    BY <1>1, ServiceTypes, ServiceGoes
  <2> QED
    BY <1>7, <1>10, <2>1 DEF pauseCallback, resumeCallback, cancelCallback
<1>11. CASE controlTimer
  BY <1>11, TimerSwitch
<1>12. ASSUME NEW n \in Nodes, Accept(n) \/ Reject(n)
       PROVE  SwitchInv'
  <2>1. \E success \in BOOLEAN : Serve(n, success)
    BY <1>12 DEF Accept, Reject
  <2>2. ctl' = ctl /\ faults'.restarts = faults.restarts
    BY <1>1, <1>12 DEF Accept, Reject, Serve
  <2>3. /\ Calls(ctl, requests', replies')
        /\ Runs(ctl, replies, params) => Runs(ctl, replies', params')
    BY <2>1, ServeCalls DEF SwitchInv
  <2> QED  BY <2>2, <2>3 DEF SwitchInv
<1>13. ASSUME NEW n \in Nodes, Restart(n)
       PROVE  SwitchInv'
  <2>1. Calls(ctl, requests', replies) /\ ctl' = ctl /\ replies' = replies
    BY <1>13, RestartCalls DEF Restart, SwitchInv
  <2>2. faults'.restarts # 0
    <3>1. faults'.restarts = faults.restarts + 1 /\ faults.restarts \in Nat
      BY <1>1, <1>13 DEF Restart
    <3> QED  BY <3>1
  <2> QED  BY <2>1, <2>2 DEF SwitchInv
<1>14. CASE DeliverReply
  <2> PICK r \in replies, up \in SUBSET Nodes :
        LET d == handleEfficientProfileResponse(ctl, r, up)
        IN /\ Become(d) /\ requests' = Posted(requests, ctl, d)
           /\ replies' = replies \ {r} /\ UNCHANGED <<params, faults>>
    BY <1>14 DEF DeliverReply
  <2> DEFINE d == handleEfficientProfileResponse(ctl, r, up)
  <2>1. /\ Calls(d, Posted(requests, ctl, d), replies \ {r})
        /\ \A p : Runs(ctl, replies, p) => Runs(d, replies \ {r}, p)
    BY DeliverCalls DEF SwitchInv
  <2>2. ctl' = d /\ requests' = Posted(requests, ctl, d)
    BY DEF Become
  <2> HIDE DEF d
  <2> QED  BY <2>1, <2>2 DEF SwitchInv
<1>15. CASE UNCHANGED vars
  BY <1>15 DEF vars, SwitchInv
<1> QED
  BY <1>3, <1>4, <1>5, <1>6, <1>8, <1>9, <1>10, <1>11, <1>12, <1>13, <1>14, <1>15
     DEF Next

\* Before the first route there is no transition, no call and no answer.
LEMMA SwitchInit == Init => SwitchInv
BY DEF Init, InitCtl, SwitchInv, Calls, Numbered, Unsent, YoungestCall, Answered,
       Answers, Believed, Runs, NoTransition

\* A node counted as confirmed runs with the pending profile as long as no node
\* restarted: in every reachable state, whatever revisions were cancelled, whatever
\* calls were refused and sent again, in whatever order the answers arrive
\* (handleEfficientProfileResponse and dispatchEfficientProfileRequests).
THEOREM ConfirmedCorrect == Spec => []ConfirmedMeansApplied
<1>1. TypeOK /\ SwitchInv => ConfirmedMeansApplied
  <2>1. TypeOK => ctl.transition.confirmed \subseteq Nodes
    BY DEF TypeOK, Ctls, Transitions
  <2> QED  BY <2>1 DEF SwitchInv, Runs, Believed, ConfirmedMeansApplied
<1> QED  BY <1>1, SwitchInit, SwitchNext, TypeCorrect, PTL DEF Spec
=============================================================================
