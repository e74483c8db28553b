--------------------------- MODULE CircleBenchmark ---------------------------
(***************************************************************************)
(* circle_path_benchmark_node: it drives the path follower once around a   *)
(* fixed circle and writes down how well the follower kept to it.          *)
(*                                                                         *)
(* The node has one thread, so that one action is one callback.  An        *)
(* odometry is where it lies around the centre, in steps of which Turn are *)
(* a full turn, counted in the direction of driving from the start of the  *)
(* circle, and whether it lies near the start or is a whole start pose;    *)
(* NaN is a pose that is not finite.  The radial errors are left out: the  *)
(* samples stand for them.  The control path is the latched topic the      *)
(* follower drives along.                                                  *)
(***************************************************************************)
EXTENDS Integers

CONSTANTS
  Turn,             \* the steps of a full turn
  Slack,            \* completion_angle_tolerance_, in steps
  Places,           \* where the robot can be when its circle is locked
  CircleSetups,     \* the parameters the node is started with
  MaxSamples,       \* bound on the samples of one process
  NoPlace, NaN, NoOdometry

ASSUME CircleAssumption ==
  /\ Turn \in Nat \ {0} /\ Slack \in Nat /\ Slack < Turn
  /\ MaxSamples \in Nat
  /\ NoPlace \notin Places
  /\ CircleSetups \subseteq [enable_motion : BOOLEAN, from_odometry : BOOLEAN,
                             start_pose : BOOLEAN, clearance : BOOLEAN,
                             unsafe : BOOLEAN]

VARIABLES
  setup, path_ready_, circle_safe_, auto_arm_pending_, active_, completed_,
  latest_odometry_, previous_angle_, accumulated_progress_, error_samples_,
  up,               \* the process runs
  center,           \* the circle's place in spec_
  reference_path, control_path,   \* the last messages of these topics
  overdue,          \* max_duration_ has passed since the node was armed
  metrics,          \* metrics.json
  unwritten,        \* the last writeMetrics failed
  turned, lowest    \* for the properties: the turn since the run began, or
                    \* since its last pose that is not finite, and its least

circle == <<setup, path_ready_, circle_safe_, center, reference_path>>
run3 == <<accumulated_progress_, error_samples_, turned, lowest>>
circleVars == <<circle, run3, auto_arm_pending_, active_, completed_,
                latest_odometry_, previous_angle_, up, control_path, overdue,
                metrics, unwritten>>

Angles == 0..(Turn - 1)
Odometries ==
  {[frame |-> frame, angle |-> angle, spot |-> "away"] : frame \in BOOLEAN, angle \in Angles}
  \cup {[frame |-> frame, angle |-> 0, spot |-> spot] :
          frame \in BOOLEAN, spot \in {"near", "start"}}
  \cup {[frame |-> TRUE, angle |-> NaN, spot |-> "away"]}

NoMetrics == [status |-> "none", reason |-> "none", samples |-> 0, progress |-> 0]

\* validateCurrentCircle looks only when it is asked to.
MaybeSafe == IF setup.clearance THEN BOOLEAN ELSE {TRUE}

CircleInit ==
  /\ setup \in CircleSetups
  /\ path_ready_ = ~setup.from_odometry
  /\ center \in IF path_ready_ THEN Places ELSE {NoPlace}
  /\ circle_safe_ \in IF path_ready_ THEN MaybeSafe ELSE {FALSE}
  /\ auto_arm_pending_ = setup.enable_motion
  /\ active_ = FALSE /\ completed_ = FALSE
  /\ latest_odometry_ = NoOdometry /\ previous_angle_ = NaN
  /\ accumulated_progress_ = 0 /\ error_samples_ = 0
  /\ up = TRUE
  /\ reference_path = center /\ control_path = NoPlace
  /\ overdue = FALSE
  /\ metrics = NoMetrics /\ unwritten = FALSE
  /\ turned = 0 /\ lowest = 0

-----------------------------------------------------------------------------

directedAngularDelta(previous, current) ==
  LET delta == current - previous
  IN  IF 2 * delta > Turn THEN delta - Turn
      ELSE IF 2 * delta < -Turn THEN delta + Turn
      ELSE delta

\* The larger of zero and not-a-number is zero (std::max).
Progressed(previous, angle, progress) ==
  IF NaN \in {previous, angle} THEN 0
  ELSE LET sum == progress + directedAngularDelta(previous, angle)
       IN  IF sum < 0 THEN 0 ELSE sum

\* The errors of the start pose compare as small when they are not numbers.
startCheck(odometry, ready, safe) ==
  /\ ready
  /\ setup.clearance => safe \/ setup.unsafe
  /\ odometry # NoOdometry
  /\ odometry.frame
  /\ setup.start_pose => odometry.spot = "start" \/ odometry.angle = NaN

\* (mutated: the node may be armed again after its lap)
MayArmMutant(odometry, ready, safe) == ~active_ /\ startCheck(odometry, ready, safe)

MayArm(odometry, ready, safe) ==
  ~active_ /\ ~completed_ /\ startCheck(odometry, ready, safe)

writeMetrics(status, reason, samples, progress) ==
  \/ /\ metrics' = [status |-> status, reason |-> reason, samples |-> samples,
                    progress |-> progress]
     /\ unwritten' = FALSE
  \/ UNCHANGED metrics /\ unwritten' = TRUE

-----------------------------------------------------------------------------
(***************************************************************************)
(* The service.  Disarming leaves auto_arm_pending_ as it is.              *)
(***************************************************************************)
stop(reason) ==
  /\ active_' = FALSE
  /\ control_path' = NoPlace
  /\ IF active_
     THEN writeMetrics("stopped", reason, error_samples_, accumulated_progress_)
     ELSE UNCHANGED <<metrics, unwritten>>

Disarm ==
  /\ up
  /\ stop("service_disarm")
  /\ UNCHANGED <<circle, run3, auto_arm_pending_, completed_, latest_odometry_,
                 previous_angle_, up, overdue>>

Arm ==
  /\ up /\ MayArm(latest_odometry_, path_ready_, circle_safe_)
  /\ active_' = TRUE
  /\ auto_arm_pending_' = FALSE
  /\ previous_angle_' = latest_odometry_.angle
  /\ accumulated_progress_' = 0 /\ turned' = 0 /\ lowest' = 0
  /\ overdue' = FALSE
  /\ control_path' = center
  /\ UNCHANGED <<circle, error_samples_, completed_, latest_odometry_, up, metrics, unwritten>>

(***************************************************************************)
(* The odometry, once or after the circle is locked: it arms a node that   *)
(* waits for it, and counts as a sample of a run.                          *)
(***************************************************************************)
lapDone(odometry, progress) ==
  /\ progress >= Turn - Slack
  /\ odometry.spot # "away"

\* The odometry that arms the node begins a run at its own angle.
Sample(odometry, arms) ==
  LET previous == IF arms THEN odometry.angle ELSE previous_angle_
      from == IF arms THEN 0 ELSE accumulated_progress_
      lost == NaN \in {previous, odometry.angle}
      turn == IF lost THEN 0
              ELSE (IF arms THEN 0 ELSE turned)
                   + directedAngularDelta(previous, odometry.angle)
      least == IF lost \/ arms THEN 0 ELSE lowest
      done == lapDone(odometry, accumulated_progress_')
  IN  /\ accumulated_progress_' = Progressed(previous, odometry.angle, from)
      /\ turned' = turn
      /\ lowest' = IF turn < least THEN turn ELSE least
      /\ error_samples_' = error_samples_ + 1
      /\ auto_arm_pending_' = (auto_arm_pending_ /\ ~arms)
      /\ overdue' = (overdue /\ ~arms)
      /\ active_' = ~done
      /\ completed_' = (completed_ \/ done)
      /\ control_path' = IF done THEN NoPlace ELSE IF arms THEN center' ELSE control_path
      /\ IF done
         THEN writeMetrics("complete", "one_lap_complete", error_samples_',
                           accumulated_progress_')
         ELSE UNCHANGED <<metrics, unwritten>>

\* The odometry of a node that may not or need not drive.
Look ==
  UNCHANGED <<run3, auto_arm_pending_, active_, completed_, control_path, overdue,
              metrics, unwritten>>

Drive(odometry) ==
  LET arms == auto_arm_pending_ /\ MayArm(odometry, path_ready_', circle_safe_')
  IN  IF path_ready_' /\ (active_ \/ arms) THEN Sample(odometry, arms) ELSE Look

initializeCircleFromOdometry(place) ==
  /\ center' = place /\ reference_path' = place
  /\ circle_safe_' \in MaybeSafe
  /\ path_ready_' = TRUE
  /\ UNCHANGED setup

odomCallback(odometry, place) ==
  /\ up /\ error_samples_ < MaxSamples
  /\ latest_odometry_' = odometry
  /\ IF ~path_ready_ /\ odometry.frame /\ odometry.angle # NaN
     THEN initializeCircleFromOdometry(place)
     ELSE UNCHANGED circle
  /\ previous_angle_' = IF path_ready_' THEN odometry.angle ELSE previous_angle_
  /\ Drive(odometry)
  /\ UNCHANGED up

(***************************************************************************)
(* The timer publishes the control path again, and ends a run that takes   *)
(* too long.                                                               *)
(***************************************************************************)
timerCallback ==
  /\ up
  /\ reference_path' = center
  /\ IF active_ /\ overdue THEN stop("max_duration_timeout")
     ELSE /\ control_path' = IF active_ THEN center ELSE control_path
          /\ UNCHANGED <<active_, metrics, unwritten>>
  /\ UNCHANGED <<setup, path_ready_, circle_safe_, center, run3, auto_arm_pending_,
                 completed_, latest_odometry_, previous_angle_, up, overdue>>

DurationElapses ==
  /\ up /\ active_
  /\ overdue' = TRUE
  /\ UNCHANGED <<circle, run3, auto_arm_pending_, active_, completed_,
                 latest_odometry_, previous_angle_, up, control_path, metrics, unwritten>>

\* The node is shut down, or its resolved circle cannot be written: both end in
\* the destructor, which leaves an active node active.
Shutdown ==
  /\ up
  /\ up' = FALSE
  /\ control_path' = NoPlace
  /\ IF completed_
     THEN writeMetrics("complete", "one_lap_complete", error_samples_, accumulated_progress_)
     ELSE writeMetrics("stopped", "node_shutdown", error_samples_, accumulated_progress_)
  /\ UNCHANGED <<circle, run3, auto_arm_pending_, active_, completed_,
                 latest_odometry_, previous_angle_, overdue>>

CircleNext ==
  \/ Disarm \/ Arm \/ timerCallback \/ DurationElapses \/ Shutdown
  \/ \E odometry \in Odometries, place \in Places : odomCallback(odometry, place)

CircleSpec == CircleInit /\ [][CircleNext]_circleVars

-----------------------------------------------------------------------------

\* The follower has the circle exactly while a run of this process is on, and it
\* is the circle that was locked and may be driven.
PathIsTheRuns ==
  /\ (control_path # NoPlace) <=> (up /\ active_)
  /\ control_path # NoPlace =>
       /\ control_path = center /\ reference_path = center
       /\ setup.clearance => circle_safe_ \/ setup.unsafe

\* What is counted is what was gained over the furthest the robot fell back, so a
\* lap that is over has been driven from there; no second one begins.
LapIsDriven ==
  /\ accumulated_progress_ = turned - lowest
  /\ completed_ => /\ turned - lowest >= Turn - Slack
                   /\ ~active_

\* The file tells of the lap and of all samples up to it, also after a later
\* disarming or the end of the process.
MetricsTellTheLap ==
  /\ metrics.status = "complete" => completed_
  /\ ~unwritten /\ (up => ~active_) /\ error_samples_ > 0 =>
       /\ metrics.samples = error_samples_
       /\ metrics.progress = accumulated_progress_
       /\ (metrics.status = "complete") <=> completed_

CircleSafe == PathIsTheRuns /\ LapIsDriven /\ MetricsTellTheLap
=============================================================================
