--------------------------- MODULE ManualVelocity ---------------------------
(***************************************************************************)
(* The gate of the manual velocity chain (m20_velocity_control_node.cpp    *)
(* over velocity_gate.cpp): callbacks store what arrives under a mutex, a  *)
(* timer takes it all, lets the gate judge it and publishes the result for *)
(* the bridge of this chain.  A unit of time is a period of the timer.     *)
(* The stamps are read from the ROS clock, which may be set back while the *)
(* node runs; `elapsed` counts the time that really passed.                *)
(***************************************************************************)
EXTENDS Integers

CONSTANTS
  EnableMotion,     \* enable_motion
  CommandTimeout,   \* command_timeout_s, in periods
  StateTimeout,     \* state_timeout_s
  MaximumVelocity,  \* limits.maximum_*: [vx, vy, wz]
  Lateral,          \* allow_lateral_motion
  Twists,           \* the commands of this instance
  NotFinite,        \* a component that is a NaN or infinite
  MaxClock,         \* bound: the ROS clock
  MaxSteps          \* bound: how often the clock is set back

Axes == {"vx", "vy", "wz"}
Zero == [a \in Axes |-> 0]
Motion == [Axes -> Int]

\* The constructor of the gate throws on other limits and timeouts.
ASSUME ManualAssumption ==
  /\ EnableMotion \in BOOLEAN
  /\ CommandTimeout \in Nat \ {0} /\ StateTimeout \in Nat \ {0}
  /\ MaximumVelocity \in [Axes -> Nat] /\ Lateral \in BOOLEAN
  /\ NotFinite \notin Int /\ Twists \subseteq [Axes -> Int \cup {NotFinite}]
  /\ MaxClock \in Nat \ {0} /\ MaxSteps \in Nat

VARIABLES
  ready_, emergency_stop_, motion_state_, input_command_,
  command_stamp_, motion_state_stamp_,
  clock,     \* what now() says
  output,    \* the message under way to the bridge, as a set of at most one
  ticked,    \* has the timer fired in this period?
  robot,     \* environment: the velocity the bridge has sent on
  elapsed,   \* history: the time since a command and a state came, and how long
             \* an emergency stop has been on and the robot not ready
  setBack,   \* history: whose stamps are older than a step of the clock
  steps

inputs == <<ready_, emergency_stop_, motion_state_, input_command_,
            command_stamp_, motion_state_stamp_>>
manualHistory == <<elapsed, setBack, steps>>
manualVars == <<inputs, clock, output, ticked, robot, manualHistory>>

kRlMotionState == 17
Never == 0                              \* a stamp that was not set
Stamped == {"command", "state"}
Lasting == {"emergency", "unready"}
Events == Stamped \cup Lasting

-----------------------------------------------------------------------------

\* std::clamp
Clamped(value, limit) ==
  IF value < -limit THEN -limit ELSE IF value > limit THEN limit ELSE value

\* (mutated: a stamp does not grow too old)
FreshStampMutant(stamp, timeout) == stamp # Never /\ clock - stamp >= 0

\* By the clock of the node.
FreshStamp(stamp, timeout) ==
  /\ stamp # Never
  /\ clock - stamp >= 0 /\ clock - stamp <= timeout

Blocked ==
  \/ ~ EnableMotion \/ emergency_stop_ \/ ~ ready_
  \/ motion_state_ # kRlMotionState \/ ~ FreshStamp(motion_state_stamp_, StateTimeout)
  \/ ~ FreshStamp(command_stamp_, CommandTimeout)
  \/ \E a \in Axes : input_command_[a] = NotFinite

\* evaluate
evaluate ==
  IF Blocked THEN Zero
  ELSE [a \in Axes |-> IF a = "vy" /\ ~ Lateral THEN 0
                       ELSE Clamped(input_command_[a], MaximumVelocity[a])]

-----------------------------------------------------------------------------

\* Nothing has arrived yet.
ManualInit ==
  /\ ready_ = FALSE /\ emergency_stop_ = FALSE /\ motion_state_ = -1
  /\ input_command_ = Zero /\ command_stamp_ = Never /\ motion_state_stamp_ = Never
  /\ clock = 1 /\ output = {} /\ ticked = FALSE /\ robot = Zero
  /\ elapsed = [e \in Events |-> 0] /\ setBack = {} /\ steps = 0

Happens(e) ==
  /\ elapsed' = [elapsed EXCEPT ![e] = 0] /\ setBack' = setBack \ {e}
  /\ UNCHANGED <<clock, output, ticked, robot, steps>>

CommandArrives(twist) ==
  /\ input_command_' = twist /\ command_stamp_' = clock
  /\ Happens("command")
  /\ UNCHANGED <<ready_, emergency_stop_, motion_state_, motion_state_stamp_>>

StateArrives(state) ==
  /\ motion_state_' = state /\ motion_state_stamp_' = clock
  /\ Happens("state")
  /\ UNCHANGED <<ready_, emergency_stop_, input_command_, command_stamp_>>

ReadyArrives(value) ==
  /\ ready_ # value /\ ready_' = value
  /\ Happens("unready")
  /\ UNCHANGED <<emergency_stop_, motion_state_, input_command_, command_stamp_,
                 motion_state_stamp_>>

EmergencyArrives(value) ==
  /\ emergency_stop_ # value /\ emergency_stop_' = value
  /\ Happens("emergency")
  /\ UNCHANGED <<ready_, motion_state_, input_command_, command_stamp_,
                 motion_state_stamp_>>

\* tick: a message for every firing of the timer.
ManualTick ==
  /\ output = {} /\ ~ ticked
  /\ output' = {evaluate} /\ ticked' = TRUE
  /\ UNCHANGED <<inputs, clock, robot, manualHistory>>

\* The bridge of this chain sends on what it receives.
BridgeSends ==
  /\ \E velocity \in output : robot' = velocity
  /\ output' = {}
  /\ UNCHANGED <<inputs, clock, ticked, manualHistory>>

Lasts(e) == IF e = "emergency" THEN emergency_stop_ ELSE ~ ready_

ManualClock ==
  /\ ticked /\ output = {} /\ clock < MaxClock
  /\ clock' = clock + 1 /\ ticked' = FALSE
  /\ elapsed' = [e \in Events |-> IF e \in Stamped \/ Lasts(e) THEN elapsed[e] + 1 ELSE 0]
  /\ UNCHANGED <<inputs, output, robot, setBack, steps>>

\* The clock of the host is corrected.
ClockIsSetBack ==
  /\ steps < MaxSteps
  /\ \E time \in 1..(clock - 1) : clock' = time
  /\ steps' = steps + 1 /\ setBack' = Stamped
  /\ UNCHANGED <<inputs, output, ticked, robot, elapsed>>

ManualNext ==
  \/ \E twist \in Twists : CommandArrives(twist)
  \/ \E state \in {kRlMotionState, 1} : StateArrives(state)
  \/ \E value \in BOOLEAN : ReadyArrives(value) \/ EmergencyArrives(value)
  \/ ManualTick \/ BridgeSends \/ ManualClock \/ ClockIsSetBack

ManualSpec == ManualInit /\ [][ManualNext]_manualVars

-----------------------------------------------------------------------------
(* Properties *)

ManualTypeOK ==
  /\ ready_ \in BOOLEAN /\ emergency_stop_ \in BOOLEAN
  /\ motion_state_ \in {-1, 1, kRlMotionState}
  /\ input_command_ \in [Axes -> Int \cup {NotFinite}]
  /\ command_stamp_ \in Nat /\ motion_state_stamp_ \in Nat /\ clock \in Nat \ {0}
  /\ \A velocity \in output : velocity \in Motion /\ output = {velocity}
  /\ ticked \in BOOLEAN /\ robot \in Motion
  /\ elapsed \in [Events -> Nat] /\ setBack \subseteq Stamped /\ steps \in Nat

\* What the robot is told stays within the limits, and it is told to move only
\* while commands and reports of the RL state keep coming, and for one period of
\* the timer at most when an emergency stop is on or the robot is not ready
\* ("continuously publishes zero velocity", README.md of m20_velocity_control).
\* A clock that is set back can hide the age of a stamp, until the next one.
Moves(velocity) == velocity # Zero
WithinLimits(velocity) ==
  /\ \A a \in Axes :
        velocity[a] >= -MaximumVelocity[a] /\ velocity[a] <= MaximumVelocity[a]
  /\ ~ Lateral => velocity["vy"] = 0

MovesOnlyOnCommand ==
  Moves(robot) =>
    /\ EnableMotion
    /\ "command" \in setBack \/ elapsed["command"] <= CommandTimeout + 1
    /\ "state" \in setBack \/ elapsed["state"] <= StateTimeout + 1
    /\ emergency_stop_ => elapsed["emergency"] <= 1
    /\ ~ ready_ => elapsed["unready"] <= 1

ManualSafe == ManualTypeOK /\ WithinLimits(robot) /\ MovesOnlyOnCommand

=============================================================================
