------------------------------ MODULE M20Adapter ------------------------------
(***************************************************************************)
(* route3d_m20_adapter (m20_route_adapter_node.cpp): the gate between the  *)
(* two route controllers and the bridge.  Each subscription keeps the last *)
(* message and when it came; tick, 50 times a second, lets the command of  *)
(* the selected controller through, publishes zero, or publishes nothing.  *)
(*                                                                         *)
(* A command moves the robot or does not, as one that is not finite does   *)
(* not; the limits that clamp it are left out.  Ages are in ticks of the clock, capped just     *)
(* past the timeout they are compared with.                                *)
(***************************************************************************)
EXTENDS Integers

CONSTANTS
  EnableMotion,         \* enable_motion
  ReleaseWhenIdle,      \* release_output_when_idle
  CommandTimeout,       \* command_timeout_s, in ticks of the clock
  StateTimeout          \* state_timeout_s, in ticks of the clock

VARIABLES
  command,         \* pid_command_, efficient_command_
  command_age,     \* now - pid_stamp_, now - efficient_stamp_
  active_source_, m20_ready_, motion_state_,
  state_age        \* now - motion_state_stamp_

adapter == <<command, command_age, active_source_, m20_ready_, motion_state_, state_age>>

Controllers == {"pid", "efficient_3d_local_planner"}
AdapterSources == Controllers \cup {"none", "safety_hold", "profile_hold"}
MotionStates == {"rl", "stand", "other"}
AdapterCommands == {"move", "zero"}

ASSUME AdapterAssumption ==
  /\ EnableMotion \in BOOLEAN /\ ReleaseWhenIdle \in BOOLEAN
  /\ CommandTimeout \in Nat /\ StateTimeout \in Nat

\* A stamp that was never set blocks like one that is too old.
AdapterInit ==
  /\ command = [c \in Controllers |-> "zero"]
  /\ command_age = [c \in Controllers |-> CommandTimeout + 1]
  /\ active_source_ = "none"
  /\ m20_ready_ = FALSE
  /\ motion_state_ = "other"
  /\ state_age = StateTimeout + 1

-----------------------------------------------------------------------------
(* Subscriptions *)

commandCallback(c, velocity) ==
  /\ command' = [command EXCEPT ![c] = velocity]
  /\ command_age' = [command_age EXCEPT ![c] = 0]
  /\ UNCHANGED <<active_source_, m20_ready_, motion_state_, state_age>>

sourceCallback(source) ==
  /\ active_source_' = source
  /\ UNCHANGED <<command, command_age, m20_ready_, motion_state_, state_age>>

readyCallback(ready) ==
  /\ m20_ready_' = ready
  /\ UNCHANGED <<command, command_age, active_source_, motion_state_, state_age>>

motionStateCallback(state) ==
  /\ motion_state_' = state
  /\ state_age' = 0
  /\ UNCHANGED <<command, command_age, active_source_, m20_ready_>>

AdapterAges ==
  /\ command_age' = [c \in Controllers |->
                       IF command_age[c] > CommandTimeout THEN command_age[c]
                       ELSE command_age[c] + 1]
  /\ state_age' = IF state_age > StateTimeout THEN state_age ELSE state_age + 1
  /\ UNCHANGED <<command, active_source_, m20_ready_, motion_state_>>

-----------------------------------------------------------------------------
(* tick: what it publishes, which depends on nothing but the members *)

output_released ==
  ~ EnableMotion \/ (ReleaseWhenIdle /\ active_source_ = "none")

FreshRl == motion_state_ = "rl" /\ state_age <= StateTimeout

\* (mutated: a command stays good for ever once its controller is selected)
FreshCommandMutant == active_source_ \in Controllers
FreshCommand ==
  active_source_ \in Controllers /\ command_age[active_source_] <= CommandTimeout

selected ==
  IF m20_ready_ /\ FreshRl /\ FreshCommand /\ command[active_source_] = "move"
  THEN "move" ELSE "zero"
=============================================================================
