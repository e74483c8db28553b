------------------------------- MODULE ReadyPrep -------------------------------
(***************************************************************************)
(* m20_ready_cmd_vel.py: brings the robot into normal usage mode and RL    *)
(* motion state, and publishes whether it is ready.  One thread; each      *)
(* callback is one action.  What it publishes as a request is returned to  *)
(* the module that composes it.                                            *)
(*                                                                         *)
(* commandAge is now - _last_command_at, capped at the repeat period.      *)
(***************************************************************************)
EXTENDS Integers

CONSTANT CommandRepeat   \* command_repeat_sec, in ticks of the clock

VARIABLES
  prepUp,             \* is the process running?
  _motion_state,      \* "unknown" until a report came
  _mode_acknowledged,
  _ready,
  readyTopic,         \* the latched message on /m20/control/ready
  commandAge

prep == <<prepUp, _motion_state, _mode_acknowledged, _ready, readyTopic, commandAge>>

Results == {"ok", "error", "mismatched", "other"}
ModeRequest == "usage_mode"
StateRequests == {"stand", "rl"}

ASSUME PrepAssumption == CommandRepeat \in Nat

\* The constructor; it publishes that the robot is not ready.
Started ==
  [_motion_state |-> "unknown", _mode_acknowledged |-> FALSE, _ready |-> FALSE]

PrepInit ==
  /\ prepUp = TRUE
  /\ _motion_state = Started._motion_state
  /\ _mode_acknowledged = Started._mode_acknowledged
  /\ _ready = Started._ready
  /\ readyTopic = FALSE
  /\ commandAge = CommandRepeat

_publish_ready(ready) == _ready' = ready /\ readyTopic' = ready

-----------------------------------------------------------------------------

_on_motion_state(state) ==
  /\ prepUp
  /\ _motion_state' = state
  /\ IF _ready /\ state # "rl"
     THEN _mode_acknowledged' = FALSE /\ _publish_ready(FALSE)
     ELSE UNCHANGED <<_mode_acknowledged, _ready, readyTopic>>
  /\ UNCHANGED <<prepUp, commandAge>>

\* The text says "result usage_mode" for every answer that was matched by its
\* id, also for one to another command; only one with an error code is refused.
_on_control_result(result) ==
  /\ prepUp
  /\ _mode_acknowledged' = (_mode_acknowledged \/ result \in {"ok", "mismatched"})
  /\ UNCHANGED <<prepUp, _motion_state, _ready, readyTopic, commandAge>>

\* _advance_preparation, when it asks for nothing
Waits ==
  /\ prepUp
  /\ _motion_state # "unknown" /\ _mode_acknowledged
  /\ \/ _motion_state = "rl" /\ ~ _ready /\ _publish_ready(TRUE)
     \/ _motion_state # "rl" /\ commandAge < CommandRepeat /\ _publish_ready(FALSE)
  /\ UNCHANGED <<prepUp, _motion_state, _mode_acknowledged, commandAge>>

Due == commandAge = CommandRepeat

\* (mutated: RL is asked for without standing first)
RequestDueMutant ==
  IF ~ _mode_acknowledged THEN ModeRequest ELSE "rl"

\* _advance_preparation, when it asks for the mode or for the next state
RequestDue ==
  IF ~ _mode_acknowledged THEN ModeRequest
  ELSE IF _motion_state # "stand" THEN "stand" ELSE "rl"

Asks ==
  /\ prepUp
  /\ _motion_state # "unknown" /\ Due
  /\ \/ ~ _mode_acknowledged /\ UNCHANGED <<_ready, readyTopic>>
     \/ _mode_acknowledged /\ _motion_state # "rl" /\ _publish_ready(FALSE)
  /\ commandAge' = 0
  /\ UNCHANGED <<prepUp, _motion_state, _mode_acknowledged>>

PrepAges ==
  /\ commandAge' = IF commandAge < CommandRepeat THEN commandAge + 1 ELSE commandAge
  /\ UNCHANGED <<prepUp, _motion_state, _mode_acknowledged, _ready, readyTopic>>

-----------------------------------------------------------------------------
(* The process.  main withdraws the flag when it is interrupted; a process   *)
(* that dies leaves its last message with those who have received it.        *)

Interrupt ==
  /\ prepUp /\ prepUp' = FALSE
  /\ _publish_ready(FALSE)
  /\ UNCHANGED <<_motion_state, _mode_acknowledged, commandAge>>

Crash ==
  /\ prepUp /\ prepUp' = FALSE
  /\ UNCHANGED <<_motion_state, _mode_acknowledged, _ready, readyTopic, commandAge>>

Restart ==
  /\ ~ prepUp /\ prepUp' = TRUE
  /\ _motion_state' = Started._motion_state
  /\ _mode_acknowledged' = Started._mode_acknowledged
  /\ _publish_ready(FALSE)
  /\ commandAge' = CommandRepeat
=============================================================================
