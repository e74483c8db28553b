------------------------------ MODULE MotionChain ------------------------------
(***************************************************************************)
(* From the selection of a controller to the robot: executor and           *)
(* controllers (environment), M20Adapter, ReadyPrep, the bridge and the    *)
(* robot (environment).  The bridge is the abstract CommandChannel that    *)
(* ServerBridge implements, with the timeout of processAxisTimeout.        *)
(*                                                                         *)
(* A latched topic is a published value and the delivery of it, so a value *)
(* that is soon replaced may never be seen; motion states and results      *)
(* arrive when the environment chooses.  The link to the robot is up: what *)
(* it loses is ServerBridge's subject.                                     *)
(***************************************************************************)
EXTENDS M20Adapter, ReadyPrep, Sequences

CONSTANTS
  AxisTimeout,    \* axis_command_timeout_ms, in ticks
  Scenarios,      \* records [selections, commanding, starts, kinds, faults]:
                  \* what the executor selects, the controllers that publish,
                  \* the motion states the robot starts in, and the kinds and
                  \* number of faults: refusals of requests, falls (the robot
                  \* leaves RL by itself), deaths of the preparation node
  MaxWaiting      \* bound: velocities waiting in the bridge

VARIABLES
  scenario,                  \* chosen at the start
  sourceTopic,               \* the latched selection
  waiting, stopped, wire,    \* the channel
  silence,                   \* age of the last velocity the bridge accepted
  stopDue,                   \* decided, not yet sent
  robot, mode,               \* environment: its motion state and usage mode
  results,                   \* control results that have not arrived
  faults

channel == <<waiting, stopped, wire, silence, stopDue>>
world == <<scenario, robot, mode, results, faults>>
vars == <<adapter, prep, sourceTopic, channel, world>>

Velocities == {"move", "zero"}
Never == -1
Bridge == INSTANCE CommandChannel
            WITH Commands <- Velocities \cup StateRequests \cup {ModeRequest},
                 Silent <- "none"

ASSUME ChainAssumption ==
  /\ {AxisTimeout, MaxWaiting} \subseteq Nat
  /\ Scenarios \subseteq
       [selections: SUBSET AdapterSources, commanding: SUBSET Controllers,
        starts: SUBSET MotionStates,
        kinds: SUBSET {"refusal", "fall", "death"}, faults: Nat]

Init ==
  /\ AdapterInit /\ PrepInit
  /\ sourceTopic = "none"
  /\ Bridge!Init
  /\ silence = Never /\ stopDue = FALSE
  /\ scenario \in Scenarios
  /\ robot \in scenario.starts /\ mode = "other"
  /\ results = {}
  /\ faults = 0

Fault(kind) ==
  /\ kind \in scenario.kinds /\ faults < scenario.faults
  /\ faults' = faults + 1

-----------------------------------------------------------------------------
(* Executor and controllers *)

Select(source) ==
  /\ sourceTopic' = source
  /\ UNCHANGED <<adapter, prep, channel, world>>

Command(c, velocity) ==
  /\ commandCallback(c, velocity)
  /\ UNCHANGED <<prep, sourceTopic, channel, world>>

-----------------------------------------------------------------------------
(* The adapter *)

ReceiveSource ==
  /\ sourceCallback(sourceTopic)
  /\ UNCHANGED <<prep, sourceTopic, channel, world>>

ReceiveReady ==
  /\ readyCallback(readyTopic)
  /\ UNCHANGED <<prep, sourceTopic, channel, world>>

ReportToAdapter ==
  /\ motionStateCallback(robot)
  /\ UNCHANGED <<prep, sourceTopic, channel, world>>

\* (mutated: zero is also published while nothing is selected)
tickMutant ==
  /\ Len(waiting) < MaxWaiting
  /\ Bridge!Accept(selected)
  /\ silence' = 0
  /\ UNCHANGED <<stopDue, adapter, prep, sourceTopic, world>>

\* A tick that publishes, and the callback of the bridge that hears it
tick ==
  /\ ~ output_released /\ Len(waiting) < MaxWaiting
  /\ Bridge!Accept(selected)
  /\ silence' = 0
  /\ UNCHANGED <<stopDue, adapter, prep, sourceTopic, world>>

-----------------------------------------------------------------------------
(* The preparation node *)

ReportToPrep ==
  /\ _on_motion_state(robot)
  /\ UNCHANGED <<adapter, sourceTopic, channel, world>>

ReceiveResult(result) ==
  /\ result \in results
  /\ _on_control_result(result)
  /\ results' = results \ {result}
  /\ UNCHANGED <<scenario, adapter, sourceTopic, channel, robot, mode, faults>>

PrepWaits == Waits /\ UNCHANGED <<adapter, sourceTopic, channel, world>>

PrepAsks ==
  /\ Len(waiting) <= MaxWaiting
  /\ Asks
  /\ Bridge!Accept(RequestDue)
  /\ UNCHANGED <<silence, stopDue, adapter, sourceTopic, world>>

PrepEnds ==
  /\ Fault("death")
  /\ Crash \/ Interrupt
  /\ UNCHANGED <<scenario, adapter, sourceTopic, channel, robot, mode, results>>

PrepRestarts == Restart /\ UNCHANGED <<adapter, sourceTopic, channel, world>>

-----------------------------------------------------------------------------
(* The bridge and the robot *)

\* What the robot does with a request it does not refuse
Obey(request) ==
  /\ robot' = CASE request = "stand"                  -> "stand"
               [] request = "rl" /\ robot = "stand" -> "rl"
               [] OTHER                              -> robot
  /\ mode' = IF request = ModeRequest THEN "normal" ELSE mode

Answer(request, result) ==
  results' = IF request = ModeRequest THEN results \cup {result} ELSE results

Refuse(request) ==
  /\ Fault("refusal")
  /\ UNCHANGED <<robot, mode>>
  /\ Answer(request, "error") \/ UNCHANGED results

Serve(request) == Obey(request) /\ Answer(request, "ok") /\ UNCHANGED faults

Send ==
  /\ ~ stopDue
  /\ Bridge!Take
  /\ IF Head(waiting) \in Velocities THEN wire' = Head(waiting) /\ UNCHANGED world
     ELSE /\ UNCHANGED scenario
          /\ Serve(Head(waiting)) \/ Refuse(Head(waiting))
  /\ UNCHANGED <<adapter, prep, sourceTopic, silence, stopDue>>

\* (mutated: the bridge does not watch over the age of the last velocity)
TimedOutMutant == FALSE
TimedOut == silence > AxisTimeout

DecideToStop ==
  /\ TimedOut /\ ~ stopped
  /\ Bridge!Decide
  /\ stopDue' = TRUE
  /\ UNCHANGED <<silence, adapter, prep, sourceTopic, world>>

SendStop ==
  /\ stopDue
  /\ Bridge!Stop
  /\ stopDue' = FALSE
  /\ UNCHANGED <<silence, adapter, prep, sourceTopic, world>>

\* The robot falls, is stopped by its own protection, or is taken over.
LeaveRl ==
  /\ robot = "rl" /\ Fault("fall")
  /\ robot' \in {"other", "stand"} /\ mode' \in {mode, "other"}
  /\ UNCHANGED <<scenario, adapter, prep, sourceTopic, channel, results>>

Clock ==
  /\ AdapterAges /\ PrepAges
  /\ silence' = IF silence \in {Never, AxisTimeout + 1} THEN silence ELSE silence + 1
  /\ UNCHANGED <<sourceTopic, waiting, stopped, wire, stopDue, world>>

-----------------------------------------------------------------------------

Deliver ==
  \/ ReceiveSource \/ ReceiveReady \/ ReportToAdapter \/ ReportToPrep
  \/ \E result \in Results : ReceiveResult(result)

Prep == PrepWaits \/ PrepAsks

Bridging == Send \/ DecideToStop \/ SendStop

Next ==
  \/ \E source \in scenario.selections : Select(source)
  \/ \E c \in scenario.commanding, velocity \in AdapterCommands : Command(c, velocity)
  \/ Deliver \/ tick \/ Prep \/ PrepEnds \/ PrepRestarts
  \/ Bridging \/ LeaveRl \/ Clock

Spec == Init /\ [][Next]_vars

\* Published messages arrive, timers fire and threads run.  Nothing is assumed
\* of executor, controllers and faults; reports to the adapter may cease.
FairSpec ==
  /\ Spec
  /\ WF_vars(ReceiveSource) /\ WF_vars(ReceiveReady) /\ WF_vars(ReportToPrep)
  /\ WF_vars(\E result \in Results : ReceiveResult(result))
  /\ WF_vars(tick) /\ WF_vars(Prep) /\ WF_vars(Bridging) /\ WF_vars(Clock)

-----------------------------------------------------------------------------
(* Properties *)

\* Once nothing is selected for good the robot stands, though the adapter says
\* nothing more, not even zero (tick): the timeout of the bridge stops it.  Then
\* the bridge falls silent too, so that the physical remote control is not
\* overridden (comments in tick and processAxisTimeout).
ReleaseHandsOver ==
  <>[](sourceTopic = "none") =>
    <>[](wire # "move") /\ <>[][~ SendStop /\ ~ tick]_vars

\* Whatever else goes on, and also when the preparation node has died and left
\* its flag behind, the robot is not left moving once the selected controller
\* says nothing, or once no motion state comes (tick).
Unheard(c) == sourceTopic = c /\ command_age[c] > CommandTimeout
SilentInputsStop ==
  /\ \A c \in Controllers : <>[]Unheard(c) => <>[](wire # "move")
  /\ <>[](state_age > StateTimeout) => <>[](wire # "move")

\* Nobody has to command zero: whoever falls silent, the robot ends up standing.
SilenceEndsMotion == ReleaseHandsOver /\ SilentInputsStop

\* However often requests are refused, the node dies or the robot leaves RL,
\* a preparation that keeps running has the robot ready in the end.
PreparedAgain == <>[]prepUp => <>[](readyTopic /\ robot = "rl")

-----------------------------------------------------------------------------
(* Scenarios *)

\* A robot that is driven while the preparation node may die, and a robot that
\* has to be prepared while requests are refused, it falls and the node dies,
\* twice in all.
Driving ==
  [selections |-> {"none", "pid", "safety_hold"}, commanding |-> {"pid"},
   starts |-> {"rl"}, kinds |-> {"death"}, faults |-> 1]
Preparing ==
  [selections |-> {"none"}, commanding |-> {}, starts |-> {"rl", "stand", "other"},
   kinds |-> {"refusal", "fall", "death"}, faults |-> 2]

BothScenarios == {Driving, Preparing}
=============================================================================
