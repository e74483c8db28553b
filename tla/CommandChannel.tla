---------------------------- MODULE CommandChannel ----------------------------
(***************************************************************************)
(* What the bridge promises its callers, without threads, sockets or the   *)
(* clock: a queue of commands that reaches the robot in order and at most  *)
(* once, and a stop that overtakes nothing.  ("Each received Twist is      *)
(* forwarded once to M20": basic_server_bridge.yaml.)                      *)
(***************************************************************************)
EXTENDS Sequences

CONSTANTS Commands,    \* what the callers send
          Velocities,  \* those that set the velocity of the robot
          Silent       \* the robot has not been told anything yet

VARIABLES
  waiting,   \* accepted commands, oldest first
  stopped,   \* the bridge has decided to stop the robot
  wire       \* the last velocity the robot was told

vars == <<waiting, stopped, wire>>

Init == waiting = <<>> /\ stopped = FALSE /\ wire = Silent

\* A caller commands; a velocity withdraws the stop.
Accept(request) ==
  /\ waiting' = Append(waiting, request)
  /\ stopped' = (stopped /\ request \notin Velocities)
  /\ UNCHANGED wire

\* The oldest command leaves: it reaches the robot, or it is lost for good.
Take ==
  /\ waiting # <<>>
  /\ waiting' = Tail(waiting)
  /\ wire' \in {wire} \cup ({Head(waiting)} \cap Velocities)
  /\ UNCHANGED stopped

\* The bridge may only give the robot up when no velocity waits for it.
Decide ==
  /\ \A i \in DOMAIN waiting : waiting[i] \notin Velocities
  /\ stopped' = TRUE
  /\ UNCHANGED <<waiting, wire>>

\* It may tell the robot to stand still at any time.
Stop == wire' = "zero" /\ UNCHANGED <<waiting, stopped>>

Next == (\E request \in Commands : Accept(request)) \/ Take \/ Decide \/ Stop

Spec == Init /\ [][Next]_vars
=============================================================================
