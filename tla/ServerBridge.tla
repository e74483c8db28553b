---------------------------- MODULE ServerBridge ----------------------------
(***************************************************************************)
(* The bridge from ROS to the basic_server of the robot                    *)
(* (basic_server_bridge_node.cpp over basic_server_client.cpp): two        *)
(* threads.  The ROS callbacks put commands into command_queue_ under      *)
(* control_mutex_; the worker (run) opens the socket, sends heartbeats,    *)
(* drains the queue, stops the robot when velocities stop coming, and      *)
(* receives.  Each section under control_mutex_ is one action, and so is   *)
(* each stretch of the worker that no callback can observe.                *)
(*                                                                         *)
(* Ages replace time stamps: axisAge is now - last_axis_command_time_,     *)
(* heardAge is now - last_received and beatIn is next_heartbeat - now,     *)
(* each counted in ticks and capped just past the limit it is compared     *)
(* with.  The payload of a velocity is whether it moves the robot.         *)
(***************************************************************************)
EXTENDS Integers, Sequences

CONSTANTS
  AxisTimeout,      \* axis_command_timeout_ms, in ticks
  ReplyTimeout,     \* network_disconnect_timeout_ms, in ticks
  HeartbeatPeriod,  \* heartbeat_period_, in ticks
  IdSpace,          \* number of message ids (2^16 in the code)
  Udp,              \* transport: opening a UDP socket needs no server
  Answered,         \* the requests the server answers
  SilentLoss,       \* may a send succeed though the server gets nothing?
  Prompt,           \* does time pass only in poll and sleep?
  Commands,         \* what the callbacks of this instance accept
  MaxQueue,         \* bound: commands waiting in the queue
  MaxOutages        \* bound: failures of the link

VARIABLES
  command_queue_, has_axis_command_, axis_stop_sent_, \* under control_mutex_
  axisAge,            \* age of the last velocity
  running_,           \* cleared by the destructor
  pc,                 \* where the worker is in run()
  batch,              \* the local deque of processQueuedCommands
  late,               \* what `now` of this round says: which limit has passed
  sock,               \* the client's socket; "broken" when the peer reset it
  next_message_id_, pending_commands_,
  heardAge, beatIn,
  link, outages,      \* environment: the network
  asked,              \* environment: requests the server has yet to answer
  wire,               \* environment: the last velocity the server received
  result              \* the last answer published on control_result, if any

shared == <<command_queue_, has_axis_command_, axis_stop_sent_>>
client == <<sock, next_message_id_, pending_commands_>>
network == <<link, outages>>
server == <<asked, wire>>
vars == <<shared, axisAge, running_, pc, batch, late, client, heardAge, beatIn,
          network, server, result>>

Velocities == {"move", "zero"}
Requests == Velocities \cup {"stop", "motion_state", "usage_mode"}
Ids == 0 .. IdSpace - 1
None == "none"

ASSUME BridgeAssumption ==
  /\ AxisTimeout \in Nat /\ ReplyTimeout \in Nat /\ HeartbeatPeriod \in Nat \ {0}
  /\ IdSpace \in Nat \ {0} /\ MaxQueue \in Nat /\ MaxOutages \in Nat
  /\ Udp \in BOOLEAN /\ SilentLoss \in BOOLEAN /\ Prompt \in BOOLEAN
  /\ Answered \subseteq Requests
  /\ Commands \subseteq Requests \ {"stop"}

\* Type and Command of a request: a stop is an axis command.
Operation(request) ==
  IF request \in Velocities \cup {"stop"} THEN "axis" ELSE request

BridgeTypeOK ==
  /\ command_queue_ \in Seq(Commands) /\ batch \in Seq(Commands)
  /\ has_axis_command_ \in BOOLEAN /\ axis_stop_sent_ \in BOOLEAN
  /\ axisAge \in 0 .. AxisTimeout + 1
  /\ running_ \in BOOLEAN
  /\ pc \in {"top", "now", "sleep", "drain", "send", "timeout", "stop", "check",
             "receive", "polled", "done"}
  /\ late \in [axis : BOOLEAN, reply : BOOLEAN]
  /\ sock \in {"closed", "open", "broken"}
  /\ next_message_id_ \in Ids
  /\ pending_commands_ \in [Ids -> Requests \cup {None}]
  /\ heardAge \in 0 .. ReplyTimeout + 1 /\ beatIn \in 0 .. HeartbeatPeriod
  /\ link \in BOOLEAN /\ outages \in Nat
  /\ asked \subseteq [id : Ids, request : Requests]
  /\ wire \in Velocities \cup {None}
  /\ result \subseteq [request : Requests, matched : BOOLEAN]

Init ==
  /\ command_queue_ = <<>> /\ batch = <<>>
  /\ has_axis_command_ = FALSE /\ axis_stop_sent_ = FALSE
  /\ axisAge = AxisTimeout + 1
  /\ running_ = TRUE
  /\ pc = "top"
  /\ late = [axis |-> FALSE, reply |-> FALSE]
  /\ sock = "closed"
  /\ next_message_id_ = 0
  /\ pending_commands_ = [id \in Ids |-> None]
  /\ heardAge = 0 /\ beatIn = 0
  /\ link \in BOOLEAN /\ outages = 0
  /\ asked = {} /\ wire = None /\ result = {}

-----------------------------------------------------------------------------
(* The ROS callbacks: what setAxisCommand and enqueueCommand do under the   *)
(* lock.  Non-finite velocities and unknown modes are refused before it and *)
(* change nothing.                                                          *)

\* (mutated: a new velocity does not withdraw the stop)
setAxisCommandMutant(velocity) ==
  /\ running_
  /\ Len(command_queue_) < MaxQueue
  /\ command_queue_' = Append(command_queue_, velocity)
  /\ axisAge' = 0
  /\ late' = [late EXCEPT !.axis = FALSE]
  /\ has_axis_command_' = TRUE
  /\ UNCHANGED <<axis_stop_sent_, running_, pc, batch, client, heardAge, beatIn, network,
                 server, result>>

setAxisCommand(velocity) ==
  /\ running_
  /\ Len(command_queue_) < MaxQueue
  /\ command_queue_' = Append(command_queue_, velocity)
  /\ axisAge' = 0
  /\ late' = [late EXCEPT !.axis = FALSE]
  /\ has_axis_command_' = TRUE
  /\ axis_stop_sent_' = FALSE
  /\ UNCHANGED <<running_, pc, batch, client, heardAge, beatIn, network, server, result>>

enqueueCommand(request) ==
  /\ running_
  /\ Len(command_queue_) < MaxQueue
  /\ command_queue_' = Append(command_queue_, request)
  /\ UNCHANGED <<has_axis_command_, axis_stop_sent_, axisAge, running_, pc, batch, late,
                 client, heardAge, beatIn, network, server, result>>

\* The destructor: the worker sees it at the top of its next round.
Shutdown ==
  /\ running_
  /\ running_' = FALSE
  /\ UNCHANGED <<shared, axisAge, pc, batch, late, client, heardAge, beatIn, network,
                 server, result>>

-----------------------------------------------------------------------------
(* Sending.  A send that fails has still consumed its id; the answer of the *)
(* server will carry the id.                                                *)

Outcomes ==
  IF link /\ sock = "open" THEN {"delivered"}
  ELSE {"failed"} \cup (IF SilentLoss THEN {"lost"} ELSE {})

IdAfter(n) == (next_message_id_ + n) % IdSpace

\* sendCommand, as the n-th message of an action that begins to send
sendCommand(request, outcome, n) ==
  LET id == IdAfter(n) IN
  /\ next_message_id_' = IdAfter(n + 1)
  /\ pending_commands_' =
       IF outcome = "failed" THEN pending_commands_
       ELSE [pending_commands_ EXCEPT ![id] = request]
  /\ asked' = IF outcome = "delivered" /\ request \in Answered
              THEN asked \cup {[id |-> id, request |-> request]} ELSE asked
  /\ wire' = IF outcome = "delivered" /\ Operation(request) = "axis"
             THEN IF request = "move" THEN "move" ELSE "zero"
             ELSE wire

\* sendZeroAxisCommand followed by close(), after n other messages
ZeroAndClose(n) ==
  /\ IF sock = "closed" THEN UNCHANGED <<next_message_id_, pending_commands_, server>>
     ELSE \E outcome \in Outcomes : sendCommand("stop", outcome, n)
  /\ sock' = "closed"

-----------------------------------------------------------------------------
(* The worker, run()                                                        *)

\* (mutated: last_received is not reset)
OpenSocketMutant ==
  /\ pc = "top" /\ running_ /\ sock = "closed"
  /\ \/ /\ link \/ Udp
        /\ sock' = "open" /\ beatIn' = 0
        /\ pc' = "now"
     \/ /\ ~ link
        /\ pc' = "sleep"
        /\ UNCHANGED <<sock, beatIn>>
  /\ UNCHANGED <<shared, axisAge, running_, batch, late, next_message_id_,
                 pending_commands_, heardAge, network, server, result>>

OpenSocket ==
  /\ pc = "top" /\ running_ /\ sock = "closed"
  /\ \/ /\ link \/ Udp
        /\ sock' = "open" /\ heardAge' = 0 /\ beatIn' = 0
        /\ pc' = "now"
     \/ /\ ~ link
        /\ pc' = "sleep"
        /\ UNCHANGED <<sock, heardAge, beatIn>>
  /\ UNCHANGED <<shared, axisAge, running_, batch, late, next_message_id_,
                 pending_commands_, network, server, result>>

Wake ==
  /\ pc = "sleep"
  /\ pc' = "top"
  /\ UNCHANGED <<shared, axisAge, running_, batch, late, client, heardAge, beatIn, network,
                 server, result>>

\* `now` is read and a heartbeat sent when it is due.
ReadClock ==
  /\ pc = "now" \/ (pc = "top" /\ running_ /\ sock # "closed")
  /\ late' = [axis |-> axisAge > AxisTimeout, reply |-> heardAge > ReplyTimeout]
  /\ \/ /\ beatIn > 0
        /\ pc' = "drain"
        /\ UNCHANGED <<client, server, beatIn>>
     \/ /\ beatIn = 0 /\ Outcomes # {"failed"}
        /\ next_message_id_' = IdAfter(1)
        /\ beatIn' = HeartbeatPeriod
        /\ pc' = "drain"
        /\ UNCHANGED <<sock, pending_commands_, server>>
     \/ /\ beatIn = 0 /\ "failed" \in Outcomes
        /\ ZeroAndClose(1)
        /\ pc' = "top"
        /\ UNCHANGED beatIn
  /\ UNCHANGED <<shared, axisAge, running_, batch, heardAge, network, result>>

\* (mutated: one command is taken in a round)
DrainQueueMutant ==
  /\ pc = "drain"
  /\ batch' = IF command_queue_ = <<>> THEN <<>> ELSE <<Head(command_queue_)>>
  /\ command_queue_' = IF command_queue_ = <<>> THEN <<>> ELSE Tail(command_queue_)
  /\ pc' = IF command_queue_ = <<>> THEN "timeout" ELSE "send"
  /\ UNCHANGED <<has_axis_command_, axis_stop_sent_, axisAge, running_, late, client,
                 heardAge, beatIn, network, server, result>>

\* (mutated: the queue is copied, not swapped)
DrainQueueCopyMutant ==
  /\ pc = "drain"
  /\ batch' = command_queue_
  /\ pc' = IF command_queue_ = <<>> THEN "timeout" ELSE "send"
  /\ UNCHANGED <<shared, axisAge, running_, late, client, heardAge, beatIn, network, server,
                 result>>

\* processQueuedCommands: the swap under the lock
DrainQueue ==
  /\ pc = "drain"
  /\ batch' = command_queue_
  /\ command_queue_' = <<>>
  /\ pc' = IF command_queue_ = <<>> THEN "timeout" ELSE "send"
  /\ UNCHANGED <<has_axis_command_, axis_stop_sent_, axisAge, running_, late, client,
                 heardAge, beatIn, network, server, result>>

\* processQueuedCommands: one turn of its loop; a failed send is not repeated
SendNext ==
  /\ pc = "send"
  /\ \E outcome \in Outcomes : sendCommand(Head(batch), outcome, 0)
  /\ batch' = Tail(batch)
  /\ pc' = IF Tail(batch) = <<>> THEN "timeout" ELSE "send"
  /\ UNCHANGED <<shared, axisAge, running_, late, sock, heardAge, beatIn, network, result>>

\* (mutated: the stop is marked as sent before the age is looked at)
processAxisTimeoutMutant ==
  /\ pc = "timeout"
  /\ axis_stop_sent_' = has_axis_command_
  /\ pc' = IF has_axis_command_ /\ late.axis /\ ~ axis_stop_sent_ THEN "stop" ELSE "check"
  /\ UNCHANGED <<command_queue_, has_axis_command_, axisAge, running_, batch, late, client,
                 heardAge, beatIn, network, server, result>>

\* processAxisTimeout: the decision under the lock
processAxisTimeout ==
  /\ pc = "timeout"
  /\ IF has_axis_command_ /\ late.axis /\ ~ axis_stop_sent_
     THEN axis_stop_sent_' = TRUE /\ pc' = "stop"
     ELSE pc' = "check" /\ UNCHANGED axis_stop_sent_
  /\ UNCHANGED <<command_queue_, has_axis_command_, axisAge, running_, batch, late, client,
                 heardAge, beatIn, network, server, result>>

\* processAxisTimeout: the stop, sent after the lock is released
SendStop ==
  /\ pc = "stop"
  /\ \E outcome \in Outcomes : sendCommand("stop", outcome, 0)
  /\ pc' = "check"
  /\ UNCHANGED <<shared, axisAge, running_, batch, late, sock, heardAge, beatIn, network,
                 result>>

CheckReply ==
  /\ pc = "check"
  /\ \/ /\ late.reply
        /\ ZeroAndClose(0)
        /\ pc' = "top"
     \/ /\ ~ late.reply
        /\ pc' = "receive"
        /\ UNCHANGED <<client, server>>
  /\ UNCHANGED <<shared, axisAge, running_, batch, late, heardAge, beatIn, network, result>>

\* handleFrame of an answer: it is matched by its id, then by its operation.
HandleAnswer(answer) ==
  /\ asked' = asked \ {answer}
  /\ IF pending_commands_[answer.id] = None
     THEN UNCHANGED <<pending_commands_, result>>
     ELSE /\ result' =
               {[request |-> pending_commands_[answer.id],
                 matched |-> Operation(pending_commands_[answer.id]) = Operation(answer.request)]}
          /\ pending_commands_' = [pending_commands_ EXCEPT ![answer.id] = None]

\* A frame arrives: a status report, which is only published, or an answer.
ReceiveFrame ==
  /\ pc \in {"receive", "polled"} /\ link /\ sock = "open"
  /\ \/ UNCHANGED <<asked, pending_commands_, result>>
     \/ \E answer \in asked : HandleAnswer(answer)
  /\ heardAge' = 0
  /\ pc' = "top"
  /\ UNCHANGED <<shared, axisAge, running_, batch, late, sock, next_message_id_, beatIn,
                 network, wire>>

\* poll times out, or a frame is incomplete or not an APDU.
ReceiveNothing ==
  /\ pc \in {"receive", "polled"}
  /\ pc' = "top"
  /\ UNCHANGED <<shared, axisAge, running_, batch, late, client, heardAge, beatIn, network,
                 server, result>>

\* The peer closed the connection or the socket became unavailable; any other
\* error leaves the socket as it is (ReceiveNothing).
ReceiveClosed ==
  /\ pc \in {"receive", "polled"} /\ sock = "broken"
  /\ ZeroAndClose(0)
  /\ pc' = "top"
  /\ UNCHANGED <<shared, axisAge, running_, batch, late, heardAge, beatIn, network, result>>

\* The loop ends: a last stop, then the socket is closed.
Leave ==
  /\ pc = "top" /\ ~ running_
  /\ ZeroAndClose(0)
  /\ pc' = "done"
  /\ UNCHANGED <<shared, axisAge, running_, batch, late, heardAge, beatIn, network, result>>

-----------------------------------------------------------------------------
(* The environment                                                          *)

\* A tick of time.  poll waits at most 20 ms, less than a tick: it returns in
\* the tick in which it began or in the next.
Tick ==
  /\ Prompt => pc \in {"receive", "sleep", "done"}
  /\ pc' = IF pc = "receive" THEN "polled" ELSE pc
  /\ axisAge' = IF axisAge > AxisTimeout THEN axisAge ELSE axisAge + 1
  /\ heardAge' = IF heardAge > ReplyTimeout THEN heardAge ELSE heardAge + 1
  /\ beatIn' = IF beatIn = 0 THEN 0 ELSE beatIn - 1
  /\ UNCHANGED <<shared, running_, batch, late, client, network, server, result>>

\* The link goes down; a TCP connection may be reset by the peer, and with it
\* the answers it had yet to send are lost.
LinkFails ==
  /\ link /\ outages < MaxOutages
  /\ link' = FALSE /\ outages' = outages + 1
  /\ \/ UNCHANGED <<sock, asked>>
     \/ sock = "open" /\ ~ Udp /\ sock' = "broken" /\ asked' = {}
  /\ UNCHANGED <<shared, axisAge, running_, pc, batch, late, next_message_id_,
                 pending_commands_, heardAge, beatIn, wire, result>>

LinkRecovers ==
  /\ ~ link
  /\ link' = TRUE
  /\ UNCHANGED <<shared, axisAge, running_, pc, batch, late, client, heardAge, beatIn,
                 outages, server, result>>

-----------------------------------------------------------------------------

Callback ==
  \/ \E velocity \in Commands \cap Velocities : setAxisCommand(velocity)
  \/ \E request \in Commands \ Velocities : enqueueCommand(request)

Worker ==
  \/ OpenSocket \/ Wake \/ ReadClock \/ DrainQueue \/ SendNext
  \/ processAxisTimeout \/ SendStop \/ CheckReply
  \/ ReceiveFrame \/ ReceiveNothing \/ ReceiveClosed \/ Leave

Next == Callback \/ Shutdown \/ Worker \/ Tick \/ LinkFails \/ LinkRecovers

Spec == Init /\ [][Next]_vars

\* The worker is a running thread, and endlessly many polls take endless time.
FairSpec == Spec /\ WF_vars(Worker) /\ SF_vars(Tick)

-----------------------------------------------------------------------------
(* Properties                                                               *)

IsVelocity(request) == request \in Velocities
HasVelocity(requests) == \E i \in DOMAIN requests : IsVelocity(requests[i])

\* processAxisTimeout reads `now` before the queue is drained: once it has
\* decided to stop the robot, no velocity waits anywhere behind the stop.
NoVelocityBehindStop ==
  axis_stop_sent_ => ~ HasVelocity(command_queue_) /\ ~ HasVelocity(batch)

\* The worker is in the loop over its batch exactly while the batch lasts.
BatchInSend == (pc = "send") <=> (batch # <<>>)

\* What makes it inductive: between the drain and the decision, a `now` that
\* finds the last velocity late has seen no velocity queued since.
StopInv ==
  /\ NoVelocityBehindStop
  /\ pc \in {"send", "timeout"} /\ late.axis => ~ HasVelocity(command_queue_)

\* From the decision to stop until the next velocity is commanded, whatever
\* the threads do in between, nothing the worker sends moves the robot
\* (processQueuedCommands, processAxisTimeout).
StopHolds ==
  [][axis_stop_sent_ /\ wire' = "move" => wire = "move"]_vars

\* Whatever the threads, the link and the clock do, the callers see a channel:
\* commands leave in the order in which they were accepted, each at most once,
\* and the stop is decided only when no velocity waits (setAxisCommand,
\* processQueuedCommands, processAxisTimeout).
Channel == INSTANCE CommandChannel
             WITH waiting <- batch \o command_queue_, stopped <- axis_stop_sent_,
                  Silent <- None
ChannelSpec == Channel!Spec

\* On a link that never fails, the robot is not left moving when velocities
\* stop coming (processAxisTimeout, setAxisCommand).
Silent == axisAge > AxisTimeout
SilenceStops == []link /\ <>[]Silent => <>[](wire # "move")

\* Once the link is up for good, the bridge finds a dead connection dead and
\* goes back to listening on a live one, also after many reconnections (run).
ListensAgain == <>[]link /\ []running_ => []<>(pc = "receive" /\ sock = "open")

\* What the bridge owes over a link, while it is up and after it was down.
LinkIsServed == SilenceStops /\ ListensAgain
=============================================================================
