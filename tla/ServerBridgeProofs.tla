------------------------- MODULE ServerBridgeProofs -------------------------
(***************************************************************************)
(* What holds of the bridge for every timeout, every number of message     *)
(* ids, every bound on the queue, every behaviour of the link and every    *)
(* interleaving of its two threads; and of its byte stream, for all frames *)
(* and however the network cuts them.                                      *)
(***************************************************************************)
EXTENDS ServerBridge, ApduStream, ManualVelocity, SequenceTheorems, TLAPS

\* Message ids stay in their range.
LEMMA IdAfterType ==
  ASSUME next_message_id_ \in Ids, NEW n \in Nat
  PROVE  IdAfter(n) \in Ids
<1>1. IdSpace \in Nat /\ IdSpace > 0
  BY BridgeAssumption
<1>2. next_message_id_ + n \in Int
  BY <1>1 DEF Ids
<1> HIDE DEF Ids
<1>3. (next_message_id_ + n) % IdSpace \in 0 .. IdSpace - 1
  BY <1>1, <1>2
<1> QED  BY <1>3 DEF IdAfter, Ids

\* Sending a request keeps the types of the client and of what the server saw.
LEMMA SendType ==
  ASSUME BridgeTypeOK, NEW request \in Requests, NEW outcome, NEW n \in Nat,
         sendCommand(request, outcome, n)
  PROVE  /\ next_message_id_' \in Ids
         /\ pending_commands_' \in [Ids -> Requests \cup {None}]
         /\ asked' \subseteq [id : Ids, request : Requests]
         /\ wire' \in Velocities \cup {None}
<1> DEFINE id == IdAfter(n)
<1>1. id \in Ids /\ IdAfter(n + 1) \in Ids
  BY IdAfterType DEF BridgeTypeOK
<1> HIDE DEF id
<1>2. next_message_id_' = IdAfter(n + 1)
  BY DEF sendCommand
<1>3. pending_commands_' =
        IF outcome = "failed" THEN pending_commands_
        ELSE [pending_commands_ EXCEPT ![id] = request]
  BY DEF sendCommand, id
<1>4. asked' = IF outcome = "delivered" /\ request \in Answered
               THEN asked \cup {[id |-> id, request |-> request]} ELSE asked
  BY DEF sendCommand, id
<1>5. wire' = IF outcome = "delivered" /\ Operation(request) = "axis"
              THEN IF request = "move" THEN "move" ELSE "zero" ELSE wire
  BY DEF sendCommand
<1>6. pending_commands_' \in [Ids -> Requests \cup {None}]
  BY <1>1, <1>3 DEF BridgeTypeOK
<1>7. asked' \subseteq [id : Ids, request : Requests]
  BY <1>1, <1>4 DEF BridgeTypeOK
<1>8. wire' \in Velocities \cup {None}
  BY <1>5 DEF BridgeTypeOK, Velocities
<1> QED  BY <1>1, <1>2, <1>6, <1>7, <1>8

\* A last stop before the socket is closed never sets the robot moving.
LEMMA StopSends ==
  ASSUME NEW outcome, NEW n \in Nat, sendCommand("stop", outcome, n)
  PROVE  wire' \in {wire, "zero"}
BY DEF sendCommand

LEMMA ZeroAndCloseType ==
  ASSUME BridgeTypeOK, NEW n \in Nat, ZeroAndClose(n)
  PROVE  /\ next_message_id_' \in Ids
         /\ pending_commands_' \in [Ids -> Requests \cup {None}]
         /\ asked' \subseteq [id : Ids, request : Requests]
         /\ wire' \in Velocities \cup {None}
         /\ sock' = "closed"
         /\ wire' \in {wire, "zero"}
<1>1. sock' = "closed"
  BY DEF ZeroAndClose
<1>2. CASE sock = "closed"
  <2>1. UNCHANGED <<next_message_id_, pending_commands_, asked, wire>>
    BY <1>2 DEF ZeroAndClose, server
  <2> QED  BY <1>1, <2>1 DEF BridgeTypeOK
<1>3. CASE sock # "closed"
  <2>1. PICK outcome \in Outcomes : sendCommand("stop", outcome, n)
    BY <1>3 DEF ZeroAndClose
  <2>2. "stop" \in Requests
    BY DEF Requests
  <2> QED  BY <1>1, <2>1, <2>2, SendType, StopSends
<1> QED  BY <1>2, <1>3

-----------------------------------------------------------------------------
(* Types *)

\* What the callbacks accept and what the queue holds are requests.
LEMMA CommandsAreRequests == Commands \subseteq Requests
BY BridgeAssumption

LEMMA InitType == Init => BridgeTypeOK
<1> SUFFICES ASSUME Init PROVE BridgeTypeOK
  OBVIOUS
<1>1. AxisTimeout + 1 \in 0 .. AxisTimeout + 1 /\ 0 \in 0 .. ReplyTimeout + 1
      /\ 0 \in 0 .. HeartbeatPeriod /\ 0 \in Ids
  BY BridgeAssumption DEF Ids
<1>2. <<>> \in Seq(Commands)
  OBVIOUS
<1>3. pending_commands_ \in [Ids -> Requests \cup {None}]
  BY DEF Init
<1> QED  BY <1>1, <1>2, <1>3 DEF Init, BridgeTypeOK

\* Every step keeps the types: callbacks, worker, time and the link.
LEMMA NextType == BridgeTypeOK /\ BatchInSend /\ [Next]_vars => BridgeTypeOK'
<1> SUFFICES ASSUME BridgeTypeOK, BatchInSend, [Next]_vars PROVE BridgeTypeOK'
  OBVIOUS
<1> USE DEF shared, client, network, server
<1>1. ASSUME NEW velocity \in Commands \cap Velocities, setAxisCommand(velocity)
      PROVE  BridgeTypeOK'
  <2>1. command_queue_' \in Seq(Commands)
    BY <1>1 DEF setAxisCommand, BridgeTypeOK
  <2>2. 0 \in 0 .. AxisTimeout + 1
    BY BridgeAssumption
  <2>3. late' \in [axis : BOOLEAN, reply : BOOLEAN]
    BY <1>1 DEF setAxisCommand, BridgeTypeOK
  <2> QED  BY <1>1, <2>1, <2>2, <2>3 DEF setAxisCommand, BridgeTypeOK
<1>2. ASSUME NEW request \in Commands \ Velocities, enqueueCommand(request)
      PROVE  BridgeTypeOK'
  <2>1. command_queue_' \in Seq(Commands)
    BY <1>2 DEF enqueueCommand, BridgeTypeOK
  <2> QED  BY <1>2, <2>1 DEF enqueueCommand, BridgeTypeOK
<1>3. CASE Shutdown
  BY <1>3, ZenonT(30) DEF Shutdown, BridgeTypeOK
<1>4. CASE OpenSocket
  <2>1. 0 \in 0 .. ReplyTimeout + 1 /\ 0 \in 0 .. HeartbeatPeriod
    BY BridgeAssumption
  <2> QED  BY <1>4, <2>1 DEF OpenSocket, BridgeTypeOK
<1>5. CASE Wake
  BY <1>5 DEF Wake, BridgeTypeOK
<1>6. CASE ReadClock
  <2>1. late' \in [axis : BOOLEAN, reply : BOOLEAN]
    BY <1>6 DEF ReadClock, BridgeTypeOK
  <2>2. CASE beatIn > 0 /\ pc' = "drain" /\ UNCHANGED <<client, server, beatIn>>
    BY <1>6, <2>1, <2>2 DEF ReadClock, BridgeTypeOK
  <2>3. CASE /\ next_message_id_' = IdAfter(1) /\ beatIn' = HeartbeatPeriod
             /\ pc' = "drain" /\ UNCHANGED <<sock, pending_commands_, server>>
    <3>1. next_message_id_' \in Ids /\ beatIn' \in 0 .. HeartbeatPeriod
      BY <2>3, IdAfterType, BridgeAssumption DEF BridgeTypeOK
    <3> QED  BY <1>6, <2>1, <2>3, <3>1 DEF ReadClock, BridgeTypeOK
  <2>4. CASE ZeroAndClose(1) /\ pc' = "top" /\ UNCHANGED beatIn
    <3>1. /\ next_message_id_' \in Ids
          /\ pending_commands_' \in [Ids -> Requests \cup {None}]
          /\ asked' \subseteq [id : Ids, request : Requests]
          /\ wire' \in Velocities \cup {None} /\ sock' = "closed"
      BY <2>4, ZeroAndCloseType
    <3> QED  BY <1>6, <2>1, <2>4, <3>1 DEF ReadClock, BridgeTypeOK
  <2> QED  BY <1>6, <2>2, <2>3, <2>4 DEF ReadClock
<1>7. CASE DrainQueue
  BY <1>7 DEF DrainQueue, BridgeTypeOK
<1>8. CASE SendNext
  <2>1. Head(batch) \in Requests /\ Tail(batch) \in Seq(Commands)
    BY <1>8, CommandsAreRequests DEF SendNext, BridgeTypeOK, BatchInSend
  <2>2. PICK outcome \in Outcomes : sendCommand(Head(batch), outcome, 0)
    BY <1>8 DEF SendNext
  <2>3. /\ next_message_id_' \in Ids
        /\ pending_commands_' \in [Ids -> Requests \cup {None}]
        /\ asked' \subseteq [id : Ids, request : Requests]
        /\ wire' \in Velocities \cup {None}
    BY <2>1, <2>2, SendType
  <2> QED  BY <1>8, <2>1, <2>3 DEF SendNext, BridgeTypeOK
<1>9. CASE processAxisTimeout
  BY <1>9 DEF processAxisTimeout, BridgeTypeOK
<1>10. CASE SendStop
  <2>1. PICK outcome \in Outcomes : sendCommand("stop", outcome, 0)
    BY <1>10 DEF SendStop
  <2>2. /\ next_message_id_' \in Ids
        /\ pending_commands_' \in [Ids -> Requests \cup {None}]
        /\ asked' \subseteq [id : Ids, request : Requests]
        /\ wire' \in Velocities \cup {None}
    BY <2>1, SendType DEF Requests
  <2> QED  BY <1>10, <2>2 DEF SendStop, BridgeTypeOK
<1>11. CASE CheckReply
  <2>1. CASE ZeroAndClose(0) /\ pc' = "top"
    <3>1. /\ next_message_id_' \in Ids
          /\ pending_commands_' \in [Ids -> Requests \cup {None}]
          /\ asked' \subseteq [id : Ids, request : Requests]
          /\ wire' \in Velocities \cup {None} /\ sock' = "closed"
      BY <2>1, ZeroAndCloseType
    <3> QED  BY <1>11, <2>1, <3>1 DEF CheckReply, BridgeTypeOK
  <2>2. CASE pc' = "receive" /\ UNCHANGED <<client, server>>
    BY <1>11, <2>2 DEF CheckReply, BridgeTypeOK
  <2> QED  BY <1>11, <2>1, <2>2 DEF CheckReply
<1>12. CASE ReceiveFrame
  <2>1. CASE UNCHANGED <<asked, pending_commands_, result>>
    <3>1. 0 \in 0 .. ReplyTimeout + 1
      BY BridgeAssumption
    <3> QED  BY <1>12, <2>1, <3>1 DEF ReceiveFrame, BridgeTypeOK
  <2>2. ASSUME NEW answer \in asked, HandleAnswer(answer) PROVE BridgeTypeOK'
    <3>1. 0 \in 0 .. ReplyTimeout + 1
      BY BridgeAssumption
    <3>2. answer.id \in Ids
      BY DEF BridgeTypeOK
    <3>3. asked' \subseteq [id : Ids, request : Requests]
      BY <2>2 DEF HandleAnswer, BridgeTypeOK
    <3>4. pending_commands_' \in [Ids -> Requests \cup {None}]
      BY <2>2, <3>2 DEF HandleAnswer, BridgeTypeOK
    <3>5. result' \subseteq [request : Requests, matched : BOOLEAN]
      <4>1. CASE pending_commands_[answer.id] = None
        BY <2>2, <4>1 DEF HandleAnswer, BridgeTypeOK
      <4>2. CASE pending_commands_[answer.id] # None
        <5> DEFINE request == pending_commands_[answer.id]
                   matched == Operation(request) = Operation(answer.request)
        <5>1. request \in Requests
          BY <3>2, <4>2 DEF BridgeTypeOK
        <5>2. result' = {[request |-> request, matched |-> matched]}
          BY <2>2, <4>2 DEF HandleAnswer
        <5>3. matched \in BOOLEAN
          OBVIOUS
        <5> HIDE DEF request, matched
        <5> QED  BY <5>1, <5>2, <5>3
      <4> QED  BY <4>1, <4>2
    <3> QED  BY <1>12, <3>1, <3>3, <3>4, <3>5 DEF ReceiveFrame, BridgeTypeOK
  <2> QED  BY <1>12, <2>1, <2>2 DEF ReceiveFrame
<1>13. CASE ReceiveNothing
  BY <1>13 DEF ReceiveNothing, BridgeTypeOK
<1>14. CASE ReceiveClosed \/ Leave
  <2>1. ZeroAndClose(0)
    BY <1>14 DEF ReceiveClosed, Leave
  <2>2. /\ next_message_id_' \in Ids
        /\ pending_commands_' \in [Ids -> Requests \cup {None}]
        /\ asked' \subseteq [id : Ids, request : Requests]
        /\ wire' \in Velocities \cup {None} /\ sock' = "closed"
    BY <2>1, ZeroAndCloseType
  <2> QED  BY <1>14, <2>2 DEF ReceiveClosed, Leave, BridgeTypeOK
<1>15. CASE Tick
  <2>1. /\ axisAge' \in 0 .. AxisTimeout + 1 /\ heardAge' \in 0 .. ReplyTimeout + 1
        /\ beatIn' \in 0 .. HeartbeatPeriod
    BY <1>15, BridgeAssumption DEF Tick, BridgeTypeOK
  <2> QED  BY <1>15, <2>1 DEF Tick, BridgeTypeOK
<1>16. CASE LinkFails \/ LinkRecovers
  <2>1. link' \in BOOLEAN /\ outages' \in Nat
    <3>1. outages \in Nat
      BY DEF BridgeTypeOK
    <3>2. CASE LinkFails
      <4>1. link' \in BOOLEAN
        BY <3>2 DEF LinkFails
      <4>2. outages' = outages + 1
        BY <3>2 DEF LinkFails
      <4>3. outages' \in Nat
        BY <3>1, <4>2
      <4> QED  BY <4>1, <4>3
    <3>3. CASE LinkRecovers
      <4>1. link' = TRUE /\ outages' = outages
        BY <3>3 DEF LinkRecovers
      <4> QED  BY <3>1, <4>1
    <3> QED  BY <1>16, <3>2, <3>3
  <2>2. sock' \in {"closed", "open", "broken"} /\ asked' \subseteq [id : Ids, request : Requests]
    BY <1>16 DEF LinkFails, LinkRecovers, BridgeTypeOK
  <2>3. UNCHANGED <<shared, axisAge, running_, pc, batch, late, next_message_id_,
                    pending_commands_, heardAge, beatIn, wire, result>>
    BY <1>16 DEF LinkFails, LinkRecovers
  <2> QED  BY <2>1, <2>2, <2>3 DEF BridgeTypeOK
<1>17. CASE UNCHANGED vars
  BY <1>17 DEF vars, BridgeTypeOK
<1> QED  BY <1>1, <1>2, <1>3, <1>4, <1>5, <1>6, <1>7, <1>8, <1>9, <1>10, <1>11, <1>12,
            <1>13, <1>14, <1>15, <1>16, <1>17 DEF Next, Callback, Worker

\* The batch is empty outside the loop that sends it.
LEMMA NextBatch == BridgeTypeOK /\ BatchInSend /\ [Next]_vars => BatchInSend'
<1> SUFFICES ASSUME BridgeTypeOK, BatchInSend, [Next]_vars PROVE BatchInSend'
  OBVIOUS
<1> USE DEF BatchInSend
<1>1. CASE Callback
  BY <1>1 DEF Callback, setAxisCommand, enqueueCommand
<1>2. CASE Worker
  BY <1>2 DEF Worker, OpenSocket, Wake, ReadClock, DrainQueue, SendNext, processAxisTimeout,
     SendStop, CheckReply, ReceiveFrame, ReceiveNothing, ReceiveClosed, Leave
<1>3. CASE Shutdown \/ Tick \/ LinkFails \/ LinkRecovers
  BY <1>3 DEF Shutdown, Tick, LinkFails, LinkRecovers
<1>4. CASE UNCHANGED vars
  BY <1>4 DEF vars
<1> QED  BY <1>1, <1>2, <1>3, <1>4 DEF Next

\* Every reachable state of the bridge is well typed: ids stay within 16 bits,
\* ages within their limits, and the worker never sends from an empty batch.
THEOREM BridgeTypeCorrect == Spec => [](BridgeTypeOK /\ BatchInSend)
<1>1. Init => BridgeTypeOK /\ BatchInSend
  BY InitType DEF Init, BatchInSend
<1>2. BridgeTypeOK /\ BatchInSend /\ [Next]_vars => BridgeTypeOK' /\ BatchInSend'
  BY NextType, NextBatch
<1> QED  BY <1>1, <1>2, PTL DEF Spec

-----------------------------------------------------------------------------
(* The stop *)

\* A request other than a velocity adds none to a queue, and what is left of a
\* batch without velocities has none.
LEMMA NoVelocityAppend ==
  ASSUME NEW queue \in Seq(Commands), NEW request \in Commands \ Velocities,
         ~ HasVelocity(queue)
  PROVE  ~ HasVelocity(Append(queue, request))
BY DEF HasVelocity, IsVelocity

LEMMA NoVelocityTail ==
  ASSUME NEW queue \in Seq(Commands), queue # <<>>, ~ HasVelocity(queue)
  PROVE  ~ HasVelocity(Tail(queue)) /\ ~ IsVelocity(Head(queue))
<1>1. Len(queue) \in Nat /\ Len(queue) > 0 /\ Head(queue) = queue[1]
  OBVIOUS
<1>2. ~ IsVelocity(Head(queue))
  BY <1>1 DEF HasVelocity
<1>3. ASSUME NEW i \in DOMAIN Tail(queue) PROVE ~ IsVelocity(Tail(queue)[i])
  <2>1. i + 1 \in DOMAIN queue /\ Tail(queue)[i] = queue[i + 1]
    BY <1>1
  <2> QED  BY <2>1 DEF HasVelocity
<1> QED  BY <1>2, <1>3 DEF HasVelocity

LEMMA NoVelocityEmpty == ~ HasVelocity(<<>>)
BY DEF HasVelocity

\* StopInv is inductive.  Only a new velocity, a drain, the decision and a new
\* `now` touch it.
LEMMA NextStop == BridgeTypeOK /\ BatchInSend /\ StopInv /\ [Next]_vars => StopInv'
<1> SUFFICES ASSUME BridgeTypeOK, BatchInSend, StopInv, [Next]_vars PROVE StopInv'
  OBVIOUS
<1> USE DEF shared, StopInv, NoVelocityBehindStop
<1>1. ASSUME NEW velocity \in Commands \cap Velocities, setAxisCommand(velocity)
      PROVE  StopInv'
  <2>1. late'.axis = FALSE /\ axis_stop_sent_' = FALSE
    BY <1>1 DEF setAxisCommand, BridgeTypeOK
  <2> QED  BY <2>1
<1>2. ASSUME NEW request \in Commands \ Velocities, enqueueCommand(request)
      PROVE  StopInv'
  <2>1. command_queue_' = Append(command_queue_, request) /\ command_queue_ \in Seq(Commands)
    BY <1>2 DEF enqueueCommand, BridgeTypeOK
  <2>2. ~ HasVelocity(command_queue_) => ~ HasVelocity(command_queue_')
    BY <2>1, NoVelocityAppend
  <2> QED  BY <1>2, <2>2 DEF enqueueCommand
<1>3. CASE DrainQueue
  <2>1. ~ HasVelocity(command_queue_')
    BY <1>3, NoVelocityEmpty DEF DrainQueue
  <2>2. axis_stop_sent_' => ~ HasVelocity(batch')
    BY <1>3 DEF DrainQueue
  <2> QED  BY <2>1, <2>2
<1>4. CASE SendNext
  <2>1. batch \in Seq(Commands) /\ batch # <<>>
    BY <1>4 DEF SendNext, BatchInSend, BridgeTypeOK
  <2>2. ~ HasVelocity(batch) => ~ HasVelocity(batch')
    BY <1>4, <2>1, NoVelocityTail DEF SendNext
  <2> QED  BY <1>4, <2>2 DEF SendNext
<1>5. CASE processAxisTimeout
  <2>1. batch' = <<>> /\ batch = <<>>
    BY <1>5 DEF processAxisTimeout, BatchInSend
  <2>2. ~ HasVelocity(batch')
    BY <2>1, NoVelocityEmpty
  <2> QED  BY <1>5, <2>2 DEF processAxisTimeout
<1>6. CASE OpenSocket \/ Wake \/ ReadClock \/ SendStop \/ CheckReply \/ ReceiveFrame
           \/ ReceiveNothing \/ ReceiveClosed \/ Leave
  BY <1>6 DEF OpenSocket, Wake, ReadClock, SendStop, CheckReply, ReceiveFrame,
     ReceiveNothing, ReceiveClosed, Leave
<1>7. CASE Shutdown \/ Tick \/ LinkFails \/ LinkRecovers
  BY <1>7 DEF Shutdown, Tick, LinkFails, LinkRecovers
<1>8. CASE UNCHANGED vars
  BY <1>8 DEF vars
<1> QED  BY <1>1, <1>2, <1>3, <1>4, <1>5, <1>6, <1>7, <1>8 DEF Next, Callback, Worker

\* For any timeouts and any interleaving, no velocity waits behind a stop.
THEOREM StopCorrect == Spec => []NoVelocityBehindStop
<1>1. Init => StopInv
  BY NoVelocityEmpty DEF Init, StopInv, NoVelocityBehindStop
<1>2. BridgeTypeOK /\ BatchInSend /\ StopInv /\ [Next]_vars => StopInv'
  BY NextStop
<1>3. StopInv => NoVelocityBehindStop
  BY DEF StopInv
<1> QED  BY <1>1, <1>2, <1>3, BridgeTypeCorrect, PTL DEF Spec

\* While the stop is in force no step of any thread sets the robot moving.
LEMMA StopStep ==
  BridgeTypeOK /\ BatchInSend /\ NoVelocityBehindStop /\ [Next]_vars
    => [axis_stop_sent_ /\ wire' = "move" => wire = "move"]_vars
<1> SUFFICES ASSUME BridgeTypeOK, BatchInSend, NoVelocityBehindStop, [Next]_vars,
                    axis_stop_sent_, wire' = "move"
             PROVE  wire = "move"
  OBVIOUS
<1> USE DEF server, client
<1>1. CASE SendNext
  <2>1. batch \in Seq(Commands) /\ batch # <<>>
    BY <1>1 DEF SendNext, BatchInSend, BridgeTypeOK
  <2>2. ~ IsVelocity(Head(batch))
    BY <2>1, NoVelocityTail DEF NoVelocityBehindStop
  <2>3. PICK outcome \in Outcomes : sendCommand(Head(batch), outcome, 0)
    BY <1>1 DEF SendNext
  <2>4. wire' \in {wire, "zero"}
    BY <2>2, <2>3 DEF sendCommand, IsVelocity, Velocities
  <2> QED  BY <2>4
<1>2. CASE SendStop
  BY <1>2, StopSends DEF SendStop
<1>3. CASE ReadClock \/ CheckReply \/ ReceiveClosed \/ Leave
  <2>1. ASSUME NEW n \in Nat, ZeroAndClose(n) PROVE wire' \in {wire, "zero"}
    BY <2>1, ZeroAndCloseType
  <2> QED  BY <1>3, <2>1 DEF ReadClock, CheckReply, ReceiveClosed, Leave
<1>4. CASE OpenSocket \/ Wake \/ DrainQueue \/ processAxisTimeout \/ ReceiveFrame
           \/ ReceiveNothing
  BY <1>4 DEF OpenSocket, Wake, DrainQueue, processAxisTimeout, ReceiveFrame, ReceiveNothing
<1>5. CASE Callback \/ Shutdown \/ Tick \/ LinkFails \/ LinkRecovers
  BY <1>5 DEF Callback, setAxisCommand, enqueueCommand, Shutdown, Tick, LinkFails, LinkRecovers
<1>6. CASE UNCHANGED vars
  BY <1>6 DEF vars
<1> QED  BY <1>1, <1>2, <1>3, <1>4, <1>5, <1>6 DEF Next, Worker

\* For any timeouts and any interleaving, once the bridge has decided to stop the
\* robot, only a new velocity of a caller moves it again (processAxisTimeout).
THEOREM StopHoldsCorrect == Spec => StopHolds
<1> QED  BY StopStep, BridgeTypeCorrect, StopCorrect, PTL DEF Spec, StopHolds
-----------------------------------------------------------------------------
(* The bridge is a command channel *)

\* The waiting commands are the batch and then the queue: what is added behind
\* or taken in front of the whole is added to the one or taken from the other.
LEMMA WaitingCommands ==
  ASSUME NEW b \in Seq(Commands), NEW q \in Seq(Commands)
  PROVE  /\ \A request \in Commands :
              b \o Append(q, request) = Append(b \o q, request)
         /\ <<>> \o q = q /\ q \o <<>> = q
         /\ b # <<>> => /\ b \o q # <<>>
                        /\ Head(b \o q) = Head(b)
                        /\ Tail(b \o q) = Tail(b) \o q
<1>1. ASSUME NEW request \in Commands
      PROVE  b \o Append(q, request) = Append(b \o q, request)
  OBVIOUS
<1>2. <<>> \o q = q /\ q \o <<>> = q
  OBVIOUS
<1>3. ASSUME b # <<>>
      PROVE  /\ b \o q # <<>>
             /\ Head(b \o q) = Head(b)
             /\ Tail(b \o q) = Tail(b) \o q
  <2>1. Len(b) \in Nat /\ Len(b) > 0 /\ Len(q) \in Nat
    BY <1>3
  <2>2. b \o q \in Seq(Commands) /\ Len(b \o q) = Len(b) + Len(q)
    OBVIOUS
  <2>3. Tail(b) \in Seq(Commands) /\ Len(Tail(b)) = Len(b) - 1
    BY <2>1
  <2>4. Tail(b \o q) \in Seq(Commands) /\ Len(Tail(b \o q)) = Len(b) + Len(q) - 1
    BY <2>1, <2>2
  <2>5. Tail(b) \o q \in Seq(Commands) /\ Len(Tail(b) \o q) = Len(b) - 1 + Len(q)
    BY <2>1, <2>3
  <2>6. ASSUME NEW i \in 1 .. Len(b) + Len(q) - 1
        PROVE  Tail(b \o q)[i] = (Tail(b) \o q)[i]
    <3>1. Tail(b \o q)[i] = (b \o q)[i + 1]
      BY <2>1, <2>2, <2>6
    <3>2. CASE i <= Len(b) - 1
      <4>1. (b \o q)[i + 1] = b[i + 1]
        BY <2>1, <2>6, <3>2
      <4>2. (Tail(b) \o q)[i] = Tail(b)[i] /\ Tail(b)[i] = b[i + 1]
        BY <2>1, <2>3, <2>6, <3>2
      <4> QED  BY <3>1, <4>1, <4>2
    <3>3. CASE i > Len(b) - 1
      <4>1. (b \o q)[i + 1] = q[i + 1 - Len(b)]
        BY <2>1, <2>6, <3>3
      <4>2. (Tail(b) \o q)[i] = q[i - (Len(b) - 1)]
        BY <2>1, <2>3, <2>6, <3>3
      <4>3. i + 1 - Len(b) = i - (Len(b) - 1)
        BY <2>1, <2>6
      <4> QED  BY <3>1, <4>1, <4>2, <4>3
    <3> QED  BY <2>1, <2>6, <3>2, <3>3
  <2>7. Tail(b \o q) = Tail(b) \o q
    BY <2>1, <2>4, <2>5, <2>6
  <2> QED  BY <2>1, <2>2, <2>7
<1> QED  BY <1>1, <1>2, <1>3

\* A stop sent before a close is a Stop of the channel, or nothing.
LEMMA StopStutters ==
  ASSUME wire' \in {wire, "zero"}, UNCHANGED <<batch, command_queue_, axis_stop_sent_>>
  PROVE  [Channel!Next]_(Channel!vars)
BY DEF Channel!Next, Channel!Stop, Channel!vars

\* Every step of the bridge is a step of the channel, or changes nothing a
\* caller can see.
LEMMA ChannelStep ==
  BridgeTypeOK /\ BatchInSend /\ StopInv /\ [Next]_vars => [Channel!Next]_(Channel!vars)
<1> SUFFICES ASSUME BridgeTypeOK, BatchInSend, StopInv, [Next]_vars
             PROVE  [Channel!Next]_(Channel!vars)
  OBVIOUS
<1> USE DEF shared, server, client
<1>0. batch \in Seq(Commands) /\ command_queue_ \in Seq(Commands) /\ axis_stop_sent_ \in BOOLEAN
  BY DEF BridgeTypeOK
<1>1. ASSUME NEW velocity \in Commands \cap Velocities, setAxisCommand(velocity)
      PROVE  Channel!Accept(velocity)
  <2>1. command_queue_' = Append(command_queue_, velocity) /\ batch' = batch
    BY <1>1 DEF setAxisCommand
  <2>2. batch' \o command_queue_' = Append(batch \o command_queue_, velocity)
    BY <1>0, <2>1, WaitingCommands
  <2>3. axis_stop_sent_' = FALSE /\ wire' = wire
    BY <1>1 DEF setAxisCommand
  <2> QED  BY <2>2, <2>3 DEF Channel!Accept
<1>2. ASSUME NEW request \in Commands \ Velocities, enqueueCommand(request)
      PROVE  Channel!Accept(request)
  <2>1. command_queue_' = Append(command_queue_, request) /\ batch' = batch
    BY <1>2 DEF enqueueCommand
  <2>2. batch' \o command_queue_' = Append(batch \o command_queue_, request)
    BY <1>0, <2>1, WaitingCommands
  <2>3. axis_stop_sent_' = axis_stop_sent_ /\ wire' = wire
    BY <1>2 DEF enqueueCommand
  <2>4. axis_stop_sent_' = (axis_stop_sent_ /\ request \notin Velocities)
    BY <1>0, <2>3
  <2> QED  BY <2>2, <2>3, <2>4 DEF Channel!Accept
<1>3. CASE DrainQueue
  <2>1. batch = <<>> /\ batch' = command_queue_ /\ command_queue_' = <<>>
    BY <1>3 DEF DrainQueue, BatchInSend
  <2>2. batch' \o command_queue_' = batch \o command_queue_
    BY <1>0, <2>1, WaitingCommands
  <2>3. UNCHANGED <<axis_stop_sent_, wire>>
    BY <1>3 DEF DrainQueue
  <2> QED  BY <2>2, <2>3 DEF Channel!vars
<1>4. CASE SendNext
  <2>1. batch # <<>> /\ batch' = Tail(batch) /\ command_queue_' = command_queue_
        /\ axis_stop_sent_' = axis_stop_sent_
    BY <1>4 DEF SendNext, BatchInSend
  <2>2. /\ batch \o command_queue_ # <<>>
        /\ Head(batch \o command_queue_) = Head(batch)
        /\ batch' \o command_queue_' = Tail(batch \o command_queue_)
    BY <1>0, <2>1, WaitingCommands
  <2>3. PICK outcome \in Outcomes : sendCommand(Head(batch), outcome, 0)
    BY <1>4 DEF SendNext
  <2>4. Head(batch) \in Commands
    BY <1>0, <2>1
  <2>5. Head(batch) # "stop"
    BY <2>4, BridgeAssumption
  <2>6. wire' \in {wire} \cup ({Head(batch)} \cap Velocities)
    <3>1. CASE Head(batch) \in Velocities
      <4>1. wire' \in {wire, Head(batch)}
        BY <2>3, <3>1 DEF sendCommand, Velocities
      <4> QED  BY <3>1, <4>1
    <3>2. CASE Head(batch) \notin Velocities
      <4>1. Operation(Head(batch)) = Head(batch) /\ Head(batch) # "axis"
        BY <2>4, <2>5, <3>2, BridgeAssumption DEF Operation, Requests
      <4>2. wire' = wire
        BY <2>3, <4>1 DEF sendCommand
      <4> QED  BY <4>2
    <3> QED  BY <3>1, <3>2
  <2> QED  BY <2>1, <2>2, <2>6 DEF Channel!Next, Channel!Take
<1>5. CASE processAxisTimeout
  <2>1. CASE has_axis_command_ /\ late.axis /\ ~ axis_stop_sent_
    <3>1. batch = <<>> /\ ~ HasVelocity(command_queue_)
      BY <1>5, <2>1 DEF processAxisTimeout, BatchInSend, StopInv
    <3>2. batch \o command_queue_ = command_queue_
      BY <1>0, <3>1, WaitingCommands
    <3>3. axis_stop_sent_' = TRUE /\ UNCHANGED <<batch, command_queue_, wire>>
      BY <1>5, <2>1 DEF processAxisTimeout
    <3>4. Channel!Decide
      BY <3>1, <3>2, <3>3 DEF Channel!Decide, HasVelocity, IsVelocity
    <3> QED  BY <3>4 DEF Channel!Next
  <2>2. CASE ~ (has_axis_command_ /\ late.axis /\ ~ axis_stop_sent_)
    BY <1>5, <2>2 DEF processAxisTimeout, Channel!vars
  <2> QED  BY <2>1, <2>2
<1>6. CASE SendStop
  BY <1>6, StopSends, StopStutters DEF SendStop
<1>7. CASE ReadClock \/ CheckReply \/ ReceiveClosed \/ Leave
  <2>1. ASSUME NEW n \in Nat, ZeroAndClose(n) PROVE wire' \in {wire, "zero"}
    BY <2>1, ZeroAndCloseType
  <2>2. wire' \in {wire, "zero"}
    BY <1>7, <2>1 DEF ReadClock, CheckReply, ReceiveClosed, Leave
  <2>3. UNCHANGED <<batch, command_queue_, axis_stop_sent_>>
    BY <1>7 DEF ReadClock, CheckReply, ReceiveClosed, Leave
  <2> QED  BY <2>2, <2>3, StopStutters
<1>8. CASE OpenSocket \/ Wake \/ ReceiveFrame \/ ReceiveNothing
  BY <1>8 DEF OpenSocket, Wake, ReceiveFrame, ReceiveNothing, Channel!vars
<1>9. CASE Shutdown \/ Tick \/ LinkFails \/ LinkRecovers
  BY <1>9 DEF Shutdown, Tick, LinkFails, LinkRecovers, Channel!vars
<1>10. CASE UNCHANGED vars
  BY <1>10 DEF vars, Channel!vars
<1>11. ASSUME NEW request \in Commands, Channel!Accept(request) PROVE Channel!Next
  BY <1>11 DEF Channel!Next
<1>12. CASE Callback
  <2>1. CASE \E velocity \in Commands \cap Velocities : setAxisCommand(velocity)
    BY <2>1, <1>1, <1>11
  <2>2. CASE \E request \in Commands \ Velocities : enqueueCommand(request)
    BY <2>2, <1>2, <1>11
  <2> QED  BY <1>12, <2>1, <2>2 DEF Callback
<1> QED  BY <1>3, <1>4, <1>5, <1>6, <1>7, <1>8, <1>9, <1>10, <1>12 DEF Next, Worker

\* For any timeouts, any behaviour of the link and any interleaving the bridge
\* implements the channel: commands leave in order and at most once, and no
\* velocity is overtaken by the decision to stop.
THEOREM ChannelCorrect == Spec => ChannelSpec
<1>1. Init => Channel!Init
  BY DEF Init, Channel!Init
<1>2. BridgeTypeOK /\ BatchInSend /\ StopInv /\ [Next]_vars => [Channel!Next]_(Channel!vars)
  BY ChannelStep
<1>3. Init => StopInv
  BY NoVelocityEmpty DEF Init, StopInv, NoVelocityBehindStop
<1>4. BridgeTypeOK /\ BatchInSend /\ StopInv /\ [Next]_vars => StopInv'
  BY NextStop
<1> QED  BY <1>1, <1>2, <1>3, <1>4, BridgeTypeCorrect, PTL DEF Spec, ChannelSpec, Channel!Spec

-----------------------------------------------------------------------------
(* The bytes of a connection                                                *)

Frames == [message_id : Nat, asdu : Seq(Nat)]

\* A part of the stream, byte by byte.
LEMMA PartOf ==
  ASSUME NEW s \in Seq(Nat), NEW m \in Nat \ {0}, NEW n \in Nat, m <= n + 1, n <= Len(s)
  PROVE  /\ SubSeq(s, m, n) \in Seq(Nat)
         /\ Len(SubSeq(s, m, n)) = n - m + 1
         /\ \A i \in 1 .. n - m + 1 : SubSeq(s, m, n)[i] = s[m + i - 1]
<1>1. \A i \in m .. n : s[i] \in Nat
  BY ElementOfSeq
<1>2. /\ SubSeq(s, m, n) \in Seq(Nat)
      /\ Len(SubSeq(s, m, n)) = IF m <= n THEN n - m + 1 ELSE 0
      /\ \A i \in 1 .. n - m + 1 : SubSeq(s, m, n)[i] = s[m + i - 1]
  BY <1>1, SubSeqProperties
<1> QED  BY <1>2

LEMMA PartBehind ==
  ASSUME NEW s \in Seq(Nat), NEW a \in Nat, NEW n \in Nat, a <= n, n <= Len(s)
  PROVE  /\ SubSeq(s, a + 1, n) \in Seq(Nat)
         /\ Len(SubSeq(s, a + 1, n)) = n - a
         /\ \A i \in 1 .. n - a : SubSeq(s, a + 1, n)[i] = s[a + i]
<1> DEFINE t == SubSeq(s, a + 1, n)
<1>1. /\ t \in Seq(Nat) /\ Len(t) = n - (a + 1) + 1
      /\ \A i \in 1 .. n - (a + 1) + 1 : t[i] = s[a + 1 + i - 1]
  BY PartOf
<1> HIDE DEF t
<1>2. n - (a + 1) + 1 = n - a /\ \A i \in Int : a + 1 + i - 1 = a + i
  OBVIOUS
<1>3. t \in Seq(Nat) /\ Len(t) = n - a /\ \A i \in 1 .. n - a : t[i] = s[a + i]
  BY <1>1, <1>2
<1> QED  BY <1>3 DEF t

\* A part of a part.
LEMMA PartOfPart ==
  ASSUME NEW s \in Seq(Nat), NEW a \in Nat, NEW n \in Nat, a <= n, n <= Len(s),
         NEW k \in Nat \ {0}, NEW l \in Nat, k <= l + 1, l <= n - a
  PROVE  SubSeq(SubSeq(s, a + 1, n), k, l) = SubSeq(s, a + k, a + l)
<1> DEFINE t == SubSeq(s, a + 1, n)
           u == SubSeq(t, k, l)
           v == SubSeq(s, a + k, a + l)
<1>1. Len(s) \in Nat
  BY LenProperties
<1>2. t \in Seq(Nat) /\ Len(t) = n - a /\ \A i \in 1 .. n - a : t[i] = s[a + i]
  BY PartBehind
<1> HIDE DEF t
<1>3. /\ u \in Seq(Nat) /\ Len(u) = l - k + 1
      /\ \A i \in 1 .. l - k + 1 : u[i] = t[k + i - 1]
  <2>1. Len(t) \in Nat /\ l <= Len(t)
    BY <1>1, <1>2
  <2>2. k \in Nat \ {0} /\ l \in Nat /\ k <= l + 1
    OBVIOUS
  <2>3. t \in Seq(Nat)
    BY <1>2
  <2>4. /\ SubSeq(t, k, l) \in Seq(Nat)
        /\ Len(SubSeq(t, k, l)) = l - k + 1
        /\ \A i \in 1 .. l - k + 1 : SubSeq(t, k, l)[i] = t[k + i - 1]
    BY <2>1, <2>2, <2>3, PartOf
  <2> QED  BY <2>4
<1>4. /\ v \in Seq(Nat) /\ Len(v) = l - k + 1
      /\ \A i \in 1 .. l - k + 1 : v[i] = s[a + k + i - 1]
  <2> DEFINE f == a + k
             g == a + l
  <2>0. f \in Nat \ {0} /\ g \in Nat /\ f <= g + 1 /\ g <= Len(s) /\ g - f = l - k
    BY <1>1
  <2> HIDE DEF f, g
  <2>1. /\ SubSeq(s, f, g) \in Seq(Nat)
        /\ Len(SubSeq(s, f, g)) = g - f + 1
        /\ \A i \in 1 .. g - f + 1 : SubSeq(s, f, g)[i] = s[f + i - 1]
    BY <2>0, PartOf
  <2>2. v = SubSeq(s, f, g)
    BY DEF f, g
  <2>3. /\ SubSeq(s, f, g) \in Seq(Nat)
        /\ Len(SubSeq(s, f, g)) = l - k + 1
        /\ \A i \in 1 .. l - k + 1 : SubSeq(s, f, g)[i] = s[f + i - 1]
    BY <2>0, <2>1
  <2> QED  BY <2>2, <2>3 DEF f
<1> HIDE DEF u, v
<1>5. \A i \in 1 .. Len(u) : u[i] = v[i]
  <2> SUFFICES ASSUME NEW i \in 1 .. l - k + 1 PROVE u[i] = v[i]
    BY <1>3
  <2>1. k + i - 1 \in 1 .. n - a /\ a + (k + i - 1) = a + k + i - 1
    OBVIOUS
  <2> QED  BY <1>2, <1>3, <1>4, <2>1
<1>6. u = v
  BY <1>3, <1>4, <1>5, SeqEqual
<1> QED  BY <1>6 DEF t, u, v

\* What is written behind a part does not change it.
LEMMA PartStays ==
  ASSUME NEW s \in Seq(Nat), NEW t \in Seq(Nat),
         NEW m \in Nat \ {0}, NEW n \in Nat, m <= n + 1, n <= Len(s)
  PROVE  SubSeq(s \o t, m, n) = SubSeq(s, m, n)
<1>1. Len(s) \in Nat
  BY LenProperties
<1>2. CASE m <= n
  BY <1>1, <1>2, SubSeqOfConcat1
<1>3. CASE n < m
  BY <1>3, SubSeqEmpty
<1> QED  BY <1>2, <1>3

LEMMA PartWritten ==
  ASSUME NEW s \in Seq(Nat), NEW t \in Seq(Nat)
  PROVE  SubSeq(s \o t, Len(s) + 1, Len(s) + Len(t)) = t
<1> DEFINE c == s \o t
           a == Len(s)
           l == Len(t)
           p == SubSeq(c, a + 1, a + l)
<1>1. a \in Nat /\ l \in Nat
  BY LenProperties
<1>2. /\ c \in Seq(Nat) /\ Len(c) = a + l
      /\ \A i \in 1 .. a + l : c[i] = IF i <= a THEN s[i] ELSE t[i - a]
  BY ConcatProperties
<1> HIDE DEF a, l, c
<1>3. p \in Seq(Nat) /\ Len(p) = l /\ \A i \in 1 .. l : p[i] = c[a + i]
  <2> DEFINE z == a + l
  <2>1. z \in Nat /\ a <= z /\ z <= Len(c) /\ z - a = l
    BY <1>1, <1>2
  <2> HIDE DEF z
  <2>2. /\ SubSeq(c, a + 1, z) \in Seq(Nat) /\ Len(SubSeq(c, a + 1, z)) = z - a
        /\ \A i \in 1 .. z - a : SubSeq(c, a + 1, z)[i] = c[a + i]
    BY <1>1, <1>2, <2>1, PartBehind
  <2>3. p = SubSeq(c, a + 1, z)
    BY DEF z
  <2> HIDE DEF p
  <2>4. p \in Seq(Nat) /\ Len(p) = z - a /\ \A i \in 1 .. z - a : p[i] = c[a + i]
    BY <2>2, <2>3
  <2> QED  BY <2>1, <2>4
<1> HIDE DEF p
<1>4. ASSUME NEW i \in 1 .. l PROVE p[i] = t[i]
  <2> DEFINE j == a + i
  <2>1. p[i] = c[j]
    BY <1>3
  <2>2. j \in 1 .. a + l /\ ~ (j <= a) /\ j - a = i
    BY <1>1
  <2> HIDE DEF j
  <2>3. c[j] = t[j - a]
    BY <1>2, <2>2
  <2> QED  BY <2>1, <2>2, <2>3
<1>5. Len(p) = l
  BY <1>1, <1>3
<1>6. p = t
  BY <1>3, <1>4, <1>5, SeqEqual DEF l
<1> QED  BY <1>6 DEF p, a, l, c

-----------------------------------------------------------------------------
(* Frames                                                                   *)

\* The bytes of a frame.
LEMMA ApduBytes ==
  ASSUME NEW f \in Frames
  PROVE  /\ Apdu(f) \in Seq(Nat) /\ Len(f.asdu) \in Nat
         /\ Len(Apdu(f)) = kHeaderSize + Len(f.asdu)
         /\ Apdu(f)[1] = 235 /\ Apdu(f)[2] = 145 /\ Apdu(f)[3] = 235 /\ Apdu(f)[4] = 144
         /\ Apdu(f)[kLengthOffset] = Len(f.asdu) /\ Apdu(f)[kMessageIdOffset] = f.message_id
         /\ SubSeq(Apdu(f), kHeaderSize + 1, Len(Apdu(f))) = f.asdu
<1> DEFINE header == <<235, 145, 235, 144, Len(f.asdu), f.message_id, 1>>
           body == f.asdu
<1>1. body \in Seq(Nat) /\ Len(body) \in Nat /\ f.message_id \in Nat
  BY LenProperties DEF Frames
<1>2. header = Sync \o <<Len(f.asdu), f.message_id, 1>>
  BY SMTT(30) DEF Sync
<1>3. Apdu(f) = header \o body
  BY <1>2 DEF Apdu
<1>4. header \in Seq(Nat) /\ Len(header) = 7
  BY <1>1
<1>5. /\ header[1] = 235 /\ header[2] = 145 /\ header[3] = 235 /\ header[4] = 144
      /\ header[5] = Len(body) /\ header[6] = f.message_id
  OBVIOUS
<1> HIDE DEF header, body
<1>6. /\ header \o body \in Seq(Nat) /\ Len(header \o body) = 7 + Len(body)
      /\ \A i \in 1 .. 7 : (header \o body)[i] = header[i]
  <2> DEFINE c == header \o body
  <2>1. /\ c \in Seq(Nat) /\ Len(c) = Len(header) + Len(body)
        /\ \A i \in 1 .. Len(header) + Len(body) :
             c[i] = IF i <= Len(header) THEN header[i] ELSE body[i - Len(header)]
    BY <1>1, <1>4, ConcatProperties
  <2> HIDE DEF c
  <2>2. \A i \in 1 .. 7 : i \in 1 .. Len(header) + Len(body) /\ i <= Len(header)
    BY <1>1, <1>4
  <2>3. \A i \in 1 .. 7 : c[i] = header[i]
    BY <2>1, <2>2
  <2> QED  BY <1>4, <2>1, <2>3 DEF c
<1>7. SubSeq(header \o body, 7 + 1, 7 + Len(body)) = body
  BY <1>1, <1>4, PartWritten
<1> DEFINE c == header \o body
<1>8. /\ c \in Seq(Nat) /\ Len(c) = 7 + Len(body) /\ SubSeq(c, 7 + 1, Len(c)) = body
      /\ c[1] = 235 /\ c[2] = 145 /\ c[3] = 235 /\ c[4] = 144
      /\ c[5] = Len(body) /\ c[6] = f.message_id
  <2>1. 1 \in 1 .. 7 /\ 2 \in 1 .. 7 /\ 3 \in 1 .. 7 /\ 4 \in 1 .. 7 /\ 5 \in 1 .. 7 /\ 6 \in 1 .. 7
    OBVIOUS
  <2>2. c \in Seq(Nat) /\ Len(c) = 7 + Len(body) /\ SubSeq(c, 7 + 1, Len(c)) = body
    BY <1>6, <1>7
  <2>3. c[1] = header[1] /\ c[2] = header[2] /\ c[3] = header[3] /\ c[4] = header[4]
        /\ c[5] = header[5] /\ c[6] = header[6]
    BY <1>6, <2>1
  <2> HIDE DEF c
  <2> QED  BY <1>5, <2>2, <2>3
<1>9. Apdu(f) = c
  BY <1>3
<1> HIDE DEF c
<1> QED
  BY <1>1, <1>8, <1>9 DEF body, kHeaderSize, kLengthOffset, kMessageIdOffset

\* A buffer that begins with the synchronization bytes loses nothing.
LEMMA SyncBytes ==
  ASSUME NEW s \in Seq(Nat), Len(s) >= kHeaderSize,
         s[1] = 235, s[2] = 145, s[3] = 235, s[4] = 144
  PROVE  hasSyncBytes(s, 1) /\ FromSync(s) = s
<1>1. Len(s) \in Nat /\ Len(s) >= 7 /\ DOMAIN s = 1 .. Len(s)
  BY LenProperties DEF kHeaderSize
<1> DEFINE t == SubSeq(s, 1, 4)
<1>2. t \in Seq(Nat) /\ Len(t) = 4 /\ t[1] = s[1] /\ t[2] = s[2] /\ t[3] = s[3] /\ t[4] = s[4]
  <2>1. /\ t \in Seq(Nat) /\ Len(t) = 4 - 1 + 1
        /\ \A i \in 1 .. 4 - 1 + 1 : t[i] = s[1 + i - 1]
    BY <1>1, PartOf
  <2> HIDE DEF t
  <2> QED  BY <2>1
<1> HIDE DEF t
<1>3. t = Sync
  <2>1. Sync \in Seq(Nat) /\ Len(Sync) = 4
        /\ Sync[1] = 235 /\ Sync[2] = 145 /\ Sync[3] = 235 /\ Sync[4] = 144
    BY DEF Sync
  <2>2. \A i \in 1 .. 4 : t[i] = Sync[i]
    BY <1>2, <2>1
  <2>3. t \in Seq(Nat) /\ Sync \in Seq(Nat) /\ Len(t) = Len(Sync)
        /\ \A i \in 1 .. Len(t) : t[i] = Sync[i]
    BY <1>2, <2>1, <2>2
  <2> HIDE DEF Sync
  <2> QED  BY <2>3, SeqEqual
<1>4. hasSyncBytes(s, 1)
  BY <1>1, <1>3 DEF hasSyncBytes, t
<1> DEFINE found == {at \in DOMAIN s : hasSyncBytes(s, at)}
<1>5. 1 \in found /\ \A i \in found : i \in Nat /\ 1 <= i
  BY <1>1, <1>4
<1> HIDE DEF found
<1>6. Min(found) = 1
  <2>1. Min(found) = CHOOSE x \in found : \A y \in found : x =< y
    BY DEF Min
  <2>2. \E x \in found : \A y \in found : x =< y
    BY <1>5
  <2>3. Min(found) \in found /\ \A y \in found : Min(found) =< y
    BY <2>1, <2>2
  <2> QED  BY <1>5, <2>3
<1>7. FromSync(s) = SubSeq(s, 1, Len(s))
  BY <1>5, <1>6 DEF FromSync, found
<1> QED  BY <1>4, <1>7, SubSeqFull

LEMMA FrameIsParsed ==
  ASSUME NEW f \in Frames
  PROVE  parse(Apdu(f)) = {f}
<1> DEFINE s == Apdu(f)
<1>1. /\ s \in Seq(Nat) /\ Len(f.asdu) \in Nat /\ Len(s) = kHeaderSize + Len(f.asdu)
      /\ s[1] = 235 /\ s[2] = 145 /\ s[3] = 235 /\ s[4] = 144
      /\ s[kLengthOffset] = Len(f.asdu) /\ s[kMessageIdOffset] = f.message_id
      /\ SubSeq(s, kHeaderSize + 1, Len(s)) = f.asdu
  BY ApduBytes
<1> HIDE DEF s
<1>2. Len(s) >= kHeaderSize /\ ~ (Len(s) < kHeaderSize)
  BY <1>1, SMTT(30) DEF kHeaderSize
<1>3. hasSyncBytes(s, 1)
  BY <1>1, <1>2, SyncBytes
<1>4. parse(s) = {[message_id |-> f.message_id, asdu |-> f.asdu]}
  BY <1>1, <1>2, <1>3 DEF parse
<1>5. f = [message_id |-> f.message_id, asdu |-> f.asdu]
  BY DEF Frames
<1> QED  BY <1>4, <1>5 DEF s

\* extract(): a buffer that begins like a frame yields the frame when it is
\* complete, and stays as it is until then.
LEMMA FrameIsExtracted ==
  ASSUME NEW f \in Frames, NEW b \in Seq(Nat),
         \A i \in 1 .. Len(b) : i <= Len(Apdu(f)) => b[i] = Apdu(f)[i]
  PROVE  extract(b) =
           IF Len(b) < Len(Apdu(f)) THEN [frame |-> {}, buffer |-> b]
           ELSE [frame |-> {f}, buffer |-> SubSeq(b, Len(Apdu(f)) + 1, Len(b))]
<1> DEFINE s == Apdu(f)
           size == Len(s)
<1>1. /\ s \in Seq(Nat) /\ Len(f.asdu) \in Nat /\ size = 7 + Len(f.asdu)
      /\ s[1] = 235 /\ s[2] = 145 /\ s[3] = 235 /\ s[4] = 144 /\ s[5] = Len(f.asdu)
  BY ApduBytes DEF kHeaderSize, kLengthOffset
<1>2. Len(b) \in Nat
  BY LenProperties
<1> HIDE DEF s
<1>3. \A i \in 1 .. Len(b) : i <= size => b[i] = s[i]
  BY DEF s
<1>4. CASE Len(b) < 7
  BY <1>1, <1>2, <1>4 DEF extract, kHeaderSize, s
<1>5. CASE Len(b) >= 7
  <2>1. b[1] = 235 /\ b[2] = 145 /\ b[3] = 235 /\ b[4] = 144 /\ b[5] = Len(f.asdu)
    <3>1. size \in Nat /\ 7 <= size
      BY <1>1
    <3> HIDE DEF size
    <3>2. \A i \in {1, 2, 3, 4, 5} : i \in 1 .. Len(b) /\ i <= size
      BY <1>2, <1>5, <3>1
    <3>3. \A i \in {1, 2, 3, 4, 5} : b[i] = s[i]
      BY <1>3, <3>2
    <3>4. b[1] = s[1] /\ b[2] = s[2] /\ b[3] = s[3] /\ b[4] = s[4] /\ b[5] = s[5]
      BY <3>3
    <3> QED  BY <1>1, <3>4
  <2>2. FromSync(b) = b
    BY <1>5, <2>1, SyncBytes DEF kHeaderSize
  <2>3. extract(b) =
          IF Len(b) < size THEN [frame |-> {}, buffer |-> b]
          ELSE [frame |-> parse(SubSeq(b, 1, size)), buffer |-> SubSeq(b, size + 1, Len(b))]
    <3>1. kHeaderSize + b[kLengthOffset] = size /\ size >= kHeaderSize
      BY <1>1, <2>1, SMTT(30) DEF kHeaderSize, kLengthOffset
    <3>2. ~ (Len(b) < kHeaderSize)
      BY <1>2, <1>5 DEF kHeaderSize
    <3> HIDE DEF size
    <3> QED  BY <2>2, <3>1, <3>2 DEF extract
  <2>4. ASSUME Len(b) >= size PROVE SubSeq(b, 1, size) = s
    <3> DEFINE t == SubSeq(b, 1, size)
    <3>1. /\ t \in Seq(Nat) /\ Len(t) = size - 1 + 1
          /\ \A i \in 1 .. size - 1 + 1 : t[i] = b[1 + i - 1]
      <4>1. 1 \in Nat \ {0} /\ size \in Nat /\ 1 <= size + 1 /\ size <= Len(b)
        BY <1>1, <1>2, <2>4
      <4> HIDE DEF size
      <4> QED  BY <4>1, PartOf
    <3> HIDE DEF t
    <3>2. \A i \in 1 .. Len(t) : t[i] = s[i]
      <4> SUFFICES ASSUME NEW i \in 1 .. size PROVE t[i] = s[i]
        BY <1>1, <3>1
      <4>1. t[i] = b[i]
        BY <1>1, <3>1
      <4> QED  BY <1>1, <1>2, <1>3, <2>4, <4>1
    <3>3. Len(t) = Len(s)
      BY <1>1, <3>1
    <3>4. t = s
      BY <1>1, <3>1, <3>2, <3>3, SeqEqual
    <3> QED  BY <3>4 DEF t
  <2>5. parse(s) = {f}
    BY FrameIsParsed DEF s
  <2>6. CASE Len(b) < size
    BY <2>3, <2>6 DEF s
  <2>7. CASE ~ (Len(b) < size)
    <3>1. size \in Nat
      BY <1>1
    <3>2. Len(b) >= size
      BY <1>2, <2>7, <3>1
    <3> QED  BY <2>3, <2>4, <2>5, <2>7, <3>2 DEF s
  <2> QED  BY <2>6, <2>7 DEF s
<1> QED  BY <1>2, <1>4, <1>5

-----------------------------------------------------------------------------
(* The stream                                                               *)

\* The frames lie in the stream one behind the other.
LaidOut ==
  /\ Len(ends) = Len(frames)
  /\ Start(Len(frames)) = Len(bytes)
  /\ \A k \in 1 .. Len(frames) :
       /\ Start(k - 1) <= ends[k] /\ ends[k] <= Len(bytes)
       /\ SubSeq(bytes, Start(k - 1) + 1, ends[k]) = Apdu(frames[k])

StreamInv ==
  /\ bytes \in Seq(Nat) /\ frames \in Seq(Frames) /\ ends \in Seq(Nat)
  /\ arrived \in 0 .. Len(bytes) /\ handled \in Nat /\ frame \in SUBSET Frames
  /\ handled = 0 => frame = {}
  /\ LaidOut /\ FramesComeWhole

\* What the client makes of the bytes up to n, those since the last frame.
LEMMA NextFrame ==
  ASSUME StreamInv, NEW n \in arrived .. Len(bytes)
  PROVE  LET b == SubSeq(bytes, Start(handled) + 1, n)
         IN  \/ extract(b) = [frame |-> {}, buffer |-> b]
             \/ /\ handled < Len(frames) /\ Start(handled + 1) <= n
                /\ extract(b) = [frame |-> {frames[handled + 1]},
                                 buffer |-> SubSeq(bytes, Start(handled + 1) + 1, n)]
<1> DEFINE s == Start(handled)
           b == SubSeq(bytes, s + 1, n)
<1>1. /\ bytes \in Seq(Nat) /\ Len(bytes) \in Nat /\ arrived \in Nat /\ n \in Nat
      /\ Len(frames) \in Nat /\ handled \in 0 .. Len(frames)
  BY LenProperties DEF StreamInv, FramesComeWhole
<1>2. s \in Nat /\ s <= n /\ n <= Len(bytes)
  <2>1. handled # 0 => ends[handled] \in Nat
    BY <1>1, ElementOfSeq DEF StreamInv, LaidOut
  <2>2. s <= arrived
    BY <1>1, <2>1 DEF StreamInv, FramesComeWhole, Start
  <2> QED  BY <1>1, <2>1, <2>2 DEF Start
<1> HIDE DEF s
<1>3. b \in Seq(Nat) /\ Len(b) = n - s /\ \A i \in 1 .. n - s : b[i] = bytes[s + i]
  BY <1>1, <1>2, PartBehind
<1>4. CASE handled = Len(frames)
  <2>1. Len(b) = 0
    BY <1>1, <1>2, <1>3, <1>4 DEF StreamInv, LaidOut, s
  <2> HIDE DEF b
  <2>2. extract(b) = [frame |-> {}, buffer |-> b]
    BY <2>1 DEF extract, kHeaderSize
  <2> QED  BY <2>2 DEF b, s
<1>5. CASE handled < Len(frames)
  <2> DEFINE k == handled + 1
             f == frames[k]
             e == ends[k]
             a == Apdu(f)
  <2>1. k \in 1 .. Len(frames) /\ k - 1 = handled /\ Start(k) = e
    BY <1>1, <1>5 DEF Start
  <2> HIDE DEF k
  <2>2. f \in Frames /\ e \in Nat
    BY <2>1, ElementOfSeq DEF StreamInv, LaidOut
  <2>3. s <= e /\ e <= Len(bytes) /\ SubSeq(bytes, s + 1, e) = a
    BY <2>1 DEF StreamInv, LaidOut, s
  <2> HIDE DEF e, f, a
  <2>4. Len(a) = e - s /\ \A i \in 1 .. e - s : a[i] = bytes[s + i]
    <3> DEFINE p == SubSeq(bytes, s + 1, e)
    <3>1. Len(p) = e - s /\ \A i \in 1 .. e - s : p[i] = bytes[s + i]
      BY <1>1, <1>2, <2>2, <2>3, PartBehind
    <3> HIDE DEF p
    <3>2. p = a
      BY <2>3 DEF p
    <3> QED  BY <3>1, <3>2
  <2>5. \A i \in 1 .. Len(b) : i <= Len(a) => b[i] = a[i]
    <3> SUFFICES ASSUME NEW i \in 1 .. n - s, i <= e - s PROVE b[i] = a[i]
      BY <1>3, <2>4
    <3>1. i \in 1 .. e - s
      BY <1>1, <1>2, <2>2
    <3> QED  BY <1>3, <2>4, <3>1
  <2>6. extract(b) = IF Len(b) < Len(a) THEN [frame |-> {}, buffer |-> b]
                     ELSE [frame |-> {f}, buffer |-> SubSeq(b, Len(a) + 1, Len(b))]
    BY <1>3, <2>2, <2>5, FrameIsExtracted DEF a
  <2>7. CASE Len(b) < Len(a)
    BY <2>6, <2>7 DEF s
  <2>8. CASE ~ (Len(b) < Len(a))
    <3>1. e <= n
      BY <1>1, <1>2, <1>3, <2>2, <2>4, <2>8
    <3>2. SubSeq(b, Len(a) + 1, Len(b)) = SubSeq(b, e - s + 1, n - s)
      BY <1>3, <2>4
    <3>3. SubSeq(b, e - s + 1, n - s) = SubSeq(bytes, s + (e - s + 1), s + (n - s))
      <4>1. e - s + 1 \in Nat \ {0} /\ n - s \in Nat /\ e - s + 1 <= n - s + 1 /\ n - s <= n - s
        BY <1>1, <1>2, <2>2, <2>3, <3>1
      <4>2. s \in Nat /\ n \in Nat /\ s <= n /\ n <= Len(bytes)
        BY <1>1, <1>2
      <4> DEFINE k0 == e - s + 1
                 l0 == n - s
      <4>3. k0 \in Nat \ {0} /\ l0 \in Nat /\ k0 <= l0 + 1 /\ l0 <= n - s
        BY <4>1
      <4> HIDE DEF k0, l0
      <4>4. SubSeq(SubSeq(bytes, s + 1, n), k0, l0) = SubSeq(bytes, s + k0, s + l0)
        BY <1>1, <4>2, <4>3, PartOfPart
      <4> QED  BY <4>4 DEF k0, l0
    <3>4. s + (e - s + 1) = e + 1 /\ s + (n - s) = n
      BY <1>1, <1>2, <2>2
    <3>5. extract(b) = [frame |-> {f}, buffer |-> SubSeq(bytes, e + 1, n)]
      BY <2>6, <2>8, <3>2, <3>3, <3>4
    <3> HIDE DEF b
    <3>6. Start(handled + 1) = e
      BY <2>1 DEF k
    <3> QED  BY <1>5, <3>1, <3>5, <3>6 DEF b, s, f, k
  <2> QED  BY <2>7, <2>8
<1> QED  BY <1>1, <1>4, <1>5

\* The server writes: what lay in the stream stays where it is.
LEMMA WriteKeeps ==
  ASSUME StreamInv, NEW f \in Frames, Write(f)
  PROVE  StreamInv'
<1> DEFINE n == Len(frames)
           a == Apdu(f)
           at(k) == IF k = 0 THEN 0 ELSE ends'[k]
<1>1. /\ bytes \in Seq(Nat) /\ Len(bytes) \in Nat /\ n \in Nat /\ handled \in 0 .. n
      /\ frames \in Seq(Frames) /\ ends \in Seq(Nat) /\ Len(ends) = n
      /\ arrived \in 0 .. Len(bytes)
  BY LenProperties DEF StreamInv, LaidOut, FramesComeWhole
<1>2. a \in Seq(Nat) /\ Len(a) \in Nat \ {0}
  <2>1. a \in Seq(Nat) /\ Len(f.asdu) \in Nat /\ Len(a) = 7 + Len(f.asdu)
    BY ApduBytes DEF kHeaderSize
  <2> QED  BY <2>1
<1> HIDE DEF a
<1>3. /\ bytes' = bytes \o a /\ bytes' \in Seq(Nat) /\ Len(bytes') = Len(bytes) + Len(a)
      /\ frames' = Append(frames, f) /\ ends' = Append(ends, Len(bytes'))
      /\ UNCHANGED <<arrived, tcp_buffer_, frame, handled>>
  BY <1>1, <1>2, ConcatProperties DEF Write, a
<1>4. /\ frames' \in Seq(Frames) /\ Len(frames') = n + 1 /\ frames'[n + 1] = f
      /\ \A k \in 1 .. n : frames'[k] = frames[k]
  BY <1>1, <1>3, AppendProperties
<1>5. /\ ends' \in Seq(Nat) /\ Len(ends') = n + 1 /\ ends'[n + 1] = Len(bytes')
      /\ \A k \in 1 .. n : ends'[k] = ends[k]
  BY <1>1, <1>2, <1>3, AppendProperties, SMTT(30)
<1>6. /\ \A k \in 0 .. n : at(k) = Start(k) /\ Start(k) \in Nat /\ Start(k) <= Len(bytes)
      /\ at(n + 1) = Len(bytes') /\ at(n) = Len(bytes)
  <2>1. \A k \in 1 .. n : ends[k] \in Nat /\ ends[k] <= Len(bytes)
    BY <1>1, ElementOfSeq DEF StreamInv, LaidOut
  <2>2. \A k \in 0 .. n : at(k) = Start(k)
    BY <1>1, <1>5 DEF Start
  <2>3. Start(n) = Len(bytes)
    BY DEF StreamInv, LaidOut
  <2>4. \A k \in 0 .. n : Start(k) \in Nat /\ Start(k) <= Len(bytes)
    BY <1>1, <2>1 DEF Start
  <2>5. at(n + 1) = Len(bytes')
    <3>1. n + 1 # 0
      BY <1>1
    <3> QED  BY <1>5, <3>1
  <2>6. at(n) = Len(bytes)
    <3>1. n \in 0 .. n
      BY <1>1
    <3> HIDE DEF n, at
    <3> QED  BY <2>2, <2>3, <3>1
  <2> QED  BY <2>2, <2>4, <2>5, <2>6
<1>7. LaidOut'
  <2>1. ASSUME NEW k \in 1 .. n
        PROVE  /\ at(k - 1) <= ends'[k] /\ ends'[k] <= Len(bytes')
               /\ SubSeq(bytes', at(k - 1) + 1, ends'[k]) = Apdu(frames'[k])
    <3>1. /\ Start(k - 1) <= ends[k] /\ ends[k] <= Len(bytes) /\ ends[k] \in Nat
          /\ SubSeq(bytes, Start(k - 1) + 1, ends[k]) = Apdu(frames[k])
      BY <1>1, ElementOfSeq DEF StreamInv, LaidOut
    <3>2. at(k - 1) = Start(k - 1) /\ Start(k - 1) \in Nat
      BY <1>1, <1>6, SMTT(30)
    <3>3. SubSeq(bytes', Start(k - 1) + 1, ends[k]) = SubSeq(bytes, Start(k - 1) + 1, ends[k])
      <4> DEFINE m == Start(k - 1) + 1
                 e == ends[k]
      <4>1. m \in Nat \ {0} /\ m <= e + 1 /\ e \in Nat /\ e <= Len(bytes)
        BY <3>1, <3>2
      <4> HIDE DEF m, e
      <4>2. SubSeq(bytes \o a, m, e) = SubSeq(bytes, m, e)
        BY <1>1, <1>2, <4>1, PartStays
      <4> QED  BY <1>3, <4>2 DEF m, e
    <3>4. Len(bytes) <= Len(bytes') /\ Len(bytes') \in Nat
      BY <1>1, <1>2, <1>3
    <3>5. ends'[k] <= Len(bytes')
      BY <1>1, <1>5, <3>1, <3>4, SMTT(30)
    <3> HIDE DEF at
    <3> QED  BY <1>4, <1>5, <3>1, <3>2, <3>3, <3>5
  <2>2. SubSeq(bytes', Len(bytes) + 1, Len(bytes')) = a
    BY <1>1, <1>2, <1>3, PartWritten
  <2>3. ASSUME NEW k \in 1 .. n + 1
        PROVE  /\ at(k - 1) <= ends'[k] /\ ends'[k] <= Len(bytes')
               /\ SubSeq(bytes', at(k - 1) + 1, ends'[k]) = Apdu(frames'[k])
    <3>1. CASE k \in 1 .. n
      BY <2>1, <3>1
    <3>2. CASE k = n + 1
      <4>1. k - 1 = n
        BY <1>1, <3>2
      <4>2. Len(bytes) <= Len(bytes') /\ Len(bytes') <= Len(bytes')
        BY <1>1, <1>2, <1>3
      <4> HIDE DEF at, n
      <4> QED  BY <1>4, <1>5, <1>6, <2>2, <3>2, <4>1, <4>2 DEF a
    <3> QED  BY <1>1, <3>1, <3>2, SMTT(30)
  <2>4. Start(Len(frames))' = at(n + 1)
    BY <1>4 DEF Start
  <2>5. \A k : Start(k)' = at(k)
    BY DEF Start
  <2> HIDE DEF at
  <2> QED  BY <1>4, <1>5, <1>6, <2>3, <2>4, <2>5 DEF LaidOut
<1>8. FramesComeWhole'
  <2>1. SubSeq(bytes', Start(handled) + 1, arrived) = SubSeq(bytes, Start(handled) + 1, arrived)
    <3>1. Start(handled) \in Nat /\ arrived >= Start(handled)
      BY <1>1, <1>6 DEF StreamInv, FramesComeWhole
    <3>2. Start(handled) + 1 \in Nat \ {0} /\ Start(handled) + 1 <= arrived + 1
          /\ arrived \in Nat /\ arrived <= Len(bytes)
      BY <1>1, <3>1
    <3> DEFINE m == Start(handled) + 1
    <3>3. m \in Nat \ {0} /\ m <= arrived + 1
      BY <3>2
    <3> HIDE DEF m
    <3>4. SubSeq(bytes \o a, m, arrived) = SubSeq(bytes, m, arrived)
      BY <1>1, <1>2, <3>2, <3>3, PartStays
    <3> QED  BY <1>3, <3>4 DEF m
  <2>2. Start(handled)' = Start(handled)
    <3>1. Start(handled') = IF handled' = 0 THEN 0 ELSE ends[handled']
      BY DEF Start
    <3> QED  BY <1>1, <1>3, <1>5 DEF Start
  <2>3. \A g \in frame : g = frames'[handled]
    <3> SUFFICES ASSUME NEW g \in frame PROVE g = frames'[handled]
      OBVIOUS
    <3>1. g = frames[handled]
      BY DEF StreamInv, FramesComeWhole
    <3>2. CASE handled \in 1 .. n
      BY <1>4, <3>1, <3>2
    <3>3. CASE handled = 0
      BY <3>3 DEF StreamInv
    <3> QED  BY <1>1, <3>2, <3>3
  <2>4. handled <= n + 1 /\ arrived >= Start(handled)
    BY <1>1 DEF StreamInv, FramesComeWhole
  <2>5. tcp_buffer_ = SubSeq(bytes, Start(handled) + 1, arrived)
    BY DEF StreamInv, FramesComeWhole
  <2> HIDE DEF n
  <2> QED  BY <1>3, <1>4, <2>1, <2>2, <2>3, <2>4, <2>5 DEF FramesComeWhole
<1>9. arrived' \in 0 .. Len(bytes')
  BY <1>1, <1>2, <1>3
<1> QED  BY <1>1, <1>3, <1>4, <1>5, <1>7, <1>8, <1>9 DEF StreamInv

\* The client receives: a frame that is complete is handed on, and the buffer
\* begins behind it.
LEMMA TakeKeeps ==
  ASSUME StreamInv, NEW n \in arrived .. Len(bytes), arrived' = n,
         Take(extract(SubSeq(bytes, Start(handled) + 1, n))),
         UNCHANGED <<bytes, frames, ends>>
  PROVE  StreamInv'
<1> DEFINE b == SubSeq(bytes, Start(handled) + 1, n)
<1>1. /\ Len(bytes) \in Nat /\ arrived \in Nat /\ n \in Nat /\ Len(frames) \in Nat
      /\ handled \in 0 .. Len(frames) /\ arrived >= Start(handled)
  BY LenProperties DEF StreamInv, FramesComeWhole
<1>2. LaidOut' /\ \A k : Start(k)' = Start(k)
  BY DEF StreamInv, LaidOut, Start
<1>3. /\ bytes' \in Seq(Nat) /\ frames' \in Seq(Frames) /\ ends' \in Seq(Nat)
      /\ arrived' \in 0 .. Len(bytes')
  BY <1>1 DEF StreamInv
<1> HIDE DEF b
<1>4. CASE extract(b) = [frame |-> {}, buffer |-> b]
  <2>1. tcp_buffer_' = b /\ frame' = {} /\ handled' = handled
    BY <1>1, <1>4 DEF Take, b
  <2>2. Start(handled)' = Start(handled) /\ arrived' >= Start(handled)
    <3>1. Start(handled) \in Nat
      BY <1>1, ElementOfSeq DEF Start, StreamInv, LaidOut
    <3> QED  BY <1>1, <2>1, <3>1 DEF Start
  <2>3. FramesComeWhole'
    BY <1>1, <2>1, <2>2 DEF FramesComeWhole, b
  <2> QED  BY <1>1, <1>2, <1>3, <2>1, <2>3 DEF StreamInv
<1>5. CASE /\ handled < Len(frames) /\ Start(handled + 1) <= n
           /\ extract(b) = [frame |-> {frames[handled + 1]},
                            buffer |-> SubSeq(bytes, Start(handled + 1) + 1, n)]
  <2> DEFINE k == handled + 1
  <2>1. k \in 1 .. Len(frames) /\ k # 0
    BY <1>1, <1>5
  <2>2. /\ tcp_buffer_' = SubSeq(bytes, Start(k) + 1, n)
        /\ frame' = {frames[k]} /\ handled' = k
    <3>1. {frames[k]} # {}
      OBVIOUS
    <3> QED  BY <1>5, <3>1, SMTT(30) DEF Take, b
  <2> HIDE DEF k
  <2>3. Start(handled)' = Start(k) /\ Start(k) <= n /\ Start(k) \in Nat
    <3>1. Start(k) \in Nat
      BY <2>1, ElementOfSeq DEF Start, StreamInv, LaidOut
    <3> QED  BY <1>5, <2>2, <3>1 DEF Start, k
  <2>4. frames[k] \in Frames
    BY <2>1, ElementOfSeq DEF StreamInv
  <2>5. FramesComeWhole'
    BY <1>1, <2>1, <2>2, <2>3 DEF FramesComeWhole
  <2> QED  BY <1>1, <1>2, <1>3, <2>1, <2>2, <2>4, <2>5 DEF StreamInv
<1> QED  BY <1>4, <1>5, NextFrame DEF b

LEMMA ReceiveKeeps ==
  ASSUME StreamInv, receive
  PROVE  StreamInv'
<1> DEFINE b == SubSeq(bytes, Start(handled) + 1, arrived)
<1>1. /\ bytes \in Seq(Nat) /\ Len(bytes) \in Nat /\ arrived \in 0 .. Len(bytes)
      /\ Start(handled) \in Nat /\ Start(handled) <= arrived
      /\ tcp_buffer_ = b
  <2>1. handled \in 0 .. Len(frames) /\ Len(frames) \in Nat
    BY LenProperties DEF StreamInv, FramesComeWhole
  <2>2. Start(handled) \in Nat
    BY <2>1, ElementOfSeq DEF Start, StreamInv, LaidOut
  <2> QED  BY <2>2, LenProperties DEF StreamInv, FramesComeWhole
<1>2. UNCHANGED <<bytes, frames, ends>>
  BY DEF receive
<1>3. CASE Take(extract(tcp_buffer_)) /\ UNCHANGED arrived
  <2>1. arrived \in arrived .. Len(bytes)
    BY <1>1
  <2> QED  BY <1>1, <1>2, <1>3, <2>1, TakeKeeps
<1>4. ASSUME extract(tcp_buffer_).frame = {},
             NEW n \in arrived + 1 .. Len(bytes),
             Take(extract(extract(tcp_buffer_).buffer \o SubSeq(bytes, arrived + 1, n))),
             arrived' = n
      PROVE  StreamInv'
  <2>1. arrived \in arrived .. Len(bytes) /\ n \in arrived .. Len(bytes)
    BY <1>1
  <2>2. extract(b).buffer = b
    <3>1. \/ extract(b) = [frame |-> {}, buffer |-> b]
          \/ extract(b) = [frame |-> {frames[handled + 1]},
                           buffer |-> SubSeq(bytes, Start(handled + 1) + 1, arrived)]
      BY <2>1, NextFrame
    <3> HIDE DEF b
    <3>2. extract(b).frame = {}
      BY <1>1, <1>4
    <3>3. \A f, r : [frame |-> {f}, buffer |-> r].frame # {}
      OBVIOUS
    <3>4. extract(b) = [frame |-> {}, buffer |-> b]
      BY <3>1, <3>2, <3>3
    <3> QED  BY <3>4
  <2>3. b \o SubSeq(bytes, arrived + 1, n) = SubSeq(bytes, Start(handled) + 1, n)
    <3> DEFINE m == Start(handled) + 1
    <3>1. /\ m \in 1 .. Len(bytes) + 1 /\ arrived \in m - 1 .. Len(bytes)
          /\ n \in arrived .. Len(bytes)
      BY <1>1
    <3> HIDE DEF m
    <3>2. SubSeq(bytes, m, arrived) \o SubSeq(bytes, arrived + 1, n) = SubSeq(bytes, m, n)
      BY <1>1, <3>1, ConcatAdjacentSubSeq
    <3> QED  BY <3>2 DEF m
  <2>4. Take(extract(SubSeq(bytes, Start(handled) + 1, n)))
    BY <1>1, <1>4, <2>2, <2>3
  <2> QED  BY <1>2, <1>4, <2>1, <2>4, TakeKeeps
<1> HIDE DEF b
<1> QED  BY <1>3, <1>4 DEF receive

LEMMA StreamStarts ==
  ASSUME bytes = <<>>, arrived = 0, tcp_buffer_ = <<>>, frame = {}, frames = <<>>, ends = <<>>,
         handled = 0
  PROVE  StreamInv
<1>1. <<>> \in Seq(Nat) /\ <<>> \in Seq(Frames) /\ Len(<<>>) = 0
  BY EmptySeq
<1>2. SubSeq(bytes, Start(handled) + 1, arrived) = <<>>
  BY SubSeqEmpty DEF Start
<1>3. LaidOut
  BY <1>1 DEF LaidOut, Start
<1>4. FramesComeWhole
  BY <1>1, <1>2 DEF FramesComeWhole, Start
<1> QED  BY <1>1, <1>3, <1>4 DEF StreamInv

LEMMA StreamStep == StreamInv /\ [StreamNext]_streamVars => StreamInv'
<1> SUFFICES ASSUME StreamInv, [StreamNext]_streamVars PROVE StreamInv'
  OBVIOUS
<1>1. ASSUME NEW id \in MessageIds, NEW asdu \in Bodies,
             Write([message_id |-> id, asdu |-> asdu])
      PROVE  StreamInv'
  <2>1. [message_id |-> id, asdu |-> asdu] \in Frames
    BY StreamAssumption DEF Frames
  <2> QED  BY <1>1, <2>1, WriteKeeps
<1>2. ASSUME receive PROVE StreamInv'
  BY <1>2, ReceiveKeeps
<1>3. ASSUME Reconnect PROVE StreamInv'
  <2>1. <<>> \in Seq(Nat) /\ <<>> \in Seq(Frames) /\ Len(<<>>) = 0
    BY EmptySeq
  <2>2. /\ bytes' = <<>> /\ arrived' = 0 /\ tcp_buffer_' = <<>> /\ frame' = {}
        /\ frames' = <<>> /\ ends' = <<>> /\ handled' = 0
    BY <1>3 DEF Reconnect
  <2>3. SubSeq(<<>>, 0 + 1, 0) = <<>>
    BY SubSeqEmpty
  <2>4. LaidOut'
    BY <2>1, <2>2 DEF LaidOut, Start
  <2>5. FramesComeWhole'
    BY <2>1, <2>2, <2>3 DEF FramesComeWhole, Start
  <2> QED  BY <2>1, <2>2, <2>4, <2>5 DEF StreamInv
<1>4. ASSUME UNCHANGED streamVars PROVE StreamInv'
  BY <1>4 DEF streamVars, stream, history, StreamInv, LaidOut, FramesComeWhole, Start
<1> QED  BY <1>1, <1>2, <1>3, <1>4 DEF StreamNext

\* FramesComeWhole, for every frame the server writes, every size of the chunks
\* and however the network cuts them: the frames that reach handleFrame are those
\* written on this connection, in order and whole, and no byte is lost or read
\* twice (extract, receive, close).
THEOREM FramesCorrect == StreamSpec => []FramesComeWhole
<1>1. StreamInit => StreamInv
  BY StreamStarts DEF StreamInit
<1>2. StreamInv => FramesComeWhole
  BY DEF StreamInv
<1> QED  BY <1>1, <1>2, StreamStep, PTL DEF StreamSpec
-----------------------------------------------------------------------------
(* The gate of the manual chain. *)

\* By how much what a velocity was let through for may be out of date.
Recent(velocity, k) ==
  Moves(velocity) =>
    /\ EnableMotion
    /\ "command" \in setBack \/ elapsed["command"] <= CommandTimeout + k
    /\ "state" \in setBack \/ elapsed["state"] <= StateTimeout + k
    /\ emergency_stop_ => elapsed["emergency"] <= k
    /\ ~ ready_ => elapsed["unready"] <= k

\* Unless the clock was set back since, an age by it is the time that passed.
HonestStamps ==
  /\ command_stamp_ # Never =>
        "command" \in setBack \/ elapsed["command"] = clock - command_stamp_
  /\ motion_state_stamp_ # Never =>
        "state" \in setBack \/ elapsed["state"] = clock - motion_state_stamp_

\* What is under way is of this period, and so is what the robot was told once
\* it has arrived.
ManualInv ==
  /\ ManualTypeOK /\ HonestStamps
  /\ output # {} => ticked
  /\ \A velocity \in output : WithinLimits(velocity) /\ Recent(velocity, 0)
  /\ WithinLimits(robot)
  /\ Recent(robot, 1) /\ (ticked /\ output = {} => Recent(robot, 0))

LEMMA EvaluateKept ==
  ASSUME ManualInv
  PROVE  evaluate \in Motion /\ WithinLimits(evaluate) /\ Recent(evaluate, 0)
<1>1. CASE Blocked
  <2>1. evaluate = Zero
    BY <1>1 DEF evaluate
  <2>2. Zero \in Motion /\ WithinLimits(Zero) /\ ~ Moves(Zero)
    BY ManualAssumption DEF Zero, Motion, WithinLimits, Moves, Axes
  <2> QED  BY <2>1, <2>2 DEF Recent
<1>2. CASE ~ Blocked
  <2> DEFINE v == [a \in Axes |-> IF a = "vy" /\ ~ Lateral THEN 0
                       ELSE Clamped(input_command_[a], MaximumVelocity[a])]
  <2>1. evaluate = v
    BY <1>2 DEF evaluate
  <2>2. \A a \in Axes : input_command_[a] \in Int /\ MaximumVelocity[a] \in Nat
    BY <1>2, ManualAssumption DEF Blocked, ManualInv, ManualTypeOK
  <2>3. \A a \in Axes :
          LET c == Clamped(input_command_[a], MaximumVelocity[a])
          IN  c \in Int /\ c >= -MaximumVelocity[a] /\ c <= MaximumVelocity[a]
    BY <2>2 DEF Clamped
  <2>4. v \in Motion /\ WithinLimits(v)
    BY <2>2, <2>3 DEF Motion, WithinLimits, Axes
  <2>5. /\ EnableMotion /\ ~ emergency_stop_ /\ ready_
        /\ FreshStamp(motion_state_stamp_, StateTimeout)
        /\ FreshStamp(command_stamp_, CommandTimeout)
    BY <1>2 DEF Blocked
  <2>6. Recent(v, 0)
    BY <2>5, ManualAssumption DEF Recent, FreshStamp, ManualInv, HonestStamps
  <2> QED  BY <2>1, <2>4, <2>6
<1> QED  BY <1>1, <1>2

LEMMA EventKeeps ==
  ASSUME ManualInv, NEW e \in Events, Happens(e),
         ready_' \in BOOLEAN, emergency_stop_' \in BOOLEAN,
         motion_state_' \in {-1, 1, kRlMotionState},
         input_command_' \in [Axes -> Int \cup {NotFinite}],
         e # "emergency" => emergency_stop_' = emergency_stop_,
         e # "unready" => ready_' = ready_,
         IF e = "command" THEN command_stamp_' = clock
                          ELSE command_stamp_' = command_stamp_,
         IF e = "state" THEN motion_state_stamp_' = clock
                        ELSE motion_state_stamp_' = motion_state_stamp_
  PROVE  ManualInv'
<1>1. /\ elapsed' = [elapsed EXCEPT ![e] = 0] /\ setBack' = setBack \ {e}
      /\ clock' = clock /\ output' = output /\ ticked' = ticked /\ robot' = robot
      /\ steps' = steps
  BY DEF Happens
<1>2. ManualTypeOK /\ HonestStamps
  BY DEF ManualInv
<1>3. ManualTypeOK'
  BY <1>1, <1>2 DEF ManualTypeOK
<1>4. /\ elapsed'[e] = 0 /\ e \notin setBack'
      /\ \A x \in Events \ {e} : elapsed'[x] = elapsed[x] /\ (x \in setBack' <=> x \in setBack)
  BY <1>1, <1>2 DEF ManualTypeOK
<1>5. HonestStamps'
  BY <1>1, <1>2, <1>4 DEF HonestStamps, ManualTypeOK, Events, Stamped, Lasting
<1>6. ASSUME NEW v, NEW k \in Nat, Recent(v, k) PROVE Recent(v, k)'
  <2>1. "command" \in Events /\ "state" \in Events /\ "emergency" \in Events /\ "unready" \in Events
    BY DEF Events, Stamped, Lasting
  <2> QED  BY <1>1, <1>4, <1>6, <2>1, ManualAssumption DEF Recent, Moves
<1>7. WithinLimits(robot)' /\ \A v \in output' : WithinLimits(v)'
  BY <1>1 DEF ManualInv, WithinLimits
<1>8. \A v \in output' : Recent(v, 0)'
  BY <1>1, <1>6 DEF ManualInv
<1>9. Recent(robot, 1)' /\ (ticked' /\ output' = {} => Recent(robot, 0)')
  BY <1>1, <1>6 DEF ManualInv
<1>10. output' # {} => ticked'
  BY <1>1 DEF ManualInv
<1> QED  BY <1>3, <1>5, <1>7, <1>8, <1>9, <1>10 DEF ManualInv

LEMMA ManualStep == ManualInv /\ [ManualNext]_manualVars => ManualInv'
<1> SUFFICES ASSUME ManualInv, [ManualNext]_manualVars PROVE ManualInv'
  OBVIOUS
<1> USE ManualAssumption
<1>0. ManualTypeOK /\ HonestStamps
  BY DEF ManualInv
<1>e. "command" \in Events /\ "state" \in Events /\ "emergency" \in Events /\ "unready" \in Events
  BY DEF Events, Stamped, Lasting
<1>1. ASSUME NEW twist \in Twists, CommandArrives(twist) PROVE ManualInv'
  <2>1. twist \in [Axes -> Int \cup {NotFinite}]
    BY ManualAssumption
  <2> QED  BY <1>0, <1>e, <1>1, <2>1, EventKeeps DEF CommandArrives, ManualTypeOK
<1>2. ASSUME NEW state \in {kRlMotionState, 1}, StateArrives(state) PROVE ManualInv'
  BY <1>0, <1>e, <1>2, EventKeeps DEF StateArrives, ManualTypeOK
<1>3. ASSUME NEW value \in BOOLEAN, ReadyArrives(value) PROVE ManualInv'
  BY <1>0, <1>e, <1>3, EventKeeps DEF ReadyArrives, ManualTypeOK
<1>4. ASSUME NEW value \in BOOLEAN, EmergencyArrives(value) PROVE ManualInv'
  BY <1>0, <1>e, <1>4, EventKeeps DEF EmergencyArrives, ManualTypeOK
<1>5. ASSUME ManualTick PROVE ManualInv'
  <2> DEFINE v == evaluate
  <2>1. v \in Motion /\ WithinLimits(v) /\ Recent(v, 0)
    BY EvaluateKept
  <2>2. output' = {v} /\ ticked' = TRUE /\ UNCHANGED <<inputs, clock, robot, manualHistory>>
    BY <1>5 DEF ManualTick
  <2> HIDE DEF v
  <2>3. ManualTypeOK'
    BY <1>0, <2>1, <2>2 DEF ManualTypeOK, inputs, manualHistory
  <2>4. HonestStamps'
    BY <1>0, <2>2 DEF HonestStamps, inputs, manualHistory
  <2>5. \A w \in output' : WithinLimits(w)' /\ Recent(w, 0)'
    BY <2>1, <2>2 DEF WithinLimits, Recent, Moves, inputs, manualHistory
  <2>6. WithinLimits(robot)' /\ Recent(robot, 1)'
    BY <2>2 DEF ManualInv, WithinLimits, Recent, Moves, inputs, manualHistory
  <2> QED  BY <2>2, <2>3, <2>4, <2>5, <2>6 DEF ManualInv
<1>6. ASSUME BridgeSends PROVE ManualInv'
  <2>1. PICK v \in output : robot' = v
    BY <1>6 DEF BridgeSends
  <2>2. /\ output' = {} /\ UNCHANGED <<inputs, clock, ticked, manualHistory>>
    BY <1>6 DEF BridgeSends
  <2>3. v \in Motion /\ WithinLimits(v) /\ Recent(v, 0)
    BY <1>0 DEF ManualInv, ManualTypeOK
  <2>4. ManualTypeOK'
    BY <1>0, <2>1, <2>2, <2>3 DEF ManualTypeOK, inputs, manualHistory
  <2>5. HonestStamps'
    BY <1>0, <2>2 DEF HonestStamps, inputs, manualHistory
  <2>6. WithinLimits(robot)' /\ Recent(robot, 0)'
    BY <2>1, <2>2, <2>3 DEF WithinLimits, Recent, Moves, inputs, manualHistory
  <2>7. Recent(robot, 1)'
    BY <2>4, <2>6 DEF Recent, ManualTypeOK, Events, Stamped, Lasting
  <2> QED  BY <2>2, <2>4, <2>5, <2>6, <2>7 DEF ManualInv
<1>7. ASSUME ManualClock PROVE ManualInv'
  <2>1. /\ ticked /\ output = {} /\ clock' = clock + 1 /\ ticked' = FALSE
        /\ elapsed' = [e \in Events |-> IF e \in Stamped \/ Lasts(e) THEN elapsed[e] + 1 ELSE 0]
        /\ UNCHANGED <<inputs, output, robot, setBack, steps>>
    BY <1>7 DEF ManualClock
  <2>2. elapsed' \in [Events -> Nat]
    BY <1>0, <2>1 DEF ManualTypeOK
  <2>3. ManualTypeOK'
    <3>1. /\ clock' = clock + 1 /\ ticked' = FALSE
          /\ UNCHANGED <<inputs, output, robot, setBack, steps>>
      BY <2>1
    <3>2. clock + 1 \in Nat \ {0}
      BY <1>0 DEF ManualTypeOK
    <3>3. /\ output' = output /\ robot' = robot /\ setBack' = setBack /\ steps' = steps
          /\ UNCHANGED <<ready_, emergency_stop_, motion_state_>>
          /\ UNCHANGED <<input_command_, command_stamp_, motion_state_stamp_>>
      BY <3>1 DEF inputs
    <3>4. /\ output' = {} /\ robot' \in Motion /\ ticked' \in BOOLEAN /\ clock' \in Nat \ {0}
      BY <1>0, <2>1, <3>1, <3>2, <3>3 DEF ManualTypeOK
    <3> QED  BY <1>0, <2>2, <3>3, <3>4 DEF ManualTypeOK
  <2>4. /\ elapsed'["command"] = elapsed["command"] + 1
        /\ elapsed'["state"] = elapsed["state"] + 1
        /\ emergency_stop_ => elapsed'["emergency"] = elapsed["emergency"] + 1
        /\ ~ ready_ => elapsed'["unready"] = elapsed["unready"] + 1
    BY <2>1, <1>e DEF Stamped, Lasts
  <2>5. \A e \in Events : elapsed[e] \in Nat
    BY <1>0 DEF ManualTypeOK
  <2>6. HonestStamps'
    BY <1>0, <1>e, <2>1, <2>4, <2>5 DEF HonestStamps, ManualTypeOK, inputs
  <2>7. Recent(robot, 0)
    BY <2>1 DEF ManualInv
  <2>8. Recent(robot, 1)'
    BY <1>e, <2>1, <2>4, <2>5, <2>7 DEF Recent, Moves, inputs
  <2>9. WithinLimits(robot)'
    BY <2>1 DEF ManualInv, WithinLimits
  <2> QED  BY <2>1, <2>3, <2>6, <2>8, <2>9 DEF ManualInv
<1>8. ASSUME ClockIsSetBack PROVE ManualInv'
  <2>1. /\ clock' \in Nat \ {0} /\ steps' = steps + 1 /\ setBack' = Stamped
        /\ UNCHANGED <<inputs, output, ticked, robot, elapsed>>
    BY <1>0, <1>8 DEF ClockIsSetBack, ManualTypeOK
  <2>2. ManualTypeOK'
    BY <1>0, <2>1 DEF ManualTypeOK, inputs
  <2>3. HonestStamps'
    BY <2>1 DEF HonestStamps, Stamped
  <2>4. ASSUME NEW v, NEW k, Recent(v, k) PROVE Recent(v, k)'
    BY <2>1, <2>4 DEF Recent, Moves, inputs, Stamped
  <2>5. WithinLimits(robot)' /\ \A v \in output' : WithinLimits(v)'
    BY <2>1 DEF ManualInv, WithinLimits
  <2> QED  BY <2>1, <2>2, <2>3, <2>4, <2>5 DEF ManualInv
<1>9. ASSUME UNCHANGED manualVars PROVE ManualInv'
  <2>1. UNCHANGED <<inputs, clock, output, ticked, robot, manualHistory>>
    BY <1>9 DEF manualVars
  <2>2. ManualTypeOK' /\ HonestStamps'
    BY <1>0, <2>1 DEF ManualTypeOK, HonestStamps, inputs, manualHistory
  <2>3. ASSUME NEW v, NEW k, Recent(v, k) PROVE Recent(v, k)'
    BY <2>1, <2>3 DEF Recent, Moves, inputs, manualHistory
  <2>4. WithinLimits(robot)' /\ \A v \in output' : WithinLimits(v)'
    BY <2>1 DEF ManualInv, WithinLimits
  <2> QED  BY <2>1, <2>2, <2>3, <2>4 DEF ManualInv
<1> QED  BY <1>1, <1>2, <1>3, <1>4, <1>5, <1>6, <1>7, <1>8, <1>9 DEF ManualNext

\* ManualSafe, for all limits and timeouts, whatever arrives and whenever the clock
\* is set back: the manual chain moves the robot within its limits, on a command
\* and in the RL state, and not for longer than a period of the timer on an old
\* one (evaluate, tick).
THEOREM ManualCorrect == ManualSpec => []ManualSafe
<1>1. ManualInit => ManualInv
  <2> SUFFICES ASSUME ManualInit PROVE ManualInv
    OBVIOUS
  <2> USE DEF ManualInit
  <2>1. Zero \in Motion /\ WithinLimits(Zero) /\ ~ Moves(Zero)
    BY ManualAssumption DEF Zero, Motion, WithinLimits, Moves, Axes
  <2>2. elapsed \in [Events -> Nat] /\ Zero \in [Axes -> Int \cup {NotFinite}]
    BY DEF Zero
  <2>3. ManualTypeOK
    <3>1. /\ ready_ = FALSE /\ emergency_stop_ = FALSE /\ motion_state_ = -1
          /\ input_command_ = Zero /\ command_stamp_ = 0 /\ motion_state_stamp_ = 0
          /\ clock = 1 /\ output = {} /\ ticked = FALSE /\ robot = Zero /\ setBack = {}
          /\ steps = 0
      BY DEF Never
    <3>2. /\ robot \in Motion /\ output = {} /\ ticked \in BOOLEAN
          /\ input_command_ \in [Axes -> Int \cup {NotFinite}]
      BY <2>1, <2>2, <3>1
    <3>3. /\ command_stamp_ \in Nat /\ motion_state_stamp_ \in Nat /\ clock \in Nat \ {0}
          /\ steps \in Nat /\ setBack \subseteq Stamped
          /\ motion_state_ \in {-1, 1, kRlMotionState}
      BY <3>1
    <3> QED  BY <2>2, <3>1, <3>2, <3>3 DEF ManualTypeOK
  <2> QED  BY <2>1, <2>3 DEF ManualInv, HonestStamps, Recent
<1>2. ManualInv => ManualSafe
  BY DEF ManualInv, ManualSafe, MovesOnlyOnCommand, Recent
<1> QED  BY <1>1, <1>2, ManualStep, PTL DEF ManualSpec
=============================================================================
