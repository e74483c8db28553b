--------------------------- MODULE BrowserSessions ---------------------------
(***************************************************************************)
(* The web console's sessions.  Every browser has a thread (run) that      *)
(* writes out what others queued for it, then reads one command and        *)
(* handles it.  Four kinds of message share the session: the state of a    *)
(* channel, of which the last one is kept; texts in a queue; chunks of a   *)
(* map in a queue; the last frame of the live cloud.  The ROS thread, the  *)
(* threads that load a map and the one that accepted the connection queue  *)
(* messages; the destructor closes the sessions.                           *)
(*                                                                         *)
(* Of the messages the model keeps the number of the pose they carry.  A   *)
(* session's id is never used again.  A broken connection can be noticed   *)
(* at every write and read.                                                *)
(***************************************************************************)
EXTENDS Integers, Sequences, FiniteSets

CONSTANTS
  Sessions,     \* the ids of sessions
  MaxTexts,     \* texts_ holds no more (128)
  MaxBytes,     \* binaries_ holds no more (12 MiB), in chunks
  Chunks,       \* the chunks of a static map
  MaxPoses,     \* bound: odometry messages
  MaxMaps       \* bound: maps loaded

ASSUME SessionsAssumption ==
  /\ MaxTexts \in Nat \ {0} /\ MaxBytes \in Nat \ {0} /\ Chunks \in Nat \ {0}
  /\ MaxPoses \in Nat /\ MaxMaps \in Nat

VARIABLES
  pose,         \* the number of last_pose_, 0 before the first
  session,      \* by id: the thread and the queues
  sessions_,    \* HttpWsServer's map, its keys
  live_cloud_clients_,
  shown,        \* by id: the pose the browser shows
  ros,          \* the broadcast the ROS thread is in: the sessions left, if any
  load,         \* the map loaders: the chunk they are at, the sessions left
  shutdown      \* the destructor

sessionVars ==
  <<pose, session, sessions_, live_cloud_clients_, shown, ros, load, shutdown>>

None == -1          \* no message, or one without a pose
Unread == -2        \* sendSnapshot has not composed its snapshot
Greeted == -3       \* nor has it to any more

\* WebSession.  Before the upgrade it is a socket; ws_ is there until closing.
NewSession ==
  [at |-> "absent", stopping |-> FALSE, greets |-> Greeted, texts |-> <<>>,
   latest |-> None, binaries |-> 0, bytes |-> 0, live |-> FALSE]
HasStream(s) ==
  session[s].at \in {"socket", "accepting", "flushing", "polling", "handling"}
Open(s) == session[s].at \in {"flushing", "polling", "handling"}

-----------------------------------------------------------------------------
(* The queues; each operation holds the session's mutex *)

enqueueText(q, p) ==
  [q EXCEPT !.texts = Append(IF Len(@) >= MaxTexts THEN Tail(@) ELSE @, p)]

enqueueLatestText(q, p) == [q EXCEPT !.latest = p]

\* The oldest chunk goes when there are too many bytes; chunks have one size.
enqueueChunkMutant(q) ==            \* (mutated: its bytes are not subtracted)
  IF q.bytes + 1 > MaxBytes /\ q.binaries > 0
  THEN [q EXCEPT !.bytes = @ + 1]
  ELSE [q EXCEPT !.binaries = @ + 1, !.bytes = @ + 1]
enqueueChunk(q) ==
  IF q.bytes + 1 > MaxBytes /\ q.binaries > 0
  THEN q
  ELSE [q EXCEPT !.binaries = @ + 1, !.bytes = @ + 1]

enqueueLive(q) == [q EXCEPT !.live = TRUE]

Queue(s, q) == session' = [session EXCEPT ![s] = q]
Thread(s, a) == session' = [session EXCEPT ![s].at = a]

-----------------------------------------------------------------------------
(* The ROS thread.  each() copies the sessions, then queues for one after    *)
(* the other.                                                                *)

Silent == [kind |-> "none", pose |-> None, to |-> {}]
Spins == shutdown.at = "up" /\ ros = Silent
Says(k, p, to) ==
  ros' = IF to = {} THEN Silent ELSE [kind |-> k, pose |-> p, to |-> to]

\* odometryCallback: every pose is kept, not every pose is published.
odometryCallback ==
  /\ Spins /\ pose < MaxPoses /\ pose' = pose + 1
  /\ Says("pose", pose + 1, sessions_) \/ UNCHANGED ros
  /\ UNCHANGED <<session, sessions_, live_cloud_clients_, shown, load, shutdown>>

SnapshotMutant == None          \* (mutated: without the pose)
Snapshot == IF pose = 0 THEN None ELSE pose

publishSnapshot ==
  /\ Spins /\ Says("snapshot", Snapshot, sessions_)
  /\ UNCHANGED <<pose, session, sessions_, live_cloud_clients_, shown, load, shutdown>>

\* cloudCallback: for the clients that asked for it; sendBinary looks them up.
cloudCallback ==
  /\ Spins /\ live_cloud_clients_ # {}
  /\ Says("cloud", None, live_cloud_clients_)
  /\ UNCHANGED <<pose, session, sessions_, live_cloud_clients_, shown, load, shutdown>>

Broadcast(s) ==
  /\ shutdown.at = "up" /\ s \in ros.to
  /\ Says(ros.kind, ros.pose, ros.to \ {s})
  /\ LET q == session[s] IN
     CASE ros.kind = "pose" -> Queue(s, enqueueLatestText(q, ros.pose))
       [] ros.kind = "snapshot" -> Queue(s, enqueueText(q, ros.pose))
       [] ros.kind = "cloud" -> IF s \in sessions_ THEN Queue(s, enqueueLive(q))
                                                   ELSE UNCHANGED session
  /\ UNCHANGED <<pose, sessions_, live_cloud_clients_, shown, load, shutdown>>

-----------------------------------------------------------------------------
(* streamStaticMap: a thread of its own broadcasts the chunks, then that the *)
(* map is ready.                                                             *)

NotLoading == [part |-> 0, to |-> {}]

LoaderCopies(m) ==
  /\ load[m].part \in 1..(Chunks + 1) /\ load[m].to = {}
  /\ load' = [load EXCEPT ![m] = [part |-> @.part + 1, to |-> sessions_]]
  /\ UNCHANGED <<pose, session, sessions_, live_cloud_clients_, shown, ros, shutdown>>

LoaderQueues(m, s) ==
  /\ s \in load[m].to
  /\ load' = [load EXCEPT ![m].to = @ \ {s}]
  /\ Queue(s, IF load[m].part <= Chunks + 1 THEN enqueueChunk(session[s])
                                             ELSE enqueueText(session[s], None))
  /\ UNCHANGED <<pose, sessions_, live_cloud_clients_, shown, ros, shutdown>>

-----------------------------------------------------------------------------
(* Connections *)

\* acceptLoop, until the destructor runs
Connects(s) ==
  /\ session[s].at = "absent" /\ shutdown.at = "up"
  /\ session' = [session EXCEPT ![s] = [NewSession EXCEPT !.at = "socket"]]
  /\ UNCHANGED <<pose, sessions_, live_cloud_clients_, shown, ros, load, shutdown>>

\* serve: the request is an upgrade; or it is a file, or cannot be read.
Registers(s) ==
  /\ session[s].at = "socket"
  /\ \/ /\ session' = [session EXCEPT ![s].at = "accepting", ![s].greets = Unread]
        /\ sessions_' = sessions_ \cup {s}
     \/ Thread(s, "gone") /\ UNCHANGED sessions_
  /\ UNCHANGED <<pose, live_cloud_clients_, shown, ros, load, shutdown>>

\* sendSnapshot, in the thread that accepted the connection
ComposesSnapshot(s) ==
  /\ session[s].greets = Unread
  /\ Queue(s, [enqueueText(session[s], None) EXCEPT !.greets = Snapshot])
  /\ UNCHANGED <<pose, sessions_, live_cloud_clients_, shown, ros, load, shutdown>>

SendsSnapshot(s) ==
  /\ session[s].greets >= None
  /\ Queue(s, [enqueueText(session[s], session[s].greets) EXCEPT !.greets = Greeted])
  /\ UNCHANGED <<pose, sessions_, live_cloud_clients_, shown, ros, load, shutdown>>

-----------------------------------------------------------------------------
(* WebSession::run *)

Upgrades(s) ==
  /\ session[s].at = "accepting"
  /\ Thread(s, "flushing") \/ Thread(s, "closed")
  /\ UNCHANGED <<pose, sessions_, live_cloud_clients_, shown, ros, load, shutdown>>

\* handle() of the page: poses, alone or in a snapshot, are drawn.
Draws(s, p) == shown' = IF p > 0 THEN [shown EXCEPT ![s] = p] ELSE shown

\* flush writes states before texts, texts before chunks, chunks before the
\* live frame.
FlushesLatest(s) ==
  /\ session[s].latest # None
  /\ Draws(s, session[s].latest)
  /\ Queue(s, [session[s] EXCEPT !.latest = None])

FlushesText(s) ==
  /\ session[s].latest = None /\ session[s].texts # <<>>
  /\ Draws(s, Head(session[s].texts))
  /\ Queue(s, [session[s] EXCEPT !.texts = Tail(@)])

FlushesChunk(s) ==
  /\ session[s].latest = None /\ session[s].texts = <<>> /\ session[s].binaries > 0
  /\ Queue(s, [session[s] EXCEPT !.binaries = @ - 1, !.bytes = @ - 1])
  /\ UNCHANGED shown

FlushesLive(s) ==
  /\ session[s].latest = None /\ session[s].texts = <<>> /\ session[s].binaries = 0
  /\ session[s].live
  /\ Queue(s, [session[s] EXCEPT !.live = FALSE])
  /\ UNCHANGED shown

Flushed(s) ==
  LET q == session[s] IN
  q.latest = None /\ q.texts = <<>> /\ q.binaries = 0 /\ ~q.live

WriteFails(s) == session' = [session EXCEPT ![s].at = "polling", ![s].stopping = TRUE]

Flushes(s) ==
  /\ session[s].at = "flushing"
  /\ \/ FlushesLatest(s) \/ FlushesText(s) \/ FlushesChunk(s) \/ FlushesLive(s)
     \/ Flushed(s) /\ Thread(s, "polling") /\ UNCHANGED shown
  /\ UNCHANGED <<pose, sessions_, live_cloud_clients_, ros, load, shutdown>>

\* What is queued cannot be written.
Breaks(s) ==
  /\ session[s].at = "flushing" /\ ~Flushed(s)
  /\ WriteFails(s)
  /\ UNCHANGED <<pose, sessions_, live_cloud_clients_, shown, ros, load, shutdown>>

\* After a flush: a command is there, or none, or the connection is not.
Reads(s) ==
  /\ session[s].at = "polling"
  /\ \E a \in {"flushing", "handling", "closed"} : Thread(s, a)
  /\ UNCHANGED <<pose, sessions_, live_cloud_clients_, shown, ros, load, shutdown>>

LeavesMutant(s) == FALSE        \* (mutated: the flag is not looked at)
Leaves(s) == session[s].stopping

\* The loop ends when the flag is set, before a flush.
Stops(s) ==
  /\ session[s].at \in {"flushing", "polling"} /\ Leaves(s)
  /\ Thread(s, "closed")
  /\ UNCHANGED <<pose, sessions_, live_cloud_clients_, shown, ros, load, shutdown>>

-----------------------------------------------------------------------------
(* handleCommand *)

Replies(s) == Queue(s, [enqueueText(session[s], None) EXCEPT !.at = "flushing"])

\* cloud.live.set
SetsLive(s) ==
  /\ session[s].at = "handling" /\ Replies(s)
  /\ live_cloud_clients_' \in {live_cloud_clients_ \cup {s}, live_cloud_clients_ \ {s}}
  /\ UNCHANGED <<pose, sessions_, shown, ros, load, shutdown>>

\* map.cloud_lod, map.file.select, map.select
SelectsMap(s) ==
  /\ session[s].at = "handling" /\ Replies(s)
  /\ \E m \in 1..MaxMaps :
        /\ load[m] = NotLoading /\ \A k \in 1..(m - 1) : load[k] # NotLoading
        /\ load' = [load EXCEPT ![m].part = 1]
  /\ UNCHANGED <<pose, sessions_, live_cloud_clients_, shown, ros, shutdown>>

\* Any other command, as long as it takes
Handles(s) ==
  /\ session[s].at = "handling" /\ Replies(s)
  /\ UNCHANGED <<pose, sessions_, live_cloud_clients_, shown, ros, load, shutdown>>

-----------------------------------------------------------------------------
(* close_, remove *)

Erases(s) ==
  /\ session[s].at = "closed" /\ Thread(s, "erased")
  /\ sessions_' = sessions_ \ {s}
  /\ UNCHANGED <<pose, live_cloud_clients_, shown, ros, load, shutdown>>

WithoutMutant(s) == live_cloud_clients_
Without(s) == live_cloud_clients_ \ {s}

Disconnects(s) ==
  /\ session[s].at = "erased" /\ Thread(s, "gone")
  /\ live_cloud_clients_' = Without(s)
  /\ UNCHANGED <<pose, sessions_, shown, ros, load, shutdown>>

-----------------------------------------------------------------------------
(* ~WebConsoleNode, after the ROS thread has stopped: HttpWsServer::stop *)

StopBegins ==
  /\ Spins /\ shutdown' = [at |-> "stopping", left |-> sessions_]
  /\ UNCHANGED <<pose, session, sessions_, live_cloud_clients_, shown, ros, load>>

requestStop(s) ==
  /\ s \in shutdown.left
  /\ shutdown' = [shutdown EXCEPT !.left = @ \ {s}]
  /\ session' = [session EXCEPT ![s].stopping = TRUE]
  /\ UNCHANGED <<pose, sessions_, live_cloud_clients_, shown, ros, load>>

\* It waits for the sessions to close, for two seconds.
StopEnds ==
  /\ shutdown.at = "stopping" /\ shutdown.left = {}
  /\ shutdown' = [shutdown EXCEPT !.at = "destroyed"]
  /\ UNCHANGED <<pose, session, sessions_, live_cloud_clients_, shown, ros, load>>

-----------------------------------------------------------------------------
NobodyConnected ==
  /\ pose = 0 /\ session = [s \in Sessions |-> NewSession]
  /\ sessions_ = {} /\ live_cloud_clients_ = {} /\ shown = [s \in Sessions |-> 0]
  /\ ros = Silent /\ load = [m \in 1..MaxMaps |-> NotLoading]

SessionInit == NobodyConnected /\ shutdown = [at |-> "up", left |-> {}]

RosStep == odometryCallback \/ publishSnapshot \/ cloudCallback
Loads(m) == LoaderCopies(m) \/ \E s \in Sessions : LoaderQueues(m, s)
Greets(s) == ComposesSnapshot(s) \/ SendsSnapshot(s)
Command(s) == SetsLive(s) \/ SelectsMap(s) \/ Handles(s)
Runs_(s) == Upgrades(s) \/ Flushes(s) \/ Reads(s) \/ Stops(s) \/ Command(s)
            \/ Erases(s) \/ Disconnects(s)

SessionNext ==
  /\ shutdown.at # "destroyed"
  /\ \/ RosStep \/ StopBegins \/ StopEnds
     \/ \E m \in 1..MaxMaps : Loads(m)
     \/ \E s \in Sessions : \/ Broadcast(s) \/ Connects(s) \/ Registers(s) \/ Greets(s)
                            \/ Runs_(s) \/ Breaks(s) \/ requestStop(s)

SessionSpec == SessionInit /\ [][SessionNext]_sessionVars

\* The ROS executor serves its timer between its subscriptions; threads get on.
\* No one has to connect, or to break a connection.
SessionsGetOn ==
  /\ SF_sessionVars(publishSnapshot)
  /\ \A s \in Sessions :
       /\ WF_sessionVars(Broadcast(s)) /\ WF_sessionVars(Greets(s))
       /\ WF_sessionVars(Runs_(s)) /\ SF_sessionVars(Stops(s))
       /\ WF_sessionVars(requestStop(s))

FairSessions == SessionSpec /\ SessionsGetOn

-----------------------------------------------------------------------------
Queues ==
  [at : {"absent", "socket", "accepting", "flushing", "polling", "handling",
         "closed", "erased", "gone"},
   stopping : BOOLEAN, greets : Greeted..MaxPoses, texts : Seq(None..MaxPoses),
   latest : None..MaxPoses, binaries : Nat, bytes : Nat, live : BOOLEAN]

Announcements ==
  {Silent} \cup [kind : {"pose", "snapshot", "cloud"}, pose : None..MaxPoses,
                 to : SUBSET Sessions]

SessionTypeOK ==
  /\ pose \in 0..MaxPoses
  /\ session \in [Sessions -> Queues]
  /\ sessions_ \subseteq Sessions /\ live_cloud_clients_ \subseteq Sessions
  /\ shown \in [Sessions -> 0..MaxPoses]
  /\ ros \in Announcements
  /\ load \in [1..MaxMaps -> [part : 0..(Chunks + 2), to : SUBSET Sessions]]
  /\ shutdown \in [at : {"up", "stopping", "destroyed"}, left : SUBSET Sessions]

\* No session has more waiting than it may ("12 MiB", docs/protocol.md), and the
\* count of its bytes is right whatever was dropped and written.
QueuesBounded ==
  \A s \in Sessions :
    /\ Len(session[s].texts) <= MaxTexts
    /\ session[s].bytes = session[s].binaries /\ session[s].binaries <= MaxBytes

\* No client is streamed to whose thread is over: it asks only while its thread
\* runs, and that thread takes it off the list after the server forgot it.
LiveClientsRun ==
  /\ \A s \in live_cloud_clients_ :
        session[s].at \in {"flushing", "polling", "handling", "closed", "erased"}
  /\ \A s \in sessions_ :
        session[s].at \in {"accepting", "flushing", "polling", "handling", "closed"}

SessionsSafe == SessionTypeOK /\ QueuesBounded /\ LiveClientsRun

\* The page shows where the robot came to rest, though not every pose is
\* published: the snapshots carry it.
PoseArrives ==
  \A s \in Sessions : <>[](Open(s) /\ shutdown.at = "up") => <>[](shown[s] = pose)

\* A session that is told to stop, or whose connection broke, is taken off the
\* lists, if the destructor waits for it.
StoppedSessionsLeave ==
  \A s \in Sessions :
    session[s].stopping ~> (session[s].at = "gone" \/ shutdown.at = "destroyed")

=============================================================================
