---------------------------- MODULE OdomWaypoint ----------------------------
(***************************************************************************)
(* The odometry recorder (route3d_odom_waypoint): a node of one thread     *)
(* that feeds poses, and the corners it notices, to a TopologyBuilder and  *)
(* writes its document to the output file: by a timer while there is       *)
(* something new, at the end of the recording and when it is interrupted.  *)
(* A write may fail at any time.                                           *)
(***************************************************************************)
EXTENDS TopologyBuilder

CONSTANT Recordings  \* bounds: a set of [vertices, poses, jumps, calls]

VARIABLES
  topology,   \* the builder of the session
  recording,  \* poses are taken
  dirty,      \* there are poses the snapshot timer has not written
  up,         \* the node runs
  bound,      \* of this behaviour: how many vertices, poses and relocations a
              \* session has, and how many calls and snapshots there are
  poses, calls

vars == <<topology, recording, dirty, up, bound, poses, calls>>

\* With and without auto_start.
Init ==
  /\ topology = NewBuilder
  /\ recording \in BOOLEAN
  /\ dirty = FALSE
  /\ up = TRUE
  /\ bound \in Recordings /\ poses = 0 /\ calls = 0

Bounded(b) == Len(b.component) <= bound.vertices /\ b.jumps <= bound.jumps

\* on_odometry, a pose that is taken: OdomTopologyBuilder.add, which may notice
\* a corner a while ago.  (Poses of another frame or without a newer stamp are
\* ignored.)
Takes(builders) ==
  /\ up /\ recording /\ ~ topology.finalized
  /\ poses < bound.poses /\ poses' = poses + 1
  /\ \E b \in builders : \E c \in CornerMarked(b) :
       /\ Bounded(c)
       /\ topology' = c
       /\ up' = ~ c.raised
  /\ dirty' = TRUE
  /\ UNCHANGED <<recording, bound, calls>>

on_odometry == Takes(PoseAdded(topology))

\* The pose is further from the last message than relocation_distance.
on_relocation == topology.component # <<>> /\ Takes(Relocated(topology))

Called == up /\ calls < bound.calls /\ calls' = calls + 1

\* write_snapshot, by the timer
write_snapshot ==
  /\ Called /\ dirty /\ topology.component # <<>>
  /\ dirty' = FALSE
  /\ UNCHANGED <<topology, recording, up, bound, poses>>

\* finish: the builder is finalized, and a last corner marked, before the write;
\* once it is, nothing is written any more.
Finish(b, written) ==
  CASE b.component = <<>> -> UNCHANGED <<topology, dirty>>
    [] b.component # <<>> /\ b.finalized -> dirty' = FALSE /\ UNCHANGED topology
    [] OTHER ->
         /\ \E c \in CornerMarked(b) : topology' \in Finalized(c) /\ Bounded(topology')
         /\ dirty' = IF written THEN FALSE ELSE dirty

on_start ==
  /\ Called
  /\ recording' = (recording \/ ~ topology.finalized)
  /\ UNCHANGED <<topology, dirty, up, bound, poses>>

\* on_save; the write may fail.
on_save(written) ==
  /\ Called
  /\ recording' = FALSE
  /\ Finish(topology, written)
  /\ UNCHANGED <<up, bound, poses>>

\* on_reset: a new session.
on_reset ==
  /\ Called
  /\ topology' = NewBuilder
  /\ recording' = FALSE /\ dirty' = FALSE
  /\ poses' = 0
  /\ UNCHANGED <<up, bound>>

\* Ctrl+C, or the end of the ROS context: main finishes the session.
Interrupt(written) ==
  /\ up
  /\ Finish(topology, written)
  /\ up' = FALSE
  /\ UNCHANGED <<recording, bound, poses, calls>>

Next ==
  \/ on_odometry \/ on_relocation
  \/ write_snapshot
  \/ on_start \/ on_reset
  \/ \E written \in BOOLEAN : on_save(written) \/ Interrupt(written)

Spec == Init /\ [][Next]_vars

-----------------------------------------------------------------------------
(* Properties *)

\* Whatever the robot does, the document that is written is one the planner's
\* loader accepts: no edge of one vertex, no two edges between the same two,
\* none that leads nowhere (_split_edge, _enter_retrace, TopologyGraph::load).
RecordedMapLoads ==
  topology.component # <<>> => Loadable(Document(topology))

\* Nothing the state machine goes on from is ever missing, though corners split
\* edges in every state ("Keep every state-machine reference valid when the old
\* edge disappears", _split_edge): no handler raises.
CursorsValid ==
  LET b == topology IN
  /\ ~ b.raised
  /\ b.component # <<>> =>
       CASE b.state = "DISCOVERING" -> b.current \in Nodes(b)
         [] b.state = "RETRACE_PENDING" ->
              /\ b.pending \in Edges(b) /\ b.source \in Nodes(b)
              /\ b.kind = "loop" =>
                   b.joinEdge \in Edges(b) \/ b.joinVertex \in Nodes(b) \ {b.source}
         [] b.state = "RETRACING" -> b.retrace \in Edges(b)
         [] b.state = "EXIT_PENDING" ->
              b.exitEdge \in Edges(b) \/ b.exitVertex \in Nodes(b)

\* Where the recording began, and where the robot turned up after a relocation.
Roots(b) ==
  {v \in Nodes(b) : v = 1 \/ b.component[v] # b.component[v - 1]}

\* A recording falls apart only where the robot was carried: every piece of the
\* graph holds the place where it was first put down on it
\* (_cancel_retrace_pending, _confirm_exit, _split_edge).
NoStrayPieces ==
  \A piece \in (SUBSET Nodes(topology)) \ {{}} :
    (\A e \in Edges(topology) :
       topology.edge[e] \subseteq piece \/ topology.edge[e] \cap piece = {})
    => piece \cap Roots(topology) # {}

RecordingSound == RecordedMapLoads /\ CursorsValid /\ NoStrayPieces
=============================================================================
