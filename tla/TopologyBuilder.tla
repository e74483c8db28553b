--------------------------- MODULE TopologyBuilder ---------------------------
(***************************************************************************)
(* IncrementalTopologyBuilder (route3d_topology_core/topology.py): a graph *)
(* grown from a stream of poses.  New ground adds vertices; known ground   *)
(* is followed without adding any, after a confirmation, and left again at *)
(* an anchor, which may lie in the middle of an edge and split it; a robot *)
(* that meets an old edge far away on the graph is tied to it by a closing *)
(* edge.  A split takes an edge away, and everything that refers to it has *)
(* to move to one of its halves.                                           *)
(*                                                                         *)
(* A builder is a record.  The operators give the set of builders a call   *)
(* may leave, one for each thing the geometry of the poses may say; 0 is   *)
(* no vertex and no edge.                                                  *)
(***************************************************************************)
EXTENDS TopologyGraph, Sequences

NewBuilder ==
  [component |-> <<>>,     \* of every vertex, in the order of their ids
   edge |-> <<>>,          \* the two ends of every edge
   nextEdge |-> 1, jumps |-> 0, state |-> "DISCOVERING",
   current |-> 0,          \* current_vertex_id
   retrace |-> 0,          \* current_retrace_edge_id
   kind |-> "retrace", pending |-> 0, source |-> 0,  \* pending_*
   joinEdge |-> 0, joinVertex |-> 0,                 \* pending_join_*
   exitEdge |-> 0, exitVertex |-> 0,                 \* exit_anchor_*
   leftover |-> FALSE,     \* discovery_distance >= dedup_distance
   finalized |-> FALSE, raised |-> FALSE]

Nodes(b) == DOMAIN b.component
Edges(b) == DOMAIN b.edge
Incident(b, v) == {e \in Edges(b) : v \in b.edge[e]}
Newest(b) == Len(b.component)

-----------------------------------------------------------------------------
(* The graph *)

AddVertex(b) == [b EXCEPT !.component = Append(@, b.jumps)]

\* (mutated: an edge that is there already is added again)
AddEdgeMutant(b, u, v) ==
  IF u = v THEN [b EXCEPT !.raised = TRUE]
  ELSE [b EXCEPT !.edge = [i \in Edges(b) \cup {b.nextEdge} |->
                             IF i = b.nextEdge THEN {u, v} ELSE b.edge[i]],
                 !.nextEdge = @ + 1]

\* _add_edge: no vertex is joined to itself, no two vertices are joined twice.
AddEdge(b, u, v) ==
  CASE u = v -> [b EXCEPT !.raised = TRUE]
    [] u # v /\ \E e \in Edges(b) : b.edge[e] = {u, v} -> b
    [] OTHER -> [b EXCEPT !.edge = [i \in Edges(b) \cup {b.nextEdge} |->
                             IF i = b.nextEdge THEN {u, v} ELSE b.edge[i]],
                          !.nextEdge = @ + 1]

\* A vertex where the robot is now, joined to the one before.
Extended(b) ==
  LET c == AddVertex(b)
      d == IF b.current = 0 THEN c ELSE AddEdge(c, b.current, Newest(c))
  IN  [d EXCEPT !.current = Newest(c)]

\* The vertex joined to each of the others.
Linked(b, others, v) ==
  LET u == CHOOSE u \in others : TRUE
      w == CHOOSE w \in others : others = {u, w}
  IN  AddEdge(AddEdge(b, u, v), v, w)

\* The geometry of a split tells on which half a reference goes on, and whether
\* an anchor is near enough to the new vertex to be that vertex.
Remapped(ref, e, halves) == IF ref = e THEN halves ELSE {ref}
RemappedAnchor(ref, vertex, e, halves, junction) ==
  IF ref = e THEN {<<0, junction>>} \cup {<<h, vertex>> : h \in halves}
             ELSE {<<ref, vertex>>}

\* Two halves, and a vertex between them, the newest, take the place of the edge.
Halves(b) == {b.nextEdge, b.nextEdge + 1}
Halved(b, e) ==
  LET c == AddVertex([b EXCEPT !.edge = [i \in Edges(b) \ {e} |-> b.edge[i]]])
  IN  Linked(c, b.edge[e], Newest(c))

\* A retraced, a pending, a joining edge or vertex and an exit anchor.
Redirected(b, r, p, y, x) ==
  [b EXCEPT !.retrace = r, !.pending = p, !.joinEdge = y[1], !.joinVertex = y[2],
            !.exitEdge = x[1], !.exitVertex = x[2]]

\* (mutated: the edge of a pending retrace is not moved)
SplitMutant(b, e) ==
  LET d == Halved(b, e)
  IN  {Redirected(d, r, b.pending, y, x) :
         r \in Remapped(b.retrace, e, Halves(b)),
         y \in RemappedAnchor(b.joinEdge, b.joinVertex, e, Halves(b), Newest(d)),
         x \in RemappedAnchor(b.exitEdge, b.exitVertex, e, Halves(b), Newest(d))}

\* _split_edge: every reference to the edge goes on on a half, or at the vertex.
Split(b, e) ==
  LET d == Halved(b, e)
  IN  {Redirected(d, r, p, y, x) :
         r \in Remapped(b.retrace, e, Halves(b)), p \in Remapped(b.pending, e, Halves(b)),
         y \in RemappedAnchor(b.joinEdge, b.joinVertex, e, Halves(b), Newest(d)),
         x \in RemappedAnchor(b.exitEdge, b.exitVertex, e, Halves(b), Newest(d))}

\* _snap_projection_vertex: an end of the edge, or neither.
Snapped(b, e) == {0} \cup b.edge[e]

-----------------------------------------------------------------------------
(* New ground *)

\* _append_discovery of one or more poses; as the bound, at most two vertices.
Discovered(b) ==
  {[b EXCEPT !.leftover = l] : l \in {b.leftover, TRUE}}
    \cup {[c EXCEPT !.leftover = l] :
            c \in {Extended(b), Extended(Extended(b))}, l \in BOOLEAN}

\* _commit_discovery_endpoint: at the current vertex, or at a new one.
Committed(b) ==
  {[c EXCEPT !.leftover = FALSE] : c \in {Extended(b)} \cup
     (IF b.current = 0 THEN {} ELSE {b})}

\* _detect_reversal
AfterReversal(b) == {b} \cup IF b.leftover THEN Committed(b) ELSE {}

-----------------------------------------------------------------------------
(* Known ground *)

\* _clear_pending_metadata
Cleared(b) == [b EXCEPT !.pending = 0, !.kind = "retrace", !.source = 0,
                        !.joinEdge = 0, !.joinVertex = 0]

\* (mutated: discovery goes on from nowhere)
CancelledMutant(b) ==
  Discovered([Cleared(b) EXCEPT !.state = "DISCOVERING", !.current = 0])

\* _cancel_retrace_pending: the buffered poses were new ground after all.
Cancelled(b) ==
  Discovered([Cleared(b) EXCEPT
    !.state = "DISCOVERING",
    !.current = IF b.source \in Nodes(b) THEN b.source ELSE @])

\* _start_retrace_pending, _start_loop_pending
Pending(b, kind, e) ==
  [b EXCEPT !.state = "RETRACE_PENDING", !.kind = kind, !.pending = e,
            !.source = b.current, !.joinVertex = 0,
            !.joinEdge = IF kind = "loop" THEN e ELSE 0]

\* An edge that is gone ends the node with a KeyError.
Retracing(b) ==
  IF b.pending \notin Edges(b) THEN {[b EXCEPT !.raised = TRUE]}
  ELSE {[Cleared(b) EXCEPT !.state = "RETRACING", !.retrace = b.pending, !.current = v] :
          v \in Snapped(b, b.pending)}

\* Where a closing edge ends: the builder and the vertex.
Joins(b) ==
  IF b.joinVertex \in Nodes(b) THEN {<<b, b.joinVertex>>}
  ELSE {<<b, v>> : v \in b.edge[b.joinEdge]}
         \cup {<<c, Newest(c)>> : c \in Split(b, b.joinEdge)}

\* _enter_retrace: the retrace is confirmed; a loop is closed first.  No
\* loop_closure_validator is set in this program.
Entered(b) ==
  CASE b.pending \notin Edges(b) -> Cancelled(b)
    [] b.pending \in Edges(b) /\ b.kind = "retrace" -> Retracing(b)
    [] OTHER ->
         IF b.source \notin Nodes(b)
            \/ (b.joinVertex \notin Nodes(b) /\ b.joinEdge \notin Edges(b))
         THEN Cancelled(b)
         ELSE UNION {Retracing(AddEdge(j[1], b.source, j[2])) : j \in Joins(b)}

\* _begin_exit, from the place on the edge retraced last, or from the vertex.
ExitBegun(b) ==
  IF b.retrace \in Edges(b)
  THEN {[b EXCEPT !.state = "EXIT_PENDING", !.exitVertex = v,
                  !.exitEdge = IF v = 0 THEN b.retrace ELSE 0] :
          v \in Snapped(b, b.retrace)}
  ELSE {[b EXCEPT !.state = "EXIT_PENDING", !.exitVertex = b.current, !.exitEdge = 0]}

\* The anchor of an exit: the builder and the vertex.
Anchors(b) ==
  CASE b.exitVertex # 0 -> {<<b, b.exitVertex>>}
    [] b.exitVertex = 0 /\ b.exitEdge \in Edges(b) ->
         {<<c, Newest(c)>> : c \in Split(b, b.exitEdge)}
    [] OTHER -> {<<b, v>> : v \in {b.current} \ {0}}

\* _confirm_exit: discovery goes on from the anchor; without one it raises.
ExitConfirmed(b) ==
  IF Anchors(b) = {} THEN {[b EXCEPT !.raised = TRUE]}
  ELSE UNION {Discovered([a[1] EXCEPT
                !.state = "DISCOVERING", !.current = a[2], !.retrace = 0,
                !.exitEdge = 0, !.exitVertex = 0, !.leftover = FALSE]) :
              a \in Anchors(b)}

-----------------------------------------------------------------------------
(* add_pose: one handler for each state *)

\* Old edges at the current vertex that the robot may be entering, and old edges
\* elsewhere on the same piece of the graph (minimum_graph_separation).
LoopEdges(b) ==
  {e \in Edges(b) \ Incident(b, b.current) :
     /\ Cardinality(Edges(b)) >= 3
     /\ \A v \in b.edge[e] : b.component[v] = b.jumps}

Discovering(b) ==
  UNION {Discovered(c)
           \cup {Pending(c, "retrace", e) : e \in Incident(c, c.current)}
           \cup {Pending(c, "loop", e) : e \in LoopEdges(c)} : c \in AfterReversal(b)}

\* _handle_retrace_pending: given up, kept waiting at an end of the edge,
\* continued on an edge next to it, confirmed or not yet.
RetracePending(b) ==
  LET beyond(v) ==
        {[b EXCEPT !.pending = e, !.current = IF b.kind = "retrace" THEN v ELSE @] :
           e \in Incident(b, v) \ {b.pending}}
      valid == {b} \cup UNION {beyond(v) : v \in b.edge[b.pending]}
  IN  IF b.pending \notin Edges(b) THEN Cancelled(b)
      ELSE Cancelled(b) \cup valid \cup UNION {Entered(c) : c \in valid}

\* _handle_retracing: on along the edge, or past its end onto another, or off.
HandleRetracing(b) ==
  LET past == {b} \cup
        {c \in {[b EXCEPT !.current = v] : v \in Nodes(b)} :
           b.retrace \in Edges(b) /\ c.current \in b.edge[b.retrace]}
      on == (Edges(b) \cap {b.retrace})
              \cup UNION {Incident(b, c.current) : c \in past}
  IN  (UNION {ExitBegun(c) : c \in past})
        \cup UNION {{[b EXCEPT !.retrace = e, !.current = v] : v \in Snapped(b, e)} : e \in on}

\* _handle_exit_pending: back on the edge that was left, or further away.
ExitPending(b) ==
  LET back == IF b.exitEdge \in Edges(b) THEN {b.exitEdge} ELSE Incident(b, b.exitVertex)
  IN  {b} \cup ExitConfirmed(b)
        \cup UNION {{[b EXCEPT !.state = "RETRACING", !.retrace = e, !.current = v,
                               !.exitEdge = 0, !.exitVertex = 0] :
                       v \in Snapped(b, e)} : e \in back}

Jumped(b) ==
  LET c == AddVertex([Cleared(b) EXCEPT !.jumps = @ + 1])
  IN  [c EXCEPT !.state = "DISCOVERING", !.current = Newest(c), !.retrace = 0,
                !.exitEdge = 0, !.exitVertex = 0, !.leftover = FALSE]

\* _handle_relocation: a pending exit is confirmed first, a pending retrace is
\* dropped with its poses.
Relocated(b) ==
  {Jumped(c) : c \in IF b.state = "EXIT_PENDING" THEN ExitConfirmed(b) ELSE {b}}

\* add_pose, but for relocations; a pose nearer than dedup_distance changes
\* nothing.
PoseAdded(b) ==
  IF b.component = <<>> THEN {Extended(b)}
  ELSE {b} \cup CASE b.state = "DISCOVERING" -> Discovering(b)
         [] b.state = "RETRACE_PENDING" -> RetracePending(b)
         [] b.state = "RETRACING" -> HandleRetracing(b)
         [] b.state = "EXIT_PENDING" -> ExitPending(b)

\* mark_corner, wherever a corner is noticed: at a vertex, or on an edge.
CornerMarked(b) == {b} \cup UNION {Split(b, e) : e \in Edges(b)}

-----------------------------------------------------------------------------
(* finalize and the document *)

Settled(b) ==
  CASE b.state = "RETRACE_PENDING" -> Cancelled(b)
    [] b.state = "EXIT_PENDING" -> {b} \cup ExitConfirmed(b)
    [] OTHER -> {b}

Finalized(b) ==
  IF b.finalized THEN {b}
  ELSE UNION {{[d EXCEPT !.finalized = TRUE] :
                 d \in IF c.state = "DISCOVERING" /\ c.leftover THEN Committed(c)
                       ELSE {c}} : c \in Settled(b)}

\* topology_dict
Document(b) ==
  [vertices |-> [v \in Nodes(b) |-> [slope |-> FALSE]],
   edges |-> [e \in Edges(b) |->
     LET u == CHOOSE u \in b.edge[e] : TRUE
     IN  [first |-> u, second |-> CHOOSE w \in b.edge[e] : b.edge[e] = {u, w},
          weight |-> 0, dir |-> 0, mode |-> "bidirectional"]]]
=============================================================================
