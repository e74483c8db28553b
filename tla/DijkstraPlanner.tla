-------------------------- MODULE DijkstraPlanner --------------------------
(***************************************************************************)
(* The route planner node (route3d_dijkstra_planner): requests by start    *)
(* and goal or by goal alone, Dijkstra's search over the topology graph,   *)
(* one step per vertex taken from the queue, and the latched status the    *)
(* slicer and the patrol listen to.                                        *)
(*                                                                         *)
(* A job is one life of the node: the document it loads, the positions     *)
(* the odometry may report and the requests it is sent, in order.          *)
(***************************************************************************)
EXTENDS TopologyGraph, Sequences

CONSTANTS
    Jobs,        \* records [doc, positions, requests]
    SnapRadius,  \* request.start_snap_radius_m
    NoPosition   \* no odometry yet

\* Identifiers are positive (positiveId) and a weight is a number; a document
\* is finite.
ASSUME JobsAssumption ==
    \A j \in Jobs :
        /\ DOMAIN j.doc.vertices \subseteq Nat \ {0}
        /\ IsFiniteSet(DOMAIN j.doc.vertices)
        /\ \A i \in DOMAIN j.doc.edges : j.doc.edges[i].weight \in Int

VARIABLES
    job,        \* the job: it never changes
    odometry,   \* current_ground_position_, or NoPosition
    handled,    \* requests handled or being handled
    searching,  \* a search is under way
    start, goal,
    dist,       \* distances of the vertices reached
    prev,       \* the predecessor of a reached vertex and the edge from it
    settled,    \* vertices settled
    frontier,   \* the priority queue: pairs of a cost and a vertex
    status      \* the latched status

plannerVars ==
    <<job, odometry, handled, searching, start, goal, dist, prev, settled,
      frontier, status>>
searchVars == <<start, goal, dist, prev, settled, frontier>>

doc == job.doc
Vertices == DOMAIN doc.vertices

NoStatus == [request |-> 0, success |-> FALSE, start |-> 0, goal |-> 0,
             vertices |-> <<>>, edges |-> <<>>, cost |-> 0]

\* The constructor: a document that does not load ends the node, so a job
\* starts with one that does. The outputs are published empty.
PlannerInit ==
    /\ job \in {j \in Jobs : Loadable(j.doc)}
    /\ odometry = NoPosition
    /\ handled = 0
    /\ searching = FALSE
    /\ start = 0 /\ goal = 0
    /\ dist = <<>> /\ prev = <<>>
    /\ settled = {} /\ frontier = {}
    /\ status = NoStatus
-----------------------------------------------------------------------------
Failure(s, g) ==
    [NoStatus EXCEPT !.request = handled', !.start = s, !.goal = g]

\* publishFailure: the result is dropped, the outputs are emptied and the
\* status says so.
Fail(s, g) ==
    /\ searching' = FALSE
    /\ status' = Failure(s, g)
    /\ UNCHANGED searchVars

\* dijkstraShortestPath, up to its loop: unknown vertices throw, a start that
\* is the goal is its own route, anything else opens the queue.
Plan(s, g) ==
    \/ /\ ~({s, g} \subseteq Vertices)
       /\ Fail(s, g)
    \/ /\ s = g /\ s \in Vertices
       /\ status' = [Failure(s, g) EXCEPT !.success = TRUE, !.vertices = <<s>>]
       /\ UNCHANGED <<searching, searchVars>>
    \/ /\ s # g /\ {s, g} \subseteq Vertices
       /\ searching' = TRUE
       /\ start' = s /\ goal' = g
       /\ dist' = [v \in {s} |-> 0]
       /\ prev' = <<>>
       /\ settled' = {}
       /\ frontier' = {<<0, s>>}
       /\ UNCHANGED status

NextRequest(kind) ==
    /\ ~searching
    /\ handled < Len(job.requests)
    /\ job.requests[handled + 1].kind = kind
    /\ handled' = handled + 1
    /\ UNCHANGED <<job, odometry>>

Request == job.requests[handled + 1]

\* requestCallback; the message must hold two identifiers.
RequestCallback ==
    /\ NextRequest("start_goal")
    /\ Plan(Request.start, Request.goal)

MalformedRequest ==
    /\ NextRequest("malformed")
    /\ Fail(0, 0)

\* goalRequestCallback: from the vertex nearest to the robot, if it is near.
GoalRequestCallback ==
    /\ NextRequest("goal_only")
    /\ IF odometry = NoPosition
       THEN Fail(0, Request.goal)
       ELSE LET v == NearestVertex(doc, odometry)
            IN  IF Distance(doc.vertices[v].pos, odometry) > SnapRadius
                THEN Fail(0, Request.goal)
                ELSE Plan(v, Request.goal)

\* odometryCallback, between two other callbacks of the node's one thread.
OdometryCallback ==
    /\ ~searching
    /\ handled < Len(job.requests)
    /\ odometry' \in job.positions \ {odometry}
    /\ UNCHANGED <<job, handled, searching, searchVars, status>>
-----------------------------------------------------------------------------
\* The queue's order: the least cost, then the least vertex.
IsTop(q) ==
    /\ q \in frontier
    /\ \A r \in frontier : q[1] < r[1] \/ (q[1] = r[1] /\ q[2] <= r[2])

ImprovedMutant(u) == Neighbours(doc, u) \ DOMAIN dist

\* The vertices an arc out of u reaches at less cost than known so far.
Improved(u) ==
    {v \in Neighbours(doc, u) :
        v \in DOMAIN dist => dist[u] + ArcCost(doc, u, v) < dist[v]}

\* The predecessor chain, from the start to v and the edges on the way.
VertexChain[v \in Vertices] ==
    IF v = start \/ v \notin DOMAIN prev
    THEN <<v>> ELSE Append(VertexChain[prev[v].vertex], v)

EdgeChain[v \in Vertices] ==
    IF v = start \/ v \notin DOMAIN prev
    THEN <<>> ELSE Append(EdgeChain[prev[v].vertex], prev[v].edge)

\* An entry whose vertex is settled already, or whose cost is out of date, is
\* dropped.
SkipEntry ==
    /\ searching
    /\ \E q \in frontier :
         /\ IsTop(q)
         /\ q[2] \in settled \/ q[1] > dist[q[2]]
         /\ frontier' = frontier \ {q}
    /\ UNCHANGED <<job, odometry, handled, searching, start, goal, dist, prev,
                   settled, status>>

\* The top entry settles its vertex and relaxes the arcs out of it.
SettleAndRelax(u) ==
    /\ searching
    /\ u # goal
    /\ u \notin settled
    /\ \E q \in frontier :
         /\ IsTop(q) /\ q[2] = u /\ q[1] <= dist[u]
         /\ frontier' = (frontier \ {q})
                \cup {<<dist[u] + ArcCost(doc, u, v), v>> : v \in Improved(u)}
    /\ settled' = settled \cup {u}
    /\ dist' = [v \in DOMAIN dist \cup Improved(u) |->
                  IF v \in Improved(u) THEN dist[u] + ArcCost(doc, u, v)
                                       ELSE dist[v]]
    /\ prev' = [v \in DOMAIN prev \cup Improved(u) |->
                  IF v \in Improved(u)
                  THEN [vertex |-> u, edge |-> EdgeBetween(doc, u, v)]
                  ELSE prev[v]]
    /\ UNCHANGED <<job, odometry, handled, searching, start, goal, status>>

\* The goal is settled: publishSuccess with the route found.
GoalSettled ==
    /\ searching
    /\ goal \notin settled
    /\ UNCHANGED <<job, odometry, handled, start, goal, dist, prev>>
    /\ \E q \in frontier :
         /\ IsTop(q) /\ q[2] = goal /\ q[1] <= dist[goal]
         /\ frontier' = frontier \ {q}
    /\ settled' = settled \cup {goal}
    /\ searching' = FALSE
    /\ status' = [Failure(start, goal) EXCEPT
                    !.success = TRUE, !.vertices = VertexChain[goal],
                    !.edges = EdgeChain[goal], !.cost = dist[goal]]

\* The queue is empty: NoPathError.
NoPath ==
    /\ searching
    /\ frontier = {}
    /\ UNCHANGED <<job, odometry, handled>>
    /\ Fail(start, goal)

PlannerNext ==
    \/ RequestCallback
    \/ MalformedRequest
    \/ GoalRequestCallback
    \/ OdometryCallback
    \/ SkipEntry
    \/ \E u \in Vertices : SettleAndRelax(u)
    \/ GoalSettled
    \/ NoPath
-----------------------------------------------------------------------------
\* Reference: the routes from s to g that visit no vertex twice.
SimpleRoutes(s, g) ==
    {p \in UNION {[1..n -> Vertices] : n \in 1..Cardinality(Vertices)} :
        /\ p[1] = s /\ p[Len(p)] = g
        /\ \A i, j \in 1..Len(p) : p[i] = p[j] => i = j
        /\ \A i \in 1..(Len(p) - 1) : p[i + 1] \in Neighbours(doc, p[i])}
=============================================================================
