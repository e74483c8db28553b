---------------------------- MODULE RouteSlicer ----------------------------
(***************************************************************************)
(* The route slicer (route3d_route_slicer) behind the planner: it takes    *)
(* the latest status of the planner, cuts a planned route into tasks that  *)
(* one controller can drive under one set of edge attributes, lets PID     *)
(* align where a heading is asked for, and publishes the tasks, latched.   *)
(* One step per edge of the route; the planner goes on meanwhile.          *)
(***************************************************************************)
EXTENDS DijkstraPlanner, SequencesExt

CONSTANTS
    AutoController,  \* controller.auto_default
    GridController   \* controller.auto_grid

VARIABLES
    heard,     \* the request whose status the slicer has taken last
    slicing,   \* the callback is in its loop over the edges
    route,     \* the status being sliced
    index,     \* edges of the route handled
    current,   \* the task being built, or <<>>: a sequence of at most one
    before,    \* previous_attributes, or <<>>
    cut,       \* the tasks cut so far
    tasks      \* the latched tasks and the request they answer

slicerVars == <<heard, slicing, route, index, current, before, cut, tasks>>
vars == <<plannerVars, slicerVars>>

SlicerInit ==
    /\ heard = 0 /\ slicing = FALSE
    /\ route = NoStatus /\ index = 0
    /\ current = <<>> /\ before = <<>> /\ cut = <<>>
    /\ tasks = [request |-> 0, list |-> <<>>]

Init == PlannerInit /\ SlicerInit
-----------------------------------------------------------------------------
BusinessMode(from, to) ==
    CASE from = 2 /\ to = 1 -> "normal_charging"
      [] from = 6 /\ to = 6 -> "map_change"
      [] from = 7 /\ to = 3 -> "retreat_with_door"
      [] from = 3 /\ to = 7 -> "charging_with_door"
      [] from \notin {3, 7} /\ to = 7 -> "single_charging"
      [] from = 3 /\ to = 3 -> "door"
      [] from = 3 /\ to = 8 -> "open_door"
      [] from = 8 /\ to = 3 -> "close_door"
      [] OTHER -> "normal"

ResolveController(e) ==
    CASE e.obstacle = 1 -> "efficient_3d_local_planner"
      [] e.obstacle = 2 -> "pid"
      [] e.obstacle = 4 -> GridController
      [] OTHER -> IF e.controller # "auto" THEN e.controller ELSE AutoController

\* What a task takes from its edges: two edges in one task agree on it.
Attributes(e) ==
    [configured |-> e.controller, controller |-> ResolveController(e),
     profile |-> e.profile, obstacle |-> e.obstacle, gridMap |-> e.gridMap]

IsMandatoryCornerMutant(v) == doc.vertices[v].corner

IsMandatoryCorner(v) ==
    doc.vertices[v].corner /\ doc.vertices[v].mustPass # "no"

\* The controllers that get only a path lose the radius of a corner and the
\* heading of a vertex inside it, so both end a task (split_at_corners).
EndsTask(v) == IsMandatoryCorner(v) \/ doc.vertices[v].yaw

ValidateTraversal(e, from, to) ==
    \/ <<from, to>> = <<e.first, e.second>> /\ e.mode # "second_to_first"
    \/ <<from, to>> = <<e.second, e.first>> /\ e.mode # "first_to_second"

NewTask(mode, attributes, from, to, id) ==
    [mode |-> mode, attributes |-> attributes, waypoints |-> <<from, to>>,
     edges |-> <<id>>, slope |-> id \in SlopeEdges(doc),
     alignLast |-> doc.vertices[to].yaw]

Extended(task, to, id) ==
    [task EXCEPT !.waypoints = Append(@, to), !.edges = Append(@, id),
                 !.slope = @ \/ id \in SlopeEdges(doc),
                 !.alignLast = doc.vertices[to].yaw]

\* A one-point PID task: it turns the robot to the heading of its vertex.
AlignmentTask(v) ==
    [mode |-> "normal",
     attributes |-> [configured |-> "pid", controller |-> "pid",
                     profile |-> "align", obstacle |-> 0, gridMap |-> ""],
     waypoints |-> <<v>>, edges |-> <<>>, slope |-> FALSE,
     alignLast |-> doc.vertices[v].yaw]

\* A route of one vertex is one PID task that aligns at it.
SameVertexTask(v) ==
    [AlignmentTask(v) EXCEPT
        !.attributes = [@ EXCEPT !.configured = "auto", !.profile = "goal"],
        !.slope = doc.vertices[v].slope]

WithAlignmentMutant(task) ==
    IF task.attributes.controller # "pid" /\ Last(task.waypoints) = route.goal
    THEN <<[task EXCEPT !.alignLast = FALSE], AlignmentTask(route.goal)>>
    ELSE <<task>>

\* Where a heading is asked for and PID does not drive, a PID task follows.
WithAlignment(task) ==
    LET v == Last(task.waypoints)
    IN  IF /\ task.attributes.controller # "pid"
           /\ v = route.goal \/ doc.vertices[v].yaw
        THEN <<[task EXCEPT !.alignLast = FALSE], AlignmentTask(v)>>
        ELSE <<task>>

Expand(list) == FlattenSeq([k \in DOMAIN list |-> WithAlignment(list[k])])

Policy(task, isGoal) ==
    CASE task.mode # "normal" -> "business_stop"
      [] task.mode = "normal" /\ isGoal -> "route_goal"
      [] OTHER -> "transition"

\* The last pass: what a task does at its end depends on the task after it.
Numbered(list) ==
    [i \in DOMAIN list |->
        LET task == list[i]
            isGoal == i = Len(list)
            business == task.mode # "normal"
            switches ==
                /\ ~isGoal
                /\ \/ task.attributes.controller # list[i + 1].attributes.controller
                   \/ list[i + 1].mode # "normal"
        IN  [mode |-> task.mode, attributes |-> task.attributes,
             waypoints |-> task.waypoints, edges |-> task.edges,
             slope |-> task.slope, isGoal |-> isGoal,
             policy |-> Policy(task, isGoal),
             tolerance |-> IF isGoal \/ business THEN "goal" ELSE "pass",
             alignGoal |-> isGoal \/ task.alignLast,
             stops |-> isGoal \/ business \/ switches]]
-----------------------------------------------------------------------------
\* statusCallback on a status of failure: only the slicer's own status is
\* published, the latched tasks stay as they are.
HearFailure ==
    /\ ~slicing
    /\ heard # status.request
    /\ ~status.success
    /\ heard' = status.request
    /\ UNCHANGED <<plannerVars, slicing, route, index, current, before, cut, tasks>>

\* statusCallback on a route; the queue of depth one holds the latest status.
HearRoute ==
    /\ ~slicing
    /\ heard # status.request
    /\ status.success
    /\ heard' = status.request
    /\ route' = status
    /\ IF Len(status.vertices) = 1
       THEN /\ tasks' = [request |-> status.request,
                         list |-> Numbered(<<SameVertexTask(status.goal)>>)]
            /\ UNCHANGED <<slicing, index, current, before, cut>>
       ELSE /\ slicing' = TRUE
            /\ index' = 0
            /\ current' = <<>> /\ before' = <<>> /\ cut' = <<>>
            /\ UNCHANGED tasks
    /\ UNCHANGED plannerVars

\* The edge in hand, its two ends in the order of the route.
Edge == doc.edges[route.edges[index + 1]]
From == route.vertices[index + 1]
To == route.vertices[index + 2]

EdgeMode == BusinessMode(doc.vertices[From].type, doc.vertices[To].type)
IsSingleton == EdgeMode # "normal" \/ Edge.obstacle = 4
LacksGridMap(e) == e.obstacle = 4 /\ e.gridMap = ""
IsRefused == ~ValidateTraversal(Edge, From, To) \/ LacksGridMap(Edge)

InLoop == slicing /\ index < Len(route.edges)

\* An exception ends the callback; no tasks are published.
RefuseRoute ==
    /\ InLoop
    /\ IsRefused
    /\ slicing' = FALSE
    /\ UNCHANGED <<plannerVars, heard, route, index, current, before, cut, tasks>>

\* A business pair of vertices or a grid edge is a task of its own.
SliceSingleton ==
    /\ InLoop /\ ~IsRefused
    /\ IsSingleton
    /\ cut' = cut \o current
               \o <<NewTask(EdgeMode, Attributes(Edge), From, To, route.edges[index + 1])>>
    /\ current' = <<>>
    /\ before' = <<Attributes(Edge)>>
    /\ index' = index + 1
    /\ UNCHANGED <<plannerVars, heard, slicing, route, tasks>>

\* Any other edge extends the current task unless its attributes differ from
\* the edge before it; a task then ends at a vertex that must end one.
SliceEdge ==
    /\ InLoop /\ ~IsRefused
    /\ ~IsSingleton
    /\ LET id == route.edges[index + 1]
           differs == before # <<>> /\ before # <<Attributes(Edge)>>
           starts == current = <<>> \/ differs
           built == IF starts THEN NewTask("normal", Attributes(Edge), From, To, id)
                              ELSE Extended(current[1], To, id)
           kept == IF starts THEN cut \o current ELSE cut
           ends == EndsTask(To) /\ index + 1 < Len(route.edges)
       IN  /\ cut' = IF ends THEN Append(kept, built) ELSE kept
           /\ current' = IF ends THEN <<>> ELSE <<built>>
    /\ before' = <<Attributes(Edge)>>
    /\ index' = index + 1
    /\ UNCHANGED <<plannerVars, heard, slicing, route, tasks>>

PublishTasksMutant ==
    /\ slicing
    /\ index = Len(route.edges)
    /\ slicing' = FALSE
    /\ heard' = status.request
    /\ tasks' = [request |-> route.request,
                 list |-> Numbered(Expand(cut \o current))]
    /\ current' = <<>>
    /\ UNCHANGED <<plannerVars, route, index, before, cut>>

\* After the loop: finish the last task, add the alignments, number and publish.
PublishTasks ==
    /\ slicing
    /\ index = Len(route.edges)
    /\ slicing' = FALSE
    /\ tasks' = [request |-> route.request,
                 list |-> Numbered(Expand(cut \o current))]
    /\ current' = <<>>
    /\ UNCHANGED <<plannerVars, heard, route, index, before, cut>>

SlicerNext ==
    \/ HearFailure \/ HearRoute \/ RefuseRoute
    \/ SliceSingleton \/ SliceEdge \/ PublishTasks

Next == \/ PlannerNext /\ UNCHANGED slicerVars
        \/ SlicerNext

\* The slicer's node goes on: a status is taken, the loop over the edges goes
\* round. Nothing is assumed of the planner, the odometry or the requests.
Spec == Init /\ [][Next]_vars /\ WF_vars(SlicerNext)
-----------------------------------------------------------------------------
\* Reference: the cost of the way along p up to its n-th vertex.
CostsAlong(p) ==
    LET cost[n \in 1..Len(p)] ==
          IF n = 1 THEN 0 ELSE cost[n - 1] + ArcCost(doc, p[n - 1], p[n])
    IN  cost

CostOf(p) == CostsAlong(p)[Len(p)]

IsRouteOf(s) ==
    /\ s.vertices[1] = s.start /\ Last(s.vertices) = s.goal
    /\ Len(s.edges) = Len(s.vertices) - 1
    /\ \A i \in DOMAIN s.edges :
           ValidateTraversal(doc.edges[s.edges[i]], s.vertices[i], s.vertices[i + 1])

(* A plan that succeeds is a route the slicer's own check of the travel      *)
(* modes accepts, its cost is the sum of its weights and no route is         *)
(* cheaper; a search that fails between two vertices of the graph was right: *)
(* there is no route (dijkstraShortestPath, its stale queue entries and its  *)
(* early end, and validateTraversal).                                        *)
PlanIsShortest ==
    [][status' # status =>
         LET s == status'
             routes == IF {s.start, s.goal} \subseteq Vertices
                       THEN SimpleRoutes(s.start, s.goal) ELSE {}
         IN  IF s.success
             THEN /\ IsRouteOf(s)
                  /\ s.cost = CostOf(s.vertices)
                  /\ \A p \in routes : s.cost <= CostOf(p)
             ELSE routes = {}]_vars

TaskOf(list, id) == CHOOSE k \in DOMAIN list : id \in ToSet(list[k].edges)

\* Why the route must be cut between its edges i and i + 1.
MustCut(i) ==
    LET e == doc.edges[route.edges[i]]
        f == doc.edges[route.edges[i + 1]]
        joint == doc.vertices[route.vertices[i + 1]]
        Type(j) == doc.vertices[route.vertices[j]].type
    IN  \/ Attributes(e) # Attributes(f)
        \/ 4 \in {e.obstacle, f.obstacle}
        \/ BusinessMode(Type(i), Type(i + 1)) # "normal"
        \/ BusinessMode(Type(i + 1), Type(i + 2)) # "normal"
        \/ joint.corner /\ joint.mustPass # "no"
        \/ joint.yaw

(* The tasks, joined end to end, drive the route that was planned, edge for  *)
(* edge and in its order, and are cut exactly where the edge attributes, a   *)
(* business pair, a grid edge, a mandatory corner or a heading demand it.  A *)
(* heading asked for on the way, and the heading of the goal, is turned to   *)
(* by a task that PID drives; and the robot stands wherever the next task is *)
(* another controller's or a business task's.                                *)
TasksServeTheRoute ==
    [][tasks' # tasks =>
         LET list == tasks'.list
             driven == FlattenSeq([k \in DOMAIN list |-> list[k].edges])
             n == Len(route'.vertices)
         IN  /\ tasks'.request = route'.request
             /\ driven = route'.edges
             /\ list[1].waypoints[1] = route'.start
             /\ \A k \in 1..(Len(list) - 1) :
                    Last(list[k].waypoints) = list[k + 1].waypoints[1]
             /\ \A i \in 1..(Len(driven) - 1) :
                    TaskOf(list, driven[i]) # TaskOf(list, driven[i + 1])
                        <=> MustCut(i)'
             /\ \A i \in 1..n :
                    i = n \/ (i > 1 /\ doc.vertices[route'.vertices[i]].yaw) =>
                    \E t \in ToSet(list) :
                       /\ Last(t.waypoints) = route'.vertices[i]
                       /\ t.attributes.controller = "pid"
                       /\ t.alignGoal
             /\ \A k \in DOMAIN list :
                    \/ list[k].stops
                    \/ /\ k < Len(list)
                       /\ list[k].mode = "normal" /\ list[k + 1].mode = "normal"
                       /\ list[k].attributes.controller
                            = list[k + 1].attributes.controller]_vars

(* The slicer hears of a plan only by a latched topic of depth one: the      *)
(* tasks still come to answer a plan that succeeds, unless a later request   *)
(* takes its place or one of its grid edges names no map.                    *)
LastPlanIsSliced ==
    \A r \in 1..3 :
        /\ status.request = r /\ status.success
        /\ \A i \in DOMAIN status.edges : ~LacksGridMap(doc.edges[status.edges[i]])
        ~> status.request # r \/ tasks.request = r
=============================================================================
