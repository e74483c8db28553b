------------------------------ MODULE MCRoutes ------------------------------
(***************************************************************************)
(* A route in one instance: the planner and the slicer that make its       *)
(* tasks, the tracker that drives them, and the older route server.  A     *)
(* behaviour is of one of the three.                                       *)
(*                                                                         *)
(* Net jobs vary the graph of the planner: four vertices, five pairs of    *)
(* them joined or not, in one direction or both, at weights that tie,      *)
(* detour and vanish. Line jobs vary what the slicer looks at along a      *)
(* route of three edges. Odd jobs hold the requests that fail, the         *)
(* goal-only requests and the documents that do not load.                  *)
(*                                                                         *)
(* The tracks: a corner, then a stretch in reverse; a route that comes     *)
(* back beside itself, with two corners and one without; a task of one     *)
(* point.  For the older server: two trajectories that fold back on        *)
(* themselves, and graphs with honest edges and with one that is cheaper   *)
(* than its length.                                                        *)
(***************************************************************************)
EXTENDS RouteSlicer, RouteTracker, Route3D

Plain(x) == [pos |-> x, corner |-> FALSE, mustPass |-> "unset", yaw |-> FALSE,
             type |-> 0, slope |-> FALSE]

VertexKinds(x) ==
    {Plain(x), [Plain(x) EXCEPT !.corner = TRUE],
     [Plain(x) EXCEPT !.corner = TRUE, !.mustPass = "no"],
     [Plain(x) EXCEPT !.yaw = TRUE, !.slope = TRUE],
     [Plain(x) EXCEPT !.type = 3]}

Track(u, v, w, d) ==
    [first |-> u, second |-> v, weight |-> w, dir |-> d,
     mode |-> ModeOfDirection(d), obstacle |-> 0, controller |-> "auto",
     profile |-> "slow", gridMap |-> ""]

EdgeKinds(u, v) ==
    {Track(u, v, 1, 0), [Track(u, v, 1, 0) EXCEPT !.profile = "fast"],
     [Track(u, v, 1, 0) EXCEPT !.obstacle = 1],
     [Track(u, v, 1, 0) EXCEPT !.obstacle = 4, !.gridMap = "map"]}

Ask(s, g) == [kind |-> "start_goal", start |-> s, goal |-> g]
AskGoal(g) == [kind |-> "goal_only", start |-> 0, goal |-> g]
Malformed == [kind |-> "malformed", start |-> 0, goal |-> 0]

Joins(u, v) == {<<>>, <<Track(u, v, 1, 0)>>, <<Track(u, v, 3, 0)>>,
                <<Track(u, v, 0, 1)>>}

NetJobs ==
    {[doc |-> [vertices |-> [v \in 1..4 |-> Plain(v)], edges |-> es],
      positions |-> {}, requests |-> <<Ask(1, 4), Ask(3, 1)>>] :
        es \in {a \o b \o c \o d \o e :
                  a \in Joins(1, 2), b \in Joins(1, 3) \cup {<<Track(1, 3, 1, 2)>>},
                  c \in Joins(3, 2), d \in Joins(2, 4), e \in Joins(3, 4)}}

LineJobs ==
    {[doc |-> [vertices |-> (1 :> p @@ 2 :> q @@ 3 :> r @@ 4 :> s),
               edges |-> <<a, b, c>>],
      positions |-> {}, requests |-> <<Ask(1, 4)>>] :
        p \in {Plain(1)}, q \in VertexKinds(2),
        r \in VertexKinds(3), s \in {Plain(4), [Plain(4) EXCEPT !.type = 7, !.yaw = TRUE]},
        a \in EdgeKinds(1, 2), b \in EdgeKinds(2, 3), c \in EdgeKinds(3, 4)}

Odd(es, ps, rs) ==
    [doc |-> [vertices |-> [v \in 1..3 |-> Plain(4 * v)], edges |-> es],
     positions |-> ps, requests |-> rs]

OddJobs ==
    LET es == <<Track(1, 2, 1, 0), [Track(2, 3, 1, 0) EXCEPT !.obstacle = 4]>>
    IN  {Odd(es, {}, <<Malformed, Ask(1, 9), Ask(1, 3)>>),
         Odd(es, {2, 6, 9}, <<AskGoal(1), AskGoal(1), Ask(2, 2)>>),
         Odd(es, {5, 12}, <<AskGoal(2), Ask(1, 2), AskGoal(9)>>),
         Odd(<<Track(1, 2, 3, 0), Track(2, 1, 1, 0)>>, {}, <<Ask(1, 2)>>),
         Odd(<<Track(1, 1, 3, 0)>>, {}, <<Ask(1, 2)>>),
         Odd(<<[Track(1, 2, 1, 1) EXCEPT !.dir = 2]>>, {}, <<Ask(1, 2)>>),
         Odd(<<[Track(1, 2, 1, 1) EXCEPT !.weight = -1]>>, {}, <<Ask(1, 2)>>)}

AllJobs == NetJobs \cup LineJobs \cup OddJobs

-----------------------------------------------------------------------------

Arcs(points) ==
  LET arc[k \in DOMAIN points] ==
        IF k = 1 THEN 0 ELSE arc[k - 1] + Apart(points[k - 1], points[k])
  IN  arc

Plane(points, gates, tolerance, yaw) ==
  [points |-> points, arc |-> Arcs(points), gates |-> gates,
   radius |-> [k \in DOMAIN points |-> 1], tolerance |-> tolerance,
   align |-> TRUE, yaw |-> yaw, reverse |-> FALSE, isGoal |-> TRUE]

SomeTracks ==
  {[tasks |-> <<[Plane(<<<<0, 0>>, <<6, 0>>, <<6, 6>>>>, {2}, 3, <<0, 1>>) EXCEPT
                    !.align = FALSE, !.isGoal = FALSE],
                [Plane(<<<<6, 6>>, <<6, 10>>>>, {}, 1, <<-1, 0>>) EXCEPT
                    !.reverse = TRUE]>>,
    at |-> {<<0, 0>>, <<1, 1>>}],
   [tasks |-> <<Plane(<<<<0, 0>>, <<6, 0>>, <<6, 4>>, <<0, 4>>>>, {2, 3}, 1, <<-1, 0>>)>>,
    at |-> {<<0, 0>>, <<0, 1>>}],
   [tasks |-> <<Plane(<<<<2, 2>>>>, {}, 1, <<-1, 0>>)>>, at |-> {<<2, 2>>, <<3, 1>>}]}

NoTrack == [tasks |-> <<Plane(<<<<0, 0>>>>, {}, 0, <<1, 0>>)>>, at |-> {<<0, 0>>}]

-----------------------------------------------------------------------------

Squared(p, q) == (p[1] - q[1]) * (p[1] - q[1]) + (p[2] - q[2]) * (p[2] - q[2])
SectorOf(p, q) ==
  IF q[2] < p[2] THEN (IF q[1] < p[1] THEN 0 ELSE 1) ELSE (IF q[1] > p[1] THEN 2 ELSE 3)

Recorded(points, anchors, radius, barred) ==
  LET at(a) == points[a + 1]
  IN  [poses |-> Len(points), anchors |-> anchors,
       near |-> [a \in anchors |-> {b \in anchors : Squared(at(a), at(b)) <= radius}],
       barred |-> [a \in anchors |-> {b \in anchors : {a, b} \in barred}],
       apart |-> [a \in anchors |-> [b \in anchors |-> Squared(at(a), at(b))]],
       sector |-> [a \in anchors |-> [b \in anchors |-> SectorOf(at(a), at(b))]]]

SomeScenes ==
  {Recorded(<<<<0, 0>>, <<4, 0>>, <<4, 1>>, <<0, 1>>, <<0, 3>>, <<4, 3>>>>,
            {0, 2, 3, 5}, 25, {{0, 3}}),
   Recorded(<<<<0, 0>>, <<4, 0>>, <<4, 1>>, <<0, 1>>, <<2, 3>>>>, 0..4, 25, {})}

EdgeOf3D(a, b, both, price) ==
  [start |-> a, end |-> b, both |-> both, cost |-> price, closed |-> FALSE,
   terrain |-> "open", extra |-> 0, slope |-> 0, max_slope |-> 1, edge_type |-> "normal"]

\* Nodes on a line.
Call3D(at, edges, from, to, blocked, limited) ==
  LET nodes == 0..(Len(at) - 1)
  IN  [graph |-> [edges |-> edges, real |-> [n \in nodes |-> {}]],
       apart |-> [a \in nodes |-> [b \in nodes |->
                   IF at[a + 1] < at[b + 1] THEN at[b + 1] - at[a + 1]
                   ELSE at[a + 1] - at[b + 1]]],
       from |-> from, to |-> to, blocked |-> blocked, limited |-> limited]

HonestEdges ==
  <<EdgeOf3D(0, 1, TRUE, 1), EdgeOf3D(2, 1, TRUE, 4), EdgeOf3D(2, 3, TRUE, 1),
    EdgeOf3D(0, 4, FALSE, 2),
    [EdgeOf3D(4, 2, FALSE, 1) EXCEPT !.edge_type = "stair_like_transition"],
    [EdgeOf3D(1, 3, TRUE, 2) EXCEPT !.slope = 2]>>

\* The second node is far away and near by the edges.
CheapEdges ==
  <<EdgeOf3D(0, 1, TRUE, 1), EdgeOf3D(0, 2, TRUE, 3), EdgeOf3D(1, 2, TRUE, 1),
    EdgeOf3D(2, 3, FALSE, 1), [EdgeOf3D(0, 3, FALSE, 1) EXCEPT !.closed = TRUE]>>

SomeQueries ==
  {Call3D(<<0, 1, 2, 3, 1>>, HonestEdges, from, to, blocked, FALSE) :
     from \in {0, 3}, to \in {0, 3}, blocked \in {{}, {6}, {1, 3}}}
  \cup {Call3D(<<0, 9, 5, 0>>, CheapEdges, 0, 3, {}, limited) : limited \in BOOLEAN}
  \cup {Call3D(<<0, 9>>, <<>>, 0, 5, {}, FALSE)}

-----------------------------------------------------------------------------

VARIABLE half

halfVars == <<half, vars, trackerVars, route3DVars>>

OneJob == CHOOSE j \in OddJobs : Loadable(j.doc)

NoTracks ==
  /\ track = NoTrack /\ number = 1 /\ robot = <<0, 0>> /\ heading = <<1, 0>>
  /\ progress_m_ = 0 /\ active_segment_ = 1 /\ gate_index_ = 1
  /\ adjusting_ = TRUE /\ reached = TRUE /\ entered = {} /\ slips = 0

NoRoute3D == scene = CHOOSE s \in Scenes : TRUE
NoQuery == query = CHOOSE r \in Queries : TRUE

\* What is not run stays at one of its beginnings.
HalvesInit ==
  \/ /\ half = "tasks" /\ Init /\ NoTracks
     /\ tool3 = "server" /\ NoRoute3D /\ NoQuery /\ Route3DInit
  \/ /\ half = "tracks" /\ TrackerInit /\ job = OneJob /\ Init
     /\ tool3 = "server" /\ NoRoute3D /\ NoQuery /\ Route3DInit
  \/ /\ half = "route3d" /\ job = OneJob /\ Init /\ NoTracks /\ Route3DInit
     /\ tool3 # "builder" => NoRoute3D
     /\ tool3 # "planner" => NoQuery

HalvesNext ==
  /\ UNCHANGED half
  /\ \/ half = "tasks" /\ Next /\ UNCHANGED <<trackerVars, route3DVars>>
     \/ half = "tracks" /\ TrackerNext /\ UNCHANGED <<vars, route3DVars>>
     \/ half = "route3d" /\ Route3DNext /\ UNCHANGED <<vars, trackerVars>>

\* The slicer's node goes on, and the control timer fires.
HalvesSpec ==
  /\ HalvesInit /\ [][HalvesNext]_halfVars
  /\ WF_vars(SlicerNext) /\ WF_trackerVars(Tick)

(* Neither a plan nor its tasks are left lying: the slicer answers the last  *)
(* plan and the tracker drives its tasks to their end.                       *)
RoutesEnd == LastPlanIsSliced /\ Arrives
=============================================================================
