--------------------------- MODULE GraphBuilder3D ---------------------------
(***************************************************************************)
(* How a graph is made of a recorded trajectory (graph_builder_3d.cpp) and *)
(* comes back from its file (file_loader_3d.cpp): the poses are joined one *)
(* to the next, then each anchor looks for other anchors that it can see.  *)
(* What is found out about two anchors is written to both, so that none is *)
(* looked at twice.  Clouds may show anything: which anchors are hidden is *)
(* found out when it is asked.                                             *)
(***************************************************************************)
EXTENDS Graph3D, FiniteSets

CONSTANTS
  Scenes,          \* trajectories: [poses, anchors, near, barred, apart, sector]
  MinShortcut,     \* min_shortcut_distance_m
  PerSector,       \* max_candidates_per_angular_bin, 0 for any number
  RayBudget,       \* max_raytrace_candidates_per_node, 0 for any number
  Quota            \* max_shortcut_edges_per_node, 0 for any number

Places3D(s) == 0..(s.poses - 1)

\* Who is near whom, and who is kept apart by time or height, goes both ways.
ASSUME ScenesAssumption ==
  /\ MinShortcut \in Nat /\ PerSector \in Nat /\ RayBudget \in Nat /\ Quota \in Nat
  /\ \A s \in Scenes :
       /\ s.poses \in Nat /\ s.anchors \subseteq Places3D(s)
       /\ s.near \in [s.anchors -> SUBSET s.anchors]
       /\ \A a, b \in s.anchors : a \in s.near[b] <=> b \in s.near[a]
       /\ s.barred \in [s.anchors -> SUBSET s.anchors]
       /\ \A a, b \in s.anchors : s.apart[a][b] \in Nat /\ s.sector[a][b] \in Nat

VARIABLES
  scene,       \* the trajectory: it never changes
  graph,       \* graph_
  built,       \* "chain", "anchors", "connecting" or "saved"
  joined,      \* how many poses are joined
  done,        \* the anchors that had their turn
  anchor,      \* the anchor whose turn it is
  visible,     \* the anchors it sees and is not yet joined to
  shortcut_count,
  loaded,      \* the graph that is read back
  unread       \* the edges of the file that were not read yet

building == <<graph, built, joined, done, anchor, visible, shortcut_count>>
builderVars == <<scene, building, loaded, unread>>

Chained == "sequential_odom"
Shortcut == "radius_visibility"
NoAnchor == -1

-----------------------------------------------------------------------------
(* Which anchors are worth a look. *)

Distance3D(a, b) == scene.apart[a][b]

\* The k nearest of some anchors, or all of them if k is 0 (std::sort and resize;
\* of two at the same distance either may come first).
NearestOf(a, anchors, k) ==
  IF k = 0 THEN {anchors}
  ELSE {some \in SUBSET anchors :
          /\ Cardinality(some) = IF Cardinality(anchors) < k THEN Cardinality(anchors) ELSE k
          /\ \A b \in some, c \in anchors \ some : Distance3D(a, b) <= Distance3D(a, c)}

countShortcutEdges(a) ==
  Cardinality({id \in outgoingEdges(graph, a) : graph.edges[id].source = Shortcut})

AtQuota(count) == Quota > 0 /\ count >= Quota

\* The anchors in reach about which nothing is known.
Undecided(a) ==
  {b \in scene.near[a] : b # a /\ b \notin graph.real[a] /\ b \notin graph.fake[a]}

\* What is too near in time or too far in height is dropped.
filterTimeAndZ(a, anchors) == anchors \ scene.barred[a]

\* pruneRedundantCandidates: a few of each direction, and a few of those.
Pruned(a, anchors) ==
  LET far == {b \in anchors : Distance3D(a, b) >= MinShortcut}
      sectors == {scene.sector[a][b] : b \in far}
  IN  UNION {NearestOf(a, kept, RayBudget) :
         kept \in {some \in SUBSET far :
                     \A i \in sectors :
                        {b \in some : scene.sector[a][b] = i}
                          \in NearestOf(a, {b \in far : scene.sector[a][b] = i}, PerSector)}}

\* What the clouds leave of them: nothing if none was read, all of them if nothing
\* is at the height of the robot, else those that no occupied cell hides.
SeenIn(anchors) == SUBSET anchors

-----------------------------------------------------------------------------

\* The constructor: a node for each pose.
BuilderInit ==
  /\ scene \in Scenes
  /\ graph = EmptyGraph(Places3D(scene))
  /\ built = "chain" /\ joined = 1 /\ done = {} /\ anchor = NoAnchor
  /\ visible = {} /\ shortcut_count = 0
  /\ loaded = EmptyGraph({}) /\ unread = {}

Between(a, b, source) == [start |-> a, end |-> b, both |-> TRUE, source |-> source]

\* connectSequentialChain
JoinNext ==
  /\ built = "chain" /\ joined < scene.poses
  /\ graph' = addEdge(graph, graph.next, Between(joined - 1, joined, Chained))
  /\ joined' = joined + 1
  /\ UNCHANGED <<scene, built, done, anchor, visible, shortcut_count, loaded, unread>>

ChainComplete ==
  /\ built = "chain" /\ joined >= scene.poses
  /\ built' = "anchors"
  /\ UNCHANGED <<scene, graph, joined, done, anchor, visible, shortcut_count, loaded, unread>>

\* The candidates that are dropped for any reason, or seen to be hidden, are marked.
LookFrom(a) ==
  LET candidates == Undecided(a)
      allowed == filterTimeAndZ(a, candidates)
      full == AtQuota(countShortcutEdges(a))
  IN  \E kept \in IF full THEN {{}} ELSE Pruned(a, allowed) :
      \E seen \in SeenIn(kept) :
        /\ graph' = markFakeNeighbors(graph, a, candidates \ seen)
        /\ visible' = seen

\* processPose, up to connectAllVisible: the anchors have their turns in order.
processPose(a) ==
  /\ built = "anchors" /\ a \in scene.anchors \ done
  /\ \A b \in scene.anchors \ done : a <= b
  /\ LookFrom(a)
  /\ built' = "connecting" /\ anchor' = a /\ shortcut_count' = countShortcutEdges(a)
  /\ UNCHANGED <<scene, joined, done, loaded, unread>>

\* connectAllVisible: the nearest first, as long as there is room.
Connect(b) ==
  /\ built = "connecting" /\ b \in visible
  /\ \A c \in visible : Distance3D(anchor, b) <= Distance3D(anchor, c)
  /\ visible' = visible \ {b}
  /\ IF AtQuota(shortcut_count)
     THEN /\ graph' = markFakeNeighbors(graph, anchor, {b})
          /\ UNCHANGED shortcut_count
     ELSE /\ graph' = addEdge(graph, graph.next, Between(anchor, b, Shortcut))
          /\ shortcut_count' = shortcut_count + 1
  /\ UNCHANGED <<scene, built, joined, done, anchor, loaded, unread>>

Connected3D ==
  /\ built = "connecting" /\ visible = {}
  /\ built' = "anchors" /\ done' = done \cup {anchor} /\ anchor' = NoAnchor
  /\ UNCHANGED <<scene, graph, joined, visible, shortcut_count, loaded, unread>>

\* saveGraphJson, and the nodes of loadGraph3D, with the neighbours of the file.
Save ==
  /\ built = "anchors" /\ done = scene.anchors
  /\ built' = "saved"
  /\ loaded' = [edges |-> <<>>, lookup |-> <<>>, next |-> 1,
                real |-> graph.real, fake |-> graph.fake]
  /\ unread' = DOMAIN graph.edges
  /\ UNCHANGED <<scene, graph, joined, done, anchor, visible, shortcut_count>>

\* The edges come in the order of an unordered map.
LoadEdge(id) ==
  /\ built = "saved" /\ id \in unread
  /\ loaded' = addEdge(loaded, id, graph.edges[id])
  /\ unread' = unread \ {id}
  /\ UNCHANGED <<scene, building>>

BuilderNext ==
  \/ JoinNext \/ ChainComplete
  \/ \E a \in scene.anchors : processPose(a) \/ Connect(a)
  \/ Connected3D \/ Save
  \/ \E id \in unread : LoadEdge(id)

BuilderSpec == BuilderInit /\ [][BuilderNext]_builderVars

-----------------------------------------------------------------------------
(* Properties *)

Edges3D(g) == {g.edges[id] : id \in DOMAIN g.edges}
NodePairs == Places3D(scene) \X Places3D(scene)

GraphOK(g) ==
  /\ g.real \in [Places3D(scene) -> SUBSET Places3D(scene)]
  /\ g.fake \in [Places3D(scene) -> SUBSET Places3D(scene)]
  /\ g.next \in Nat \ {0} /\ DOMAIN g.edges \subseteq 1..(g.next - 1)
  /\ Edges3D(g) \subseteq [start : Places3D(scene), end : Places3D(scene), both : {TRUE},
                           source : {Chained, Shortcut}]
  /\ DOMAIN g.lookup \subseteq NodePairs

BuilderTypeOK ==
  /\ scene \in Scenes /\ GraphOK(graph)
  /\ built \in {"chain", "anchors", "connecting", "saved"}
  /\ joined \in Nat \ {0} /\ done \subseteq scene.anchors
  /\ anchor \in scene.anchors \cup {NoAnchor} /\ visible \subseteq scene.anchors
  /\ shortcut_count \in Nat /\ unread \subseteq DOMAIN graph.edges
  /\ built = "saved" => GraphOK(loaded)

\* The index knows each edge under the nodes it joins, two nodes are joined once,
\* and neighbours are those an edge leads to.
IndexMatches(g) ==
  /\ \A id \in DOMAIN g.edges :
        LET e == g.edges[id]
        IN  e.start # e.end /\ KeyOf(e) \in DOMAIN g.lookup /\ g.lookup[KeyOf(e)] = id
  /\ \A key \in DOMAIN g.lookup :
        g.lookup[key] \in DOMAIN g.edges /\ KeyOf(g.edges[g.lookup[key]]) = key
NeighboursMatch(g) ==
  \A a, b \in Places3D(scene) :
     b \in g.real[a] <=> \E e \in Edges3D(g) : {e.start, e.end} = {a, b}

\* It is decided once, and for both, whether an anchor in reach of one that had
\* its turn is joined to it: no pair of anchors is looked at again from the other
\* end, or joined though it was rejected (markFakeNeighbor, processPose).
DecidedOnce ==
  \A a \in scene.anchors :
     /\ graph.real[a] \cap graph.fake[a] = {}
     /\ \A b \in graph.fake[a] : a \in graph.fake[b]
     /\ a \in done =>
          scene.near[a] \ {a} \subseteq graph.real[a] \cup graph.fake[a]

\* Whoever joins itself to others does not go beyond the limit, and no later
\* anchor joins itself to it (connectAllVisible).
QuotaKept ==
  \A id \in DOMAIN graph.edges :
     LET e == graph.edges[id]
     IN  e.source = Shortcut =>
           /\ e.start < e.end
           /\ Quota > 0 => countShortcutEdges(e.start) <= Quota

\* A file is read as the graph that was written, in whatever order its edges are.
ComesBack == built = "saved" /\ unread = {} => loaded = graph

BuilderSafe ==
  /\ BuilderTypeOK /\ IndexMatches(graph) /\ NeighboursMatch(graph)
  /\ DecidedOnce /\ QuotaKept /\ ComesBack

\* "Each node of the graph is joined by at most so many" shortcuts, in the end
\* (--max-shortcut-edges, route_graph_builder_3d_main.cpp).
ShortcutsAreCapped ==
  Quota > 0 => \A n \in Places3D(scene) : countShortcutEdges(n) <= Quota

=============================================================================
