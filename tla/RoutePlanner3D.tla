--------------------------- MODULE RoutePlanner3D ---------------------------
(***************************************************************************)
(* The search of nav2_route3d for a route (route_planner_3d.cpp): A* over  *)
(* the edges that the scorer lets through (edge_scorer_3d.cpp), one arc at *)
(* a time.  An improved node is queued again and nothing is ever closed,   *)
(* so a node may be expanded more than once.                               *)
(***************************************************************************)
EXTENDS Graph3D, Sequences, FiniteSets

CONSTANTS
  Queries,       \* [graph, apart, from, to, blocked, limited]: a call of plan
  Steep          \* the penalty for a slope beyond max_slope, 1.0e6

Terrains == {"open", "forbidden"}
EdgeTypes == {"normal", "stair_like_transition", "indoor_outdoor_transition", "steep_slope"}
ScoredEdges == [start : Nat, end : Nat, both : BOOLEAN, cost : Nat, closed : BOOLEAN,
                terrain : Terrains, extra : Nat, slope : Nat, max_slope : Nat,
                edge_type : EdgeTypes]

\* Costs, penalties and risks may be negative in a file: then nothing is
\* promised, as heuristic() says, and the search may not end.
ASSUME QueriesAssumption ==
  /\ Steep \in Nat
  /\ \A r \in Queries :
       /\ Nodes3D(r.graph) \subseteq Nat
       /\ \A id \in DOMAIN r.graph.edges :
            LET e == r.graph.edges[id]
            IN  e \in ScoredEdges /\ {e.start, e.end} \subseteq Nodes3D(r.graph)
       /\ \A a, b \in Nodes3D(r.graph) : r.apart[a][b] \in Nat
       /\ {r.from, r.to} \subseteq Nat
       /\ r.limited \in BOOLEAN

VARIABLES
  query,          \* the call: it never changes
  open,           \* frontier: pairs of a priority and a node
  cost_so_far, came_from,
  current_node,        \* the node that is expanded
  todo,           \* its edges that were not looked at yet
  planned,        \* "searching", "tracing", "route", "none" or "thrown"
  cost, node_ids, edge_ids     \* the route

planner3Vars == <<query, open, cost_so_far, came_from, current_node, todo, planned,
                  cost, node_ids, edge_ids>>

Edge3D(id) == query.graph.edges[id]

-----------------------------------------------------------------------------
(* EdgeScorer3D *)

valid(e) == ~e.closed /\ e.terrain # "forbidden"

\* slope and scene are the products of the metadata's scales and defaults.
slopePenalty(e) == IF e.slope > e.max_slope THEN Steep ELSE e.slope
scenePenalty(e) ==
  CASE e.edge_type = "stair_like_transition" -> 2
    [] e.edge_type = "indoor_outdoor_transition" -> 1
    [] e.edge_type = "steep_slope" -> 3
    [] OTHER -> 0
score(id) ==
  LET e == Edge3D(id) IN e.cost + e.extra + slopePenalty(e) + scenePenalty(e)

-----------------------------------------------------------------------------
(* plan *)

Heuristic(n) == query.apart[n][query.to]

\* An edge in both directions is turned round if need be.
FarEnd(id, n) == IF Edge3D(id).start = n THEN Edge3D(id).end ELSE Edge3D(id).start
Usable(id) == id \in DOMAIN query.graph.edges /\ id \notin query.blocked /\ valid(Edge3D(id))

Planner3Init ==
  /\ query \in Queries
  /\ open = {<<0, query.from>>} /\ current_node = query.from /\ todo = {}
  /\ cost_so_far = [n \in {query.from} |-> 0] /\ came_from = <<>>
  /\ planned = IF {query.from, query.to} \subseteq Nodes3D(query.graph)
               THEN "searching" ELSE "thrown"
  /\ cost = 0 /\ node_ids = <<>> /\ edge_ids = <<>>

Looping == planned = "searching" /\ todo = {}

\* The time is looked at before a node is expanded.
TimedOut ==
  /\ Looping /\ open # {} /\ query.limited
  /\ planned' = "thrown"
  /\ UNCHANGED <<query, open, cost_so_far, came_from, current_node, todo, cost, node_ids, edge_ids>>

\* Of several entries with the least priority the heap may give any.
ExpandNode(q) ==
  /\ Looping /\ q \in open
  /\ \A r \in open : q[1] <= r[1]
  /\ open' = open \ {q}
  /\ IF q[2] = query.to
     THEN /\ planned' = "tracing"
          /\ cost' = cost_so_far[query.to] /\ node_ids' = <<query.to>>
          /\ UNCHANGED <<current_node, todo>>
     ELSE /\ current_node' = q[2] /\ todo' = outgoingEdges(query.graph, q[2])
          /\ UNCHANGED <<planned, cost, node_ids>>
  /\ UNCHANGED <<query, cost_so_far, came_from, edge_ids>>

\* (mutated: the first way to a node is kept)
BetterMutant(n, new_cost) == n \notin DOMAIN cost_so_far

Better(n, new_cost) == n \notin DOMAIN cost_so_far \/ new_cost < cost_so_far[n]

\* The edges come in the order of an unordered map.
Relax3D(id) ==
  LET n == FarEnd(id, current_node)
      new_cost == cost_so_far[current_node] + score(id)
  IN  /\ planned = "searching" /\ id \in todo
      /\ todo' = todo \ {id}
      /\ IF Usable(id) /\ Better(n, new_cost)
         THEN /\ cost_so_far' = With(cost_so_far, n, new_cost)
              /\ came_from' = With(came_from, n, [node |-> current_node, edge |-> id])
              /\ open' = open \cup {<<new_cost + Heuristic(n), n>>}
         ELSE UNCHANGED <<cost_so_far, came_from, open>>
      /\ UNCHANGED <<query, current_node, planned, cost, node_ids, edge_ids>>

NoRoute ==
  /\ Looping /\ open = {}
  /\ planned' = "none"
  /\ UNCHANGED <<query, open, cost_so_far, came_from, current_node, todo, cost, node_ids, edge_ids>>

-----------------------------------------------------------------------------
(* reconstruct *)

Turned(s) == [k \in 1..Len(s) |-> s[Len(s) + 1 - k]]

TraceBack ==
  LET n == node_ids[Len(node_ids)]
  IN  /\ planned = "tracing" /\ n # query.from
      /\ IF n \in DOMAIN came_from
         THEN /\ edge_ids' = Append(edge_ids, came_from[n].edge)
              /\ node_ids' = Append(node_ids, came_from[n].node)
              /\ UNCHANGED planned
         ELSE planned' = "thrown" /\ UNCHANGED <<node_ids, edge_ids>>
      /\ UNCHANGED <<query, open, cost_so_far, came_from, current_node, todo, cost>>

TracedBack ==
  /\ planned = "tracing" /\ node_ids[Len(node_ids)] = query.from
  /\ node_ids' = Turned(node_ids) /\ edge_ids' = Turned(edge_ids)
  /\ planned' = "route"
  /\ UNCHANGED <<query, open, cost_so_far, came_from, current_node, todo, cost>>

Planner3Next ==
  \/ TimedOut \/ NoRoute \/ TraceBack \/ TracedBack
  \/ \E q \in open : ExpandNode(q)
  \/ \E id \in todo : Relax3D(id)

Planner3Spec == Planner3Init /\ [][Planner3Next]_planner3Vars

-----------------------------------------------------------------------------
(* Properties *)

\* The edges w lead along the nodes p, from the start to the goal.
IsRoute3D(p, w) ==
  /\ Len(p) = Len(w) + 1 /\ p[1] = query.from /\ p[Len(p)] = query.to
  /\ \A k \in 1..Len(w) :
       /\ Usable(w[k]) /\ w[k] \in outgoingEdges(query.graph, p[k])
       /\ p[k + 1] = FarEnd(w[k], p[k])

\* What the edges up to each place cost together.
CostsTo(w) ==
  LET c[k \in 0..Len(w)] == IF k = 0 THEN 0 ELSE c[k - 1] + score(w[k]) IN c
WayCost(w) == CostsTo(w)[Len(w)]

SimplePaths ==
  LET nodes == Nodes3D(query.graph)
  IN  {p \in UNION {[1..n -> nodes] : n \in 1..Cardinality(nodes)} :
         /\ p[1] = query.from /\ p[Len(p)] = query.to
         /\ \A i, j \in 1..Len(p) : p[i] = p[j] => i = j}

EdgesAlong(p) ==
  {w \in [1..(Len(p) - 1) -> DOMAIN query.graph.edges] : IsRoute3D(p, w)}

\* No edge is cheaper than the straight line, which nothing is shorter than.
Honest ==
  LET nodes == Nodes3D(query.graph)
  IN  /\ \A n \in nodes : query.apart[n][n] = 0
      /\ \A a, b, c \in nodes : query.apart[a][c] <= query.apart[a][b] + query.apart[b][c]
      /\ \A id \in DOMAIN query.graph.edges : Usable(id) =>
           LET e == Edge3D(id)
           IN  query.apart[e.start][e.end] <= score(id) /\ query.apart[e.end][e.start] <= score(id)

\* A route leads along edges that are open from the start to the goal, for no more
\* than it says.  If the edges are honest no route is cheaper, though a node may
\* have been improved after it was expanded; where none is found none is there;
\* and the way back is never lost (plan, reconstruct).
CheapestRoute ==
  /\ planned = "route" =>
       /\ IsRoute3D(node_ids, edge_ids) /\ WayCost(edge_ids) <= cost
       /\ Honest => \A p \in SimplePaths : \A w \in EdgesAlong(p) : cost <= WayCost(w)
  /\ planned = "none" => \A p \in SimplePaths : EdgesAlong(p) = {}
  /\ planned = "thrown" =>
       query.limited \/ ~({query.from, query.to} \subseteq Nodes3D(query.graph))
=============================================================================
