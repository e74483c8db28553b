------------------------------ MODULE Graph3D ------------------------------
(***************************************************************************)
(* The graph of nav2_route3d (graph_3d.cpp): nodes with the neighbours an  *)
(* edge leads to and those that were found not to be reachable, edges by   *)
(* their numbers, and an index of the edges by the nodes they join.  Poses,*)
(* costs and the metadata of an edge but its source stay outside.          *)
(***************************************************************************)
EXTENDS Integers

\* The nodes are the domain of `real` and of `fake`.
EmptyGraph(nodes) ==
  [edges |-> <<>>, lookup |-> <<>>, next |-> 1,
   real |-> [n \in nodes |-> {}], fake |-> [n \in nodes |-> {}]]

Nodes3D(g) == DOMAIN g.real

\* An edge in both directions is found under its lesser node.
edgeKey(a, b, both) == IF both /\ b < a THEN <<b, a>> ELSE <<a, b>>
KeyOf(e) == edgeKey(e.start, e.end, e.both)

\* f with x mapped to y.
With(f, x, y) == [z \in DOMAIN f \cup {x} |-> IF z = x THEN y ELSE f[z]]

LargerOf(a, b) == IF a < b THEN b ELSE a

\* addEdge: what joins the same nodes already stays as it is; a number that is
\* taken keeps its edge.  The caller sees to the ends.
addEdge(g, id, e) ==
  IF KeyOf(e) \in DOMAIN g.lookup THEN g
  ELSE [g EXCEPT
         !.edges = IF id \in DOMAIN g.edges THEN g.edges ELSE With(g.edges, id, e),
         !.lookup = With(g.lookup, KeyOf(e), id),
         !.next = LargerOf(g.next, id + 1),
         !.real = [n \in DOMAIN g.real |->
                     IF n = e.start THEN g.real[n] \cup {e.end}
                     ELSE IF n = e.end /\ e.both THEN g.real[n] \cup {e.start}
                     ELSE g.real[n]]]

\* markFakeNeighbor, for node a and each of some others.
markFakeNeighbors(g, a, others) ==
  [g EXCEPT !.fake = [n \in DOMAIN g.fake |->
                        IF n = a THEN g.fake[n] \cup others
                        ELSE IF n \in others THEN g.fake[n] \cup {a} ELSE g.fake[n]]]

\* outgoingEdges: the numbers of the edges that can be taken at a node.
outgoingEdges(g, n) ==
  {id \in DOMAIN g.edges :
     g.edges[id].start = n \/ (g.edges[id].both /\ g.edges[id].end = n)}

=============================================================================
