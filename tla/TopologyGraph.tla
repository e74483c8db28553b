--------------------------- MODULE TopologyGraph ---------------------------
(***************************************************************************)
(* The Schema V2 topology graph as the planner and the slicer load it      *)
(* (route3d_dijkstra_planner/topology_graph): the checks of the loader,    *)
(* the one-pass slope annotation, the arcs an edge may be driven along and *)
(* the nearest vertex.                                                     *)
(*                                                                         *)
(* A document is a record with two functions from identifiers to records:  *)
(*   vertices: pos (one coordinate), corner, mustPass ("unset", "yes" or   *)
(*             "no"), yaw (alignFinalYaw), type (semantic type), slope     *)
(*   edges:    first, second, weight, dir, mode (travelMode), obstacle     *)
(*             (obstacleMode), controller (controllerMode), profile (the   *)
(*             speeds, the height offset, the box and the rotation flag    *)
(*             together), gridMap                                          *)
(* Every other field is carried along unread.                              *)
(***************************************************************************)
EXTENDS Integers, FiniteSets

TravelModes == {"bidirectional", "first_to_second", "second_to_first"}

\* meta.dir and meta.travelMode say the same thing twice and must agree.
ModeOfDirection(d) ==
    CASE d = 0 -> "bidirectional"
      [] d = 1 -> "first_to_second"
      [] d = 2 -> "second_to_first"
      [] OTHER -> "none"

EdgeIsValid(doc, e) ==
    /\ e.first # e.second
    /\ {e.first, e.second} \subseteq DOMAIN doc.vertices
    /\ e.weight >= 0
    /\ e.mode \in TravelModes
    /\ ModeOfDirection(e.dir) = e.mode

EndPoints(e) == {e.first, e.second}

\* TopologyGraph::load refuses a document that fails one of its checks: the
\* node that loads it does not start.
Loadable(doc) ==
    /\ DOMAIN doc.vertices # {}
    /\ \A i \in DOMAIN doc.edges : EdgeIsValid(doc, doc.edges[i])
    /\ \A i, j \in DOMAIN doc.edges :
           EndPoints(doc.edges[i]) = EndPoints(doc.edges[j]) => i = j

\* synchronizeSlopeAnnotationsOnePass: an edge at an authored slope vertex is a
\* slope. (The ends it promotes in turn mark no more edges.)
SlopeEdges(doc) ==
    {i \in DOMAIN doc.edges :
        \E v \in EndPoints(doc.edges[i]) : doc.vertices[v].slope}

\* The adjacency lists: edge i leads from u to v in a direction its travel
\* mode allows.
Arc(doc, u, i, v) ==
    /\ i \in DOMAIN doc.edges
    /\ LET e == doc.edges[i] IN
         \/ /\ e.mode # "second_to_first"
            /\ <<u, v>> = <<e.first, e.second>>
         \/ /\ e.mode # "first_to_second"
            /\ <<u, v>> = <<e.second, e.first>>

Neighbours(doc, u) ==
    {v \in DOMAIN doc.vertices : \E i \in DOMAIN doc.edges : Arc(doc, u, i, v)}

\* No two edges join the same vertices, so the arc from u to v is unique.
EdgeBetween(doc, u, v) == CHOOSE i \in DOMAIN doc.edges : Arc(doc, u, i, v)

ArcCost(doc, u, v) == doc.edges[EdgeBetween(doc, u, v)].weight

Distance(p, q) == IF p < q THEN q - p ELSE p - q

\* nearestVertex: the first of the closest vertices in the order of their ids.
NearestVertex(doc, p) ==
    CHOOSE v \in DOMAIN doc.vertices :
        \A w \in DOMAIN doc.vertices :
            LET dv == Distance(doc.vertices[v].pos, p)
                dw == Distance(doc.vertices[w].pos, p)
            IN  dv < dw \/ (dv = dw /\ v <= w)
=============================================================================
