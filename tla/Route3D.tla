------------------------------- MODULE Route3D -------------------------------
(***************************************************************************)
(* The programs of nav2_route3d, in one instance: the builder of a graph   *)
(* with its file, one search for a route, and the route server.  Their     *)
(* graphs go by file from one to the next, so a behaviour is of one of     *)
(* them.                                                                   *)
(***************************************************************************)
EXTENDS GraphBuilder3D, RoutePlanner3D, RouteServer3D

VARIABLE tool3

route3DVars == <<tool3, builderVars, planner3Vars, server3Vars>>

Route3DInit ==
  /\ tool3 \in {"builder", "planner", "server"}
  /\ BuilderInit /\ Planner3Init /\ Server3Init

Route3DNext ==
  /\ UNCHANGED tool3
  /\ \/ tool3 = "builder" /\ BuilderNext /\ UNCHANGED <<planner3Vars, server3Vars>>
     \/ tool3 = "planner" /\ Planner3Next /\ UNCHANGED <<builderVars, server3Vars>>
     \/ tool3 = "server" /\ Server3Next /\ UNCHANGED <<builderVars, planner3Vars>>

Route3DSpec == Route3DInit /\ [][Route3DNext]_route3DVars

-----------------------------------------------------------------------------

\* What is decided about two anchors is decided for both and comes back from the
\* file; a goal is answered from one graph, though graphs are loaded meanwhile.
Route3DSafe == BuilderSafe /\ ServerSafe
=============================================================================
