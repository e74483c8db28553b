---------------------------- MODULE RouteServer3D ----------------------------
(***************************************************************************)
(* The action server of nav2_route3d (route_server_3d.cpp).  Its callbacks *)
(* are serial, but every goal is served by a thread of its own, detached,  *)
(* that no lifecycle callback waits for.  A lock guards the graph from a   *)
(* goal's first look at it until its messages are made; a goal leaves its  *)
(* thread only when it is answered.  A graph is known by the load that     *)
(* brought it, and what is made from it by the same number.                *)
(***************************************************************************)
EXTENDS Integers

CONSTANTS
  Goals,         \* goal handles
  Nobody,        \* no goal: the lock is free
  MaxLoads       \* bound: how often a graph is loaded

ASSUME ServerAssumption == Nobody \notin Goals /\ MaxLoads \in Nat

VARIABLES
  server3,       \* the lifecycle: "unconfigured", "inactive" or "active"
  graph_,        \* [load, empty]: load 0 is the graph of the constructor
  planner_,      \* whether planner, scorer and intent extractor exist
  graph_mutex_,  \* the goal whose thread holds it
  goals,         \* what is known of each goal
  shown,         \* the graph on the latched marker topic
  cleaned,       \* whether there was a cleanup
  broken         \* a null pointer was followed, or a graph read while replaced

goalVars == <<graph_mutex_, goals>>
server3Vars == <<server3, graph_, planner_, goalVars, shown, cleaned, broken>>

\* since: the graph when the goal was accepted; the others: what a part of the
\* answer was made of; onTopic: whether the path was published.
FreshGoal ==
  [phase |-> "unknown", since |-> 0, route |-> 0, path |-> 0, message |-> 0, onTopic |-> FALSE]

Configured == server3 \in {"inactive", "active"}

Server3Init ==
  /\ server3 = "unconfigured" /\ graph_ = [load |-> 0, empty |-> TRUE] /\ planner_ = FALSE
  /\ graph_mutex_ = Nobody /\ goals = [g \in Goals |-> FreshGoal]
  /\ shown = 0 /\ cleaned = FALSE /\ broken = FALSE

Running == ~broken

-----------------------------------------------------------------------------
(* Lifecycle and graph *)

\* publishGraphMarkers: only an active publisher takes them, and it keeps the last.
publishGraphMarkers(load) == IF server3 = "active" THEN load ELSE shown

\* reloadGraph: a file that is not read leaves everything as it was.
reloadGraph(loads) ==
  IF ~loads THEN UNCHANGED <<graph_, planner_, shown>>
  ELSE /\ graph_.load < MaxLoads
       /\ \E empty \in BOOLEAN : graph_' = [load |-> graph_.load + 1, empty |-> empty]
       /\ planner_' = TRUE
       /\ shown' = publishGraphMarkers(graph_.load + 1)

\* Without a file the graph stays.  The lock is not taken: a thread that is left
\* from before may read the graph meanwhile.
on_configure ==
  /\ Running /\ server3 = "unconfigured"
  /\ \/ server3' = "inactive" /\ UNCHANGED <<graph_, planner_, shown, broken>>
     \/ /\ reloadGraph(TRUE) /\ server3' = "inactive"
        /\ broken' \in IF graph_mutex_ = Nobody THEN {FALSE} ELSE BOOLEAN
     \/ reloadGraph(FALSE) /\ UNCHANGED <<server3, broken>>
  /\ UNCHANGED <<goalVars, cleaned>>

on_activate ==
  /\ Running /\ server3 = "inactive"
  /\ server3' = "active" /\ shown' = graph_.load
  /\ UNCHANGED <<graph_, planner_, goalVars, cleaned, broken>>

on_deactivate ==
  /\ Running /\ server3 = "active"
  /\ server3' = "inactive"
  /\ UNCHANGED <<graph_, planner_, goalVars, shown, cleaned, broken>>

\* Servers and publishers go, the graph stays, and so do the threads.
on_cleanup ==
  /\ Running /\ server3 = "inactive"
  /\ server3' = "unconfigured" /\ planner_' = FALSE /\ shown' = 0 /\ cleaned' = TRUE
  /\ UNCHANGED <<graph_, goalVars, broken>>

setRouteGraph(loads) ==
  /\ Running /\ Configured /\ graph_mutex_ = Nobody
  /\ reloadGraph(loads)
  /\ UNCHANGED <<server3, goalVars, cleaned, broken>>

-----------------------------------------------------------------------------
(* Goals *)

\* handleComputeRouteGoal and its twin, and the thread that is started: also
\* while the server is inactive.
handleGoal(g) ==
  /\ Running /\ Configured /\ graph_mutex_ = Nobody /\ goals[g].phase = "unknown"
  /\ goals' = [goals EXCEPT ![g].phase = IF graph_.empty THEN "rejected" ELSE "accepted",
                            ![g].since = graph_.load]
  /\ UNCHANGED <<server3, graph_, planner_, graph_mutex_, shown, cleaned, broken>>

\* handleComputeRouteCancel and its twin accept, and no thread ever looks whether
\* there was a cancel: it changes nothing.

others3 == <<server3, graph_, planner_, shown, cleaned>>

\* (mutated: nobody is waited for)
LockFreeMutant == TRUE

LockFree == graph_mutex_ = Nobody

lockGraph(g) ==
  /\ Running /\ goals[g].phase = "accepted" /\ LockFree
  /\ graph_mutex_' = g /\ goals' = [goals EXCEPT ![g].phase = "intent"]
  /\ UNCHANGED <<others3, broken>>

\* Whatever throws under the lock ends the goal.
Abort(g) ==
  /\ graph_mutex_' = Nobody /\ goals' = [goals EXCEPT ![g].phase = "aborted"]
  /\ UNCHANGED <<others3, broken>>

Break == broken' = TRUE /\ UNCHANGED <<others3, graph_mutex_, goals>>

\* extractIntent: unknown nodes, an empty graph or a missing transform throw.
extractIntent(g) ==
  /\ Running /\ goals[g].phase = "intent"
  /\ \/ Abort(g)
     \/ ~planner_ /\ Break
     \/ /\ planner_ /\ ~graph_.empty
        /\ goals' = [goals EXCEPT ![g].phase = "planning"]
        /\ UNCHANGED <<others3, graph_mutex_, broken>>

computeRouteForIntent(g) ==
  /\ Running /\ goals[g].phase = "planning"
  /\ \/ Abort(g)
     \/ ~planner_ /\ Break
     \/ /\ planner_
        /\ goals' = [goals EXCEPT ![g].phase = "converting", ![g].route = graph_.load]
        /\ UNCHANGED <<others3, graph_mutex_, broken>>

\* routeToPath: nodes that the graph does not have throw.
routeToPath(g) ==
  /\ Running /\ goals[g].phase = "converting"
  /\ \/ graph_.load # goals[g].route /\ Abort(g)
     \/ /\ goals' = [goals EXCEPT ![g].phase = "telling", ![g].path = graph_.load]
        /\ UNCHANGED <<others3, graph_mutex_, broken>>

\* routeToMsg, the events and the markers; then the lock is given back.
tellRoute(g) ==
  /\ Running /\ goals[g].phase = "telling"
  /\ \/ graph_.load # goals[g].route /\ Abort(g)
     \/ ~Configured /\ Break
     \/ /\ Configured /\ graph_mutex_' = Nobody
        /\ goals' = [goals EXCEPT ![g].phase = "publishing", ![g].message = graph_.load]
        /\ UNCHANGED <<others3, broken>>

\* An inactive publisher drops the path, and the goal succeeds all the same.
publishPath(g) ==
  /\ Running /\ goals[g].phase = "publishing"
  /\ IF Configured
     THEN /\ goals' = [goals EXCEPT ![g].phase = "finishing",
                                    ![g].onTopic = server3 = "active"]
          /\ UNCHANGED <<others3, graph_mutex_, broken>>
     ELSE Break

\* The feedback, if it was asked to track, and the result.
succeed(g) ==
  /\ Running /\ goals[g].phase = "finishing"
  /\ goals' = [goals EXCEPT ![g].phase = "succeeded"]
  /\ UNCHANGED <<others3, graph_mutex_, broken>>

ServeGoal(g) ==
  \/ lockGraph(g) \/ extractIntent(g) \/ computeRouteForIntent(g) \/ routeToPath(g)
  \/ tellRoute(g) \/ publishPath(g) \/ succeed(g)

Server3Next ==
  \/ on_configure \/ on_activate \/ on_deactivate \/ on_cleanup
  \/ \E loads \in BOOLEAN : setRouteGraph(loads)
  \/ \E g \in Goals : handleGoal(g) \/ ServeGoal(g)

Server3Spec == Server3Init /\ [][Server3Next]_server3Vars

-----------------------------------------------------------------------------
(* Properties *)

Phases == {"unknown", "rejected", "accepted", "intent", "planning", "converting", "telling",
           "publishing", "finishing", "succeeded", "aborted"}

Server3TypeOK ==
  /\ server3 \in {"unconfigured", "inactive", "active"}
  /\ graph_ \in [load : Nat, empty : BOOLEAN] /\ shown \in Nat
  /\ {planner_, cleaned, broken} \subseteq BOOLEAN
  /\ graph_mutex_ \in Goals \cup {Nobody}
  /\ goals \in [Goals -> [phase : Phases, since : Nat, route : Nat, path : Nat,
                          message : Nat, onTopic : BOOLEAN]]

\* A goal that succeeds is answered from one graph, which was there at some time
\* between its acceptance and its answer, whatever was loaded meanwhile.
AnswersAreWhole ==
  ~cleaned => \A g \in Goals :
    goals[g].phase \in {"publishing", "finishing", "succeeded"} =>
      /\ goals[g].path = goals[g].route /\ goals[g].message = goals[g].route
      /\ goals[g].since <= goals[g].route /\ goals[g].route <= graph_.load

\* No goal meets a planner that is not there, a publisher that is gone or a graph
\* that is being replaced, unless the node was cleaned up under its threads.
NothingBreaks == broken => cleaned

\* The markers that a late subscriber gets are those of the graph in use.
MarkersAreCurrent == server3 = "active" => shown = graph_.load

ServerSafe ==
  Server3TypeOK /\ AnswersAreWhole /\ NothingBreaks /\ MarkersAreCurrent
=============================================================================
