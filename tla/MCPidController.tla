--------------------------- MODULE MCPidController ---------------------------
(* Small routes for PidController. *)
EXTENDS PidController

Leg(mode, obstacle, slope, stop, policy, goal) ==
  [resolved_controller_mode |-> mode, obstacle_mode |-> obstacle,
   contains_slope |-> slope, requires_stop_at_end |-> stop,
   completion_policy |-> policy, is_route_goal |-> goal, accepted |-> TRUE]

PidLeg == Leg("pid", 0, FALSE, FALSE, "transition", FALSE)
PidBlind == Leg("pid", 2, FALSE, TRUE, "transition", FALSE)
PidBusiness == Leg("pid", 0, FALSE, FALSE, "business_stop", FALSE)
PidGoal == Leg("pid", 0, FALSE, TRUE, "route_goal", TRUE)
Flat == Leg(Efficient, 1, FALSE, FALSE, "transition", FALSE)
FlatGoal == Leg(Efficient, 1, FALSE, TRUE, "route_goal", TRUE)
Slope == Leg(Efficient, 1, TRUE, FALSE, "transition", FALSE)
SlopeGoal == Leg(Efficient, 1, TRUE, TRUE, "route_goal", TRUE)
GridLeg == Leg("external_grid", 4, FALSE, TRUE, "transition", FALSE)
BadLeg == [PidLeg EXCEPT !.accepted = FALSE]

\* Routes for the safety gates: every way a task can end, and a task refused.
StopRoutes ==
  {<<PidLeg, Flat, PidBlind, PidGoal>>, <<PidBusiness, FlatGoal>>,
   <<PidLeg, GridLeg>>, <<Flat, BadLeg>>}

\* A route that needs the profile switched.
SwitchRoutes == {<<Slope, FlatGoal>>}
=============================================================================
