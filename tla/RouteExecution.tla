---------------------------- MODULE RouteExecution ----------------------------
(***************************************************************************)
(* What the route executor promises to those who follow its status topic:  *)
(* the three fields of the status that say how far a route has come.  The  *)
(* specification of PidController implements it; PatrolLoop relies on it.  *)
(***************************************************************************)
EXTENDS Naturals

VARIABLE status             \* route_sequence, state and active, as published

States == {"IDLE", "READY", "TRACKING", "PAUSED", "WAITING_TRANSITION",
           "HANDOVER_REQUIRED", "FINISHED", "CANCELLED", "ERROR",
           "APPLYING_EFFICIENT_PROFILE"}

Status(seq, s, a) == [route_sequence |-> seq, state |-> s, active |-> a]
NoRouteYet == Status(0, "IDLE", FALSE)

Same(s, t) == t.route_sequence = s.route_sequence

\* A route replaces whatever was there, and no route is finished on arrival:
\* with execution.auto_start its first task is tracked, switched for or refused.
Stages(s, t) ==
  /\ t.route_sequence # 0
  /\ \/ t.active /\ t.state = "TRACKING"
     \/ ~t.active /\ t.state \in {"READY", "HANDOVER_REQUIRED", "ERROR",
                                  "APPLYING_EFFICIENT_PROFILE"}

\* The last task ended: the one way into FINISHED, out of an active route.
Finishes(s, t) ==
  /\ Same(s, t) /\ s.active
  /\ t.state = "FINISHED" /\ ~t.active

\* Everything else leaves the route as it is, and a task becomes active only
\* as it is tracked.
CarriesOn(s, t) ==
  /\ Same(s, t) /\ t.state \in States \ {"IDLE", "FINISHED"}
  /\ t.active => s.route_sequence # 0 /\ (s.active \/ t.state = "TRACKING")

Advances(s, t) == Stages(s, t) \/ Finishes(s, t) \/ CarriesOn(s, t)

Spec == status = NoRouteYet /\ [][Advances(status, status')]_status

=============================================================================
