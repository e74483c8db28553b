----------------------------- MODULE PathDrivers -----------------------------
(***************************************************************************)
(* What gives the path follower its path: the local planner, modelled with *)
(* the follower it drives, and the two benchmarks that stand in for it.    *)
(* All publish the follower's path topic, so a behaviour is of one of      *)
(* them.                                                                   *)
(***************************************************************************)
EXTENDS LocalPlanner, CircleBenchmark, FixedPathBenchmark

VARIABLE driver

driverVars == <<driver, localVars, circleVars, fixedVars>>

Setup(motion, from_odometry, start_pose, clearance, unsafe) ==
  [enable_motion |-> motion, from_odometry |-> from_odometry, start_pose |-> start_pose,
   clearance |-> clearance, unsafe |-> unsafe]

\* The circle is locked by the first odometry or given, and driven from where the
\* robot is or from its start only.
SomeSetups ==
  {Setup(TRUE, TRUE, FALSE, FALSE, FALSE), Setup(FALSE, FALSE, TRUE, TRUE, FALSE),
   Setup(TRUE, TRUE, TRUE, TRUE, TRUE)}

\* One, and if there is such a one, with nothing to choose at its beginning.
AnySetup == CHOOSE s \in CircleSetups :
              s.from_odometry \/ \A r \in CircleSetups : ~r.from_odometry

DriversInit ==
  /\ driver \in {"planner", "circle", "fixed_path"}
  /\ LocalInit /\ CircleInit /\ FixedInit
  /\ driver # "circle" => setup = AnySetup   \* it does not run

DriversNext ==
  /\ UNCHANGED driver
  /\ \/ driver = "planner" /\ LocalNext /\ UNCHANGED <<circleVars, fixedVars>>
     \/ driver = "circle" /\ CircleNext /\ UNCHANGED <<localVars, fixedVars>>
     \/ driver = "fixed_path" /\ FixedNext /\ UNCHANGED <<localVars, circleVars>>

DriversSpec == DriversInit /\ [][DriversNext]_driverVars /\ LocalFairness

-----------------------------------------------------------------------------

\* A benchmark drives the follower only along the path of a run that is on, calls
\* a run complete only if it was driven to its end, and its files tell of that run.
BenchmarksSafe == CircleSafe /\ FixedSafe
=============================================================================
