SPECIFICATION FairSpec
CONSTANTS
  planner = planner
  Nodes = {planner}
  Routes <- StopRoutes
  AutoStart = TRUE
  SwitchingEnabled = FALSE
  ObstacleStopUsesStopMove = FALSE
  EnterFrames = 2
  ExitFrames = 3
  ClearHold = 2
  Clouds = {"clear", "obstacle", "unparsed"}
  MaxRoutes = 1
  MaxRevision = 0
  MaxRejections = 0
  MaxRestarts = 0
  MaxAlarms = 2
INVARIANTS
  SelectionSafe
PROPERTIES
  HoldServed
  HardStopEscalates
  SafetyStopEnds
  ImplementsExecution
