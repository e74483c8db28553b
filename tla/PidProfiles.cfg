SPECIFICATION FairSpec
CONSTANTS
  planner = planner
  mapper = mapper
  Nodes = {planner, mapper}
  Routes <- SwitchRoutes
  AutoStart = TRUE
  SwitchingEnabled = TRUE
  ObstacleStopUsesStopMove = FALSE
  EnterFrames = 1
  ExitFrames = 1
  ClearHold = 0
  Clouds = {"clear"}
  MaxRoutes = 1
  MaxRevision = 4
  MaxRejections = 1
  MaxRestarts = 1
  MaxAlarms = 0
INVARIANTS
  EfficientUnderItsProfile
  ConfirmedMeansApplied
PROPERTIES
  SwitchEnds
