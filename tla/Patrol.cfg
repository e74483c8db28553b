SPECIFICATION FairSpec
CONSTANTS
  StartId = 1
  GoalId = 2
  RequestMode = "start_goal"
  InitialDirection = 0
  MaxRoundTrips = 1
  PatrolAutoStart = FALSE
  WaitForIdle = TRUE
  ArrivalTimeout = FALSE
  Vertices = {1, 2}
  Connected <- AllPairs
  Sliceable <- AllPairs
  OperatorPairs <- OnePair
  MaxSequence = 3
  MaxEvents = 3
PROPERTIES
  LegIsDriven
  NoLegIsSkipped
  PatrolGoesOn
CHECK_DEADLOCK FALSE
