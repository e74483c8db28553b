SPECIFICATION FairSpec
CONSTANTS
  Nodes = {"planner", "mapper"}
  Recordings <- RampThenFlat
  NormalReach = 1
  CornerReach = 0
  GoalReach = 0
  MaxStart = 1
  Positions = {1, 5}
  Goals = {1, 3}
  MaxGoals = 2
  MaxRejections = 1
INVARIANTS
  SequencerSafe
PROPERTIES
  GoalIsServed
