SPECIFICATION FairSpec
CONSTANTS
  MaxStamp = 4
  QueueCapacity = 2
  HistoryCapacity = 1
  Tolerance = 1
  LogHit = 2
  LogMiss = 1
  LogFloor = 2
  LogMax = 4
  Threshold = 2
  HitConfirmation = 2
  DecayStart = 0
  DecayRate = 2
  FrontOnly = TRUE
  Poses = {"front", "behind", "inside", "far"}
  Scans = {{"voxel", "beyond"}, {"beyond"}, {}}
  MaxSwitches = 1
INVARIANTS
  MapperSafe
PROPERTIES
  MapsInOrder
  EvidenceIsGradual
  QueueDrains
CHECK_DEADLOCK FALSE
