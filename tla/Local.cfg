CONSTANTS
  Ways = {direct, detour}
  Maps = {{}, {direct}}
  MaxChanges = 2
  Turn = 3
  Slack = 1
  Places = {here, there}
  CircleSetups <- SomeSetups
  MaxSamples = 4
  NoPlace = NoPlace
  NaN = NaN
  NoOdometry = NoOdometry
  MaxRuns = 2
  RunSamples = 2
SPECIFICATION DriversSpec
CHECK_DEADLOCK FALSE
INVARIANTS
  BenchmarksSafe
PROPERTIES
  JudgedOnItsMap
  StalePathsEnd
