SPECIFICATION FairSpec
CONSTANTS
  EnableMotion = TRUE
  ReleaseWhenIdle = TRUE
  CommandTimeout = 0
  StateTimeout = 0
  CommandRepeat = 1
  AxisTimeout = 0
  Scenarios <- BothScenarios
  MaxWaiting = 1
PROPERTIES
  SilenceEndsMotion
  PreparedAgain
