SPECIFICATION PartsSpec
CONSTANTS
  AxisTimeout = 1
  ReplyTimeout = 1
  HeartbeatPeriod = 1
  IdSpace = 1
  Udp = FALSE
  Answered = {"usage_mode"}
  SilentLoss = TRUE
  Prompt = TRUE
  Commands = {"move", "usage_mode"}
  MaxQueue = 2
  MaxOutages = 1
  Bodies <- SomeBodies
  MessageIds = {9}
  ChunkSize = 12
  MaxFrames = 3
  MaxConnections = 2
  EnableMotion = TRUE
  CommandTimeout = 1
  StateTimeout = 1
  MaximumVelocity <- SomeLimits
  Lateral = FALSE
  Twists <- SomeTwists
  NotFinite = NotFinite
  MaxClock = 4
  MaxSteps = 1
INVARIANTS
  NoVelocityBehindStop
  FramesComeWhole
  ManualSafe
PROPERTIES
  ChannelSpec
  LinkIsServed
