SPECIFICATION MapSpec
CONSTANTS
  Places = {0, 1}
  Attributes = {1}
  UndoLimit = 2
  MaxId = 3
  MaxEdits = 3
  Recordings <- SomeRecordings
  QueueSize = 2
  Slop = 1
  Expects = TRUE
  MessageKinds = {"expected", "other frame", "unusable"}
  MaxStamp = 3
INVARIANTS
  DocumentsSound
  RecordingSound
  DataSafe
PROPERTIES
  UndoneComesBack
CHECK_DEADLOCK FALSE
