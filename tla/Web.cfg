SPECIFICATION WebSpec
CONSTANTS
  Browsers = {"b", "c"}
  Files = {"f", "g"}
  StoredFiles = {"f"}
  MaxWrites = 2
  MaxKeys = 1
  MaxCommands = 4
  Sessions = {"s"}
  MaxTexts = 2
  MaxBytes = 1
  Chunks = 2
  MaxPoses = 1
  MaxMaps = 1
INVARIANTS
  ConsoleSafe
  SessionsSafe
PROPERTIES
  BrowsersAreServed
\* No one has to ask for anything, and nothing runs on after the destructor.
CHECK_DEADLOCK FALSE
