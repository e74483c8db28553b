SPECIFICATION EditorSpec
CONSTANTS
  Places = {0, 1, 2}
  Attributes = {1}
  UndoLimit = 2
  MaxId = 3
  MaxEdits = 2
INVARIANTS
  UndoIsSupported
CHECK_DEADLOCK FALSE
