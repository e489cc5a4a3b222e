SPECIFICATION Spec
CONSTANTS
  Requests = 2
  MaxRecs = 2
  BufferSize = 1
  Forms = {"good", "cut", "short"}
  Faults = {"interrupted", "done_with_data", "send", "recv", "noop"}
  None = None
INVARIANTS
  TypeOK
  Terminated
  OwnRecords
PROPERTIES
  Returns
  Implements
CHECK_DEADLOCK FALSE
