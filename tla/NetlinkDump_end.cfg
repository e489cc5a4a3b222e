SPECIFICATION Spec
CONSTANTS
  Requests = 1
  MaxRecs = 3
  BufferSize = 8
  Forms = {"good"}
  Faults = {"done_with_data"}
  None = None
INVARIANTS
  WholeDump
CHECK_DEADLOCK FALSE
