SPECIFICATION Spec
CONSTANTS
  Processes = {p, q}
  Records = {1}
  None = None
  Cursors = {3}
  Existing = {"new", "version 1"}
  MaxOpens = 3
  MaxCalls = 1
  MaxFaults = 0
INVARIANT VersionTellsColumns
CHECK_DEADLOCK FALSE
