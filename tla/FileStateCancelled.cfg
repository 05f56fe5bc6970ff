SPECIFICATION Spec
CONSTANTS
  Tasks = {t1, t2}
  Records = {a, b}
  Cursors = {1}
  None = None
  MaxCalls = 4
  MaxFaults = 2
INVARIANT AcknowledgedKept
CHECK_DEADLOCK FALSE
