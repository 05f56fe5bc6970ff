SPECIFICATION Spec
CONSTANTS
  Records = {a, b}
  MaxWrites = 3
  MaxFaults = 0
  MaxCrashes = 1
  a = a
  b = b
INVARIANTS NeverLost
CHECK_DEADLOCK FALSE
