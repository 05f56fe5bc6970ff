SPECIFICATION Spec
CONSTANTS
  Records = {a, b}
  MaxWrites = 4
  MaxFaults = 2
  MaxCrashes = 2
  Tasks = {t1, t2}
  None = None
  MaxCalls = 4
INVARIANTS
  JsonlNeverLost CsvRecoverable KeptUnlessAbandoned UpgradesResume MemoryIsCurrent ClaimsAccounted
PROPERTIES ClearedLast CallsAreAtomic
CHECK_DEADLOCK FALSE
