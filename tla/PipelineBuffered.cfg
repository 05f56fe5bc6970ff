SPECIFICATION Spec
CONSTANTS
  a = a
  b = b
  c = c
  d = d
  Blank = blank
  Listing <- NamesakeEntries
  Irrelevant = {b}
  PageSize = 2
  TotalLimit = 2
  MaxConcurrency = 2
  MaxAttempts = 1
  DurableWrites = FALSE
  OffsetPaging = TRUE
  Cap = 9
  MaxFaults = 3
INVARIANTS TypeOK MarkedIsDurable CursorBehindUnsettled LimitExact CompletedIsHealthy
PROPERTIES OutageCountsNothing NeverReprocessed KeepsLedger
