SPECIFICATION FairSpec
CONSTANTS
  a = a
  b = b
  c = c
  d = d
  Blank = blank
  Listing <- RepeatedEntries
  Irrelevant = {b}
  PageSize = 3
  TotalLimit = 1
  MaxConcurrency = 2
  MaxAttempts = 2
  DurableWrites = TRUE
  OffsetPaging = FALSE
  Cap = 4
  MaxFaults = 2
PROPERTIES EveryRunEnds EverythingSettles
