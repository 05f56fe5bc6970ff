SPECIFICATION Spec
CONSTANTS
  Entries = 7
  Unreadable = {6}
  PageSize = 2
  PlainPageSize = 2
  HeadIdLimit = 2
  Totals = {FALSE}
  SubmitMidRun = FALSE
  MaxWithdrawals = 0
  MaxRuns = 3
INVARIANTS GapIsSettled
CHECK_DEADLOCK FALSE
