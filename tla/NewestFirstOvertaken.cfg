SPECIFICATION Spec
CONSTANTS
  Entries = 7
  Unreadable = {}
  PageSize = 2
  PlainPageSize = 3
  HeadIdLimit = 2
  Totals = {FALSE}
  SubmitMidRun = TRUE
  MaxWithdrawals = 0
  MaxRuns = 3
INVARIANT HeadScanReachesUnsettled
CHECK_DEADLOCK FALSE
