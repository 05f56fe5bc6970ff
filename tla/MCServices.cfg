SPECIFICATION Spec
CONSTANTS
  f = f
  m = m
  e = e
  main = main
  other = other
  c1 = c1
  c2 = c2
  c3 = c3
  Requests = {f, m, e}
  KindOf <- Kinds
  HostOf <- Hosts
  Limits <- OneSlot
  BatchesOf <- Batches
  MaxRetries = 2
  MaxRetryAfter = 2
  RetryAfters <- Waits
  Threads = {main, other}
  Main = main
  HasDeadline <- Deadlines
  MaxNest <- Nesting
  MaxLoops = 1
  Callers = {c1, c2, c3}
  RoleOf <- Roles
  RecordOf <- OneRecord
  EmbedLenient = FALSE
  AskLenient = TRUE
  MaxCacheFaults = 1
  Listing <- Results
  Unserved = {3}
  PageSize = 2
  Cap = 5
  Starts <- SavedCursors
  MaxExpiries = 1
  MaxFaults = 2
  MaxCancels = 1
  Inputs <- AllInputs
INVARIANTS
  RequestsJustified GuardedHears VerdictsHold ListingsWalkedWhole TransformsAgree
PROPERTY EveryCallEnds
CHECK_DEADLOCK FALSE
