SPECIFICATION FairSpec
CONSTANTS
  Tasks = {t1, t2, t3}
  Conns = {c1, c2, c3, c4}
  None = None
  MaxCancels = 2
INVARIANTS OneUserUnlessAbandoned UsesCurrentConnection ClosedOnce
PROPERTY EveryCallReturns
