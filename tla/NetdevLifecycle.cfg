SPECIFICATION SleepFairSpec
CONSTANTS
  MaxPending = 1
  CounterMod = 1000
  MaxPkts = 4
  MaxPrepFail = 1
  MaxRefused = 0
  MaxOther = 0
  MaxEnqFail = 0
  MaxOpens = 2
  MaxSleeps = 1
  DownFirst = FALSE
INVARIANTS QuiescentAfterFlush SleepBacklogBound SleepSharesQueue
PROPERTY CloseReturns
CHECK_DEADLOCK FALSE
