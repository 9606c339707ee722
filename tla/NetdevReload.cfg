SPECIFICATION SleepSpec
CONSTANTS
  MaxPending = 2
  CounterMod = 1000
  MaxPkts = 4
  MaxPrepFail = 1
  MaxRefused = 1
  MaxOther = 0
  MaxEnqFail = 0
  MaxOpens = 2
  MaxSleeps = 0
  DownFirst = TRUE
INVARIANT SafeReload

CHECK_DEADLOCK FALSE
