SPECIFICATION MCSpec
CONSTANTS
  Polls = 3
  MaxOps = 4
  WakeupHz = 8000000
  DtsSpeed <- MCDtsSpeed
  BlockBytes = 8
  Counts = {4, 6}
  MaxAccess = 2
  MaxUpdates = 1
  MaxSched = 3
INVARIANTS EnabledMeansAwake SlowOnlyIfUnconfirmed ReadIsSound KillIsFinal
PROPERTY PowerOrder
CHECK_DEADLOCK FALSE
