SPECIFICATION FairSpec
CONSTANTS
  MaxPending = 2
  CounterMod = 1000
  MaxPkts = 5
  MaxPrepFail = 2
  MaxRefused = 0
  MaxOther = 0
  MaxEnqFail = 0
PROPERTY InjectionNeverStalls
