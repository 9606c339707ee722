SPECIFICATION FairSpec
CONSTANTS
  MaxPending = 2
  CounterMod = 1000
  MaxPkts = 7
  MaxPrepFail = 2
  MaxRefused = 1
  MaxOther = 1
  MaxEnqFail = 1
INVARIANTS NoStrandedPacket StoppedIsWatched Accounting PendingBound WrapsOnlyInsideXmit
PROPERTIES ImplementsFairChannel StoppedQueueWoken
