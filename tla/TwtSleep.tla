-------------------------------- MODULE TwtSleep --------------------------------
(***************************************************************************)
(* The TWT sleep event of a LOW_POWER build (nrf_wifi_twt_sleep_callbk_fn, *)
(* src/src/main.c) on top of the life cycle of an interface. The firmware  *)
(* asks the driver to block transmission while the device sleeps and to    *)
(* unblock it afterwards; the callback stops and wakes the very queue that *)
(* start_xmit stops when it is full and queue_monitor_routine wakes when   *)
(* it has drained, and neither side knows of the other.                    *)
(***************************************************************************)
EXTENDS NetdevLifecycle

CONSTANTS MaxSleeps   \* bound: sleep periods of the firmware

ASSUME SleepsAssumption == MaxSleeps \in Nat

VARIABLES
  blocked,   \* the firmware's last sleep event was TWT_BLOCK_TX
  quiet,     \* no run of the monitor was due when that event stopped the queue
  unblocks   \* sleep periods that are over

twtVars   == <<blocked, quiet, unblocks>>
sleepVars == <<allVars, twtVars>>

SleepTypeOK ==
  /\ LifeTypeOK
  /\ blocked \in BOOLEAN /\ quiet \in BOOLEAN /\ unblocks \in 0..MaxSleeps

\* A run of queue_monitor_routine is pending, in progress, or about to be
\* scheduled by start_xmit.
MonitorDue == monPend \/ monPc # "idle" \/ xpc \in {"stop", "sched_mon"}

SleepInit ==
  /\ LifeInit
  /\ blocked = FALSE /\ quiet = FALSE /\ unblocks = 0

\* TWT_BLOCK_TX: netif_stop_queue.
TwtBlock ==
  /\ ~nd_freed /\ ~blocked /\ unblocks < MaxSleeps
  /\ blocked' = TRUE
  /\ quiet' = ~MonitorDue
  /\ stopped' = TRUE
  /\ UNCHANGED <<txq, counters, iftype, xmitVars, txVars, monVars, fmac,
                 lossVars, lifeVars, unblocks>>

\* Faulty variant of TwtUnblock: only the block is forgotten.
TwtUnblock_Ignored ==
  /\ ~nd_freed /\ blocked
  /\ blocked' = FALSE
  /\ unblocks' = unblocks + 1
  /\ UNCHANGED <<allVars, quiet>>

\* TWT_UNBLOCK_TX: netif_wake_queue, however full the queue is.
TwtUnblock ==
  /\ ~nd_freed /\ blocked
  /\ blocked' = FALSE
  /\ unblocks' = unblocks + 1
  /\ stopped' = FALSE
  /\ UNCHANGED <<txq, counters, iftype, xmitVars, txVars, monVars, fmac,
                 lossVars, lifeVars, quiet>>

SleepNext ==
  \/ LifeNext /\ UNCHANGED twtVars
  \/ TwtBlock
  \/ TwtUnblock

SleepSpec == SleepInit /\ [][SleepNext]_sleepVars

\* The thread inside close runs, and so does the system workqueue.
SleepFairSpec ==
  /\ SleepSpec
  /\ WF_sleepVars(CloseStep /\ UNCHANGED twtVars)
  /\ WF_sleepVars(LifeTx /\ UNCHANGED twtVars)
  /\ WF_sleepVars(LifeMon /\ UNCHANGED twtVars)
-----------------------------------------------------------------------------
(* Properties *)

\* A block that stopped the queue with no monitor run due keeps it stopped for
\* as long as the device sleeps, over close and open too: nothing else wakes the
\* queue. (A monitor run that was due wakes it under the block, see quiet.)
QuietBlockHolds == blocked /\ quiet => stopped

\* TWT_UNBLOCK_TX wakes a queue that start_xmit had stopped because it was full.
\* Every such event lets at most one more packet past the limit.
SleepBacklogBound ==
  num_tx_pkt - total_tx_pkts <= MaxPending + 1 + unblocks

\* Sharing the queue with the sleep event loses no wakeup: a stopped queue has
\* a monitor run ahead of it, or the firmware's unblock.
StoppedIsExplained == stopped => MonitorDue \/ blocked

\* Both: start_xmit, the monitor and the sleep event share one queue, and none
\* undoes or loses what another has asked for.
SleepSharesQueue == QuietBlockHolds /\ StoppedIsExplained
===============================================================================
