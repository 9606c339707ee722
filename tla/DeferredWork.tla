------------------------------ MODULE DeferredWork ------------------------------
(***************************************************************************)
(* The two kinds of deferred work src/src/shim.c offers the FMAC library:  *)
(* the "tasklet", a work item, and in a LOW_POWER build the "timer", a     *)
(* kernel timer whose handler schedules a work item that runs the          *)
(* callback. The library (external) allocates an item, initialises it,     *)
(* schedules it from any context, and kills it before it frees it.         *)
(***************************************************************************)
EXTENDS Integers

CONSTANTS MaxSched   \* bound: how often an item is scheduled

ASSUME SchedAssumption == MaxSched \in Nat

Kinds == {"tasklet", "timer"}

VARIABLES
  item,    \* "none", "raw", "live", "killing", "killed", "freed"
  armed,   \* the kernel timer is pending
  queued,  \* the work item is pending
  running, \* the callback is running
  nsched,  \* how often the item was scheduled
  owed,    \* its work was queued or running when the timer was killed
  crashed  \* a NULL pointer was written through

workVars == <<item, armed, queued, running, nsched, owed, crashed>>

WorkTypeOK ==
  /\ item \in [Kinds -> {"none", "raw", "live", "killing", "killed", "freed"}]
  /\ armed \in BOOLEAN /\ owed \in BOOLEAN /\ crashed \in BOOLEAN
  /\ queued \in [Kinds -> BOOLEAN] /\ running \in [Kinds -> BOOLEAN]
  /\ nsched \in [Kinds -> 0..MaxSched]

WorkInit ==
  /\ item = [k \in Kinds |-> "none"]
  /\ armed = FALSE /\ owed = FALSE /\ crashed = FALSE
  /\ queued = [k \in Kinds |-> FALSE] /\ running = [k \in Kinds |-> FALSE]
  /\ nsched = [k \in Kinds |-> 0]

ItemBecomes(k, s) == item' = [item EXCEPT ![k] = s]

\* shim_tasklet_alloc, shim_timer_alloc
ItemAlloc(k) ==
  /\ ~crashed /\ item[k] = "none"
  /\ ItemBecomes(k, "raw")
  /\ UNCHANGED <<armed, queued, running, nsched, owed, crashed>>

\* No memory: shim_timer_alloc says so and initialises the work item it has not
\* got.
TimerAllocFail ==
  /\ ~crashed /\ item["timer"] = "none"
  /\ crashed' = TRUE
  /\ UNCHANGED <<item, armed, queued, running, nsched, owed>>

\* shim_tasklet_init, shim_timer_init
ItemSetup(k) ==
  /\ ~crashed /\ item[k] = "raw"
  /\ ItemBecomes(k, "live")
  /\ UNCHANGED <<armed, queued, running, nsched, owed, crashed>>

\* shim_tasklet_schedule, a no-op on a queued item, and shim_timer_schedule,
\* which moves a timer that is pending.
ItemSchedule(k) ==
  /\ ~crashed /\ item[k] = "live" /\ nsched[k] < MaxSched
  /\ nsched' = [nsched EXCEPT ![k] = @ + 1]
  /\ armed' = (armed \/ k = "timer")
  /\ queued' = [queued EXCEPT ![k] = @ \/ k = "tasklet"]
  /\ UNCHANGED <<item, running, owed, crashed>>

\* shim_timer_callback
TimerFires ==
  /\ ~crashed /\ armed
  /\ armed' = FALSE
  /\ queued' = [queued EXCEPT !["timer"] = TRUE]
  /\ UNCHANGED <<item, running, nsched, owed, crashed>>

\* fn_worker, shim_timer_invoke_callback
CallbackStart(k) ==
  /\ ~crashed /\ queued[k] /\ ~running[k]
  /\ queued' = [queued EXCEPT ![k] = FALSE]
  /\ running' = [running EXCEPT ![k] = TRUE]
  /\ UNCHANGED <<item, armed, nsched, owed, crashed>>

CallbackEnd(k) ==
  /\ ~crashed /\ running[k]
  /\ running' = [running EXCEPT ![k] = FALSE]
  /\ UNCHANGED <<item, armed, queued, nsched, owed, crashed>>

\* Faulty variant of TaskletKill: cancel_work, which does not wait.
TaskletKill_NoWait ==
  /\ ~crashed
  /\ item["tasklet"] = "live"
  /\ ItemBecomes("tasklet", "killed")
  /\ queued' = [queued EXCEPT !["tasklet"] = FALSE]
  /\ UNCHANGED <<armed, running, nsched, owed, crashed>>

\* shim_tasklet_kill: cancel_work_sync takes the item off the queue and waits
\* for a callback that is running.
TaskletKill ==
  /\ ~crashed
  /\ \/ /\ item["tasklet"] = "live"
        /\ ItemBecomes("tasklet", "killing")
        /\ queued' = [queued EXCEPT !["tasklet"] = FALSE]
     \/ /\ item["tasklet"] = "killing" /\ ~running["tasklet"]
        /\ ItemBecomes("tasklet", "killed")
        /\ UNCHANGED queued
  /\ UNCHANGED <<armed, running, nsched, owed, crashed>>

\* shim_timer_kill: del_timer_sync stops the timer and waits for its handler,
\* not for the work item the handler may have queued.
TimerKill ==
  /\ ~crashed /\ item["timer"] = "live"
  /\ ItemBecomes("timer", "killed")
  /\ armed' = FALSE
  /\ owed' = (queued["timer"] \/ running["timer"])
  /\ UNCHANGED <<queued, running, nsched, crashed>>

\* shim_tasklet_free, shim_timer_free
ItemFree(k) ==
  /\ ~crashed /\ item[k] = "killed"
  /\ ItemBecomes(k, "freed")
  /\ UNCHANGED <<armed, queued, running, nsched, owed, crashed>>

WorkNext ==
  \/ \E k \in Kinds : \/ ItemAlloc(k) \/ ItemSetup(k) \/ ItemSchedule(k)
                      \/ CallbackStart(k) \/ CallbackEnd(k) \/ ItemFree(k)
  \/ TimerAllocFail \/ TimerFires \/ TaskletKill \/ TimerKill

WorkSpec == WorkInit /\ [][WorkNext]_workVars
-----------------------------------------------------------------------------
(* Properties *)

\* When kill has returned no callback of the item runs or is still to come, so
\* freeing it is safe: always for a tasklet, and for a timer unless its work was
\* already queued or running when it was killed.
KillIsFinal ==
  \A k \in Kinds :
    (item[k] \in {"killed", "freed"} /\ (k = "tasklet" \/ ~owed)) =>
      ~queued[k] /\ ~running[k] /\ (k = "timer" => ~armed)
===============================================================================
