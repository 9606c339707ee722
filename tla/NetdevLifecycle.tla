---------------------------- MODULE NetdevLifecycle ----------------------------
(***************************************************************************)
(* Opening, closing and deleting a network interface while its transmit    *)
(* path (NetdevTx) has work in flight: nrf_wifi_netdev_open and _close,    *)
(* nrf_wifi_netdev_del_vif as nrf_wifi_fmac_dev_deinit_lnx calls it when   *)
(* the driver is removed, and the carrier callback.                        *)
(*                                                                         *)
(* flush_work waits for the instance of the work item that is pending or   *)
(* running when it is called, not for one scheduled after that. The flush  *)
(* in progress is flush: "start" the pending instance has not started,     *)
(* "end" the instance waited for is running, "done" otherwise.             *)
(***************************************************************************)
EXTENDS NetdevTx

CONSTANTS
  MaxOpens,     \* bound: how often the interface is opened
  DownFirst     \* the interface is brought down before the driver is removed

VARIABLES
  ndo,      \* where open, close and delete stand
  carrier,  \* netif_carrier_ok
  flush,    \* the flush_work in progress
  backlog,  \* length of data_txq when close began to flush ws_data_tx
  removing, \* nrf_wifi_netdev_del_vif has been entered
  q_freed,  \* data_txq has been freed
  nd_freed, \* the netdev, and the context in it, has been freed
  opens     \* how often the interface was opened

lifeVars == <<ndo, carrier, flush, backlog, removing, q_freed, nd_freed, opens>>
allVars  == <<vars, lifeVars>>

Running == ndo = "up"

LifeTypeOK ==
  /\ TypeOK
  /\ ndo \in {"down", "up", "close", "flush_tx", "flush_mon", "unregister",
              "gone"}
  /\ carrier \in BOOLEAN /\ removing \in BOOLEAN
  /\ q_freed \in BOOLEAN /\ nd_freed \in BOOLEAN
  /\ flush \in {"start", "end", "done"}
  /\ backlog \in Nat /\ opens \in Nat

LifeInit ==
  /\ Init
  /\ ndo = "down" /\ carrier = FALSE /\ flush = "done" /\ backlog = 0
  /\ removing = FALSE /\ q_freed = FALSE /\ nd_freed = FALSE /\ opens = 0
-----------------------------------------------------------------------------
(* nrf_wifi_netdev_open *)

\* Faulty variant of Open: it starts the queue, as many drivers do.
Open_StartQueue ==
  /\ ndo = "down" /\ ~removing /\ opens < MaxOpens
  /\ ndo' = "up"
  /\ opens' = opens + 1
  /\ carrier' = (iftype = "MONITOR" \/ carrier)
  /\ stopped' = FALSE
  /\ UNCHANGED <<txq, counters, iftype, xmitVars, txVars, monVars, fmac,
                 lossVars, flush, backlog, removing, q_freed, nd_freed>>

\* A monitor interface gets its carrier here; a station's comes with an event.
\* The queue is not started: it stays as the last close left it.
Open ==
  /\ ndo = "down" /\ ~removing /\ opens < MaxOpens
  /\ ndo' = "up"
  /\ opens' = opens + 1
  /\ carrier' = (iftype = "MONITOR" \/ carrier)
  /\ UNCHANGED <<vars, flush, backlog, removing, q_freed, nd_freed>>

\* The firmware refused the state change: the interface stays down.
OpenFail ==
  /\ ndo = "down" /\ ~removing /\ opens < MaxOpens /\ iftype = "STATION"
  /\ opens' = opens + 1
  /\ UNCHANGED <<vars, ndo, carrier, flush, backlog, removing, q_freed,
                 nd_freed>>

\* nrf_wifi_netdev_if_state_chg_callbk_fn
CarrierChange ==
  /\ ~nd_freed
  /\ carrier' = ~carrier
  /\ UNCHANGED <<vars, ndo, flush, backlog, removing, q_freed, nd_freed, opens>>
-----------------------------------------------------------------------------
(* nrf_wifi_netdev_close; the stack has left start_xmit and calls it no more *)

AfterClose == IF removing THEN "gone" ELSE "down"

CloseStart ==
  /\ ndo = "up" /\ xpc = "idle" /\ ~removing
  /\ ndo' = "close"
  /\ UNCHANGED <<vars, carrier, flush, backlog, removing, q_freed, nd_freed,
                 opens>>

\* After a suspend, which always succeeds and does nothing, resume always fails,
\* and cfg80211 closes the interfaces of a device that did not resume.
Resume == CloseStart

CloseMonitor ==
  /\ ndo = "close" /\ iftype = "MONITOR"
  /\ carrier' = FALSE
  /\ ndo' = AfterClose
  /\ UNCHANGED <<vars, flush, backlog, removing, q_freed, nd_freed, opens>>

\* No memory, or the firmware refused: an early return without flushing. The
\* stack ignores the result, the interface is down.
CloseFail ==
  /\ ndo = "close" /\ iftype = "STATION"
  /\ ndo' = AfterClose
  /\ backlog' = Len(txq)
  /\ UNCHANGED <<vars, carrier, flush, removing, q_freed, nd_freed, opens>>

\* Faulty variant of CloseFlushTx: the flush does not wait.
CloseFlushTx_NoWait ==
  /\ ndo = "close" /\ iftype = "STATION"
  /\ flush' = "done"
  /\ backlog' = Len(txq)
  /\ ndo' = "flush_tx"
  /\ UNCHANGED <<vars, carrier, removing, q_freed, nd_freed, opens>>

\* flush_work(&ws_data_tx)
CloseFlushTx ==
  /\ ndo = "close" /\ iftype = "STATION"
  /\ flush' = IF txPend THEN "start" ELSE IF txPc # "idle" THEN "end" ELSE "done"
  /\ backlog' = Len(txq)
  /\ ndo' = "flush_tx"
  /\ UNCHANGED <<vars, carrier, removing, q_freed, nd_freed, opens>>

\* ... has returned; flush_work(&ws_queue_monitor)
CloseFlushMonitor ==
  /\ ndo = "flush_tx" /\ flush = "done"
  /\ flush' = IF monPend THEN "start"
              ELSE IF monPc # "idle" THEN "end" ELSE "done"
  /\ ndo' = "flush_mon"
  /\ UNCHANGED <<vars, carrier, backlog, removing, q_freed, nd_freed, opens>>

CloseEnd ==
  /\ ndo = "flush_mon" /\ flush = "done"
  /\ carrier' = FALSE
  /\ ndo' = AfterClose
  /\ UNCHANGED <<vars, flush, backlog, removing, q_freed, nd_freed, opens>>
-----------------------------------------------------------------------------
(* nrf_wifi_wlan_fmac_del_vif, nrf_wifi_netdev_del_vif *)

\* nrf_wifi_utils_q_free comes first, while the interface may still be up.
FreeQueue ==
  /\ ~removing
  /\ ndo = "down" \/ (ndo = "up" /\ ~DownFirst)
  /\ removing' = TRUE
  /\ q_freed' = TRUE
  /\ txq' = <<>>
  /\ UNCHANGED <<num_tx_pkt, total_tx_pkts, stopped, iftype, xmitVars, txVars,
                 monVars, fmac, lossVars, ndo, carrier, flush, backlog,
                 nd_freed, opens>>

\* unregister_netdevice closes an interface that is up.
UnregisterClose ==
  /\ removing /\ ndo = "up" /\ xpc = "idle"
  /\ ndo' = "close"
  /\ UNCHANGED <<vars, carrier, flush, backlog, removing, q_freed, nd_freed,
                 opens>>

\* rtnl_unlock lets the netdev be freed (priv_destructor = free_netdev).
FreeNetdev ==
  /\ removing /\ ndo \in {"down", "gone"} /\ ~nd_freed
  /\ nd_freed' = TRUE
  /\ ndo' = "gone"
  /\ UNCHANGED <<vars, carrier, flush, backlog, removing, q_freed, opens>>
-----------------------------------------------------------------------------
(* The transmit path under this life cycle *)

Started(pc) == IF ndo = pc /\ flush = "start" THEN "end" ELSE flush

\* Faulty variant of Ended: the flush also waits for a rescheduled instance.
Ended_Drain(pc) ==
  IF ndo = pc /\ flush = "end" THEN IF txPend' \/ monPend' THEN "start" ELSE "done"
  ELSE flush

Ended(pc) == IF ndo = pc /\ flush = "end" THEN "done" ELSE flush

LifeXmit ==
  /\ ~nd_freed
  /\ (XmitCheck /\ Running /\ carrier) \/ XmitStep
  /\ UNCHANGED lifeVars

LifeTx ==
  /\ ~nd_freed
  /\ \/ TxStart /\ flush' = Started("flush_tx")
     \/ (TxNothing \/ TxResched) /\ flush' = Ended("flush_tx")
     \/ (TxDequeue \/ TxPrepareFail \/ TxHandOver \/ TxRefused)
          /\ UNCHANGED flush
  /\ UNCHANGED <<ndo, carrier, backlog, removing, q_freed, nd_freed, opens>>

LifeMon ==
  /\ ~nd_freed
  /\ \/ MonStart /\ flush' = Started("flush_mon")
     \/ MonCheck /\ UNCHANGED flush
     \/ (MonWake \/ MonResched) /\ flush' = Ended("flush_mon")
  /\ UNCHANGED <<ndo, carrier, backlog, removing, q_freed, nd_freed, opens>>

\* The FMAC library counts a packet it sent.
LifeFmac ==
  /\ ~nd_freed
  /\ FmacCount
  /\ UNCHANGED lifeVars

\* nrf_wifi_cfg80211_chg_vif, which holds the rtnl lock as close and delete do.
\* An interface that becomes a monitor gets its carrier, open or not; one that
\* becomes a station keeps the carrier it has.
LifeChangeIftype ==
  /\ ~nd_freed /\ ndo \in {"up", "down"}
  /\ ChangeIftype
  /\ carrier' = (iftype' = "MONITOR" \/ carrier)
  /\ UNCHANGED <<ndo, flush, backlog, removing, q_freed, nd_freed, opens>>

CloseStep == CloseMonitor \/ CloseFail \/ CloseFlushTx \/ CloseFlushMonitor
               \/ CloseEnd

LifeNext ==
  \/ Open \/ OpenFail \/ CarrierChange
  \/ CloseStart \/ Resume \/ CloseStep
  \/ FreeQueue \/ UnregisterClose \/ FreeNetdev
  \/ LifeXmit \/ LifeTx \/ LifeMon \/ LifeFmac \/ LifeChangeIftype

LifeSpec == LifeInit /\ [][LifeNext]_allVars

\* The thread inside close runs, and so does the system workqueue.
LifeFairSpec ==
  /\ LifeSpec
  /\ WF_allVars(CloseStep)
  /\ WF_allVars(LifeTx)
  /\ WF_allVars(LifeMon)
-----------------------------------------------------------------------------
(* Properties *)

\* flush_work does not wait for the instance data_tx_routine schedules itself,
\* so close leaves ws_data_tx idle only if nothing was queued: then it is idle
\* when flush_work(&ws_data_tx) has returned.
QuiescentAfterFlush ==
  ndo = "flush_mon" /\ backlog = 0 => ~txPend /\ txPc = "idle"

\* close returns, although both work items reschedule themselves and the
\* monitor may do so for ever.
CloseReturns ==
  ndo \in {"close", "flush_tx", "flush_mon"} ~> ndo \in {"down", "gone"}

\* test-commands.md calls bringing the interface down before rmmod a "Safe
\* reload": no work item touches data_txq once del_vif has freed it.
SafeReload == q_freed => txPc # "dequeue"
===============================================================================
