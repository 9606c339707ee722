------------------------------- MODULE NetdevTx -------------------------------
(***************************************************************************)
(* The data transmit path of one network interface (src/src/netdev.c).     *)
(*                                                                         *)
(* Four actors share the interface context:                                *)
(*   - nrf_wifi_netdev_start_xmit, called by the network stack under the   *)
(*     transmit lock, so at most one call is in progress (xpc);            *)
(*   - the work item ws_data_tx, nrf_cfg80211_data_tx_routine (txPc);      *)
(*   - the work item ws_queue_monitor, nrf_cfg80211_queue_monitor_routine  *)
(*     (monPc);                                                            *)
(*   - the FMAC library, which sends what it was handed and advances the   *)
(*     device-wide counter total_tx_pkts.                                  *)
(*                                                                         *)
(* A kernel work item is not re-entrant: schedule_work sets its pending    *)
(* bit (a no-op when it is set), a worker clears the bit and runs the      *)
(* handler, and an item scheduled while its handler runs is run again      *)
(* after it.                                                               *)
(***************************************************************************)
EXTENDS Integers, Sequences

CONSTANTS
  MaxPending,   \* CONFIG_NRF700X_MAX_TX_PENDING_QLEN (48 in the Makefile)
  CounterMod,   \* the modulus of the unsigned long long counters (2^64)
  MaxPkts,      \* bound: packets the stack offers
  MaxPrepFail,  \* bound: injected frames that fail preparation
  MaxRefused,   \* bound: packets the FMAC library refuses
  MaxOther,     \* bound: packets of other interfaces the library counts
  MaxEnqFail    \* bound: failed enqueues

ASSUME BoundsAssumption ==
  /\ MaxPkts \in Nat /\ MaxPrepFail \in Nat /\ MaxRefused \in Nat
  /\ MaxOther \in Nat /\ MaxEnqFail \in Nat

ASSUME PendingAssumption == MaxPending \in Nat \ {0}

ASSUME CounterAssumption == CounterMod \in Nat /\ CounterMod > MaxPending + 1

VARIABLES
  txq,            \* vif_ctx_lnx->data_txq, a FIFO of packets
  num_tx_pkt,     \* vif_ctx_lnx->num_tx_pkt
  total_tx_pkts,  \* host_stats->total_tx_pkts, shared by all interfaces
  stopped,        \* the netdev queue is stopped (netif_queue_stopped)
  iftype,         \* wdev->iftype
  xpc,            \* where nrf_wifi_netdev_start_xmit stands
  skb,            \* the last packet the stack offered; packets are 1, 2, ...
  retry,          \* the stack holds skb back after NETDEV_TX_BUSY
  txPend, txPc,   \* ws_data_tx: pending bit, progress of its handler
  netbuf,         \* the packet data_tx_routine has dequeued, 0 if none
  monPend, monPc, \* ws_queue_monitor: pending bit, progress of its handler
  fmac,           \* packets the FMAC library holds and has not counted yet
  prep_fail,      \* frames freed by the routine before the library saw them
  refused,        \* packets the library refused
  other,          \* packets of other interfaces counted so far
  enq_fail        \* failed enqueues so far

counters == <<num_tx_pkt, total_tx_pkts>>
xmitVars == <<xpc, skb, retry, enq_fail>>
txVars   == <<txPend, txPc, netbuf>>
monVars  == <<monPend, monPc>>
lossVars == <<prep_fail, refused, other>>

vars == <<txq, num_tx_pkt, total_tx_pkts, stopped, iftype, xpc, skb, retry,
          txPend, txPc, netbuf, monPend, monPc, fmac, prep_fail, refused,
          other, enq_fail>>

XmitPc == {"idle", "stop", "sched_mon", "enqueue", "count", "sched_tx"}
TxPc   == {"idle", "dequeue", "hand", "resched"}
MonPc  == {"idle", "check", "wake", "resched"}

TypeOK ==
  /\ txq \in Seq(Nat)
  /\ num_tx_pkt \in Nat /\ total_tx_pkts \in Nat
  /\ stopped \in BOOLEAN /\ retry \in BOOLEAN
  /\ iftype \in {"STATION", "MONITOR"}
  /\ xpc \in XmitPc /\ skb \in Nat
  /\ txPend \in BOOLEAN /\ txPc \in TxPc /\ netbuf \in Nat
  /\ monPend \in BOOLEAN /\ monPc \in MonPc
  /\ fmac \in Nat /\ prep_fail \in Nat /\ refused \in Nat
  /\ other \in Nat /\ enq_fail \in Nat

\* An interface as nrf_wifi_netdev_add_vif leaves it: zeroed context, empty
\* queue, both work items initialised and idle.
Init ==
  /\ txq = <<>>
  /\ num_tx_pkt = 0 /\ total_tx_pkts = 0
  /\ stopped = FALSE
  /\ iftype \in {"STATION", "MONITOR"}
  /\ xpc = "idle" /\ skb = 0 /\ retry = FALSE
  /\ txPend = FALSE /\ txPc = "idle" /\ netbuf = 0
  /\ monPend = FALSE /\ monPc = "idle"
  /\ fmac = 0 /\ prep_fail = 0 /\ refused = 0 /\ other = 0 /\ enq_fail = 0

\* num_tx_pkt - total_tx_pkts, the unsigned subtraction of both routines.
Pending == (num_tx_pkt - total_tx_pkts) % CounterMod

\* Faulty variant of Full: off by one.
Full_Late == Pending > MaxPending

\* Faulty variant of Full: == for >=, so that a queue beyond the limit is not full.
Full_AtLimit == Pending = MaxPending

\* start_xmit stops the queue.
Full == Pending >= MaxPending

\* Faulty variant of Drained: the limit itself, not its half, wakes the queue.
Drained_NoHysteresis == Pending <= MaxPending

\* queue_monitor_routine wakes the queue.
Drained == Pending <= MaxPending \div 2

\* Faulty variant of QueueAdd: list_add for list_add_tail.
QueueAdd_Head(q, p) == <<p>> \o q

\* nrf_wifi_utils_q_enqueue appends through the list operations of shim.c.
QueueAdd(q, p) == Append(q, p)

\* Faulty variant of MoreToSend: the routine relies on start_xmit alone.
MoreToSend_Never == FALSE

\* data_tx_routine sends one packet per run and reschedules itself for the
\* rest.
MoreToSend == Len(txq) > 0
-----------------------------------------------------------------------------
(* nrf_wifi_netdev_start_xmit *)

\* The stack calls it only while the queue is not stopped. A full queue is
\* noted here, stopped and handed to the monitor in the next two steps; the
\* packet is accepted all the same.
XmitCheck ==
  /\ xpc = "idle" /\ ~stopped
  /\ skb < MaxPkts \/ retry
  /\ skb' = IF retry THEN skb ELSE skb + 1
  /\ retry' = FALSE
  /\ xpc' = IF Full THEN "stop" ELSE "enqueue"
  /\ UNCHANGED <<txq, counters, stopped, iftype, txVars, monVars, fmac,
                 lossVars, enq_fail>>

\* Faulty variant of XmitStop: the monitor is not scheduled.
XmitStop_NoMonitor ==
  /\ xpc = "stop"
  /\ stopped' = TRUE
  /\ xpc' = "enqueue"
  /\ UNCHANGED <<txq, counters, iftype, skb, retry, txVars, monVars, fmac,
                 lossVars, enq_fail>>

XmitStop ==
  /\ xpc = "stop"
  /\ stopped' = TRUE
  /\ xpc' = "sched_mon"
  /\ UNCHANGED <<txq, counters, iftype, skb, retry, txVars, monVars, fmac,
                 lossVars, enq_fail>>

XmitScheduleMonitor ==
  /\ xpc = "sched_mon"
  /\ monPend' = TRUE
  /\ xpc' = "enqueue"
  /\ UNCHANGED <<txq, counters, stopped, iftype, skb, retry, txVars, monPc,
                 fmac, lossVars, enq_fail>>

XmitEnqueue ==
  /\ xpc = "enqueue"
  /\ txq' = QueueAdd(txq, skb)
  /\ xpc' = "count"
  /\ UNCHANGED <<counters, stopped, iftype, skb, retry, txVars, monVars, fmac,
                 lossVars, enq_fail>>

\* Faulty variant of XmitBusy: the packet is counted.
XmitBusy_Counted ==
  /\ xpc = "enqueue"
  /\ enq_fail < MaxEnqFail
  /\ enq_fail' = enq_fail + 1
  /\ retry' = TRUE
  /\ xpc' = "idle"
  /\ num_tx_pkt' = num_tx_pkt + 1
  /\ UNCHANGED <<txq, total_tx_pkts, stopped, iftype, skb, txVars, monVars, fmac,
                 lossVars>>

\* The list node could not be allocated: NETDEV_TX_BUSY, the stack keeps skb
\* and offers it again.
XmitBusy ==
  /\ xpc = "enqueue"
  /\ enq_fail < MaxEnqFail
  /\ enq_fail' = enq_fail + 1
  /\ retry' = TRUE
  /\ xpc' = "idle"
  /\ UNCHANGED <<txq, counters, stopped, iftype, skb, txVars, monVars, fmac,
                 lossVars>>

\* Faulty variant of XmitCount: the packet that stops the queue
\* is not counted.
XmitCount_NotWhenStopped ==
  /\ xpc = "count"
  /\ num_tx_pkt' = IF stopped THEN num_tx_pkt ELSE num_tx_pkt + 1
  /\ xpc' = "sched_tx"
  /\ UNCHANGED <<txq, total_tx_pkts, stopped, iftype, skb, retry, txVars,
                 monVars, fmac, lossVars, enq_fail>>

\* num_tx_pkt++ comes after the packet is visible to data_tx_routine.
XmitCount ==
  /\ xpc = "count"
  /\ num_tx_pkt' = num_tx_pkt + 1
  /\ xpc' = "sched_tx"
  /\ UNCHANGED <<txq, total_tx_pkts, stopped, iftype, skb, retry, txVars,
                 monVars, fmac, lossVars, enq_fail>>

XmitScheduleTx ==
  /\ xpc = "sched_tx"
  /\ txPend' = TRUE
  /\ xpc' = "idle"
  /\ UNCHANGED <<txq, counters, stopped, iftype, skb, retry, txPc, netbuf,
                 monVars, fmac, lossVars, enq_fail>>
-----------------------------------------------------------------------------
(* nrf_cfg80211_data_tx_routine *)

TxStart ==
  /\ txPend /\ txPc = "idle"
  /\ txPend' = FALSE
  /\ txPc' = "dequeue"
  /\ UNCHANGED <<txq, counters, stopped, iftype, xmitVars, netbuf, monVars,
                 fmac, lossVars>>

\* Nothing queued: the routine logs and returns without rescheduling.
TxNothing ==
  /\ txPc = "dequeue" /\ txq = <<>>
  /\ txPc' = "idle"
  /\ UNCHANGED <<txq, counters, stopped, iftype, xmitVars, txPend, netbuf,
                 monVars, fmac, lossVars>>

TxDequeue ==
  /\ txPc = "dequeue" /\ txq # <<>>
  /\ netbuf' = Head(txq)
  /\ txq' = Tail(txq)
  /\ txPc' = "hand"
  /\ UNCHANGED <<counters, stopped, iftype, xmitVars, txPend, monVars, fmac,
                 lossVars>>

\* nrf_wifi_prepare_monitor_tx_skb failed: the frame is freed, the library
\* never sees it, num_tx_pkt is not taken back.
TxPrepareFail ==
  /\ txPc = "hand" /\ iftype = "MONITOR"
  /\ prep_fail < MaxPrepFail
  /\ prep_fail' = prep_fail + 1
  /\ netbuf' = 0
  /\ txPc' = "resched"
  /\ UNCHANGED <<txq, counters, stopped, iftype, xmitVars, txPend, monVars,
                 fmac, refused, other>>

\* nrf_wifi_fmac_start_xmit (STATION) or nrf_wifi_fmac_start_rawpkt_xmit
\* (MONITOR) took the packet.
TxHandOver ==
  /\ txPc = "hand"
  /\ fmac' = fmac + 1
  /\ netbuf' = 0
  /\ txPc' = "resched"
  /\ UNCHANGED <<txq, counters, stopped, iftype, xmitVars, txPend, monVars,
                 lossVars>>

\* The library refused the packet: freed (MONITOR) or only logged (STATION).
TxRefused ==
  /\ txPc = "hand"
  /\ refused < MaxRefused
  /\ refused' = refused + 1
  /\ netbuf' = 0
  /\ txPc' = "resched"
  /\ UNCHANGED <<txq, counters, stopped, iftype, xmitVars, txPend, monVars,
                 fmac, prep_fail, other>>

TxResched ==
  /\ txPc = "resched"
  /\ txPend' = IF MoreToSend THEN TRUE ELSE txPend
  /\ txPc' = "idle"
  /\ UNCHANGED <<txq, counters, stopped, iftype, xmitVars, netbuf, monVars,
                 fmac, lossVars>>
-----------------------------------------------------------------------------
(* nrf_cfg80211_queue_monitor_routine *)

MonStart ==
  /\ monPend /\ monPc = "idle"
  /\ monPend' = FALSE
  /\ monPc' = "check"
  /\ UNCHANGED <<txq, counters, stopped, iftype, xmitVars, txVars, fmac,
                 lossVars>>

\* The counters are read here; the queue is woken, on that reading, later.
MonCheck ==
  /\ monPc = "check"
  /\ monPc' = IF Drained THEN "wake" ELSE "resched"
  /\ UNCHANGED <<txq, counters, stopped, iftype, xmitVars, txVars, monPend,
                 fmac, lossVars>>

MonWake ==
  /\ monPc = "wake"
  /\ stopped' = FALSE
  /\ monPc' = "idle"
  /\ UNCHANGED <<txq, counters, iftype, xmitVars, txVars, monPend, fmac,
                 lossVars>>

\* Faulty variant of MonResched: the monitor runs once.
MonResched_Once ==
  /\ monPc = "resched"
  /\ monPend' = monPend
  /\ monPc' = "idle"
  /\ UNCHANGED <<txq, counters, stopped, iftype, xmitVars, txVars, fmac,
                 lossVars>>

MonResched ==
  /\ monPc = "resched"
  /\ monPend' = TRUE
  /\ monPc' = "idle"
  /\ UNCHANGED <<txq, counters, stopped, iftype, xmitVars, txVars, fmac,
                 lossVars>>
-----------------------------------------------------------------------------
(* The FMAC library (external) and the rest of the device *)

FmacCount ==
  /\ fmac > 0
  /\ fmac' = fmac - 1
  /\ total_tx_pkts' = total_tx_pkts + 1
  /\ UNCHANGED <<txq, num_tx_pkt, stopped, iftype, xmitVars, txVars, monVars,
                 lossVars>>

\* total_tx_pkts belongs to the device: it also counts what other interfaces
\* send, while num_tx_pkt belongs to this interface.
OtherInterfaceCount ==
  /\ other < MaxOther
  /\ other' = other + 1
  /\ total_tx_pkts' = total_tx_pkts + 1
  /\ UNCHANGED <<txq, num_tx_pkt, stopped, iftype, xmitVars, txVars, monVars,
                 fmac, prep_fail, refused>>

\* nrf_wifi_cfg80211_chg_vif stores the new type; nothing keeps it apart from
\* a running work item.
ChangeIftype ==
  /\ iftype' \in {"STATION", "MONITOR"} \ {iftype}
  /\ UNCHANGED <<txq, counters, stopped, xmitVars, txVars, monVars, fmac,
                 lossVars>>
-----------------------------------------------------------------------------
XmitStep == XmitStop \/ XmitScheduleMonitor \/ XmitEnqueue \/ XmitBusy
              \/ XmitCount \/ XmitScheduleTx

TxWork  == TxStart \/ TxNothing \/ TxDequeue \/ TxPrepareFail \/ TxHandOver
             \/ TxRefused \/ TxResched

MonWork == MonStart \/ MonCheck \/ MonWake \/ MonResched

Next == XmitCheck \/ XmitStep \/ TxWork \/ MonWork \/ FmacCount
          \/ OtherInterfaceCount \/ ChangeIftype

Spec == Init /\ [][Next]_vars

\* A started call returns, the system workqueue runs pending items, the
\* library keeps sending. The stack need not offer packets; a packet it holds
\* after NETDEV_TX_BUSY is offered again once the queue is not stopped.
Fairness ==
  /\ WF_vars(XmitStep)
  /\ WF_vars(XmitCheck /\ retry)
  /\ WF_vars(TxWork)
  /\ WF_vars(MonWork)
  /\ WF_vars(FmacCount)

FairSpec == Spec /\ Fairness
-----------------------------------------------------------------------------
(* Properties *)

\* Lost wakeups of ws_data_tx: a packet in data_txq always has a run of
\* data_tx_routine ahead of it. The routine sends one packet per run and
\* reschedules itself only if the queue is not empty, so a packet enqueued
\* after that test must be covered by start_xmit's own schedule_work.
NoStrandedPacket ==
  txq # <<>> => txPend \/ txPc # "idle" \/ xpc \in {"count", "sched_tx"}

\* Lost wakeups of the stack: while the queue is stopped, queue_monitor_routine
\* is pending, running, or about to be scheduled by start_xmit, so somebody
\* is left to wake the queue.
StoppedIsWatched ==
  stopped => monPend \/ monPc # "idle" \/ xpc = "sched_mon"

\* Every packet counted in num_tx_pkt is in exactly one place: counted by the
\* library, held by it, queued, in the routine's hands, or given up. A packet
\* given up by the routine stays in num_tx_pkt - total_tx_pkts for ever.
Accounting ==
  num_tx_pkt + (IF xpc = "count" THEN 1 ELSE 0) =
    (total_tx_pkts - other) + fmac + Len(txq)
      + (IF txPc = "hand" THEN 1 ELSE 0) + prep_fail + refused

\* CONFIG_NRF700X_MAX_TX_PENDING_QLEN is exceeded by at most one packet: the
\* one accepted by the call of start_xmit that stops the queue. Nor is the queue
\* woken when it has filled up again: queue_monitor_routine reads the counters
\* and wakes the queue later, but in between start_xmit can add at most the
\* packet of a call that had already begun.
PendingBound ==
  /\ num_tx_pkt - total_tx_pkts <= MaxPending + 1
  /\ monPc = "wake" => num_tx_pkt - total_tx_pkts <= (MaxPending \div 2) + 1

\* start_xmit enqueues before it counts, so the library may count a packet
\* before num_tx_pkt does. While no other interface transmits, the unsigned
\* subtraction wraps only inside that window: never when start_xmit tests it.
WrapsOnlyInsideXmit ==
  other = 0 /\ num_tx_pkt < total_tx_pkts => xpc = "count"

\* The packets in the driver, oldest first.
InDriver == (IF txPc = "hand" THEN <<netbuf>> ELSE <<>>) \o txq

\* The number of packets start_xmit has enqueued.
Enqueued ==
  IF retry \/ xpc \in {"stop", "sched_mon", "enqueue"} THEN skb - 1 ELSE skb

Channel == INSTANCE TxChannel WITH
  Cap <- MaxPending + 1 + MaxOther, chan <- InDriver, accepted <- Enqueued,
  held <- fmac

\* The transmit path implements a bounded FIFO channel: no packet the stack
\* handed over is lost, duplicated or overtaken on its way through data_txq,
\* NETDEV_TX_BUSY included, and the driver's backlog is bounded.
ImplementsChannel == Channel!Spec

\* ... and every packet start_xmit accepted eventually leaves data_txq.
ImplementsFairChannel == Channel!FairSpec

\* Packets num_tx_pkt counts that total_tx_pkts will never count.
GivenUp == prep_fail + refused

\* A stopped queue is woken once the library has drained, unless the counters
\* have drifted apart: more than MaxPending/2 packets given up, or more
\* packets of other interfaces counted than packets given up, when the
\* unsigned difference wraps.
StoppedQueueWoken ==
  stopped ~> \/ ~stopped
             \/ GivenUp - other > MaxPending \div 2
             \/ other > GivenUp

\* docs/wfb-rx-compat-patch-plan.md requires of monitor transmit "No
\* reintroduction of ENOBUFS regression": a stopped queue does not stay
\* stopped for ever, with the senders' socket buffers filling up behind it.
InjectionNeverStalls == stopped ~> ~stopped
===============================================================================
