----------------------------- MODULE NetdevProofs -----------------------------
(***************************************************************************)
(* Proofs about NetdevTx, NetdevLifecycle and TwtSleep, for every value of *)
(* their constants: the transmit path on its own, then what is left of it  *)
(* when the interface is opened, closed and deleted, and its queue stopped *)
(* and woken by the firmware's sleep events.                               *)
(***************************************************************************)
EXTENDS TwtSleep, SequenceTheorems, TLAPS

-----------------------------------------------------------------------------
(* The transmit path on its own *)

\* The packet of a call of start_xmit that num_tx_pkt does not count yet.
InXmit == IF xpc \in {"stop", "sched_mon", "enqueue", "count"} THEN 1 ELSE 0

\* What num_tx_pkt - total_tx_pkts is about to be.
Committed == num_tx_pkt - total_tx_pkts + InXmit

\* The monitor is scheduled by the call that stops the queue and ends by
\* waking it, so it is active exactly while the queue is stopped and is never
\* scheduled twice.
MonitorInv ==
  /\ monPend \/ monPc # "idle" => stopped /\ xpc \notin {"stop", "sched_mon"}
  /\ monPend => monPc = "idle"
  /\ xpc = "sched_mon" => stopped
  /\ xpc = "stop" => ~stopped
  /\ StoppedIsWatched

\* PendingBound with the packet in start_xmit counted in, and how much less
\* is committed while the queue is open or about to be woken.
BoundInv ==
  /\ Committed <= MaxPending + 1
  /\ ~stopped /\ xpc # "stop" => Committed <= MaxPending
  /\ monPc = "wake" => Committed <= (MaxPending \div 2) + 1

IInv == TypeOK /\ MonitorInv /\ BoundInv

\* The unsigned difference is the difference, when that fits.
LEMMA ModSmall ==
  ASSUME NEW d \in Nat, NEW m \in Nat, d < m
  PROVE  d % m = d
BY SMT

\* The test of start_xmit and the test of the monitor bound the difference,
\* wrapped or not.
LEMMA PendingReading ==
  ASSUME TypeOK, BoundInv
  PROVE  /\ ~Full => num_tx_pkt - total_tx_pkts < MaxPending
         /\ Drained => num_tx_pkt - total_tx_pkts <= MaxPending \div 2
<1> DEFINE d == num_tx_pkt - total_tx_pkts
<1>0. d \in Int /\ d <= MaxPending + 1
  BY PendingAssumption DEF TypeOK, BoundInv, Committed, InXmit
<1>1. CASE d >= 0
  <2>1. d \in Nat /\ d < CounterMod /\ CounterMod \in Nat
    BY <1>0, <1>1, CounterAssumption, PendingAssumption
  <2>2. Pending = d
    BY <2>1, ModSmall DEF Pending
  <2> QED BY <2>2, <1>0, PendingAssumption DEF Full, Drained
<1>2. CASE d < 0
  BY <1>0, <1>2, PendingAssumption
<1> QED BY <1>0, <1>1, <1>2

\* The initial state.
LEMMA InitIInv == Init => IInv
<1> SUFFICES ASSUME Init PROVE IInv
  OBVIOUS
<1>1. TypeOK
  <2>1. txq \in Seq(Nat) /\ iftype \in {"STATION", "MONITOR"}
    BY DEF Init
  <2>2. /\ xpc \in XmitPc /\ txPc \in TxPc /\ monPc \in MonPc
        /\ stopped \in BOOLEAN /\ retry \in BOOLEAN
        /\ txPend \in BOOLEAN /\ monPend \in BOOLEAN
    BY DEF Init, XmitPc, TxPc, MonPc
  <2> QED BY <2>1, <2>2 DEF Init, TypeOK
<1>2. MonitorInv
  BY DEF Init, MonitorInv, StoppedIsWatched
<1>3. BoundInv
  BY PendingAssumption DEF Init, BoundInv, Committed, InXmit
<1> QED BY <1>1, <1>2, <1>3 DEF IInv

\* Every step keeps the types.
LEMMA TypeStep == TypeOK /\ [Next]_vars => TypeOK'
<1> SUFFICES ASSUME TypeOK, [Next]_vars PROVE TypeOK'
  OBVIOUS
<1> USE BoundsAssumption
    DEF TypeOK, counters, xmitVars, txVars, monVars, lossVars, XmitPc, TxPc,
        MonPc
<1>1. CASE XmitCheck
  <2>1. skb' \in Nat
    BY <1>1 DEF XmitCheck
  <2>2. xpc' \in XmitPc /\ retry' \in BOOLEAN
    BY <1>1 DEF XmitCheck
  <2> QED BY <1>1, <2>1, <2>2 DEF XmitCheck
<1>2. CASE XmitStep
  <2>1. CASE XmitStop
    BY <2>1 DEF XmitStop
  <2>2. CASE XmitScheduleMonitor
    BY <2>2 DEF XmitScheduleMonitor
  <2>3. CASE XmitEnqueue
    BY <2>3 DEF XmitEnqueue, QueueAdd
  <2>4. CASE XmitBusy
    BY <2>4 DEF XmitBusy
  <2>5. CASE XmitCount
    BY <2>5 DEF XmitCount
  <2>6. CASE XmitScheduleTx
    BY <2>6 DEF XmitScheduleTx
  <2> QED BY <1>2, <2>1, <2>2, <2>3, <2>4, <2>5, <2>6 DEF XmitStep
<1>3. CASE TxWork
  <2>1. CASE TxStart
    BY <2>1 DEF TxStart
  <2>2. CASE TxNothing
    BY <2>2 DEF TxNothing
  <2>3. CASE TxDequeue
    BY <2>3 DEF TxDequeue
  <2>4. CASE TxPrepareFail
    BY <2>4 DEF TxPrepareFail
  <2>5. CASE TxHandOver
    BY <2>5 DEF TxHandOver
  <2>6. CASE TxRefused
    BY <2>6 DEF TxRefused
  <2>7. CASE TxResched
    BY <2>7 DEF TxResched, MoreToSend
  <2> QED BY <1>3, <2>1, <2>2, <2>3, <2>4, <2>5, <2>6, <2>7 DEF TxWork
<1>4. CASE MonWork
  BY <1>4 DEF MonWork, MonStart, MonCheck, MonWake, MonResched
<1>5. CASE FmacCount
  BY <1>5 DEF FmacCount
<1>6. CASE OtherInterfaceCount
  BY <1>6 DEF OtherInterfaceCount
<1>7. CASE ChangeIftype
  BY <1>7 DEF ChangeIftype
<1>8. CASE UNCHANGED vars
  BY <1>8 DEF vars
<1> QED BY <1>1, <1>2, <1>3, <1>4, <1>5, <1>6, <1>7, <1>8 DEF Next

\* The monitor stays active exactly while the queue is stopped.
LEMMA MonitorStep == IInv /\ [Next]_vars => MonitorInv'
<1> SUFFICES ASSUME IInv, [Next]_vars PROVE MonitorInv'
  OBVIOUS
<1> USE DEF IInv, TypeOK, MonitorInv, StoppedIsWatched, counters, xmitVars,
            txVars, monVars, lossVars, XmitPc, TxPc, MonPc
<1>1. CASE XmitCheck
  BY <1>1 DEF XmitCheck
<1>2. CASE XmitStep
  BY <1>2 DEF XmitStep, XmitStop, XmitScheduleMonitor, XmitEnqueue, XmitBusy,
              XmitCount, XmitScheduleTx
<1>3. CASE TxWork
  <2>1. UNCHANGED <<stopped, monPend, monPc, xpc>>
    BY <1>3 DEF TxWork, TxStart, TxNothing, TxDequeue, TxPrepareFail,
                TxHandOver, TxRefused, TxResched
  <2> QED BY <2>1
<1>4. CASE MonWork
  BY <1>4 DEF MonWork, MonStart, MonCheck, MonWake, MonResched
<1>5. CASE FmacCount \/ OtherInterfaceCount \/ ChangeIftype
  BY <1>5 DEF FmacCount, OtherInterfaceCount, ChangeIftype
<1>6. CASE UNCHANGED vars
  BY <1>6 DEF vars
<1> QED BY <1>1, <1>2, <1>3, <1>4, <1>5, <1>6 DEF Next

\* Every step that neither opens the queue nor starts a call of start_xmit can
\* only lower what is committed, which keeps BoundInv.
LEMMA BoundFrame ==
  ASSUME TypeOK, TypeOK', BoundInv,
         Committed' <= Committed,
         ~stopped' /\ xpc' # "stop" => ~stopped /\ xpc # "stop",
         monPc' = "wake" => monPc = "wake"
  PROVE  BoundInv'
<1>1. Committed \in Int /\ Committed' \in Int
  <2>1. /\ num_tx_pkt \in Nat /\ total_tx_pkts \in Nat
        /\ num_tx_pkt' \in Nat /\ total_tx_pkts' \in Nat
    BY DEF TypeOK
  <2>2. InXmit \in Int /\ InXmit' \in Int
    BY DEF InXmit
  <2> QED BY <2>1, <2>2 DEF Committed
<1>2. (MaxPending \div 2) \in Int /\ MaxPending \in Int
  BY PendingAssumption
<1> QED BY <1>1, <1>2 DEF BoundInv

\* Every step keeps what is committed within the limit.
LEMMA BoundStep == IInv /\ [Next]_vars => BoundInv'
<1> SUFFICES ASSUME IInv, [Next]_vars PROVE BoundInv'
  OBVIOUS
<1> USE DEF counters, xmitVars, txVars, monVars, lossVars
<1>t. TypeOK /\ TypeOK' /\ MonitorInv /\ BoundInv
  BY TypeStep DEF IInv
<1>0. /\ ~Full => num_tx_pkt - total_tx_pkts < MaxPending
      /\ Drained => num_tx_pkt - total_tx_pkts <= MaxPending \div 2
  BY <1>t, PendingReading
<1>n. num_tx_pkt \in Nat /\ total_tx_pkts \in Nat /\ Committed \in Int
  <2>1. num_tx_pkt \in Nat /\ total_tx_pkts \in Nat
    BY <1>t DEF TypeOK
  <2> QED BY <2>1 DEF Committed, InXmit
<1>1. CASE XmitCheck
  <2>1. /\ Committed = num_tx_pkt - total_tx_pkts
        /\ Committed' = num_tx_pkt - total_tx_pkts + 1
        /\ ~stopped /\ ~stopped' /\ xpc = "idle"
        /\ xpc' = IF Full THEN "stop" ELSE "enqueue"
        /\ monPc' = monPc
    BY <1>1, <1>n DEF XmitCheck, Committed, InXmit
  <2>2. monPc # "wake"
    BY <2>1, <1>t DEF MonitorInv
  <2> QED BY <1>0, <1>t, <1>n, <2>1, <2>2, PendingAssumption DEF BoundInv
<1>2. CASE XmitStep
  <2>1. CASE XmitStop
    <3>1. /\ Committed' = Committed /\ monPc' = monPc /\ stopped'
      BY <2>1, <1>n DEF XmitStop, Committed, InXmit
    <3> QED BY <1>t, <1>n, <3>1, BoundFrame
  <2>2. CASE XmitScheduleMonitor \/ XmitEnqueue
    <3>1. /\ Committed' = Committed /\ UNCHANGED <<monPc, stopped>>
          /\ xpc # "stop" /\ xpc' # "stop"
      BY <2>2, <1>n DEF XmitScheduleMonitor, XmitEnqueue, Committed, InXmit
    <3> QED BY <1>t, <1>n, <3>1, BoundFrame
  <2>3. CASE XmitBusy
    <3>1. /\ Committed' = Committed - 1 /\ UNCHANGED <<monPc, stopped>>
          /\ xpc # "stop"
      BY <2>3, <1>n DEF XmitBusy, Committed, InXmit
    <3> QED BY <1>t, <1>n, <3>1, BoundFrame
  <2>4. CASE XmitCount
    <3>1. /\ Committed' = Committed /\ UNCHANGED <<monPc, stopped>>
          /\ xpc # "stop"
      BY <2>4, <1>n DEF XmitCount, Committed, InXmit
    <3> QED BY <1>t, <1>n, <3>1, BoundFrame
  <2>5. CASE XmitScheduleTx
    <3>1. /\ Committed' = Committed /\ UNCHANGED <<monPc, stopped>>
          /\ xpc # "stop"
      BY <2>5, <1>n DEF XmitScheduleTx, Committed, InXmit
    <3> QED BY <1>t, <1>n, <3>1, BoundFrame
  <2> QED BY <1>2, <2>1, <2>2, <2>3, <2>4, <2>5 DEF XmitStep
<1>3. CASE TxWork \/ ChangeIftype \/ UNCHANGED vars
  <2>1. UNCHANGED <<num_tx_pkt, total_tx_pkts, xpc, stopped, monPc>>
    BY <1>3 DEF TxWork, TxStart, TxNothing, TxDequeue, TxPrepareFail,
                TxHandOver, TxRefused, TxResched, ChangeIftype, vars
  <2>2. Committed' = Committed
    BY <2>1 DEF Committed, InXmit
  <2> QED BY <1>t, <1>n, <2>1, <2>2, BoundFrame
<1>4. CASE MonWork
  <2>1. Committed' = Committed /\ xpc' = xpc
    BY <1>4 DEF MonWork, MonStart, MonCheck, MonWake, MonResched, Committed,
                InXmit
  <2>2. CASE MonStart \/ MonResched
    <3>1. stopped' = stopped /\ monPc' # "wake"
      BY <2>2 DEF MonStart, MonResched
    <3> QED BY <1>t, <1>n, <2>1, <3>1, BoundFrame
  <2>3. CASE MonCheck
    <3>1. /\ monPc' = IF Drained THEN "wake" ELSE "resched"
          /\ stopped' = stopped
      BY <2>3 DEF MonCheck
    <3>2. Committed <= num_tx_pkt - total_tx_pkts + 1
      BY <1>n DEF Committed, InXmit
    <3> QED BY <1>0, <1>t, <1>n, <2>1, <3>1, <3>2, PendingAssumption
            DEF BoundInv
  <2>4. CASE MonWake
    <3>1. monPc = "wake" /\ monPc' = "idle"
      BY <2>4 DEF MonWake
    <3>2. (MaxPending \div 2) + 1 <= MaxPending
      BY PendingAssumption
    <3> QED BY <1>t, <1>n, <2>1, <3>1, <3>2, PendingAssumption DEF BoundInv
  <2> QED BY <1>4, <2>2, <2>3, <2>4 DEF MonWork
<1>5. CASE FmacCount \/ OtherInterfaceCount
  <2>1. Committed' = Committed - 1 /\ UNCHANGED <<xpc, stopped, monPc>>
    BY <1>5, <1>n DEF FmacCount, OtherInterfaceCount, Committed, InXmit
  <2> QED BY <1>t, <1>n, <2>1, BoundFrame
<1> QED BY <1>1, <1>2, <1>3, <1>4, <1>5 DEF Next

\* IInv is an invariant of the transmit path.
LEMMA Invariance == Spec => []IInv
<1>1. IInv /\ [Next]_vars => IInv'
  BY TypeStep, MonitorStep, BoundStep DEF IInv
<1> QED BY <1>1, InitIInv, PTL DEF Spec

\* Every reachable state of the transmit path is well typed.
THEOREM TypeCorrect == Spec => []TypeOK
BY Invariance, PTL DEF IInv

\* A stopped queue always has a monitor run ahead of it.
THEOREM NoLostWakeup == Spec => []StoppedIsWatched
BY Invariance, PTL DEF IInv, MonitorInv

\* At most CONFIG_NRF700X_MAX_TX_PENDING_QLEN + 1 packets are pending, and the
\* monitor never wakes a queue that has filled up since it looked.
THEOREM Bounded == Spec => []PendingBound
<1>1. IInv => PendingBound
  BY PendingAssumption
     DEF IInv, TypeOK, BoundInv, Committed, InXmit, PendingBound
<1> QED BY <1>1, Invariance, PTL
-----------------------------------------------------------------------------
(* Where every packet is, and the refinement of TxChannel *)

FlowInv ==
  /\ Accounting
  /\ NoStrandedPacket
  /\ other <= MaxOther
  /\ xpc # "idle" => ~retry

\* Every step accounts for its packet and leaves a run ahead of each queued one.
LEMMA FlowStep == IInv /\ FlowInv /\ [Next]_vars => FlowInv'
<1> SUFFICES ASSUME IInv, FlowInv, [Next]_vars PROVE FlowInv'
  OBVIOUS
<1> USE BoundsAssumption
    DEF IInv, TypeOK, FlowInv, Accounting, NoStrandedPacket, counters,
        xmitVars, txVars, monVars, lossVars, XmitPc, TxPc, MonPc
<1>1. CASE XmitCheck
  BY <1>1 DEF XmitCheck
<1>2. CASE XmitStep
  <2>1. CASE XmitStop
    BY <2>1 DEF XmitStop
  <2>5. CASE XmitScheduleMonitor
    BY <2>5 DEF XmitScheduleMonitor
  <2>2. CASE XmitEnqueue
    BY <2>2 DEF XmitEnqueue, QueueAdd
  <2>3. CASE XmitBusy
    BY <2>3 DEF XmitBusy
  <2>4. CASE XmitCount
    BY <2>4 DEF XmitCount
  <2>6. CASE XmitScheduleTx
    BY <2>6 DEF XmitScheduleTx
  <2> QED BY <1>2, <2>1, <2>2, <2>3, <2>4, <2>5, <2>6 DEF XmitStep
<1>3. CASE TxWork
  <2>1. CASE TxStart
    BY <2>1 DEF TxStart
  <2>7. CASE TxNothing
    BY <2>7 DEF TxNothing
  <2>2. CASE TxDequeue
    BY <2>2 DEF TxDequeue
  <2>3. CASE TxPrepareFail
    BY <2>3 DEF TxPrepareFail
  <2>4. CASE TxHandOver
    BY <2>4 DEF TxHandOver
  <2>5. CASE TxRefused
    BY <2>5 DEF TxRefused
  <2>6. CASE TxResched
    BY <2>6 DEF TxResched, MoreToSend
  <2> QED BY <1>3, <2>1, <2>2, <2>3, <2>4, <2>5, <2>6, <2>7 DEF TxWork
<1>4. CASE MonWork
  <2>1. UNCHANGED <<txq, counters, xmitVars, txVars, fmac, lossVars>>
    BY <1>4 DEF MonWork, MonStart, MonCheck, MonWake, MonResched
  <2> QED BY <2>1
<1>5. CASE FmacCount
  BY <1>5 DEF FmacCount
<1>6. CASE OtherInterfaceCount
  BY <1>6 DEF OtherInterfaceCount
<1>7. CASE ChangeIftype
  BY <1>7 DEF ChangeIftype
<1>8. CASE UNCHANGED vars
  BY <1>8 DEF vars
<1> QED BY <1>1, <1>2, <1>3, <1>4, <1>5, <1>6, <1>7, <1>8 DEF Next

\* So is FlowInv, relative to IInv.
LEMMA FlowInvariance == Spec => [](IInv /\ FlowInv)
<1>1. Init => FlowInv
  BY BoundsAssumption DEF Init, FlowInv, Accounting, NoStrandedPacket
<1> QED BY <1>1, FlowStep, Invariance, PTL DEF Spec

\* Every packet start_xmit counted is in exactly one place.
THEOREM PacketsAccountedFor == Spec => []Accounting
BY FlowInvariance, PTL DEF FlowInv

\* A queued packet always has a run of data_tx_routine ahead of it.
THEOREM NoPacketStranded == Spec => []NoStrandedPacket
BY FlowInvariance, PTL DEF FlowInv

\* With one interface, start_xmit never tests a wrapped difference.
THEOREM NoWrapAtCheck == Spec => []WrapsOnlyInsideXmit
<1>1. IInv /\ FlowInv => WrapsOnlyInsideXmit
  BY DEF IInv, TypeOK, FlowInv, Accounting, WrapsOnlyInsideXmit
<1> QED BY <1>1, FlowInvariance, PTL

\* Appending to the second of two sequences appends to both.
LEMMA ConcatAppend ==
  ASSUME NEW s \in Seq(Nat), NEW t \in Seq(Nat), NEW e \in Nat
  PROVE  s \o Append(t, e) = Append(s \o t, e)
BY AppendIsConcat, ConcatAssociative, ConcatProperties

\* A nonempty sequence is its head followed by its tail.
LEMMA HeadConcatTail ==
  ASSUME NEW t \in Seq(Nat), t # <<>>
  PROVE  <<Head(t)>> \o Tail(t) = t
BY HeadTailProperties, ConcatSimplifications

\* Taking off the element a sequence was given in front.
LEMMA TailOfSingleton ==
  ASSUME NEW t \in Seq(Nat), NEW e \in Nat
  PROVE  /\ <<e>> \o t \in Seq(Nat) /\ <<e>> \o t # <<>>
         /\ Len(<<e>> \o t) = Len(t) + 1 /\ Tail(<<e>> \o t) = t
BY ConcatProperties, HeadTailProperties

\* Every step of the path is a step of the channel, or none.
LEMMA ChannelStep ==
  IInv /\ FlowInv /\ [Next]_vars => [Channel!Next]_(Channel!chanVars)
<1> SUFFICES ASSUME IInv, FlowInv, [Next]_vars
             PROVE  Channel!Next \/ UNCHANGED <<InDriver, Enqueued, fmac>>
  BY DEF Channel!chanVars
<1> USE BoundsAssumption, PendingAssumption
    DEF IInv, TypeOK, FlowInv, counters, xmitVars, txVars, monVars, lossVars,
        XmitPc, TxPc, MonPc
<1>1. CASE XmitCheck
  <2>1. UNCHANGED <<txq, txPc, netbuf, fmac>>
    BY <1>1 DEF XmitCheck
  <2>2. Enqueued' = Enqueued
    BY <1>1 DEF XmitCheck, Enqueued
  <2> QED BY <2>1, <2>2 DEF InDriver
<1>2. CASE XmitEnqueue
  <2>1. InDriver' = Append(InDriver, skb)
    BY <1>2, ConcatAppend, EmptySeq DEF XmitEnqueue, InDriver, QueueAdd
  <2>2. Enqueued + 1 = skb /\ Enqueued' = skb
    BY <1>2 DEF XmitEnqueue, Enqueued
  <2>3. Len(InDriver) = Len(txq) + (IF txPc = "hand" THEN 1 ELSE 0)
    BY TailOfSingleton, ConcatEmptySeq DEF InDriver
  <2>4. Len(InDriver) + fmac < MaxPending + 1 + MaxOther
    <3>1. num_tx_pkt - total_tx_pkts <= MaxPending
      BY <1>2 DEF XmitEnqueue, BoundInv, Committed, InXmit
    <3> QED BY <1>2, <2>3, <3>1 DEF XmitEnqueue, Accounting
  <2> QED BY <1>2, <2>1, <2>2, <2>4
          DEF XmitEnqueue, Channel!Next, Channel!Accept
<1>3. CASE XmitStop \/ XmitScheduleMonitor \/ XmitBusy \/ XmitCount
             \/ XmitScheduleTx
  <2>1. UNCHANGED <<txq, txPc, netbuf, fmac>>
    BY <1>3 DEF XmitStop, XmitScheduleMonitor, XmitBusy, XmitCount,
                XmitScheduleTx
  <2>2. Enqueued' = Enqueued
    BY <1>3 DEF XmitStop, XmitScheduleMonitor, XmitBusy, XmitCount,
                XmitScheduleTx, Enqueued
  <2> QED BY <2>1, <2>2 DEF InDriver
<1>4. CASE TxDequeue
  <2>1. InDriver' = txq
    BY <1>4, HeadConcatTail DEF TxDequeue, InDriver
  <2>2. InDriver = txq
    BY <1>4, ConcatEmptySeq DEF TxDequeue, InDriver
  <2> QED BY <1>4, <2>1, <2>2 DEF TxDequeue, Enqueued
<1>5. CASE TxPrepareFail \/ TxHandOver \/ TxRefused
  <2>1. InDriver # <<>> /\ Tail(InDriver) = txq
    BY <1>5, TailOfSingleton DEF TxPrepareFail, TxHandOver, TxRefused, InDriver
  <2>2. InDriver' = txq
    BY <1>5, ConcatEmptySeq DEF TxPrepareFail, TxHandOver, TxRefused, InDriver
  <2>3. fmac' \in {fmac, fmac + 1} /\ UNCHANGED Enqueued
    BY <1>5 DEF TxPrepareFail, TxHandOver, TxRefused, Enqueued
  <2> QED BY <2>1, <2>2, <2>3 DEF Channel!Next, Channel!Leave
<1>6. CASE TxStart \/ TxNothing \/ TxResched
  <2>1. UNCHANGED <<txq, netbuf, fmac, xmitVars>>
    BY <1>6 DEF TxStart, TxNothing, TxResched
  <2>2. txPc # "hand" /\ txPc' # "hand"
    BY <1>6 DEF TxStart, TxNothing, TxResched
  <2> QED BY <2>1, <2>2 DEF InDriver, Enqueued
<1>7. CASE MonWork \/ OtherInterfaceCount \/ ChangeIftype \/ UNCHANGED vars
  <2>1. UNCHANGED <<txq, txPc, netbuf, fmac, xmitVars>>
    BY <1>7 DEF MonWork, MonStart, MonCheck, MonWake, MonResched,
                OtherInterfaceCount, ChangeIftype, vars
  <2> QED BY <2>1 DEF InDriver, Enqueued
<1>8. CASE FmacCount
  <2>1. UNCHANGED <<InDriver, Enqueued>>
    BY <1>8 DEF FmacCount, InDriver, Enqueued
  <2> QED BY <1>8, <2>1 DEF FmacCount, Channel!Next, Channel!Sent
<1> QED BY <1>1, <1>2, <1>3, <1>4, <1>5, <1>6, <1>7, <1>8
        DEF Next, XmitStep, TxWork

\* The transmit path implements a FIFO channel of bounded capacity: packets
\* leave data_txq in the order the stack handed them over, each once.
THEOREM Refinement == Spec => ImplementsChannel
<1>1. Init => Channel!Init
  BY EmptySeq, ConcatEmptySeq DEF Init, Channel!Init, InDriver, Enqueued
<1> QED BY <1>1, ChannelStep, FlowInvariance, PTL
        DEF Spec, ImplementsChannel, Channel!Spec

-----------------------------------------------------------------------------
(* Open, close and the sleep events *)

\* A block that found no monitor run due keeps one from becoming due: the stack
\* does not call start_xmit while the queue is stopped.
QuietInv ==
  /\ blocked /\ quiet => stopped /\ ~MonitorDue
  /\ StoppedIsExplained

\* MonitorInv of the transmit path holds as long as no sleep period has ended.
SleepMonitorInv ==
  unblocks = 0 =>
    /\ monPend \/ monPc # "idle" => stopped /\ xpc \notin {"stop", "sched_mon"}
    /\ monPend => monPc = "idle"
    /\ xpc = "sched_mon" => stopped

\* SleepBacklogBound with the packet in start_xmit counted in. An unblock that
\* wakes a full queue lets one packet more in. One that finds the monitor about
\* to wake a drained queue does not; but the queue the monitor wakes then may
\* have filled up again, and that wake-up lets the packet in.
SleepBoundInv ==
  /\ Committed <= MaxPending + 1 + unblocks
  /\ ~stopped /\ xpc # "stop" => Committed <= MaxPending + unblocks
  /\ monPc = "wake" =>
       \/ Committed <= (MaxPending \div 2) + 1
       \/ /\ Committed <= MaxPending + unblocks
          /\ ~stopped /\ xpc # "stop" => Committed < MaxPending + unblocks

\* flush_work(&ws_data_tx) over an empty queue: no packet comes in any more, so
\* the run it waits for is the last.
FlushInv ==
  /\ ndo \in {"close", "flush_tx", "flush_mon"} => xpc = "idle"
  /\ ndo = "flush_tx" /\ backlog = 0 =>
       /\ txq = <<>>
       /\ flush \in {"end", "done"} => ~txPend
       /\ flush = "done" => txPc = "idle"
  /\ ndo = "flush_mon" /\ backlog = 0 => txq = <<>> /\ ~txPend /\ txPc = "idle"

SleepTypes ==
  /\ TypeOK
  /\ unblocks \in 0..MaxSleeps /\ blocked \in BOOLEAN /\ quiet \in BOOLEAN
  /\ blocked => unblocks < MaxSleeps

SleepIInv == SleepTypes /\ QuietInv /\ SleepMonitorInv /\ SleepBoundInv
-----------------------------------------------------------------------------
\* To the transmit path the life cycle adds one step, the freed queue, and the
\* sleep events two.
LEMMA SleepSteps ==
  ASSUME [SleepNext]_sleepVars
  PROVE  \/ [Next]_vars /\ UNCHANGED twtVars
         \/ /\ UNCHANGED <<counters, stopped, iftype, xmitVars, txVars, monVars, fmac,
                           lossVars, twtVars>>
            /\ txq' = <<>>
         \/ TwtBlock
         \/ TwtUnblock
<1>1. CASE LifeNext /\ UNCHANGED twtVars
  <2>1. FreeQueue \/ [Next]_vars
    BY <1>1 DEF LifeNext, Open, OpenFail, CarrierChange, CloseStart, Resume, CloseStep,
                CloseMonitor, CloseFail, CloseFlushTx, CloseFlushMonitor, CloseEnd,
                UnregisterClose, FreeNetdev, LifeXmit, LifeTx, LifeMon, LifeFmac,
                LifeChangeIftype, Next, TxWork, MonWork
  <2> QED BY <1>1, <2>1 DEF FreeQueue, counters
<1> QED BY <1>1 DEF SleepNext, sleepVars, allVars

\* The initial state has nothing queued, stopped or due.
LEMMA SleepStart == SleepInit => SleepIInv /\ FlushInv
<1> SUFFICES ASSUME SleepInit PROVE SleepIInv /\ FlushInv
  OBVIOUS
<1>1. IInv
  BY InitIInv DEF SleepInit, LifeInit
<1>2. SleepTypes
  <2>1. unblocks \in 0..MaxSleeps
    BY SleepsAssumption DEF SleepInit
  <2> QED BY <1>1, <2>1, Zenon DEF SleepInit, IInv, SleepTypes
<1>3. QuietInv /\ SleepMonitorInv
  BY DEF SleepInit, LifeInit, Init, QuietInv, StoppedIsExplained, SleepMonitorInv
<1>4. SleepBoundInv
  BY PendingAssumption
  DEF SleepInit, LifeInit, Init, SleepBoundInv, Committed, InXmit
<1>5. FlushInv
  BY DEF SleepInit, LifeInit, FlushInv
<1> QED BY <1>2, <1>3, <1>4, <1>5 DEF SleepIInv

\* Types.
LEMMA SleepTypeStep == SleepTypes /\ [SleepNext]_sleepVars => SleepTypes'
<1> SUFFICES ASSUME SleepTypes, [SleepNext]_sleepVars PROVE SleepTypes'
  OBVIOUS
<1> USE DEF SleepTypes, twtVars
<1>1. CASE [Next]_vars /\ UNCHANGED twtVars
  BY <1>1, TypeStep
<1>2. CASE /\ UNCHANGED <<counters, stopped, iftype, xmitVars, txVars, monVars, fmac,
                           lossVars, twtVars>>
           /\ txq' = <<>>
  BY <1>2 DEF TypeOK, counters, xmitVars, txVars, monVars, lossVars
<1>3. CASE TwtBlock
  BY <1>3 DEF TwtBlock, MonitorDue, TypeOK, counters, xmitVars, txVars, monVars, lossVars
<1>4. CASE TwtUnblock
  <2>1. unblocks' \in 0..MaxSleeps /\ ~blocked'
    BY <1>4, SleepsAssumption DEF TwtUnblock
  <2>2. TypeOK' /\ blocked' \in BOOLEAN /\ quiet' \in BOOLEAN
    BY <1>4 DEF TwtUnblock, TypeOK, counters, xmitVars, txVars, monVars, lossVars
  <2> QED BY <2>1, <2>2
<1> QED BY <1>1, <1>2, <1>3, <1>4, SleepSteps

\* The queue start_xmit, the monitor and the sleep events share.
LEMMA QuietStep ==
  SleepTypes /\ QuietInv /\ [SleepNext]_sleepVars => QuietInv'
<1> SUFFICES ASSUME SleepTypes, QuietInv, [SleepNext]_sleepVars PROVE QuietInv'
  OBVIOUS
<1> USE DEF SleepTypes, TypeOK, QuietInv, StoppedIsExplained, MonitorDue, twtVars,
            counters, xmitVars, txVars, monVars, lossVars
<1>1. CASE Next /\ UNCHANGED twtVars
  <2>1. CASE XmitCheck
    BY <1>1, <2>1 DEF XmitCheck
  <2>2. CASE XmitStep
    BY <1>1, <2>2 DEF XmitStep, XmitStop, XmitScheduleMonitor, XmitEnqueue, XmitBusy,
                      XmitCount, XmitScheduleTx
  <2>3. CASE TxWork
    <3>1. UNCHANGED <<stopped, xpc, monPend, monPc>>
      BY <2>3 DEF TxWork, TxStart, TxNothing, TxDequeue, TxPrepareFail, TxHandOver,
                  TxRefused, TxResched
    <3> QED BY <1>1, <3>1
  <2>4. CASE MonWork
    BY <1>1, <2>4 DEF MonWork, MonStart, MonCheck, MonWake, MonResched
  <2>5. CASE FmacCount \/ OtherInterfaceCount \/ ChangeIftype
    BY <1>1, <2>5 DEF FmacCount, OtherInterfaceCount, ChangeIftype
  <2> QED BY <1>1, <2>1, <2>2, <2>3, <2>4, <2>5 DEF Next
<1>2. CASE UNCHANGED <<stopped, xmitVars, monVars, twtVars>>
  BY <1>2
<1>3. CASE TwtBlock
  BY <1>3 DEF TwtBlock
<1>4. CASE TwtUnblock
  BY <1>4 DEF TwtUnblock
<1> QED BY <1>1, <1>2, <1>3, <1>4, SleepSteps DEF vars

\* The monitor, while no sleep period has ended.
LEMMA SleepMonitorStep ==
  SleepTypes /\ SleepMonitorInv /\ [SleepNext]_sleepVars => SleepMonitorInv'
<1> SUFFICES ASSUME SleepTypes, SleepMonitorInv, [SleepNext]_sleepVars
             PROVE  SleepMonitorInv'
  OBVIOUS
<1> USE DEF SleepTypes, TypeOK, SleepMonitorInv, twtVars, counters, xmitVars, txVars,
            monVars, lossVars
<1>1. CASE Next /\ UNCHANGED twtVars
  <2>1. CASE XmitCheck
    BY <1>1, <2>1 DEF XmitCheck
  <2>2. CASE XmitStep
    BY <1>1, <2>2 DEF XmitStep, XmitStop, XmitScheduleMonitor, XmitEnqueue, XmitBusy,
                      XmitCount, XmitScheduleTx
  <2>3. CASE TxWork
    <3>1. UNCHANGED <<stopped, xpc, monPend, monPc>>
      BY <2>3 DEF TxWork, TxStart, TxNothing, TxDequeue, TxPrepareFail, TxHandOver,
                  TxRefused, TxResched
    <3> QED BY <1>1, <3>1
  <2>4. CASE MonWork
    BY <1>1, <2>4 DEF MonWork, MonStart, MonCheck, MonWake, MonResched
  <2>5. CASE FmacCount \/ OtherInterfaceCount \/ ChangeIftype
    BY <1>1, <2>5 DEF FmacCount, OtherInterfaceCount, ChangeIftype
  <2> QED BY <1>1, <2>1, <2>2, <2>3, <2>4, <2>5 DEF Next
<1>2. CASE UNCHANGED <<stopped, xmitVars, monVars, twtVars>>
  BY <1>2
<1>3. CASE TwtBlock
  BY <1>3 DEF TwtBlock
<1>4. CASE TwtUnblock
  BY <1>4 DEF TwtUnblock
<1> QED BY <1>1, <1>2, <1>3, <1>4, SleepSteps DEF vars

\* The test of start_xmit and the test of the monitor, under the wider bound.
LEMMA SleepReading ==
  ASSUME SleepTypes, SleepBoundInv, MaxPending + 1 + MaxSleeps < CounterMod
  PROVE  /\ ~Full => num_tx_pkt - total_tx_pkts < MaxPending
         /\ Drained => num_tx_pkt - total_tx_pkts <= MaxPending \div 2
<1> DEFINE d == num_tx_pkt - total_tx_pkts
<1>0. d \in Int /\ d <= MaxPending + 1 + MaxSleeps
  BY PendingAssumption, SleepsAssumption
  DEF SleepTypes, TypeOK, SleepBoundInv, Committed, InXmit
<1>1. CASE d >= 0
  <2>1. d \in Nat /\ d < CounterMod /\ CounterMod \in Nat
    BY <1>0, <1>1, CounterAssumption, PendingAssumption, SleepsAssumption
  <2>2. Pending = d
    BY <2>1, ModSmall DEF Pending
  <2> QED BY <2>2, <1>0, PendingAssumption DEF Full, Drained
<1>2. CASE d < 0
  BY <1>0, <1>2, PendingAssumption
<1> QED BY <1>0, <1>1, <1>2

\* The bound, one case per actor.
LEMMA SleepBoundStep ==
  ASSUME MaxPending + 1 + MaxSleeps < CounterMod, SleepTypes, SleepMonitorInv,
         SleepBoundInv, [SleepNext]_sleepVars
  PROVE  SleepBoundInv'
<1>0. /\ MaxPending \in Nat /\ MaxPending >= 1 /\ MaxPending \div 2 \in Nat
      /\ (MaxPending \div 2) + 1 <= MaxPending
      /\ num_tx_pkt \in Nat /\ total_tx_pkts \in Nat /\ unblocks \in Nat
      /\ stopped \in BOOLEAN
  BY PendingAssumption, SleepsAssumption DEF SleepTypes, TypeOK
<1> DEFINE half == MaxPending \div 2
<1>1. CASE XmitCheck /\ UNCHANGED twtVars
  <2>1. /\ ~stopped /\ ~stopped' /\ xpc = "idle" /\ UNCHANGED <<counters, monPc, unblocks>>
        /\ xpc' = IF Full THEN "stop" ELSE "enqueue"
    BY <1>1 DEF XmitCheck, twtVars, monVars
  <2>2. /\ Committed = num_tx_pkt - total_tx_pkts
        /\ Committed' = num_tx_pkt - total_tx_pkts + 1
    BY <1>0, <2>1 DEF Committed, InXmit, counters
  <2>3. Committed <= MaxPending + unblocks
    BY <2>1 DEF SleepBoundInv
  <2>4. monPc = "wake" => unblocks >= 1
    BY <1>0, <2>1 DEF SleepMonitorInv
  <2>5. monPc = "wake" => \/ Committed <= half + 1
                          \/ Committed < MaxPending + unblocks
    BY <2>1 DEF SleepBoundInv
  <2>6. ~Full => Committed' <= MaxPending
    BY <1>0, <2>2, SleepReading
  <2>7. Full => xpc' = "stop"
    BY <2>1
  <2>8. CASE Full
    BY <1>0, <2>1, <2>2, <2>3, <2>4, <2>5, <2>7, <2>8 DEF SleepBoundInv
  <2>9. CASE ~Full
    BY <1>0, <2>1, <2>2, <2>3, <2>4, <2>6, <2>9 DEF SleepBoundInv
  <2> QED BY <2>8, <2>9
<1>2. CASE XmitStep /\ UNCHANGED twtVars
  <2>1. Committed' \in Int /\ Committed \in Int /\ Committed' <= Committed
    BY <1>0, <1>2 DEF XmitStep, XmitStop, XmitScheduleMonitor, XmitEnqueue, XmitBusy,
                      XmitCount, XmitScheduleTx, Committed, InXmit, counters
  <2>2. /\ UNCHANGED <<monPc, unblocks>>
        /\ stopped' \/ (xpc # "stop" /\ UNCHANGED stopped)
    BY <1>2 DEF XmitStep, XmitStop, XmitScheduleMonitor, XmitEnqueue, XmitBusy,
                XmitCount, XmitScheduleTx, twtVars, monVars
  <2> QED BY <1>0, <2>1, <2>2 DEF SleepBoundInv
<1>3. CASE TxWork /\ UNCHANGED twtVars
  <2>1. UNCHANGED <<stopped, xpc, monPc, num_tx_pkt, total_tx_pkts, unblocks>>
    BY <1>3 DEF TxWork, TxStart, TxNothing, TxDequeue, TxPrepareFail, TxHandOver,
                TxRefused, TxResched, counters, xmitVars, monVars, twtVars
  <2> QED BY <2>1 DEF SleepBoundInv, Committed, InXmit
<1>4. CASE MonWork /\ UNCHANGED twtVars
  <2>1. UNCHANGED <<xpc, num_tx_pkt, total_tx_pkts, unblocks>>
    BY <1>4 DEF MonWork, MonStart, MonCheck, MonWake, MonResched, counters, xmitVars,
                twtVars
  <2>2. Committed' = Committed /\ Committed \in Int
    BY <1>0, <2>1 DEF Committed, InXmit
  <2>3. CASE MonStart \/ MonResched
    BY <2>1, <2>2, <2>3 DEF MonStart, MonResched, SleepBoundInv
  <2>4. CASE MonCheck
    <3>1. Drained => Committed <= half + 1
      BY <1>0, SleepReading DEF Committed, InXmit
    <3> QED BY <1>0, <2>1, <2>2, <2>4, <3>1 DEF MonCheck, SleepBoundInv
  <2>5. CASE MonWake
    BY <1>0, <2>1, <2>2, <2>5 DEF MonWake, SleepBoundInv
  <2> QED BY <1>4, <2>3, <2>4, <2>5 DEF MonWork
<1>5. CASE (FmacCount \/ OtherInterfaceCount \/ ChangeIftype) /\ UNCHANGED twtVars
  <2>1. /\ UNCHANGED <<xpc, stopped, monPc, unblocks>>
        /\ num_tx_pkt' = num_tx_pkt
        /\ total_tx_pkts' = total_tx_pkts \/ total_tx_pkts' = total_tx_pkts + 1
    BY <1>5 DEF FmacCount, OtherInterfaceCount, ChangeIftype, xmitVars, monVars, twtVars,
                counters
  <2>2. Committed \in Int /\ (Committed' = Committed \/ Committed' = Committed - 1)
    BY <1>0, <2>1 DEF Committed, InXmit
  <2> QED BY <1>0, <2>1, <2>2 DEF SleepBoundInv
<1>6. CASE UNCHANGED <<counters, stopped, xmitVars, monVars, twtVars>>
  BY <1>6 DEF SleepBoundInv, Committed, InXmit, counters, xmitVars, monVars, twtVars
<1>7. CASE TwtBlock \/ TwtUnblock
  <2>1. /\ UNCHANGED <<xpc, num_tx_pkt, total_tx_pkts, monPc>>
        /\ \/ stopped' /\ UNCHANGED unblocks
           \/ ~stopped' /\ unblocks' = unblocks + 1
    BY <1>7 DEF TwtBlock, TwtUnblock, counters, xmitVars, monVars
  <2>2. Committed' = Committed /\ Committed \in Int
    BY <1>0, <2>1 DEF Committed, InXmit
  <2> QED BY <1>0, <2>1, <2>2 DEF SleepBoundInv
<1> QED BY <1>1, <1>2, <1>3, <1>4, <1>5, <1>6, <1>7, SleepSteps DEF Next, vars,
           counters, xmitVars, monVars

\* The flush of ws_data_tx that close waits for.
LEMMA FlushStep ==
  SleepTypes /\ FlushInv /\ [SleepNext]_sleepVars => FlushInv'
<1> SUFFICES ASSUME SleepTypes, FlushInv, [SleepNext]_sleepVars PROVE FlushInv'
  OBVIOUS
<1> DEFINE Closing == {"close", "flush_tx", "flush_mon"}
<1>0. txq \in Seq(Nat) /\ txPend \in BOOLEAN /\ (Len(txq) = 0 => txq = <<>>)
  BY EmptySeq DEF SleepTypes, TypeOK
<1> USE DEF FlushInv
<1>1. CASE Open \/ OpenFail \/ CloseStart \/ Resume \/ UnregisterClose \/ FreeNetdev
             \/ CloseMonitor \/ CloseFail \/ CloseEnd \/ FreeQueue
  BY <1>1 DEF Open, OpenFail, CloseStart, Resume, UnregisterClose, FreeNetdev,
              CloseMonitor, CloseFail, CloseEnd, FreeQueue, AfterClose, vars, xmitVars
<1>2. CASE CarrierChange
  BY <1>2 DEF CarrierChange, vars
<1>3. CASE CloseFlushTx
  BY <1>0, <1>3 DEF CloseFlushTx, vars
<1>4. CASE CloseFlushMonitor
  BY <1>4 DEF CloseFlushMonitor, vars
<1>5. CASE LifeXmit
  <2>1. ndo' \notin Closing
    BY <1>5 DEF LifeXmit, XmitCheck, XmitStep, XmitStop, XmitScheduleMonitor,
                XmitEnqueue, XmitBusy, XmitCount, XmitScheduleTx, Running, lifeVars
  <2> QED BY <2>1
<1>6. CASE LifeTx
  <2>1. UNCHANGED <<ndo, backlog, xpc>>
    BY <1>6 DEF LifeTx, TxStart, TxNothing, TxDequeue, TxPrepareFail, TxHandOver,
                TxRefused, TxResched, xmitVars
  <2>2. CASE TxStart /\ flush' = Started("flush_tx")
    BY <2>1, <2>2 DEF TxStart, Started
  <2>3. CASE (TxNothing \/ TxResched) /\ flush' = Ended("flush_tx")
    <3>1. UNCHANGED txq /\ txPc' = "idle" /\ txPend' \in BOOLEAN
      BY <1>0, <2>3 DEF TxNothing, TxResched
    <3>2. txq = <<>> => ~MoreToSend
      BY DEF MoreToSend
    <3>3. txq = <<>> => txPend' = txPend
      BY <2>3, <3>2 DEF TxNothing, TxResched
    <3> QED BY <2>1, <2>3, <3>1, <3>3 DEF Ended
  <2>4. CASE (TxDequeue \/ TxPrepareFail \/ TxHandOver \/ TxRefused) /\ UNCHANGED flush
    BY <2>1, <2>4 DEF TxDequeue, TxPrepareFail, TxHandOver, TxRefused
  <2> QED BY <1>6, <2>2, <2>3, <2>4 DEF LifeTx
<1>7. CASE LifeMon
  BY <1>7 DEF LifeMon, MonStart, MonCheck, MonWake, MonResched, Started, Ended, txVars,
              xmitVars
<1>8. CASE LifeFmac \/ LifeChangeIftype
  BY <1>8 DEF LifeFmac, LifeChangeIftype, FmacCount, ChangeIftype, lifeVars, txVars,
              xmitVars
<1>9. CASE TwtBlock \/ TwtUnblock
  BY <1>9 DEF TwtBlock, TwtUnblock, lifeVars, txVars, xmitVars
<1>10. CASE UNCHANGED sleepVars
  BY <1>10 DEF sleepVars, allVars, vars, lifeVars
<1> QED BY <1>1, <1>2, <1>3, <1>4, <1>5, <1>6, <1>7, <1>8, <1>9, <1>10
        DEF SleepNext, LifeNext, CloseStep
-----------------------------------------------------------------------------
\* close that found data_txq empty leaves ws_data_tx idle when flush_work has
\* returned, whatever was pending or running, and whatever the firmware's sleep
\* events do meanwhile.
THEOREM FlushLeavesTxIdle == SleepSpec => []QuiescentAfterFlush
<1>1. FlushInv => QuiescentAfterFlush
  BY DEF FlushInv, QuiescentAfterFlush
<1>2. SleepInit => SleepTypes /\ FlushInv
  BY SleepStart DEF SleepIInv
<1> QED BY <1>1, <1>2, SleepTypeStep, FlushStep, PTL DEF SleepSpec

\* The sleep event and the transmit path stop and wake the same queue, but a
\* block that meets no monitor run holds until it is taken back, and no stopped
\* queue is left without somebody to wake it: over close, open and delete, too.
THEOREM SleepAndTxShareQueue == SleepSpec => []SleepSharesQueue
<1>1. QuietInv => SleepSharesQueue
  BY DEF QuietInv, SleepSharesQueue, QuietBlockHolds
<1>2. SleepInit => SleepTypes /\ QuietInv
  BY SleepStart DEF SleepIInv
<1> QED BY <1>1, <1>2, SleepTypeStep, QuietStep, PTL DEF SleepSpec

\* Each sleep period the firmware ends adds at most one packet to the backlog
\* start_xmit allows, as long as the counters do not wrap: for every
\* MaxPending, and for every number of packets and of sleep periods that the
\* 64 bits of the counters can tell apart.
THEOREM SleepBacklogIsBounded ==
  ASSUME MaxPending + 1 + MaxSleeps < CounterMod
  PROVE  SleepSpec => []SleepBacklogBound
<1>1. SleepInit => SleepIInv
  BY SleepStart
<1>2. SleepIInv /\ [SleepNext]_sleepVars => SleepIInv'
  BY SleepTypeStep, QuietStep, SleepMonitorStep, SleepBoundStep DEF SleepIInv
<1>3. SleepIInv => SleepBacklogBound
  BY PendingAssumption, SleepsAssumption
  DEF SleepIInv, SleepTypes, TypeOK, SleepBoundInv, SleepBacklogBound, Committed, InXmit
<1> QED BY <1>1, <1>2, <1>3, PTL DEF SleepSpec

\* What open, close and delete keep of LifeTypeOK.
LifeTypes ==
  /\ ndo \in {"down", "up", "close", "flush_tx", "flush_mon", "unregister", "gone"}
  /\ carrier \in BOOLEAN /\ removing \in BOOLEAN
  /\ q_freed \in BOOLEAN /\ nd_freed \in BOOLEAN
  /\ flush \in {"start", "end", "done"}
  /\ backlog \in Nat /\ opens \in Nat

\* ... step by step.
LEMMA LifeTypeStep ==
  SleepTypes /\ LifeTypes /\ [SleepNext]_sleepVars => LifeTypes'
<1> SUFFICES ASSUME SleepTypes, LifeTypes, [SleepNext]_sleepVars PROVE LifeTypes'
  OBVIOUS
<1>0. Len(txq) \in Nat
  BY LenProperties DEF SleepTypes, TypeOK
<1> USE DEF LifeTypes
<1>1. CASE Open \/ OpenFail \/ CarrierChange
  <2>1. carrier' \in BOOLEAN
    BY <1>1, Zenon DEF Open, OpenFail, CarrierChange
  <2>2. opens' \in Nat
    BY <1>1 DEF Open, OpenFail, CarrierChange
  <2> QED BY <1>1, <2>1, <2>2 DEF Open, OpenFail, CarrierChange
<1>2. CASE CloseStart \/ Resume \/ CloseMonitor \/ CloseEnd
  BY <1>2 DEF CloseStart, Resume, CloseMonitor, CloseEnd, AfterClose
<1>3. CASE CloseFail \/ CloseFlushTx \/ CloseFlushMonitor
  BY <1>0, <1>3 DEF CloseFail, CloseFlushTx, CloseFlushMonitor, AfterClose
<1>4. CASE FreeQueue \/ UnregisterClose \/ FreeNetdev
  BY <1>4 DEF FreeQueue, UnregisterClose, FreeNetdev
<1>5. CASE LifeTx \/ LifeMon
  <2>1. flush' \in {"start", "end", "done"}
    BY <1>5 DEF LifeTx, LifeMon, Started, Ended
  <2> QED BY <1>5, <2>1 DEF LifeTx, LifeMon
<1>6. CASE LifeChangeIftype
  BY <1>6 DEF LifeChangeIftype
<1>7. CASE UNCHANGED lifeVars
  BY <1>7 DEF lifeVars
<1> QED BY <1>1, <1>2, <1>3, <1>4, <1>5, <1>6, <1>7
        DEF SleepNext, LifeNext, CloseStep, LifeXmit, LifeFmac, TwtBlock, TwtUnblock,
            sleepVars, allVars

\* The interface and its transmit path stay in their ranges over open, close,
\* delete and the sleep events.
THEOREM SleepTypeCorrect == SleepSpec => []SleepTypeOK
<1>1. SleepInit => SleepTypes /\ LifeTypes
  <2>1. SleepInit => backlog \in Nat /\ opens \in Nat
    BY DEF SleepInit, LifeInit
  <2>2. SleepInit => LifeTypes
    BY <2>1, Zenon DEF SleepInit, LifeInit, LifeTypes
  <2> QED BY <2>2, SleepStart DEF SleepIInv
<1>2. SleepTypes /\ LifeTypes => SleepTypeOK
  BY DEF SleepTypes, LifeTypes, LifeTypeOK, SleepTypeOK
<1> QED BY <1>1, <1>2, SleepTypeStep, LifeTypeStep, PTL DEF SleepSpec
===============================================================================
