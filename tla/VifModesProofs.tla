---------------------------- MODULE VifModesProofs ----------------------------
(***************************************************************************)
(* Proofs about RpuRequests and VifModes, for every number of requests,    *)
(* frames and configurations: the answers polled for, the mailboxes and    *)
(* their buffers, the copies of the interface's type, and the frames that  *)
(* meet a change of type. A step of VifModes is a step of RpuRequests or   *)
(* leaves its state alone, so what is proved of the one holds of both.     *)
(***************************************************************************)
EXTENDS VifModes, SequenceTheorems, TLAPS

Flags == {"set_if", "tx_power"}

RequestTypes ==
  /\ rpc \in {"idle", "poll", "take", "apply", "finish", "release", "clear",
              "monitor", "monitor_link"}
  /\ rkind \in Kinds /\ rid \in 0..MaxReq /\ nreq \in 0..MaxReq /\ target \in Modes
  /\ rpc \in {"apply", "finish"} => rkind = "set_if"
  /\ rpc = "release" => rkind # "set_if"
  /\ rpc = "clear" => rkind \in PtrKinds
  /\ inflight \in Seq(Answer)
  /\ cpc \in {"idle", "first", "second"} /\ (cpc # "idle" => cmsg \in Answer)
  /\ flag \in [Flags -> BOOLEAN] /\ value \in [Flags -> Int]
  /\ heap \in Seq(Int) /\ ptr \in [PtrKinds -> 0..Len(heap)]
  /\ hostType \in Modes \union {"MONITOR"} /\ fwType \in Modes
  /\ exposed \in BOOLEAN /\ oops \in BOOLEAN

\* No buffer is in two mailboxes, nor in another's than the one its callback
\* fills.
HeapInv ==
  /\ ptr["station"] # NULL => ptr["station"] # ptr["channel"]
  /\ cpc = "second" /\ cmsg.kind \in PtrKinds =>
       /\ Len(heap) # 0
       /\ \A k \in PtrKinds : k # cmsg.kind => ptr[k] # Len(heap)

\* A callback with an answer of kind k is half-way.
InCallback(k) == cpc # "idle" /\ cmsg.kind = k

\* The mailbox of the request in progress holds the answer to it.
HoldsOwn ==
  /\ rkind = "tx_power" => value["tx_power"] = rid
  /\ rkind = "station" => heap[ptr["station"]] = rid
  /\ rkind = "channel" => heap[ptr["channel"]] \in {rid, NoData}

\* While a request that no other answer can be mistaken for is polled for, one
\* answer of its kind is about, its own: on its way, in the callback, or in the
\* mailbox.
PollInv ==
  ~exposed /\ rpc = "poll" =>
    /\ \A i \in DOMAIN inflight : inflight[i].kind = rkind =>
         /\ inflight[i].id = rid /\ inflight[i].mode = target
         /\ ~InCallback(rkind) /\ ~Answered(rkind)
    /\ \A i, j \in DOMAIN inflight :
         inflight[i].kind = rkind /\ inflight[j].kind = rkind => i = j
    /\ InCallback(rkind) => cmsg.id = rid /\ cmsg.mode = target
    /\ InCallback(rkind) /\ (cpc = "first" \/ rkind = "tx_power") => ~Answered(rkind)
    /\ InCallback("tx_power") /\ rkind = "tx_power" /\ cpc = "second"
         => value["tx_power"] = rid
    /\ InCallback(rkind) /\ cpc = "second" /\ rkind \in PtrKinds =>
         ptr[rkind] = Len(heap) /\ heap[Len(heap)] = Garbage
    /\ Answered(rkind) /\ ~InCallback(rkind) => HoldsOwn

TakeInv ==
  ~exposed /\ rpc = "take" => ~Owed(rkind) /\ Answered(rkind) /\ HoldsOwn

\* A kind none of whose requests has timed out or met a half-run callback is
\* quiet outside its requests.
QuietInv ==
  \A k \in Kinds \ unclean :
    /\ ~(rpc = "poll" /\ rkind = k) => ~Owed(k)
    /\ k = "set_if" /\ flag["set_if"] =>
         rkind = k /\ rpc \in {"poll", "take", "apply", "finish"}
    /\ k \in PtrKinds /\ ptr[k] # NULL =>
         rkind = k /\ rpc \in {"poll", "take", "release", "clear"}
    /\ k \in PtrKinds /\ rkind = k /\ rpc = "clear" =>
         ptr[k] = NULL \/ heap[ptr[k]] = Freed

\* Host and firmware agree on the interface's type, monitor mode apart.
SameMode == hostType \in {"MONITOR", fwType}

\* Where chg_vif and the firmware stand in a change of type.
ModeInv ==
  "set_if" \notin unclean =>
    /\ rkind = "set_if" /\ rpc = "poll" =>
         /\ (\E i \in DOMAIN inflight : inflight[i].kind = "set_if") => SameMode
         /\ InCallback("set_if") => IF cmsg.ok THEN fwType = target ELSE SameMode
         /\ flag["set_if"] /\ ~InCallback("set_if") =>
              IF value["set_if"] = 0 THEN fwType = target ELSE SameMode
    /\ rkind = "set_if" /\ rpc = "take" =>
         IF value["set_if"] = 0 THEN fwType = target ELSE SameMode
    /\ rpc = "apply" => fwType = target
    /\ ~(rkind = "set_if" /\ rpc \in {"poll", "take", "apply"}) => SameMode

RequestInv ==
  /\ RequestTypes /\ HeapInv /\ PollInv /\ TakeInv /\ QuietInv /\ ResultIsOwn
  /\ ModeInv /\ BuffersSafe
-----------------------------------------------------------------------------
\* The types agree, with allowance for a raced injector.
FmacAgrees ==
  \/ hostType = "MONITOR" /\ fmacType \in {"INJECTOR", "MONITOR"}
  \/ hostType # "MONITOR" /\ fmacType = hostType
  \/ raced

\* The copies of the type through a change: the FMAC's first, the netdev's last.
TypeInv ==
  /\ ~(rpc = "finish" /\ result = rid) /\ rpc # "monitor_link" =>
       link = LinkOf(hostType)
  /\ rpc = "apply" => fmacType = target \/ raced
  /\ rpc = "monitor" => fmacType \in {"INJECTOR", "MONITOR"}
  /\ rpc = "monitor_link" => hostType = "MONITOR"
  /\ rpc \notin {"apply", "monitor"} => FmacAgrees
  /\ raced \in BOOLEAN

\* A frame that meets no change of type is parsed as its netdev announces from the
\* callback on.
RxInv ==
  /\ rxPc \in {"idle", "parsed", "delivered"} /\ rxSwitch \in BOOLEAN
  /\ rxPc # "idle" /\ ~rxSwitch =>
       /\ ~Switching
       /\ (rxHead = "ethernet" <=> link = "ETHER") \/ (rxHead # "ethernet" /\ raced)

\* A frame in hand that meets no change of type is sent by an injector.
TxInv ==
  /\ txPc \in {"idle", "assert", "prepare", "done"} /\ txSwitch \in BOOLEAN
  /\ txPc = "prepare" /\ ~txSwitch => fmacType = "INJECTOR"
  /\ txAs # "none" =>
       /\ txPc = "done" /\ txMeta = Prepared(txFrame)
       /\ txAs = "INJECTOR" \/ txSwitch

VifInv == TypeInv /\ RxInv /\ TxInv
-----------------------------------------------------------------------------
(* The steps of VifModes as steps of RpuRequests *)

\* An operation other than a change of mode leaves the host's type alone and is
\* never half-way in such a change; a callback leaves the operation alone.
LEMMA RequestEffect ==
  /\ Operation => /\ rpc \in {"idle", "poll", "take", "release", "clear"}
                  /\ rpc' \in {"idle", "poll", "take", "release", "clear"}
                  /\ hostType' = hostType
  /\ Callback => UNCHANGED <<rpc, rkind, rid, target, hostType, result>>
<1>1. ASSUME Operation
      PROVE  /\ rpc \in {"idle", "poll", "take", "release", "clear"}
             /\ rpc' \in {"idle", "poll", "take", "release", "clear"}
             /\ hostType' = hostType
  BY <1>1 DEF Operation, Send, SendFail, PollAnswered, PollTimeout, TakeTxPower,
     ZeroTxPower, TakeBuffer, ReleaseBuffer, ClearBuffer, reqVars
<1>2. ASSUME Callback PROVE UNCHANGED <<rpc, rkind, rid, target, hostType, result>>
  BY <1>2 DEF Callback, Event, CallbackFirst, CallbackNoMemory, CallbackSecond,
     reqVars
<1> QED BY <1>1, <1>2

\* What a step of VifModes is: a request's, a change of mode's, an event that
\* overwrites the FMAC's type, or one that leaves RpuRequests alone.
LEMMA VifStepCases ==
  ASSUME [VifNext]_vifVars
  PROVE  \/ Requests
         \/ ChangeTypes
         \/ FmacModeEvent
         \/ (Receive \/ Inject) /\ UNCHANGED vars
         \/ UNCHANGED <<vars, typeVars, rxVars, txVars, raced>>
<1>1. CASE Receive
  <2>1. UNCHANGED vars
    BY <1>1 DEF Receive, RxData, RxSniffer, RxStart, RxDeliver, RxDone
  <2> QED BY <1>1, <2>1
<1>2. CASE Inject
  <2>1. UNCHANGED vars
    BY <1>2 DEF Inject, TxStart, TxAssert, TxPrepareFail, TxSend, TxDone
  <2> QED BY <1>2, <2>1
<1>3. CASE Configure
  <2>1. Config
    BY <1>3 DEF Configure, AddKey, DelKey, SetDefKey, SetDefMgmtKey, ConfigFail,
       StartAp, ChgBcn, StopAp, DelSta, ChgBss, SetTxqParams, AddSta, ChgSta,
       SetQosMap, SetMonitorChannel
  <2> QED BY <2>1 DEF Config
<1>4. CASE UNCHANGED vifVars
  BY <1>4 DEF vifVars
<1> QED BY <1>1, <1>2, <1>3, <1>4 DEF VifNext

\* A step of VifModes is one of RpuRequests, or none.
LEMMA VifStepIsRequestStep ==
  ASSUME [VifNext]_vifVars
  PROVE  [Next]_vars
<1>1. CASE Requests
  BY <1>1 DEF Requests, Next
<1>2. CASE ChangeTypes
  BY <1>2 DEF ChangeTypes, UpdateIfType, ForceInjector, SetWdev, SetLink, ModeStep,
     Next
<1>3. CASE FmacModeEvent
  BY <1>3 DEF FmacModeEvent
<1> QED BY <1>1, <1>2, <1>3, VifStepCases

\* VifModes implements RpuRequests: frames and configurations do not disturb the
\* requests they run beside.
THEOREM VifModesImplementRequests == VifSpec => Spec
<1>1. VifInit => Init
  BY DEF VifInit
<1>2. [VifNext]_vifVars => [Next]_vars
  BY VifStepIsRequestStep
<1> QED BY <1>1, <1>2, PTL DEF VifSpec, Spec
-----------------------------------------------------------------------------
(* The copies of the interface's type *)

\* The type is changed step by step, and each step leaves the copies as TypeInv
\* has them, whatever the transmit worker writes meanwhile.
LEMMA TypeStep ==
  ASSUME RequestTypes, TypeInv, [VifNext]_vifVars
  PROVE  TypeInv'
<1> USE DEF RequestTypes
<1>1. CASE Requests
  <2>1. UNCHANGED <<fmacType, link, raced, hostType>>
    BY <1>1, RequestEffect DEF Requests, typeVars
  <2>2. CASE Operation
    BY <2>1, <2>2, RequestEffect DEF TypeInv, FmacAgrees
  <2>3. CASE Callback
    BY <2>1, <2>3, RequestEffect DEF TypeInv, FmacAgrees
  <2> QED BY <1>1, <2>2, <2>3 DEF Requests
<1>2. CASE ChangeTypes
  <2>1. raced' = raced
    BY <1>2 DEF ChangeTypes
  <2>2. CASE UpdateIfType
    <3>1. /\ rpc = "take" /\ rpc' \in {"apply", "finish"}
          /\ UNCHANGED <<rid, target, hostType, link>>
          /\ fmacType' = IF rpc' = "apply" THEN target ELSE fmacType
      BY <2>2 DEF UpdateIfType, TakeSetIf
    <3> QED BY <2>1, <3>1 DEF TypeInv, FmacAgrees
  <2>3. CASE ForceInjector
    <3>1. /\ rpc = "idle" /\ rpc' = "monitor" /\ UNCHANGED <<hostType, link>>
          /\ fmacType' = "INJECTOR"
      BY <2>3 DEF ForceInjector, MonitorBegin
    <3> QED BY <2>1, <3>1 DEF TypeInv, FmacAgrees
  <2>4. CASE SetWdev
    <3>1. UNCHANGED <<fmacType, link>>
      BY <2>4 DEF SetWdev, typeVars
    <3>2. CASE ApplySetIf
      <4>1. /\ rpc = "apply" /\ rpc' = "finish" /\ hostType' = target
            /\ result' = rid /\ rid' = rid
        BY <3>2 DEF ApplySetIf
      <4> QED BY <2>1, <3>1, <4>1 DEF TypeInv, FmacAgrees, Modes
    <3>3. CASE MonitorSet
      <4>1. rpc = "monitor" /\ rpc' = "monitor_link" /\ hostType' = "MONITOR"
        BY <3>3 DEF MonitorSet
      <4> QED BY <2>1, <3>1, <4>1 DEF TypeInv, FmacAgrees
    <3> QED BY <2>4, <3>2, <3>3 DEF SetWdev
  <2>5. CASE SetLink
    <3>1. /\ rpc \in {"finish", "monitor_link"} /\ rpc' = "idle"
          /\ UNCHANGED <<fmacType, hostType>>
          /\ link' = IF Accepted THEN LinkOf(hostType) ELSE link
      BY <2>5 DEF SetLink, FinishSetIf, MonitorEnd
    <3>2. link' = LinkOf(hostType)
      BY <3>1 DEF TypeInv, Accepted
    <3> QED BY <3>2, <2>1, <3>1 DEF TypeInv, FmacAgrees
  <2> QED BY <1>2, <2>2, <2>3, <2>4, <2>5 DEF ChangeTypes
<1>3. CASE FmacModeEvent
  <2>1. /\ UNCHANGED <<rpc, rid, result, target, hostType, link, raced>>
        /\ fmacType = "INJECTOR" /\ fmacType' = "MONITOR" /\ hostType = "MONITOR"
    BY <1>3 DEF FmacModeEvent, vars
  <2> QED BY <2>1 DEF TypeInv, FmacAgrees, Modes
<1>4. CASE (Receive \/ Inject) /\ UNCHANGED vars
  <2>1. UNCHANGED <<rpc, rid, result, target, hostType>>
    BY <1>4 DEF vars
  <2>2. CASE UNCHANGED <<typeVars, raced>>
    BY <2>1, <2>2 DEF TypeInv, FmacAgrees, typeVars
  <2>3. CASE TxAssert
    <3>1. /\ fmacType' = "INJECTOR" /\ UNCHANGED link
          /\ raced' = (raced \/ rpc = "apply" \/ hostType # "MONITOR")
      BY <2>3 DEF TxAssert
    <3>2. raced' \in BOOLEAN
      BY <3>1
    <3>3. raced' <=> (raced \/ rpc = "apply" \/ hostType # "MONITOR")
      BY <3>1
    <3> QED BY <2>1, <3>1, <3>2, <3>3 DEF TypeInv, FmacAgrees
  <2> QED BY <1>4, <2>2, <2>3 DEF Receive, RxData, RxSniffer, RxStart, RxDeliver,
         RxDone, Inject, TxStart, TxPrepareFail, TxSend, TxDone
<1>5. CASE UNCHANGED <<vars, typeVars, rxVars, txVars, raced>>
  BY <1>5 DEF vars, typeVars, TypeInv, FmacAgrees
<1> QED BY <1>1, <1>2, <1>3, <1>4, <1>5, VifStepCases
-----------------------------------------------------------------------------
(* The frames that meet a change of type *)

\* A request's step neither begins nor ends a change of mode.
LEMMA RequestsDoNotSwitch ==
  ASSUME Requests
  PROVE  /\ Switching' <=> Switching
         /\ UNCHANGED <<fmacType, link, rxPc, rxHead, rxSwitch, txPc, txFrame,
                        txMeta, txAs, txSwitch, raced>>
<1>1. UNCHANGED <<fmacType, link, rxPc, rxHead, rxSwitch, txPc, txFrame,
                  txMeta, txAs, txSwitch, raced>>
  BY DEF Requests, typeVars, rxVars, txVars
<1>2. CASE Operation
  BY <1>1, <1>2, RequestEffect DEF Switching
<1>3. CASE Callback
  BY <1>1, <1>3, RequestEffect DEF Switching
<1> QED BY <1>2, <1>3 DEF Requests

\* A frame in the receive path keeps the form its link had, or its race is recorded.
LEMMA RxStep ==
  ASSUME RequestTypes, TypeInv, RxInv, [VifNext]_vifVars
  PROVE  RxInv'
<1>1. CASE Requests
  BY <1>1, RequestsDoNotSwitch DEF RxInv
<1>2. CASE ChangeTypes
  <2>1. UNCHANGED <<rxPc, rxHead>> /\ rxSwitch' = (rxPc # "idle")
    BY <1>2 DEF ChangeTypes
  <2>2. rxSwitch' \in BOOLEAN
    BY <2>1
  <2>3. rxPc' = "idle" \/ rxSwitch'
    BY <2>1
  <2> QED BY <2>1, <2>2, <2>3 DEF RxInv
<1>3. CASE FmacModeEvent
  <2>1. UNCHANGED <<rpc, link, rxPc, rxHead, rxSwitch, raced>>
    BY <1>3 DEF FmacModeEvent, vars, rxVars
  <2> QED BY <2>1 DEF RxInv, Switching
<1>4. CASE Receive /\ UNCHANGED vars
  <2>1. UNCHANGED <<rpc, link, raced, fmacType>> /\ (Switching' <=> Switching)
    BY <1>4 DEF Receive, RxData, RxSniffer, RxStart, RxDeliver, RxDone, typeVars,
       Switching, vars
  <2>2. ASSUME RxStart PROVE rxPc' = "parsed" /\ rxSwitch' = Switching
    BY <2>2 DEF RxStart
  <2>3. Switching \in BOOLEAN
    BY DEF Switching
  <2>4. ~Switching => link = LinkOf(hostType) /\ FmacAgrees
    BY DEF Switching, TypeInv
  <2>5. CASE RxData
    <3>1. rxHead' = IF hostType = "MONITOR" THEN "bare" ELSE "ethernet"
      BY <2>5 DEF RxData
    <3>2. rxPc' = "parsed" /\ rxSwitch' = Switching
      BY <2>2, <2>5 DEF RxData
    <3> QED BY <2>1, <2>3, <2>4, <3>1, <3>2 DEF RxInv, LinkOf
  <2>6. CASE RxSniffer
    <3>1. rxHead' # "ethernet" /\ fmacType \in {"INJECTOR", "MONITOR"}
      BY <2>6 DEF RxSniffer
    <3>2. rxPc' = "parsed" /\ rxSwitch' = Switching
      BY <2>2, <2>6 DEF RxSniffer
    <3>3. ~Switching => raced \/ hostType = "MONITOR"
      BY <2>4, <3>1 DEF FmacAgrees, RequestTypes, Modes
    <3> QED BY <2>1, <2>3, <2>4, <3>1, <3>2, <3>3 DEF RxInv, LinkOf
  <2>7. CASE RxDeliver
    BY <2>1, <2>7 DEF RxDeliver, RxInv
  <2>8. CASE RxDone
    BY <2>1, <2>8 DEF RxDone, RxInv
  <2> QED BY <1>4, <2>5, <2>6, <2>7, <2>8 DEF Receive
<1>5. CASE Inject /\ UNCHANGED vars
  <2>1. UNCHANGED <<rpc, link, rxPc, rxHead, rxSwitch>>
    BY <1>5 DEF Inject, TxStart, TxAssert, TxPrepareFail, TxSend, TxDone, vars,
       rxVars, typeVars
  <2>2. raced' = raced \/ raced' = (raced \/ rpc = "apply" \/ hostType # "MONITOR")
    BY <1>5 DEF Inject, TxStart, TxAssert, TxPrepareFail, TxSend, TxDone
  <2>3. raced => raced'
    BY <2>2
  <2> QED BY <2>1, <2>3 DEF RxInv, Switching
<1>6. CASE UNCHANGED <<vars, typeVars, rxVars, txVars, raced>>
  BY <1>6 DEF RxInv, Switching, vars, typeVars, rxVars
<1> QED BY <1>1, <1>2, <1>3, <1>4, <1>5, <1>6, VifStepCases

\* A frame in the worker is prepared as asked and sent by an injector, or met a change.
LEMMA TxStep ==
  ASSUME TxInv, [VifNext]_vifVars
  PROVE  TxInv'
<1>1. CASE Requests
  BY <1>1, RequestsDoNotSwitch DEF TxInv
<1>2. CASE ChangeTypes
  <2>1. UNCHANGED <<txPc, txFrame, txMeta, txAs>> /\ txSwitch' = (txPc # "idle")
    BY <1>2 DEF ChangeTypes
  <2>2. txSwitch' \in BOOLEAN /\ (txPc' = "idle" \/ txSwitch')
    BY <2>1
  <2> QED BY <2>1, <2>2 DEF TxInv
<1>3. CASE FmacModeEvent
  <2>1. UNCHANGED <<txPc, txFrame, txMeta, txAs>> /\ txSwitch' = (txPc # "idle")
    BY <1>3 DEF FmacModeEvent
  <2>2. txSwitch' \in BOOLEAN /\ (txPc' = "idle" \/ txSwitch')
    BY <2>1
  <2> QED BY <2>1, <2>2 DEF TxInv
<1>4. CASE Receive /\ UNCHANGED vars
  <2>1. UNCHANGED <<fmacType, txPc, txFrame, txMeta, txAs, txSwitch>>
    BY <1>4 DEF Receive, RxData, RxSniffer, RxStart, RxDeliver, RxDone, typeVars,
       txVars
  <2> QED BY <2>1 DEF TxInv
<1>5. CASE Inject /\ UNCHANGED vars
  <2>1. CASE TxStart
    <3>1. txPc = "idle" /\ txPc' = "assert" /\ UNCHANGED txAs
      BY <2>1 DEF TxStart
    <3>2. txSwitch' \in BOOLEAN
      BY <2>1 DEF TxStart, Switching
    <3> QED BY <3>1, <3>2 DEF TxInv
  <2>2. CASE TxAssert
    BY <2>2 DEF TxAssert, TxInv
  <2>3. CASE TxPrepareFail
    BY <2>3 DEF TxPrepareFail, TxInv
  <2>4. CASE TxSend
    <3>1. /\ txPc = "prepare" /\ txPc' = "done" /\ UNCHANGED <<txFrame, txSwitch>>
          /\ txMeta' = Prepared(txFrame) /\ txAs' = fmacType
      BY <2>4 DEF TxSend
    <3>2. Prepared(txFrame)' = Prepared(txFrame)
      BY <3>1 DEF Prepared, TxMeta, MapRadiotapRate, AtMost, Absent
    <3> QED BY <3>1, <3>2 DEF TxInv
  <2>5. CASE TxDone
    BY <2>5 DEF TxDone, TxInv
  <2> QED BY <1>5, <2>1, <2>2, <2>3, <2>4, <2>5 DEF Inject
<1>6. CASE UNCHANGED <<vars, typeVars, rxVars, txVars, raced>>
  BY <1>6 DEF TxInv, typeVars, txVars
<1> QED BY <1>1, <1>2, <1>3, <1>4, <1>5, <1>6, VifStepCases

\* A rate the driver reports of a captured frame comes back as it was.
LEMMA RateRoundTrip ==
  ASSUME NEW r \in 0..255
  PROVE  LET rt == LegacyRateToRtap(r) IN
         rt # Absent /\ LegacyRateToRtap(MapRadiotapRate(rt)) = rt
<1>1. CASE r = 55
  BY <1>1 DEF LegacyRateToRtap, MapRadiotapRate, Absent
<1>2. CASE r <= 54
  <2>1. LegacyRateToRtap(r) = 2 * r
    BY <1>2 DEF LegacyRateToRtap
  <2>2. MapRadiotapRate(2 * r) = r
    BY <1>2 DEF MapRadiotapRate
  <2> QED BY <2>1, <2>2 DEF Absent
<1>3. CASE r > 55
  <2>1. LegacyRateToRtap(r) = 0
    BY <1>3 DEF LegacyRateToRtap
  <2>2. MapRadiotapRate(0) = 0 /\ LegacyRateToRtap(0) = 0
    BY DEF MapRadiotapRate, LegacyRateToRtap
  <2> QED BY <2>1, <2>2 DEF Absent
<1> QED BY <1>1, <1>2, <1>3

\* What TxInv says of a frame that is sent.
LEMMA TxInvInjects == TxInv => InjectedAsAsked
<1> SUFFICES ASSUME TxInv, txAs # "none"
             PROVE  /\ txAs = "INJECTOR" \/ txSwitch
                    /\ (/\ txMeta[1] = "LEGACY" /\ txFrame.form = "radiotap"
                        /\ txFrame.rate \in {LegacyRateToRtap(r) : r \in Rates})
                         => LegacyRateToRtap(txMeta[2]) = txFrame.rate
  BY DEF InjectedAsAsked
<1>1. txMeta = Prepared(txFrame) /\ (txAs = "INJECTOR" \/ txSwitch)
  BY DEF TxInv
<1>2. ASSUME txMeta[1] = "LEGACY", txFrame.form = "radiotap", NEW r \in Rates,
             txFrame.rate = LegacyRateToRtap(r)
      PROVE  LegacyRateToRtap(txMeta[2]) = txFrame.rate
  <2>1. /\ txFrame.rate # Absent
        /\ LegacyRateToRtap(MapRadiotapRate(txFrame.rate)) = txFrame.rate
    BY <1>2, RateRoundTrip, VifAssumption
  <2>2. txMeta = TxMeta(txFrame)
    BY <1>1, <1>2 DEF Prepared
  <2>3. txFrame.vht = Absent /\ txFrame.mcs = Absent
    BY <1>2, <2>2 DEF TxMeta
  <2>4. txMeta = <<"LEGACY", MapRadiotapRate(txFrame.rate)>>
    BY <2>1, <2>2, <2>3 DEF TxMeta
  <2> QED BY <2>1, <2>4
<1> QED BY <1>1, <1>2

\* What TypeInv and RxInv say of the copies, and of a frame handed to the stack.
LEMMA TypeInvAgrees == TypeInv /\ RxInv => TypesAgree /\ FramesMatchLink
<1> SUFFICES ASSUME TypeInv, RxInv PROVE TypesAgree /\ FramesMatchLink
  OBVIOUS
<1>1. TypesAgree
  BY DEF TypeInv, TypesAgree, Switching, FmacAgrees
<1>2. FramesMatchLink
  BY DEF RxInv, FramesMatchLink
<1> QED BY <1>1, <1>2

\* The initial state.
LEMMA VifStart == VifInit => VifInv
<1> SUFFICES ASSUME VifInit PROVE VifInv
  OBVIOUS
<1>1. TypeInv
  BY DEF VifInit, Init, TypeInv, FmacAgrees, LinkOf
<1>2. RxInv /\ TxInv
  BY DEF VifInit, RxInv, TxInv
<1> QED BY <1>1, <1>2 DEF VifInv
-----------------------------------------------------------------------------
(* The requests *)

\* A step of an operation that does not poll, and leaves the mailboxes, the
\* answers and the memory alone.
LEMMA OpKeeps ==
  ASSUME RequestInv,
         UNCHANGED <<rkind, rid, target, nreq, inflight, cpc, cmsg, flag, value, ptr,
                     heap, fwType, exposed, unclean>>,
         OopsNeedsTrouble',
         rpc # "poll", rpc' \notin {"poll", "take", "clear"},
         rkind = "set_if" /\ rpc \in {"take", "apply", "finish"}
           => rpc' \in {"apply", "finish"},
         rkind \in PtrKinds /\ rpc \in {"take", "release", "clear"} => rpc' = "release"
  PROVE  HeapInv' /\ PollInv' /\ TakeInv' /\ QuietInv' /\ BuffersSafe'
<1> USE DEF RequestInv
<1>1. HeapInv'
  BY DEF HeapInv
<1>2. BuffersSafe'
  BY DEF BuffersSafe, NoLeak
<1>3. PollInv' /\ TakeInv'
  BY DEF PollInv, TakeInv
<1>4. QuietInv'
  <2>1. \A k : Owed(k)' <=> Owed(k)
    BY DEF Owed
  <2> QED BY <2>1 DEF QuietInv
<1> QED BY <1>1, <1>2, <1>3, <1>4

\* chg_vif to monitor mode.
LEMMA MonitorKeeps ==
  ASSUME RequestInv, MonitorBegin \/ MonitorSet \/ MonitorEnd
  PROVE  RequestInv'
<1> USE DEF RequestInv
<1>1. /\ UNCHANGED <<rkind, rid, target, nreq, inflight, cpc, cmsg, flag, value, ptr,
                     heap, fwType, exposed, unclean, oops>>
      /\ \/ rpc = "idle" /\ rpc' = "monitor" /\ hostType' = hostType /\ result' = None
         \/ /\ rpc = "monitor" /\ rpc' = "monitor_link" /\ hostType' = "MONITOR"
            /\ result' = result
         \/ /\ rpc = "monitor_link" /\ rpc' = "idle" /\ hostType' = hostType
            /\ result' = result
  BY DEF MonitorBegin, MonitorSet, MonitorEnd, mboxVars
<1>2. RequestTypes'
  BY <1>1 DEF RequestTypes
<1>3. HeapInv' /\ PollInv' /\ TakeInv' /\ QuietInv' /\ BuffersSafe'
  <2>1. OopsNeedsTrouble'
    BY <1>1 DEF BuffersSafe, OopsNeedsTrouble
  <2> QED BY <1>1, <2>1, OpKeeps
<1>4. ResultIsOwn'
  BY <1>1 DEF ResultIsOwn
<1>5. ModeInv'
  BY <1>1 DEF ModeInv, SameMode
<1> QED BY <1>2, <1>3, <1>4, <1>5

\* chg_vif with an answer.
LEMMA SetIfKeeps ==
  ASSUME RequestInv, TakeSetIf \/ ApplySetIf
  PROVE  RequestInv'
<1> USE DEF RequestInv
<1>1. /\ UNCHANGED <<rkind, rid, target, nreq, inflight, cpc, cmsg, flag, value, ptr,
                     heap, fwType, exposed, unclean, oops>>
      /\ rkind = "set_if"
      /\ \/ /\ rpc = "take" /\ rpc' = IF value["set_if"] = 0 THEN "apply" ELSE "finish"
            /\ hostType' = hostType /\ result' = result
         \/ /\ rpc = "apply" /\ rpc' = "finish" /\ hostType' = target /\ result' = rid
  BY DEF TakeSetIf, ApplySetIf, mboxVars, RequestTypes
<1>2. RequestTypes'
  BY <1>1 DEF RequestTypes
<1>3. HeapInv' /\ PollInv' /\ TakeInv' /\ QuietInv' /\ BuffersSafe'
  <2>1. OopsNeedsTrouble'
    BY <1>1 DEF BuffersSafe, OopsNeedsTrouble
  <2> QED BY <1>1, <2>1, OpKeeps DEF PtrKinds
<1>4. ResultIsOwn'
  BY <1>1 DEF ResultIsOwn
<1>5. ModeInv'
  BY <1>1 DEF ModeInv, SameMode
<1> QED BY <1>2, <1>3, <1>4, <1>5

\* get_tx_power takes its answer.
LEMMA TakeTxPowerKeeps ==
  ASSUME RequestInv, TakeTxPower
  PROVE  RequestInv'
<1> USE DEF RequestInv
<1>1. /\ UNCHANGED <<rkind, rid, target, nreq, inflight, cpc, cmsg, flag, value, ptr,
                     heap, fwType, hostType, exposed, unclean, oops>>
      /\ rkind = "tx_power" /\ rpc = "take" /\ rpc' = "release"
      /\ result' = value["tx_power"]
  BY DEF TakeTxPower, mboxVars
<1>2. RequestTypes'
  BY <1>1 DEF RequestTypes
<1>3. HeapInv' /\ PollInv' /\ TakeInv' /\ QuietInv' /\ BuffersSafe'
  <2>1. OopsNeedsTrouble'
    BY <1>1 DEF BuffersSafe, OopsNeedsTrouble
  <2> QED BY <1>1, <2>1, OpKeeps DEF PtrKinds
<1>4. ResultIsOwn'
  BY <1>1 DEF ResultIsOwn, TakeInv, HoldsOwn
<1>5. ModeInv'
  BY <1>1 DEF ModeInv, SameMode
<1> QED BY <1>2, <1>3, <1>4, <1>5

\* chg_vif's way out, and get_tx_power's.
LEMMA EndKeeps ==
  ASSUME RequestInv, FinishSetIf \/ ZeroTxPower
  PROVE  RequestInv'
<1> USE DEF RequestInv
<1>1. /\ UNCHANGED <<rkind, rid, target, nreq, inflight, cpc, cmsg, ptr, heap, fwType,
                     hostType, result, exposed, unclean, oops>>
      /\ rkind \notin PtrKinds /\ rpc \in {"finish", "release"} /\ rpc' = "idle"
      /\ flag' = flag \/ flag' = [flag EXCEPT !["set_if"] = FALSE]
      /\ rkind = "set_if" => flag' = [flag EXCEPT !["set_if"] = FALSE]
      /\ value' = value \/ value' = [value EXCEPT !["tx_power"] = 0]
  BY DEF FinishSetIf, ZeroTxPower, RequestTypes, PtrKinds
<1>2. flag' \in [Flags -> BOOLEAN]
  BY <1>1 DEF RequestTypes
<1>3. value' \in [Flags -> Int] /\ value'["set_if"] = value["set_if"]
  BY <1>1 DEF RequestTypes, Flags
<1>4. (flag'["set_if"] => flag["set_if"]) /\ (rkind = "set_if" => ~flag'["set_if"])
  BY <1>1 DEF RequestTypes, Flags
<1>5. RequestTypes'
  BY <1>1, <1>2, <1>3 DEF RequestTypes
<1>6. HeapInv'
  BY <1>1 DEF HeapInv
<1>7. PollInv' /\ TakeInv'
  BY <1>1 DEF PollInv, TakeInv
<1>8. QuietInv'
  <2>1. \A k : Owed(k)' <=> Owed(k)
    BY <1>1 DEF Owed
  <2> QED BY <1>1, <1>4, <2>1 DEF QuietInv
<1>9. ResultIsOwn'
  BY <1>1 DEF ResultIsOwn
<1>10. ModeInv'
  BY <1>1 DEF ModeInv, SameMode
<1>11. BuffersSafe'
  BY <1>1 DEF BuffersSafe, OopsNeedsTrouble, NoLeak
<1> QED BY <1>5, <1>6, <1>7, <1>8, <1>9, <1>10, <1>11

\* The answer to a new request is the last the firmware owes.
LEMMA SendEffect ==
  ASSUME RequestTypes, NEW k \in Kinds, Send(k)
  PROVE  /\ rpc = "idle" /\ rpc' = "poll" /\ rkind' = k /\ result' = None
         /\ rid' = nreq + 1 /\ nreq' = nreq + 1 /\ nreq' \in 0..MaxReq
         /\ target' \in Modes
         /\ flag' = ClearedAtStart(k) /\ flag' \in [Flags -> BOOLEAN]
         /\ flag'["set_if"] = flag["set_if"] /\ (k = "tx_power" => ~flag'[k])
         /\ inflight' \in Seq(Answer)
         /\ Len(inflight) + 1 \in DOMAIN inflight'
         /\ \A i \in DOMAIN inflight' :
              \/ i \in DOMAIN inflight /\ inflight'[i] = inflight[i]
              \/ /\ i = Len(inflight) + 1 /\ inflight'[i].kind = k
                 /\ inflight'[i].id = rid' /\ inflight'[i].mode = target'
         /\ UNCHANGED <<cpc, cmsg, value, ptr, heap, hostType, fwType, unclean, oops>>
<1>1. /\ rpc = "idle" /\ rpc' = "poll" /\ rkind' = k /\ result' = None
      /\ rid' = nreq + 1 /\ nreq' = nreq + 1 /\ nreq < MaxReq
      /\ flag' = ClearedAtStart(k)
      /\ UNCHANGED <<cpc, cmsg, value, ptr, heap, hostType, fwType, unclean, oops>>
  BY DEF Send
<1>2. nreq + 1 \in 1..MaxReq
  BY <1>1, MaxReqAssumption DEF RequestTypes
<1>3. PICK ok \in BOOLEAN, m \in Modes :
        /\ target' = m
        /\ inflight' = Append(inflight,
                         [kind |-> k, id |-> nreq + 1, ok |-> ok, mode |-> m])
  BY DEF Send
<1> DEFINE a == [kind |-> k, id |-> nreq + 1, ok |-> ok, mode |-> m]
<1>4. a \in Answer
  BY <1>2 DEF Answer
<1>5. inflight \in Seq(Answer) /\ inflight' = Append(inflight, a)
  BY <1>3 DEF RequestTypes
<1>6. a.kind = k /\ a.id = rid' /\ a.mode = target'
  BY <1>1, <1>3
<1> HIDE DEF a
<1>7. /\ inflight' \in Seq(Answer) /\ Len(inflight') = Len(inflight) + 1
      /\ \A i \in 1..Len(inflight) : inflight'[i] = inflight[i]
      /\ inflight'[Len(inflight) + 1] = a
  BY <1>4, <1>5, AppendProperties
<1>8. /\ Len(inflight) \in Nat /\ DOMAIN inflight = 1..Len(inflight)
      /\ DOMAIN inflight' = 1..(Len(inflight) + 1)
  BY <1>5, <1>7, LenProperties
<1>9. \A i \in DOMAIN inflight' :
        \/ i \in DOMAIN inflight /\ inflight'[i] = inflight[i]
        \/ i = Len(inflight) + 1 /\ inflight'[i] = a
  BY <1>7, <1>8
<1>10. Len(inflight) + 1 \in DOMAIN inflight'
  BY <1>8
<1>11. flag' \in [Flags -> BOOLEAN]
  BY <1>1 DEF RequestTypes, ClearedAtStart
<1>12. flag'["set_if"] = flag["set_if"] /\ (k = "tx_power" => ~flag'[k])
  BY <1>1 DEF RequestTypes, ClearedAtStart, Flags
<1> QED BY <1>1, <1>2, <1>3, <1>6, <1>7, <1>9, <1>10, <1>11, <1>12

\* A request is sent: no answer of its kind is about, or it is exposed.
LEMMA SendKeeps ==
  ASSUME RequestInv, NEW k \in Kinds, Send(k)
  PROVE  RequestInv'
<1> USE DEF RequestInv
<1>1. /\ rpc = "idle" /\ rpc' = "poll" /\ rkind' = k /\ result' = None
      /\ rid' = nreq + 1 /\ nreq' = nreq + 1 /\ nreq' \in 0..MaxReq
      /\ target' \in Modes
      /\ flag' \in [Flags -> BOOLEAN]
      /\ flag'["set_if"] = flag["set_if"] /\ (k = "tx_power" => ~flag'[k])
      /\ inflight' \in Seq(Answer)
      /\ UNCHANGED <<cpc, cmsg, value, ptr, heap, hostType, fwType, unclean, oops>>
  BY SendEffect
<1>2. \A i \in DOMAIN inflight' :
        \/ i \in DOMAIN inflight /\ inflight'[i] = inflight[i]
        \/ /\ i = Len(inflight) + 1 /\ inflight'[i].kind = k
           /\ inflight'[i].id = rid' /\ inflight'[i].mode = target'
  BY SendEffect
<1>3. exposed' = (Owed(k) \/ (k # "tx_power" /\ Answered(k)))
  BY DEF Send
<1>4. exposed' \in BOOLEAN
  BY <1>3
<1>5. RequestTypes'
  BY <1>1, <1>4 DEF RequestTypes
<1>6. HeapInv' /\ BuffersSafe'
  BY <1>1 DEF HeapInv, BuffersSafe, OopsNeedsTrouble, NoLeak
<1>7. TakeInv'
  BY <1>1 DEF TakeInv
<1>8. PollInv'
  <2> SUFFICES ASSUME ~exposed' PROVE PollInv'
    BY DEF PollInv
  <2>1. ~Owed(k) /\ (k = "tx_power" \/ ~Answered(k))
    BY <1>3
  <2>2. ~Answered(k)'
    BY <1>1, <2>1 DEF Answered, Kinds, PtrKinds
  <2>3. ~InCallback(k)'
    BY <1>1, <2>1 DEF Owed, InCallback
  <2>4. \A i \in DOMAIN inflight' : inflight'[i].kind = k =>
          i = Len(inflight) + 1 /\ inflight'[i].id = rid' /\ inflight'[i].mode = target'
    BY <1>2, <2>1 DEF Owed
  <2> QED BY <1>1, <2>2, <2>3, <2>4 DEF PollInv
<1>9. QuietInv'
  <2> SUFFICES ASSUME NEW j \in Kinds \ unclean
               PROVE  /\ j # k => ~Owed(j)'
                      /\ j = "set_if" => ~flag'["set_if"]
                      /\ j \in PtrKinds => ptr'[j] = NULL
    BY <1>1 DEF QuietInv
  <2>1. /\ ~Owed(j) /\ (j = "set_if" => ~flag["set_if"])
        /\ (j \in PtrKinds => ptr[j] = NULL)
    BY <1>1 DEF QuietInv
  <2>2. j # k => ~Owed(j)'
    BY <1>1, <1>2, <2>1 DEF Owed
  <2> QED BY <1>1, <2>1, <2>2
<1>10. ResultIsOwn'
  <2>1. k \notin unclean => ~Owed(k) /\ (k = "tx_power" \/ ~Answered(k))
    BY <1>1 DEF QuietInv, Answered, Kinds, PtrKinds
  <2> QED BY <1>1, <1>3, <2>1 DEF ResultIsOwn
<1>11. ModeInv'
  <2> SUFFICES ASSUME "set_if" \notin unclean PROVE ModeInv'
    BY <1>1 DEF ModeInv
  <2>1. SameMode'
    BY <1>1 DEF ModeInv, SameMode
  <2>2. ~InCallback("set_if")' /\ ~flag'["set_if"]
    BY <1>1 DEF QuietInv, Owed, InCallback, Kinds
  <2> QED BY <1>1, <2>1, <2>2 DEF ModeInv
<1> QED BY <1>5, <1>6, <1>7, <1>8, <1>9, <1>10, <1>11

\* A request that is not sent clears a mailbox at most.
LEMMA SendFailKeeps ==
  ASSUME RequestInv, NEW k \in Kinds, SendFail(k)
  PROVE  RequestInv'
<1> USE DEF RequestInv
<1>1. /\ rpc = "idle" /\ result' = None
      /\ UNCHANGED <<rpc, rkind, rid, target, nreq, inflight, cpc, cmsg, value, ptr,
                     heap, hostType, fwType, exposed, unclean, oops>>
  BY DEF SendFail, reqVars
<1>2. flag' \in [Flags -> BOOLEAN] /\ (flag'["set_if"] => flag["set_if"])
  BY DEF SendFail, ClearedAtStart, RequestTypes, Flags
<1>3. RequestTypes'
  BY <1>1, <1>2 DEF RequestTypes
<1>4. HeapInv' /\ BuffersSafe'
  BY <1>1 DEF HeapInv, BuffersSafe, OopsNeedsTrouble, NoLeak
<1>5. PollInv' /\ TakeInv'
  BY <1>1 DEF PollInv, TakeInv
<1>6. QuietInv'
  <2>1. \A j : Owed(j)' <=> Owed(j)
    BY <1>1 DEF Owed
  <2> QED BY <1>1, <1>2, <2>1 DEF QuietInv
<1>7. ResultIsOwn'
  BY <1>1 DEF ResultIsOwn
<1>8. ModeInv'
  BY <1>1 DEF ModeInv, SameMode
<1> QED BY <1>3, <1>4, <1>5, <1>6, <1>7, <1>8

\* A poll that ends with an answer has its own, and no other is about, unless
\* the callback is half-way.
LEMMA PollAnsweredKeeps ==
  ASSUME RequestInv, PollAnswered
  PROVE  RequestInv'
<1> USE DEF RequestInv
<1>1. /\ rpc = "poll" /\ rpc' = "take" /\ Answered(rkind)
      /\ UNCHANGED <<rkind, rid, target, nreq, inflight, cpc, cmsg, flag, value, ptr,
                     heap, hostType, fwType, result, oops>>
  BY DEF PollAnswered, mboxVars
<1>2. exposed' = (exposed \/ Torn)
  BY DEF PollAnswered
<1>3. unclean' = IF Torn THEN unclean \union {rkind} ELSE unclean
  BY DEF PollAnswered
<1>4. exposed' \in BOOLEAN /\ (~exposed' <=> ~exposed /\ ~Torn)
  BY <1>2 DEF RequestTypes
<1>5. ASSUME ~exposed, ~Torn
      PROVE  ~Owed(rkind) /\ ~InCallback(rkind) /\ HoldsOwn
  <2>1. ~InCallback(rkind)
    BY <1>1, <1>5 DEF PollInv, InCallback, Torn, RequestTypes
  <2>2. \A i \in DOMAIN inflight : inflight[i].kind # rkind
    BY <1>1, <1>5 DEF PollInv
  <2> QED BY <1>1, <1>5, <2>1, <2>2 DEF PollInv, Owed, InCallback
<1>6. RequestTypes'
  BY <1>1, <1>4 DEF RequestTypes
<1>7. HeapInv'
  BY <1>1 DEF HeapInv
<1>8. BuffersSafe'
  BY <1>1, <1>3 DEF BuffersSafe, OopsNeedsTrouble, NoLeak
<1>9. PollInv'
  BY <1>1 DEF PollInv
<1>10. /\ \A k : Owed(k)' <=> Owed(k)
       /\ Answered(rkind)' <=> Answered(rkind)
       /\ HoldsOwn' <=> HoldsOwn
  BY <1>1 DEF Owed, Answered, HoldsOwn
<1>11. TakeInv'
  BY <1>1, <1>4, <1>5, <1>10 DEF TakeInv
<1>12. QuietInv'
  <2> SUFFICES ASSUME NEW k \in Kinds \ unclean'
               PROVE  /\ ~Owed(k)'
                      /\ k = "set_if" /\ flag["set_if"] => rkind = k
                      /\ k \in PtrKinds /\ ptr[k] # NULL => rkind = k
    BY <1>1 DEF QuietInv
  <2>1. k \notin unclean /\ (k = rkind => ~Torn /\ ~exposed)
    BY <1>3 DEF ResultIsOwn
  <2> QED BY <1>1, <1>5, <1>10, <2>1 DEF QuietInv
<1>13. ResultIsOwn'
  BY <1>1, <1>2, <1>3, <1>4 DEF ResultIsOwn
<1>14. ModeInv'
  <2> SUFFICES ASSUME "set_if" \notin unclean' PROVE ModeInv'
    BY DEF ModeInv
  <2>1. "set_if" \notin unclean /\ (rkind = "set_if" => ~Torn /\ ~exposed)
    BY <1>3 DEF ResultIsOwn
  <2>2. rkind = "set_if" => flag["set_if"] /\ ~InCallback("set_if")
    BY <1>1, <1>5, <2>1 DEF Answered, PtrKinds
  <2>3. rkind = "set_if" => IF value["set_if"] = 0 THEN fwType = target ELSE SameMode
    BY <1>1, <2>1, <2>2 DEF ModeInv
  <2>4. rkind # "set_if" => SameMode
    BY <1>1, <2>1 DEF ModeInv
  <2> QED BY <1>1, <2>3, <2>4 DEF ModeInv, SameMode
<1> QED BY <1>6, <1>7, <1>8, <1>9, <1>11, <1>12, <1>13, <1>14

\* A request that times out makes its kind unclean.
LEMMA PollTimeoutKeeps ==
  ASSUME RequestInv, PollTimeout
  PROVE  RequestInv'
<1> USE DEF RequestInv
<1>1. /\ rpc = "poll" /\ rpc' = IF rkind = "channel" THEN "release" ELSE "idle"
      /\ unclean' = unclean \union {rkind}
      /\ flag' = IF rkind = "set_if" THEN [flag EXCEPT ![rkind] = FALSE] ELSE flag
      /\ UNCHANGED <<rkind, rid, target, nreq, inflight, cpc, cmsg, value, ptr, heap,
                     hostType, fwType, result, exposed, oops>>
  BY DEF PollTimeout
<1>2. flag' \in [Flags -> BOOLEAN] /\ (rkind # "set_if" => flag' = flag)
  BY <1>1 DEF RequestTypes
<1>3. RequestTypes'
  BY <1>1, <1>2 DEF RequestTypes
<1>4. HeapInv'
  BY <1>1 DEF HeapInv
<1>5. BuffersSafe'
  BY <1>1 DEF BuffersSafe, OopsNeedsTrouble, NoLeak
<1>6. PollInv' /\ TakeInv'
  BY <1>1 DEF PollInv, TakeInv
<1>7. QuietInv'
  <2>1. \A k : Owed(k)' <=> Owed(k)
    BY <1>1 DEF Owed
  <2> QED BY <1>1, <1>2, <2>1 DEF QuietInv
<1>8. ResultIsOwn'
  BY <1>1 DEF ResultIsOwn
<1>9. ModeInv'
  BY <1>1, <1>2 DEF ModeInv, SameMode
<1> QED BY <1>3, <1>4, <1>5, <1>6, <1>7, <1>8, <1>9

\* The domain of the memory, and the buffers in the mailboxes.
LEMMA HeapDomain ==
  ASSUME RequestTypes
  PROVE  /\ Len(heap) \in Nat /\ DOMAIN heap = 1..Len(heap)
         /\ \A k \in PtrKinds : ptr[k] \in 0..Len(heap)
         /\ \A k \in PtrKinds : ptr[k] # NULL => ptr[k] \in DOMAIN heap
         /\ "station" \in PtrKinds /\ "channel" \in PtrKinds
<1>1. heap \in Seq(Int) /\ ptr \in [PtrKinds -> 0..Len(heap)]
  BY DEF RequestTypes
<1>2. Len(heap) \in Nat /\ DOMAIN heap = 1..Len(heap)
  BY <1>1, LenProperties
<1>3. \A k \in PtrKinds : ptr[k] \in 0..Len(heap)
  BY <1>1
<1>4. \A k \in PtrKinds : ptr[k] # NULL => ptr[k] \in DOMAIN heap
  BY <1>2, <1>3 DEF NULL
<1> QED BY <1>2, <1>3, <1>4 DEF PtrKinds

\* The buffer is read: it is the request's own, or the request is exposed.
LEMMA TakeBufferKeeps ==
  ASSUME RequestInv, TakeBuffer
  PROVE  RequestInv'
<1> USE DEF RequestInv
<1> DEFINE p == ptr[rkind]
<1>1. /\ UNCHANGED <<rkind, rid, target, nreq, inflight, cpc, cmsg, flag, value, ptr,
                     heap, fwType, hostType, exposed, unclean>>
      /\ rkind \in PtrKinds /\ rpc = "take" /\ rpc' = "release"
      /\ \/ Live(p) /\ heap[p] # NoData /\ result' = heap[p] /\ oops' = oops
         \/ result' = result /\ oops' = oops
         \/ ~Live(p) /\ result' = result /\ oops' = TRUE
  BY DEF TakeBuffer, mboxVars
<1>2. ~exposed => Live(p) /\ heap[p] \in {rid, NoData}
  <2>1. ~exposed => p # NULL /\ heap[p] \in {rid, NoData}
    BY <1>1 DEF TakeInv, Answered, HoldsOwn, PtrKinds
  <2>2. rid # Freed /\ NoData # Freed
    BY DEF RequestTypes, Freed, NoData
  <2> QED BY <2>1, <2>2 DEF Live
<1>3. exposed => rkind \in unclean
  BY DEF ResultIsOwn
<1> HIDE DEF p
<1>4. RequestTypes'
  <2>1. oops' \in BOOLEAN
    BY <1>1 DEF RequestTypes
  <2> QED BY <1>1, <2>1 DEF RequestTypes, PtrKinds
<1>5. OopsNeedsTrouble'
  BY <1>1, <1>2, <1>3 DEF BuffersSafe, OopsNeedsTrouble
<1>6. HeapInv' /\ PollInv' /\ TakeInv' /\ QuietInv' /\ BuffersSafe'
  BY <1>1, <1>5, OpKeeps DEF PtrKinds
<1>7. ResultIsOwn'
  BY <1>1, <1>2 DEF ResultIsOwn
<1>8. ModeInv'
  BY <1>1 DEF ModeInv, SameMode, PtrKinds
<1> QED BY <1>4, <1>6, <1>7, <1>8

\* ... freed ...
LEMMA ReleaseBufferKeeps ==
  ASSUME RequestInv, ReleaseBuffer
  PROVE  RequestInv'
<1> USE DEF RequestInv
<1> DEFINE p == ptr[rkind]
<1>1. /\ UNCHANGED <<rkind, rid, target, nreq, inflight, cpc, cmsg, flag, value, ptr,
                     fwType, hostType, result, exposed, unclean, oops>>
      /\ rkind \in PtrKinds /\ rpc = "release" /\ rpc' \in {"clear", "idle"}
      /\ rpc' = "idle" => p = NULL
      /\ heap' = IF p = NULL THEN heap ELSE [heap EXCEPT ![p] = Freed]
  BY DEF ReleaseBuffer
<1>2. /\ Len(heap) \in Nat /\ DOMAIN heap = 1..Len(heap)
      /\ p # NULL => p \in DOMAIN heap
  BY <1>1, HeapDomain
<1>3. heap \in Seq(Int) /\ Freed \in Int
  BY DEF RequestTypes, Freed
<1> HIDE DEF p
<1>4. /\ heap' \in Seq(Int) /\ Len(heap') = Len(heap) /\ DOMAIN heap' = DOMAIN heap
      /\ \A b \in DOMAIN heap : heap'[b] = heap[b] \/ heap'[b] = Freed
      /\ p # NULL => heap'[p] = Freed
  <2>1. CASE p = NULL
    BY <1>1, <1>3, <2>1
  <2>2. CASE p # NULL
    <3>1. p \in 1..Len(heap) /\ heap' = [heap EXCEPT ![p] = Freed]
      BY <1>1, <1>2, <2>2
    <3>2. heap' \in Seq(Int) /\ Len(heap') = Len(heap)
      BY <1>3, <3>1, ExceptSeq
    <3> QED BY <1>2, <1>3, <3>1, <3>2
  <2> QED BY <2>1, <2>2
<1>5. RequestTypes'
  BY <1>1, <1>4 DEF RequestTypes
<1>6. HeapInv'
  BY <1>1, <1>4 DEF HeapInv
<1>7. PollInv' /\ TakeInv'
  BY <1>1 DEF PollInv, TakeInv
<1>8. QuietInv'
  <2>1. \A k : Owed(k)' <=> Owed(k)
    BY <1>1 DEF Owed
  <2> QED BY <1>1, <1>4, <2>1 DEF QuietInv, p, PtrKinds
<1>9. ResultIsOwn'
  BY <1>1 DEF ResultIsOwn
<1>10. ModeInv'
  BY <1>1 DEF ModeInv, SameMode, PtrKinds
<1>11. BuffersSafe'
  BY <1>1, <1>4 DEF BuffersSafe, OopsNeedsTrouble, NoLeak
<1> QED BY <1>5, <1>6, <1>7, <1>8, <1>9, <1>10, <1>11

\* ... and forgotten.
LEMMA ClearBufferKeeps ==
  ASSUME RequestInv, ClearBuffer
  PROVE  RequestInv'
<1> USE DEF RequestInv
<1>1. /\ UNCHANGED <<rkind, rid, target, nreq, inflight, cpc, cmsg, flag, value, heap,
                     fwType, hostType, result, exposed, unclean, oops>>
      /\ rkind \in PtrKinds /\ rpc = "clear" /\ rpc' = "idle"
      /\ ptr' = [ptr EXCEPT ![rkind] = NULL]
  BY DEF ClearBuffer, RequestTypes
<1>2. /\ ptr' \in [PtrKinds -> 0..Len(heap)]
      /\ \A k \in PtrKinds : ptr'[k] = IF k = rkind THEN NULL ELSE ptr[k]
      /\ ptr'["station"] # NULL => ptr'["station"] = ptr["station"]
      /\ ptr'["channel"] = NULL \/ ptr'["channel"] = ptr["channel"]
  <2>1. ptr \in [PtrKinds -> 0..Len(heap)] /\ Len(heap) \in Nat
    BY HeapDomain DEF RequestTypes
  <2>2. \A k \in PtrKinds : ptr'[k] = IF k = rkind THEN NULL ELSE ptr[k]
    BY <1>1, <2>1
  <2>3. NULL \in 0..Len(heap)
    BY <2>1 DEF NULL
  <2> QED BY <1>1, <2>1, <2>2, <2>3 DEF PtrKinds
<1>3. RequestTypes'
  BY <1>1, <1>2 DEF RequestTypes
<1>4. HeapInv'
  BY <1>1, <1>2 DEF HeapInv, NULL
<1>5. PollInv' /\ TakeInv'
  BY <1>1 DEF PollInv, TakeInv
<1>6. QuietInv'
  <2>1. \A k : Owed(k)' <=> Owed(k)
    BY <1>1 DEF Owed
  <2> QED BY <1>1, <1>2, <2>1 DEF QuietInv, PtrKinds
<1>7. ResultIsOwn'
  BY <1>1 DEF ResultIsOwn
<1>8. ModeInv'
  BY <1>1 DEF ModeInv, SameMode, PtrKinds
<1>9. BuffersSafe'
  <2>1. OopsNeedsTrouble'
    BY <1>1 DEF BuffersSafe, OopsNeedsTrouble
  <2>2. ASSUME PtrKinds \cap unclean = {}, NEW b \in DOMAIN heap
        PROVE  heap[b] = Freed \/ \E k \in PtrKinds : ptr'[k] = b
    <3>1. ptr[rkind] = NULL \/ heap[ptr[rkind]] = Freed
      BY <1>1, <2>2 DEF QuietInv, Kinds, PtrKinds
    <3>2. b # NULL
      BY HeapDomain DEF NULL
    <3>3. heap[b] = Freed \/ \E k \in PtrKinds : ptr[k] = b
      BY <2>2 DEF BuffersSafe, NoLeak
    <3> QED BY <1>2, <3>1, <3>2, <3>3
  <2> QED BY <1>1, <2>1, <2>2 DEF BuffersSafe, NoLeak
<1> QED BY <1>3, <1>4, <1>5, <1>6, <1>7, <1>8, <1>9
-----------------------------------------------------------------------------
(* The callbacks *)

\* The oldest answer is handed to its callback: what is owed stays the same.
LEMMA EventEffect ==
  ASSUME RequestTypes, Event
  PROVE  /\ cpc = "idle" /\ cpc' = "first"
         /\ cmsg' = inflight[1] /\ 1 \in DOMAIN inflight /\ cmsg' \in Answer
         /\ inflight' \in Seq(Answer)
         /\ \A i \in DOMAIN inflight' : i \in Nat /\ i + 1 \in DOMAIN inflight
                                         /\ i + 1 # 1 /\ inflight'[i] = inflight[i + 1]
         /\ \A k : Owed(k)' => Owed(k)
         /\ fwType' = IF cmsg'.kind = "set_if" /\ cmsg'.ok THEN cmsg'.mode ELSE fwType
         /\ UNCHANGED <<rpc, rkind, rid, target, nreq, flag, value, ptr, heap, hostType,
                        result, exposed, unclean, oops>>
<1>1. /\ cpc = "idle" /\ cpc' = "first" /\ inflight # <<>>
      /\ cmsg' = Head(inflight) /\ inflight' = Tail(inflight)
      /\ fwType' = IF cmsg'.kind = "set_if" /\ cmsg'.ok THEN cmsg'.mode ELSE fwType
      /\ UNCHANGED <<rpc, rkind, rid, target, nreq, flag, value, ptr, heap, hostType,
                     result, exposed, unclean, oops>>
  BY DEF Event, reqVars, mboxVars
<1>2. inflight \in Seq(Answer)
  BY DEF RequestTypes
<1>3. /\ Head(inflight) = inflight[1] /\ Head(inflight) \in Answer
      /\ Tail(inflight) \in Seq(Answer) /\ Len(Tail(inflight)) = Len(inflight) - 1
      /\ \A i \in 1..Len(Tail(inflight)) : Tail(inflight)[i] = inflight[i + 1]
  BY <1>1, <1>2, HeadTailProperties
<1>4. /\ Len(inflight) \in Nat /\ Len(inflight) # 0
      /\ DOMAIN inflight = 1..Len(inflight)
      /\ DOMAIN inflight' = 1..(Len(inflight) - 1)
  BY <1>1, <1>2, <1>3, LenProperties, EmptySeq
<1>5. \A i \in DOMAIN inflight' : i \in Nat /\ i + 1 \in DOMAIN inflight
                                    /\ i + 1 # 1 /\ inflight'[i] = inflight[i + 1]
  BY <1>1, <1>3, <1>4
<1>6. 1 \in DOMAIN inflight
  BY <1>4
<1>7. \A k : Owed(k)' => Owed(k)
  BY <1>1, <1>3, <1>5, <1>6 DEF Owed
<1> QED BY <1>1, <1>3, <1>5, <1>6, <1>7

\* The next answer is taken from the queue of events.
LEMMA EventKeeps ==
  ASSUME RequestInv, Event
  PROVE  RequestInv'
<1> USE DEF RequestInv
<1>1. /\ cpc = "idle" /\ cpc' = "first"
      /\ cmsg' = inflight[1] /\ 1 \in DOMAIN inflight /\ cmsg' \in Answer
      /\ inflight' \in Seq(Answer)
      /\ fwType' = IF cmsg'.kind = "set_if" /\ cmsg'.ok THEN cmsg'.mode ELSE fwType
      /\ UNCHANGED <<rpc, rkind, rid, target, nreq, flag, value, ptr, heap, hostType,
                     result, exposed, unclean, oops>>
  BY EventEffect
<1>2. /\ \A i \in DOMAIN inflight' : i \in Nat /\ i + 1 \in DOMAIN inflight
                                       /\ i + 1 # 1 /\ inflight'[i] = inflight[i + 1]
      /\ \A k : Owed(k)' => Owed(k)
  BY EventEffect
<1>3. RequestTypes'
  <2>1. cmsg'.mode \in Modes
    BY <1>1 DEF Answer
  <2> QED BY <1>1, <2>1 DEF RequestTypes
<1>4. HeapInv' /\ BuffersSafe'
  BY <1>1 DEF HeapInv, BuffersSafe, OopsNeedsTrouble, NoLeak
<1>5. PollInv'
  <2> SUFFICES ASSUME ~exposed, rpc = "poll" PROVE PollInv'
    BY <1>1 DEF PollInv
  <2>1. ~InCallback(rkind)
    BY <1>1 DEF InCallback
  <2>2. InCallback(rkind)' <=> inflight[1].kind = rkind
    BY <1>1 DEF InCallback
  <2>3. Answered(rkind)' <=> Answered(rkind)
    BY <1>1 DEF Answered
  <2>4. HoldsOwn' <=> HoldsOwn
    BY <1>1 DEF HoldsOwn
  <2>5. \A i \in DOMAIN inflight' : inflight'[i].kind = rkind =>
          /\ inflight'[i].id = rid /\ inflight'[i].mode = target
          /\ inflight[1].kind # rkind /\ ~Answered(rkind)
    BY <1>1, <1>2 DEF PollInv
  <2>6. \A i, j \in DOMAIN inflight' :
          inflight'[i].kind = rkind /\ inflight'[j].kind = rkind => i = j
    <3> SUFFICES ASSUME NEW i \in DOMAIN inflight', NEW j \in DOMAIN inflight',
                        inflight'[i].kind = rkind, inflight'[j].kind = rkind
                 PROVE  i = j
      OBVIOUS
    <3>1. i + 1 = j + 1
      BY <1>2 DEF PollInv
    <3> QED BY <1>2, <3>1
  <2>7. inflight[1].kind = rkind =>
          inflight[1].id = rid /\ inflight[1].mode = target /\ ~Answered(rkind)
    BY <1>1 DEF PollInv
  <2>8. Answered(rkind) => HoldsOwn
    BY <2>1 DEF PollInv
  <2> QED BY <1>1, <2>2, <2>3, <2>4, <2>5, <2>6, <2>7, <2>8 DEF PollInv
<1>6. TakeInv'
  BY <1>1, <1>2 DEF TakeInv, Answered, HoldsOwn
<1>7. QuietInv'
  BY <1>1, <1>2 DEF QuietInv
<1>8. ResultIsOwn'
  BY <1>1 DEF ResultIsOwn
<1>9. ModeInv'
  <2> SUFFICES ASSUME "set_if" \notin unclean PROVE ModeInv'
    BY <1>1 DEF ModeInv
  <2>1. CASE cmsg'.kind # "set_if"
    <3>1. fwType' = fwType /\ ~InCallback("set_if")' /\ ~InCallback("set_if")
      BY <1>1, <2>1 DEF InCallback
    <3>2. (\E i \in DOMAIN inflight' : inflight'[i].kind = "set_if")
            => \E i \in DOMAIN inflight : inflight[i].kind = "set_if"
      BY <1>2
    <3> QED BY <1>1, <3>1, <3>2 DEF ModeInv, SameMode
  <2>2. CASE cmsg'.kind = "set_if"
    <3>1. rpc = "poll" /\ rkind = "set_if"
      BY <1>1, <2>2 DEF QuietInv, Owed, Kinds
    <3>2. ~exposed
      BY <3>1 DEF ResultIsOwn
    <3>3. cmsg'.mode = target
      BY <1>1, <2>2, <3>1, <3>2 DEF PollInv
    <3>4. \A i \in DOMAIN inflight' : inflight'[i].kind # "set_if"
      BY <1>1, <1>2, <2>2, <3>1, <3>2 DEF PollInv
    <3>5. SameMode
      BY <1>1, <2>2, <3>1 DEF ModeInv
    <3>6. IF cmsg'.ok THEN fwType' = target ELSE SameMode'
      BY <1>1, <2>2, <3>3, <3>5 DEF SameMode
    <3>7. InCallback("set_if")'
      BY <1>1, <2>2 DEF InCallback
    <3> QED BY <1>1, <3>1, <3>4, <3>6, <3>7 DEF ModeInv
  <2> QED BY <2>1, <2>2
<1> QED BY <1>3, <1>4, <1>5, <1>6, <1>7, <1>8, <1>9

\* What the callback of an answer that is owed may rely on: its kind is unclean,
\* or the request is being polled for.
LEMMA CallbackOwed ==
  ASSUME RequestInv, cpc # "idle"
  PROVE  /\ cmsg.kind \in Kinds /\ Owed(cmsg.kind)
         /\ \/ cmsg.kind \in unclean
            \/ rpc = "poll" /\ rkind = cmsg.kind /\ ~exposed
         /\ rpc = "take" /\ ~exposed => rkind # cmsg.kind
         /\ rpc = "poll" /\ ~exposed /\ rkind = cmsg.kind =>
              /\ cmsg.id = rid /\ \A i \in DOMAIN inflight : inflight[i].kind # rkind
<1> USE DEF RequestInv
<1>1. cmsg.kind \in Kinds /\ Owed(cmsg.kind) /\ InCallback(cmsg.kind)
  BY DEF RequestTypes, Answer, Owed, InCallback
<1>2. \/ cmsg.kind \in unclean
      \/ rpc = "poll" /\ rkind = cmsg.kind /\ ~exposed
  BY <1>1 DEF QuietInv, ResultIsOwn
<1>3. rpc = "take" /\ ~exposed => rkind # cmsg.kind
  BY <1>1 DEF TakeInv
<1>4. rpc = "poll" /\ ~exposed /\ rkind = cmsg.kind =>
        /\ cmsg.id = rid /\ \A i \in DOMAIN inflight : inflight[i].kind # rkind
  BY <1>1 DEF PollInv
<1> QED BY <1>1, <1>2, <1>3, <1>4

\* The first store of a callback without a buffer.
LEMMA StoreFirstKeeps ==
  ASSUME RequestInv, CallbackFirst, Store(1)
  PROVE  RequestInv'
<1> USE DEF RequestInv
<1>1. /\ cpc = "first" /\ cpc' = "second"
      /\ UNCHANGED <<rpc, rkind, rid, target, nreq, inflight, cmsg, ptr, heap, hostType,
                     fwType, result, exposed, unclean, oops>>
  BY DEF CallbackFirst, Store, reqVars
<1>2. /\ cmsg.kind \in Kinds /\ Owed(cmsg.kind)
      /\ \/ cmsg.kind \in unclean
         \/ rpc = "poll" /\ rkind = cmsg.kind /\ ~exposed
      /\ rpc = "take" /\ ~exposed => rkind # cmsg.kind
      /\ rpc = "poll" /\ ~exposed /\ rkind = cmsg.kind =>
           /\ cmsg.id = rid /\ \A i \in DOMAIN inflight : inflight[i].kind # rkind
  BY <1>1, CallbackOwed
<1>3. cmsg.kind \in Flags
  BY <1>2 DEF Store, Kinds, PtrKinds, Flags
<1>4. \/ /\ cmsg.kind = "set_if" /\ flag' = [flag EXCEPT !["set_if"] = TRUE]
         /\ value' = value
      \/ /\ cmsg.kind = "tx_power" /\ flag' = flag
         /\ value' = [value EXCEPT !["tx_power"] = cmsg.id]
  BY <1>3 DEF Store, StoreOrder, Flags, Content
<1>5. flag' \in [Flags -> BOOLEAN]
  BY <1>4 DEF RequestTypes
<1>6. cmsg.id \in Int
  BY <1>1 DEF RequestTypes, Answer
<1>7. value' \in [Flags -> Int] /\ value'["set_if"] = value["set_if"]
  BY <1>4, <1>6 DEF RequestTypes, Flags
<1>8. cmsg.kind = "tx_power" => value'["tx_power"] = cmsg.id
  BY <1>4 DEF RequestTypes, Flags
<1>9. cmsg.kind = "set_if" => flag'["set_if"] /\ flag'["tx_power"] = flag["tx_power"]
  BY <1>4 DEF RequestTypes, Flags
<1>10. RequestTypes'
  BY <1>1, <1>5, <1>7 DEF RequestTypes
<1>11. HeapInv'
  BY <1>1, <1>3 DEF HeapInv, Flags, PtrKinds
<1>12. BuffersSafe'
  BY <1>1 DEF BuffersSafe, OopsNeedsTrouble, NoLeak
<1>13. \A k : (Owed(k)' <=> Owed(k)) /\ (InCallback(k)' <=> InCallback(k))
  BY <1>1 DEF Owed, InCallback
<1>14. ASSUME rkind # cmsg.kind
       PROVE  (Answered(rkind)' <=> Answered(rkind)) /\ (HoldsOwn' <=> HoldsOwn)
  <2>1. Answered(rkind)' <=> Answered(rkind)
    BY <1>1, <1>4, <1>9, <1>14 DEF Answered, RequestTypes, Kinds, PtrKinds, Flags
  <2>2. HoldsOwn' <=> HoldsOwn
    BY <1>1, <1>4, <1>14 DEF HoldsOwn
  <2> QED BY <2>1, <2>2
<1>15. PollInv'
  <2> SUFFICES ASSUME ~exposed, rpc = "poll" PROVE PollInv'
    BY <1>1 DEF PollInv
  <2>1. CASE rkind # cmsg.kind
    <3>1. ~InCallback(rkind) /\ ~InCallback(rkind)'
      BY <1>1, <2>1 DEF InCallback
    <3> QED BY <1>1, <1>14, <2>1, <3>1 DEF PollInv, InCallback
  <2>2. CASE rkind = cmsg.kind
    <3>1. InCallback(rkind) /\ InCallback(rkind)'
      BY <1>1, <1>13, <2>2 DEF InCallback
    <3>2. rkind = "tx_power" => ~Answered(rkind)' /\ value'["tx_power"] = rid
      <4>1. rkind = "tx_power" => ~Answered(rkind)
        BY <3>1, <1>1 DEF PollInv
      <4> QED BY <1>1, <1>2, <1>4, <1>8, <2>2, <4>1 DEF Answered
    <3>3. rkind \notin PtrKinds
      BY <1>3, <2>2 DEF Flags, PtrKinds
    <3>4. cmsg.id = rid /\ cmsg.mode = target
      BY <3>1 DEF PollInv
    <3> QED BY <1>1, <1>2, <2>2, <3>1, <3>2, <3>3, <3>4 DEF PollInv
  <2> QED BY <2>1, <2>2
<1>16. TakeInv'
  BY <1>1, <1>2, <1>13, <1>14 DEF TakeInv
<1>17. QuietInv'
  BY <1>1, <1>2, <1>4, <1>13 DEF QuietInv
<1>18. ResultIsOwn'
  BY <1>1 DEF ResultIsOwn
<1>19. ModeInv'
  <2> SUFFICES ASSUME "set_if" \notin unclean PROVE ModeInv'
    BY <1>1 DEF ModeInv
  <2>1. CASE cmsg.kind # "set_if"
    BY <1>1, <1>4, <1>7, <1>13, <2>1 DEF ModeInv, SameMode
  <2>2. CASE cmsg.kind = "set_if"
    <3>1. InCallback("set_if") /\ InCallback("set_if")' /\ rpc = "poll" /\ rkind = "set_if"
      BY <1>1, <1>2, <1>13, <2>2 DEF InCallback
    <3> QED BY <1>1, <3>1 DEF ModeInv, SameMode
  <2> QED BY <2>1, <2>2
<1> QED BY <1>10, <1>11, <1>12, <1>15, <1>16, <1>17, <1>18, <1>19

\* The second store of a callback without a buffer.
LEMMA StoreSecondKeeps ==
  ASSUME RequestInv, CallbackSecond, Store(2)
  PROVE  RequestInv'
<1> USE DEF RequestInv
<1>1. /\ cpc = "second" /\ cpc' = "idle"
      /\ UNCHANGED <<rpc, rkind, rid, target, nreq, inflight, ptr, heap, hostType,
                     fwType, result, exposed, unclean, oops>>
  BY DEF CallbackSecond, Store, reqVars
<1>2. /\ cmsg.kind \in Kinds /\ Owed(cmsg.kind)
      /\ \/ cmsg.kind \in unclean
         \/ rpc = "poll" /\ rkind = cmsg.kind /\ ~exposed
      /\ rpc = "take" /\ ~exposed => rkind # cmsg.kind
      /\ rpc = "poll" /\ ~exposed /\ rkind = cmsg.kind =>
           /\ cmsg.id = rid /\ \A i \in DOMAIN inflight : inflight[i].kind # rkind
  BY <1>1, CallbackOwed
<1>3. cmsg.kind \in Flags
  BY <1>2 DEF Store, Kinds, PtrKinds, Flags
<1>4. \/ /\ cmsg.kind = "set_if" /\ flag' = flag
         /\ value' = [value EXCEPT !["set_if"] = IF cmsg.ok THEN 0 ELSE 1]
      \/ /\ cmsg.kind = "tx_power" /\ flag' = [flag EXCEPT !["tx_power"] = TRUE]
         /\ value' = value
  BY <1>3 DEF Store, StoreOrder, Flags, Content
<1>5. flag' \in [Flags -> BOOLEAN]
  BY <1>4 DEF RequestTypes
<1>6. value' \in [Flags -> Int] /\ value'["tx_power"] = value["tx_power"]
  BY <1>4 DEF RequestTypes, Flags
<1>7. /\ cmsg.kind = "set_if" => value'["set_if"] = IF cmsg.ok THEN 0 ELSE 1
      /\ cmsg.kind # "set_if" => value'["set_if"] = value["set_if"]
  BY <1>4 DEF RequestTypes, Flags
<1>8. flag'["set_if"] = flag["set_if"]
  BY <1>4 DEF RequestTypes, Flags
<1>9. RequestTypes'
  BY <1>1, <1>5, <1>6 DEF RequestTypes
<1>10. HeapInv'
  BY <1>1 DEF HeapInv
<1>11. BuffersSafe'
  BY <1>1 DEF BuffersSafe, OopsNeedsTrouble, NoLeak
<1>12. /\ \A k : Owed(k)' => Owed(k)
       /\ \A k : ~InCallback(k)'
       /\ \A k : InCallback(k) <=> k = cmsg.kind
  BY <1>1 DEF Owed, InCallback
<1>13. ASSUME rkind # cmsg.kind
       PROVE  (Answered(rkind)' <=> Answered(rkind)) /\ (HoldsOwn' <=> HoldsOwn)
  <2>1. flag'[rkind] = flag[rkind] \/ rkind \in PtrKinds
    BY <1>4, <1>13 DEF RequestTypes, Kinds, PtrKinds, Flags
  <2>2. Answered(rkind)' <=> Answered(rkind)
    BY <1>1, <2>1 DEF Answered
  <2>3. HoldsOwn' <=> HoldsOwn
    BY <1>1, <1>6 DEF HoldsOwn
  <2> QED BY <2>2, <2>3
<1>14. PollInv'
  <2> SUFFICES ASSUME ~exposed, rpc = "poll" PROVE PollInv'
    BY <1>1 DEF PollInv
  <2>1. CASE rkind # cmsg.kind
    BY <1>1, <1>12, <1>13, <2>1 DEF PollInv
  <2>2. CASE rkind = cmsg.kind
    <3>1. \A i \in DOMAIN inflight : inflight[i].kind # rkind
      BY <1>2, <2>2
    <3>2. rkind = "tx_power" => value'["tx_power"] = rid
      BY <1>1, <1>6, <1>12, <2>2 DEF PollInv
    <3>3. HoldsOwn'
      BY <1>1, <1>3, <2>2, <3>2 DEF HoldsOwn, Flags
    <3> QED BY <1>1, <1>12, <3>1, <3>3 DEF PollInv
  <2> QED BY <2>1, <2>2
<1>15. TakeInv'
  BY <1>1, <1>2, <1>12, <1>13 DEF TakeInv
<1>16. QuietInv'
  BY <1>1, <1>8, <1>12 DEF QuietInv
<1>17. ResultIsOwn'
  BY <1>1 DEF ResultIsOwn
<1>18. ModeInv'
  <2> SUFFICES ASSUME "set_if" \notin unclean PROVE ModeInv'
    BY <1>1 DEF ModeInv
  <2>1. CASE cmsg.kind # "set_if"
    BY <1>1, <1>7, <1>8, <1>12, <2>1 DEF ModeInv, SameMode
  <2>2. CASE cmsg.kind = "set_if"
    <3>1. rpc = "poll" /\ rkind = "set_if" /\ ~exposed /\ InCallback("set_if")
      BY <1>2, <1>12, <2>2
    <3>2. IF cmsg.ok THEN fwType = target ELSE SameMode
      BY <3>1 DEF ModeInv
    <3>3. IF value'["set_if"] = 0 THEN fwType = target ELSE SameMode
      BY <1>7, <2>2, <3>2
    <3>4. \A i \in DOMAIN inflight' : inflight'[i].kind # "set_if"
      BY <1>1, <1>2, <2>2, <3>1
    <3> QED BY <1>1, <1>12, <3>1, <3>3, <3>4 DEF ModeInv, SameMode
  <2> QED BY <2>1, <2>2
<1> QED BY <1>9, <1>10, <1>11, <1>14, <1>15, <1>16, <1>17, <1>18

\* A buffer is published: the mailbox was empty, or its kind is unclean.
LEMMA PublishKeeps ==
  ASSUME RequestInv, CallbackFirst, Publish
  PROVE  RequestInv'
<1> USE DEF RequestInv
<1> DEFINE k == cmsg.kind
           n == Len(heap) + 1
<1>1. /\ cpc = "first" /\ cpc' = "second"
      /\ UNCHANGED <<rpc, rkind, rid, target, nreq, inflight, cmsg, flag, value,
                     hostType, fwType, result, exposed, unclean, oops>>
  BY DEF CallbackFirst, Publish, reqVars
<1>2. /\ k \in Kinds /\ Owed(k)
      /\ \/ k \in unclean
         \/ rpc = "poll" /\ rkind = k /\ ~exposed
      /\ rpc = "take" /\ ~exposed => rkind # k
      /\ rpc = "poll" /\ ~exposed /\ rkind = k =>
           /\ cmsg.id = rid /\ \A i \in DOMAIN inflight : inflight[i].kind # rkind
  BY <1>1, CallbackOwed
<1>3. /\ k \in PtrKinds /\ heap' = Append(heap, Garbage)
      /\ ptr' = [ptr EXCEPT ![k] = n]
  BY DEF Publish
<1>4. /\ Len(heap) \in Nat /\ DOMAIN heap = 1..Len(heap)
      /\ \A j \in PtrKinds : ptr[j] \in 0..Len(heap)
      /\ \A j \in PtrKinds : ptr[j] # NULL => ptr[j] \in DOMAIN heap
      /\ "station" \in PtrKinds /\ "channel" \in PtrKinds
  BY HeapDomain
<1>5. heap \in Seq(Int) /\ Garbage \in Int /\ ptr \in [PtrKinds -> 0..Len(heap)]
  BY DEF RequestTypes, Garbage
<1>6. /\ heap' \in Seq(Int) /\ Len(heap') = n
      /\ \A b \in 1..Len(heap) : heap'[b] = heap[b]
      /\ heap'[n] = Garbage
  BY <1>3, <1>5, AppendProperties
<1>7. DOMAIN heap' = 1..n
  BY <1>6, LenProperties
<1> HIDE DEF k
<1>8. \A j \in PtrKinds : ptr'[j] = IF j = k THEN n ELSE ptr[j]
  BY <1>3, <1>5
<1>9. ptr' \in [PtrKinds -> 0..n]
  BY <1>3, <1>4, <1>5
<1>10. n \notin DOMAIN heap /\ n # NULL /\ \A j \in PtrKinds : ptr[j] # n
  BY <1>4 DEF NULL
<1>11. RequestTypes'
  BY <1>1, <1>6, <1>9 DEF RequestTypes
<1>12. HeapInv'
  <2>1. ptr'["station"] # NULL => ptr'["station"] # ptr'["channel"]
    BY <1>3, <1>4, <1>8, <1>10 DEF HeapInv, PtrKinds
  <2>2. Len(heap') # 0 /\ \A j \in PtrKinds : j # k => ptr'[j] # Len(heap')
    BY <1>4, <1>6, <1>8, <1>10
  <2> QED BY <1>1, <2>1, <2>2 DEF HeapInv, k
<1>13. /\ \A j : Owed(j)' <=> Owed(j)
       /\ \A j : InCallback(j) <=> j = k
       /\ \A j : InCallback(j)' <=> j = k
  BY <1>1 DEF Owed, InCallback, k
<1>14. ASSUME rkind # k
       PROVE  /\ Answered(rkind)' <=> Answered(rkind)
              /\ Answered(rkind) => (HoldsOwn' <=> HoldsOwn)
  <2>1. Answered(rkind)' <=> Answered(rkind)
    BY <1>1, <1>8, <1>14 DEF Answered
  <2>2. rkind \in PtrKinds /\ Answered(rkind) => heap'[ptr'[rkind]] = heap[ptr[rkind]]
    BY <1>4, <1>6, <1>8, <1>14 DEF Answered
  <2> QED BY <1>1, <2>1, <2>2 DEF HoldsOwn, PtrKinds
<1>15. rpc = "poll" /\ ~exposed /\ rkind = k => ptr[k] = NULL
  BY <1>1, <1>3, <1>13 DEF PollInv, Answered
<1>16. PollInv'
  <2> SUFFICES ASSUME ~exposed, rpc = "poll" PROVE PollInv'
    BY <1>1 DEF PollInv
  <2>1. CASE rkind # k
    BY <1>1, <1>3, <1>13, <1>14, <2>1 DEF PollInv
  <2>2. CASE rkind = k
    <3>1. ptr'[rkind] = Len(heap') /\ heap'[Len(heap')] = Garbage
      BY <1>3, <1>6, <1>8, <2>2
    <3>2. rkind # "tx_power"
      BY <1>3, <2>2 DEF PtrKinds
    <3>3. cmsg.id = rid /\ cmsg.mode = target
      BY <1>13, <2>2 DEF PollInv
    <3> QED BY <1>1, <1>2, <1>13, <2>2, <3>1, <3>2, <3>3 DEF PollInv
  <2> QED BY <2>1, <2>2
<1>17. TakeInv'
  BY <1>1, <1>2, <1>13, <1>14 DEF TakeInv
<1>18. QuietInv'
  <2> SUFFICES ASSUME NEW j \in Kinds \ unclean
               PROVE  /\ ~(rpc = "poll" /\ rkind = j) => ~Owed(j)
                      /\ j = "set_if" /\ flag["set_if"] =>
                           rkind = j /\ rpc \in {"poll", "take", "apply", "finish"}
                      /\ j \in PtrKinds /\ ptr'[j] # NULL =>
                           rkind = j /\ rpc \in {"poll", "take", "release", "clear"}
                      /\ j \in PtrKinds /\ rkind = j /\ rpc = "clear" =>
                           ptr'[j] = NULL \/ heap'[ptr'[j]] = Freed
    BY <1>1, <1>13 DEF QuietInv
  <2>1. CASE j = k
    BY <1>2, <2>1 DEF QuietInv
  <2>2. CASE j # k
    <3>1. j \in PtrKinds => ptr'[j] = ptr[j]
      BY <1>8, <2>2
    <3>2. j \in PtrKinds /\ ptr[j] # NULL => heap'[ptr[j]] = heap[ptr[j]]
      BY <1>4, <1>6
    <3> QED BY <3>1, <3>2 DEF QuietInv
  <2> QED BY <2>1, <2>2
<1>19. ResultIsOwn'
  BY <1>1 DEF ResultIsOwn
<1>20. ModeInv'
  <2>1. k # "set_if"
    BY <1>3 DEF PtrKinds
  <2> QED BY <1>1, <1>13, <2>1 DEF ModeInv, SameMode
<1>21. BuffersSafe'
  <2>1. OopsNeedsTrouble'
    BY <1>1 DEF BuffersSafe, OopsNeedsTrouble
  <2>2. ASSUME PtrKinds \cap unclean = {}, NEW b \in DOMAIN heap'
        PROVE  heap'[b] = Freed \/ \E j \in PtrKinds : ptr'[j] = b
    <3>1. ptr[k] = NULL
      BY <1>2, <1>3, <1>15, <2>2
    <3>2. CASE b = n
      BY <1>3, <1>8, <3>2
    <3>3. CASE b # n
      <4>1. b \in DOMAIN heap /\ heap'[b] = heap[b] /\ b # NULL
        BY <1>4, <1>6, <1>7, <3>3 DEF NULL
      <4>2. heap[b] = Freed \/ \E j \in PtrKinds : ptr[j] = b
        BY <2>2, <4>1 DEF BuffersSafe, NoLeak
      <4> QED BY <1>8, <3>1, <4>1, <4>2
    <3> QED BY <3>2, <3>3
  <2> QED BY <1>1, <2>1, <2>2 DEF BuffersSafe, NoLeak
<1> QED BY <1>11, <1>12, <1>16, <1>17, <1>18, <1>19, <1>20, <1>21

\* No memory for the buffer: the mailbox is emptied.
LEMMA NoMemoryKeeps ==
  ASSUME RequestInv, CallbackNoMemory
  PROVE  RequestInv'
<1> USE DEF RequestInv
<1> DEFINE k == cmsg.kind
<1>1. /\ cpc = "first" /\ cpc' = "idle" /\ k \in PtrKinds
      /\ ptr' = [ptr EXCEPT ![k] = NULL]
      /\ UNCHANGED <<rpc, rkind, rid, target, nreq, inflight, flag, value, heap,
                     hostType, fwType, result, exposed, unclean, oops>>
  BY DEF CallbackNoMemory, reqVars
<1>2. /\ k \in Kinds /\ Owed(k)
      /\ \/ k \in unclean
         \/ rpc = "poll" /\ rkind = k /\ ~exposed
      /\ rpc = "take" /\ ~exposed => rkind # k
      /\ rpc = "poll" /\ ~exposed /\ rkind = k =>
           /\ cmsg.id = rid /\ \A i \in DOMAIN inflight : inflight[i].kind # rkind
  BY <1>1, CallbackOwed
<1>3. /\ Len(heap) \in Nat /\ DOMAIN heap = 1..Len(heap)
      /\ "station" \in PtrKinds /\ "channel" \in PtrKinds
      /\ ptr \in [PtrKinds -> 0..Len(heap)]
  BY HeapDomain DEF RequestTypes
<1>4. \A j : InCallback(j) <=> j = k
  BY <1>1 DEF InCallback
<1> HIDE DEF k
<1>5. /\ ptr' \in [PtrKinds -> 0..Len(heap)]
      /\ \A j \in PtrKinds : ptr'[j] = IF j = k THEN NULL ELSE ptr[j]
  BY <1>1, <1>3 DEF NULL
<1>6. RequestTypes'
  BY <1>1, <1>5 DEF RequestTypes
<1>7. HeapInv'
  BY <1>1, <1>3, <1>5 DEF HeapInv
<1>8. (\A j : Owed(j)' => Owed(j)) /\ \A j : ~InCallback(j)'
  BY <1>1 DEF Owed, InCallback
<1>9. ASSUME rkind # k
      PROVE  (Answered(rkind)' <=> Answered(rkind)) /\ (HoldsOwn' <=> HoldsOwn)
  BY <1>1, <1>3, <1>5, <1>9 DEF Answered, HoldsOwn
<1>10. PollInv'
  <2> SUFFICES ASSUME ~exposed, rpc = "poll" PROVE PollInv'
    BY <1>1 DEF PollInv
  <2>1. CASE rkind # k
    BY <1>1, <1>4, <1>8, <1>9, <2>1 DEF PollInv
  <2>2. CASE rkind = k
    <3>1. ~Answered(rkind)'
      BY <1>1, <1>5, <2>2 DEF Answered
    <3> QED BY <1>1, <1>2, <1>8, <2>2, <3>1 DEF PollInv
  <2> QED BY <2>1, <2>2
<1>11. TakeInv'
  BY <1>1, <1>2, <1>8, <1>9 DEF TakeInv
<1>12. QuietInv'
  BY <1>1, <1>5, <1>8 DEF QuietInv
<1>13. ResultIsOwn'
  BY <1>1 DEF ResultIsOwn
<1>14. ModeInv'
  <2>1. k # "set_if"
    BY <1>1 DEF PtrKinds
  <2> QED BY <1>1, <1>4, <1>8, <2>1 DEF ModeInv, SameMode
<1>15. BuffersSafe'
  <2>1. OopsNeedsTrouble'
    BY <1>1 DEF BuffersSafe, OopsNeedsTrouble
  <2>2. ASSUME PtrKinds \cap unclean = {}, NEW b \in DOMAIN heap
        PROVE  heap[b] = Freed \/ \E j \in PtrKinds : ptr'[j] = b
    <3>1. ptr[k] = NULL
      BY <1>1, <1>2, <1>4, <2>2 DEF PollInv, Answered
    <3>2. b # NULL
      BY <1>3 DEF NULL
    <3>3. heap[b] = Freed \/ \E j \in PtrKinds : ptr[j] = b
      BY <2>2 DEF BuffersSafe, NoLeak
    <3> QED BY <1>5, <3>1, <3>2, <3>3
  <2> QED BY <1>1, <2>1, <2>2 DEF BuffersSafe, NoLeak
<1> QED BY <1>6, <1>7, <1>10, <1>11, <1>12, <1>13, <1>14, <1>15

\* The buffer is filled: it is the callback's own, or its kind is unclean.
LEMMA FillKeeps ==
  ASSUME RequestInv, CallbackSecond, Fill
  PROVE  RequestInv'
<1> USE DEF RequestInv
<1> DEFINE k == cmsg.kind
<1>1. /\ cpc = "second" /\ cpc' = "idle" /\ k \in PtrKinds
      /\ UNCHANGED <<rpc, rkind, rid, target, nreq, inflight, flag, value, ptr,
                     hostType, fwType, result, exposed, unclean>>
  BY DEF CallbackSecond, Fill, reqVars
<1>2. /\ k \in Kinds /\ Owed(k)
      /\ \/ k \in unclean
         \/ rpc = "poll" /\ rkind = k /\ ~exposed
      /\ rpc = "take" /\ ~exposed => rkind # k
      /\ rpc = "poll" /\ ~exposed /\ rkind = k =>
           /\ cmsg.id = rid /\ \A i \in DOMAIN inflight : inflight[i].kind # rkind
  BY <1>1, CallbackOwed
<1>3. PICK p \in {Len(heap), ptr[k]} :
        \/ Live(p) /\ heap' = [heap EXCEPT ![p] = Content(cmsg)] /\ oops' = oops
        \/ ~Live(p) /\ heap' = heap /\ oops' = TRUE
  BY DEF Fill
<1>4. /\ Len(heap) \in Nat /\ DOMAIN heap = 1..Len(heap)
      /\ \A j \in PtrKinds : ptr[j] \in 0..Len(heap)
      /\ \A j \in PtrKinds : ptr[j] # NULL => ptr[j] \in DOMAIN heap
      /\ "station" \in PtrKinds /\ "channel" \in PtrKinds
  BY HeapDomain
<1>5. heap \in Seq(Int) /\ cmsg \in Answer
  BY <1>1 DEF RequestTypes
<1>6. /\ Content(cmsg) \in Int
      /\ Content(cmsg) = cmsg.id \/ (k = "channel" /\ Content(cmsg) = NoData)
  BY <1>1, <1>5 DEF Content, Answer, PtrKinds, NoData
<1>7. \A j : InCallback(j) <=> j = k
  BY <1>1 DEF InCallback
<1>8. /\ Len(heap) # 0
      /\ \A j \in PtrKinds : j # k => ptr[j] # Len(heap)
      /\ \A j \in PtrKinds : j # k /\ ptr[j] # NULL => ptr[j] # ptr[k]
  <2>1. Len(heap) # 0 /\ \A j \in PtrKinds : j # k => ptr[j] # Len(heap)
    BY <1>1 DEF HeapInv
  <2>2. \A j \in PtrKinds : j # k /\ ptr[j] # NULL => ptr[j] # ptr[k]
    BY <1>1, <1>4 DEF HeapInv, PtrKinds
  <2> QED BY <2>1, <2>2
<1> HIDE DEF k
<1>9. p \in 0..Len(heap) /\ (p # NULL => p \in DOMAIN heap)
      /\ \A j \in PtrKinds : j # k /\ ptr[j] # NULL => ptr[j] # p
  BY <1>1, <1>3, <1>4, <1>8 DEF NULL
<1>10. /\ heap' \in Seq(Int) /\ Len(heap') = Len(heap) /\ DOMAIN heap' = DOMAIN heap
       /\ \A b \in DOMAIN heap : b # p => heap'[b] = heap[b]
       /\ Live(p) => heap'[p] = Content(cmsg)
  <2>1. CASE ~Live(p)
    BY <1>3, <1>5, <2>1
  <2>2. CASE Live(p)
    <3>1. p \in 1..Len(heap) /\ heap' = [heap EXCEPT ![p] = Content(cmsg)]
      BY <1>3, <1>4, <1>9, <2>2 DEF Live
    <3>2. heap' \in Seq(Int) /\ Len(heap') = Len(heap)
      BY <1>5, <1>6, <3>1, ExceptSeq
    <3> QED BY <1>4, <1>5, <3>1, <3>2
  <2> QED BY <2>1, <2>2
<1>11. oops' \in BOOLEAN
  BY <1>3 DEF RequestTypes
<1>12. rpc = "poll" /\ ~exposed /\ rkind = k =>
         p = Len(heap) /\ ptr[k] = Len(heap) /\ Live(p)
  <2>1. rpc = "poll" /\ ~exposed /\ rkind = k =>
          p = Len(heap) /\ ptr[k] = Len(heap) /\ heap[Len(heap)] = Garbage
    BY <1>1, <1>3, <1>7 DEF PollInv
  <2> QED BY <1>8, <2>1 DEF Live, NULL, Garbage, Freed
<1>13. RequestTypes'
  BY <1>1, <1>10, <1>11 DEF RequestTypes
<1>14. HeapInv'
  BY <1>1 DEF HeapInv
<1>15. (\A j : Owed(j)' => Owed(j)) /\ \A j : ~InCallback(j)'
  BY <1>1 DEF Owed, InCallback
<1>16. \A j \in PtrKinds : j # k /\ ptr[j] # NULL => heap'[ptr[j]] = heap[ptr[j]]
  BY <1>4, <1>9, <1>10
<1>17. ASSUME rkind # k
       PROVE  /\ Answered(rkind)' <=> Answered(rkind)
              /\ Answered(rkind) => (HoldsOwn' <=> HoldsOwn)
  <2>1. Answered(rkind)' <=> Answered(rkind)
    BY <1>1 DEF Answered
  <2>2. rkind \in PtrKinds /\ Answered(rkind) => heap'[ptr'[rkind]] = heap[ptr[rkind]]
    BY <1>1, <1>16, <1>17 DEF Answered
  <2> QED BY <1>1, <2>1, <2>2 DEF HoldsOwn, PtrKinds
<1>18. PollInv'
  <2> SUFFICES ASSUME ~exposed, rpc = "poll" PROVE PollInv'
    BY <1>1 DEF PollInv
  <2>1. CASE rkind # k
    BY <1>1, <1>7, <1>15, <1>17, <2>1 DEF PollInv
  <2>2. CASE rkind = k
    <3>1. heap'[ptr'[rkind]] = Content(cmsg) /\ cmsg.id = rid
      BY <1>1, <1>2, <1>10, <1>12, <2>2
    <3>2. HoldsOwn'
      BY <1>1, <1>6, <2>2, <3>1 DEF HoldsOwn, PtrKinds
    <3> QED BY <1>1, <1>2, <1>15, <2>2, <3>2 DEF PollInv
  <2> QED BY <2>1, <2>2
<1>19. TakeInv'
  BY <1>1, <1>2, <1>15, <1>17 DEF TakeInv
<1>20. QuietInv'
  <2> SUFFICES ASSUME NEW j \in Kinds \ unclean
               PROVE  /\ ~(rpc = "poll" /\ rkind = j) => ~Owed(j)
                      /\ j = "set_if" /\ flag["set_if"] =>
                           rkind = j /\ rpc \in {"poll", "take", "apply", "finish"}
                      /\ j \in PtrKinds /\ ptr[j] # NULL =>
                           rkind = j /\ rpc \in {"poll", "take", "release", "clear"}
                      /\ j \in PtrKinds /\ rkind = j /\ rpc = "clear" =>
                           ptr[j] = NULL \/ heap'[ptr[j]] = Freed
    BY <1>1, <1>15 DEF QuietInv
  <2>1. j = k => rpc = "poll"
    BY <1>2
  <2> QED BY <1>16, <2>1 DEF QuietInv
<1>21. ResultIsOwn'
  BY <1>1 DEF ResultIsOwn
<1>22. ModeInv'
  <2>1. k # "set_if"
    BY <1>1 DEF PtrKinds
  <2> QED BY <1>1, <1>7, <1>15, <2>1 DEF ModeInv, SameMode
<1>23. BuffersSafe'
  <2>1. OopsNeedsTrouble'
    BY <1>1, <1>2, <1>3, <1>12 DEF BuffersSafe, OopsNeedsTrouble
  <2>2. ASSUME PtrKinds \cap unclean = {}, NEW b \in DOMAIN heap
        PROVE  heap'[b] = Freed \/ \E j \in PtrKinds : ptr[j] = b
    <3>1. ptr[k] = p
      BY <1>1, <1>2, <1>12, <2>2
    <3>2. heap[b] = Freed \/ \E j \in PtrKinds : ptr[j] = b
      BY <2>2 DEF BuffersSafe, NoLeak
    <3> QED BY <1>1, <1>10, <3>1, <3>2
  <2> QED BY <1>1, <1>10, <2>1, <2>2 DEF BuffersSafe, NoLeak
<1> QED BY <1>13, <1>14, <1>18, <1>19, <1>20, <1>21, <1>22, <1>23
-----------------------------------------------------------------------------
(* Together *)

\* The initial state.
LEMMA RequestStart == Init => RequestInv
<1> SUFFICES ASSUME Init PROVE RequestInv
  OBVIOUS
<1>1. /\ rpc = "idle" /\ rkind = "set_if" /\ rid = 0 /\ target = "STATION" /\ nreq = 0
      /\ inflight = <<>> /\ cpc = "idle" /\ heap = <<>>
      /\ hostType = "STATION" /\ fwType = "STATION"
      /\ result = None /\ exposed = FALSE /\ unclean = {} /\ oops = FALSE
  BY DEF Init
<1>2. inflight \in Seq(Answer) /\ DOMAIN inflight = {}
  BY <1>1, EmptySeq
<1>3. heap \in Seq(Int) /\ Len(heap) = 0 /\ DOMAIN heap = {}
  BY <1>1, EmptySeq
<1>4. flag \in [Flags -> BOOLEAN] /\ ~flag["set_if"] /\ ~flag["tx_power"]
  BY DEF Init, Flags
<1>5. value \in [Flags -> Int]
  BY DEF Init, Flags
<1>6. /\ ptr \in [PtrKinds -> 0..Len(heap)]
      /\ \A k \in PtrKinds : ptr[k] = NULL
  BY <1>3 DEF Init, NULL
<1>7. RequestTypes
  <2>1. rid \in 0..MaxReq /\ nreq \in 0..MaxReq
    BY <1>1, MaxReqAssumption
  <2>2. rkind \in Kinds /\ target \in Modes /\ fwType \in Modes
    BY <1>1 DEF Kinds, Modes
  <2>3. exposed \in BOOLEAN /\ oops \in BOOLEAN
    BY <1>1
  <2>4. hostType \in Modes \union {"MONITOR"}
    BY <1>1 DEF Modes
  <2>5. rpc \notin {"apply", "finish", "release", "clear"}
    BY <1>1
  <2>6. cpc \in {"idle", "first", "second"} /\ (cpc # "idle" => cmsg \in Answer)
    BY <1>1
  <2>7. rpc \in {"idle", "poll", "take", "apply", "finish", "release", "clear",
                 "monitor", "monitor_link"}
    BY <1>1
  <2> QED BY <1>2, <1>3, <1>4, <1>5, <1>6, <2>1, <2>2, <2>3, <2>4, <2>5, <2>6, <2>7
          DEF RequestTypes
<1>8. HeapInv
  BY <1>1, <1>6 DEF HeapInv, PtrKinds
<1>9. PollInv /\ TakeInv /\ ResultIsOwn
  BY <1>1 DEF PollInv, TakeInv, ResultIsOwn
<1>10. QuietInv
  BY <1>1, <1>2, <1>4, <1>6 DEF QuietInv, Owed
<1>11. ModeInv
  BY <1>1 DEF ModeInv, SameMode
<1>12. BuffersSafe
  BY <1>1, <1>3 DEF BuffersSafe, OopsNeedsTrouble, NoLeak
<1> QED BY <1>7, <1>8, <1>9, <1>10, <1>11, <1>12 DEF RequestInv

\* Every step keeps the invariant.
LEMMA RequestStep ==
  ASSUME RequestInv, [Next]_vars
  PROVE  RequestInv'
<1>1. ASSUME NEW k \in Kinds, Send(k) \/ SendFail(k) PROVE RequestInv'
  BY <1>1, SendKeeps, SendFailKeeps
<1>2. CASE PollAnswered \/ PollTimeout
  BY <1>2, PollAnsweredKeeps, PollTimeoutKeeps
<1>3. CASE TakeTxPower \/ ZeroTxPower \/ FinishSetIf
  BY <1>3, TakeTxPowerKeeps, EndKeeps
<1>4. CASE TakeBuffer \/ ReleaseBuffer \/ ClearBuffer
  BY <1>4, TakeBufferKeeps, ReleaseBufferKeeps, ClearBufferKeeps
<1>5. CASE MonitorBegin \/ MonitorSet \/ MonitorEnd
  BY <1>5, MonitorKeeps
<1>6. CASE TakeSetIf \/ ApplySetIf
  BY <1>6, SetIfKeeps
<1>7. CASE Event \/ CallbackNoMemory
  BY <1>7, EventKeeps, NoMemoryKeeps
<1>8. CASE CallbackFirst
  BY <1>8, StoreFirstKeeps, PublishKeeps DEF CallbackFirst
<1>9. CASE CallbackSecond
  BY <1>9, StoreSecondKeeps, FillKeeps DEF CallbackSecond
<1>10. CASE UNCHANGED vars
  BY <1>10 DEF vars, RequestInv, RequestTypes, HeapInv, PollInv, TakeInv, QuietInv,
     ResultIsOwn, ModeInv, BuffersSafe, OopsNeedsTrouble, NoLeak, InCallback, Owed,
     Answered, HoldsOwn, SameMode
<1> QED BY <1>1, <1>2, <1>3, <1>4, <1>5, <1>6, <1>7, <1>8, <1>9, <1>10
        DEF Next, Operation, ModeStep, Callback

\* RequestInv is an invariant of the requests.
LEMMA RequestInvariant == Spec => []RequestInv
BY RequestStart, RequestStep, PTL DEF Spec

\* The rest of TypeOK: what mailboxes and results can hold.
ContentInv ==
  /\ cmsg \in Answer \union {<<>>} /\ value \in [Flags -> 0..MaxReq]
  /\ heap \in Seq(-2..MaxReq)
  /\ result \in {None} \union (-1..MaxReq) /\ unclean \subseteq Kinds

\* An answer holds its request's number, a status or nothing.
LEMMA ContentInRange ==
  ASSUME NEW m \in Answer
  PROVE  Content(m) \in 0..MaxReq
<1>1. m.id \in 1..MaxReq /\ m.kind \in Kinds
  BY DEF Answer
<1>2. 0 \in 0..MaxReq /\ 1 \in 0..MaxReq /\ m.id \in 0..MaxReq
  BY <1>1, MaxReqAssumption
<1> QED BY <1>1, <1>2 DEF Content, NoData, Kinds

\* The callbacks' stores.
LEMMA CallbackContent ==
  ASSUME RequestTypes, ContentInv,
         CallbackFirst \/ CallbackSecond \/ CallbackNoMemory \/ Event
  PROVE  ContentInv'
<1>1. CASE Event
  <2>1. Head(inflight) \in Answer
    BY <1>1, HeadTailProperties DEF Event, RequestTypes
  <2> QED BY <1>1, <2>1 DEF Event, ContentInv, mboxVars
<1>2. CASE CallbackNoMemory
  BY <1>2 DEF CallbackNoMemory, ContentInv
<1>3. CASE CallbackFirst \/ CallbackSecond
  <2>1. cmsg \in Answer
    BY <1>3 DEF CallbackFirst, CallbackSecond, RequestTypes
  <2>2. Content(cmsg) \in 0..MaxReq /\ Content(cmsg) \in -2..MaxReq
    BY <2>1, ContentInRange, MaxReqAssumption
  <2>3. value' \in [Flags -> 0..MaxReq]
    BY <1>3, <2>2 DEF CallbackFirst, CallbackSecond, Store, Publish, Fill, ContentInv
  <2>4. heap' \in Seq(-2..MaxReq)
    <3>1. CASE UNCHANGED heap
      BY <3>1 DEF ContentInv
    <3>2. CASE Publish
      <4>1. Garbage \in -2..MaxReq
        BY MaxReqAssumption DEF Garbage
      <4> QED BY <3>2, <4>1, AppendProperties DEF Publish, ContentInv
    <3>3. CASE Fill
      <4>1. PICK p \in {Len(heap), ptr[cmsg.kind]} :
              UNCHANGED heap \/ (Live(p) /\ heap' = [heap EXCEPT ![p] = Content(cmsg)])
        BY <3>3 DEF Fill
      <4>2. p \in 0..Len(heap)
        <5>1. Len(heap) \in 0..Len(heap)
          BY LenProperties DEF ContentInv
        <5> QED BY <3>3, <4>1, <5>1 DEF Fill, RequestTypes
      <4>3. Live(p) => p \in 1..Len(heap)
        <5>1. Len(heap) \in Nat
          BY LenProperties DEF ContentInv
        <5> QED BY <4>2, <5>1 DEF Live, NULL
      <4>4. ASSUME p \in 1..Len(heap), heap' = [heap EXCEPT ![p] = Content(cmsg)]
            PROVE  heap' \in Seq(-2..MaxReq)
        BY <2>2, <4>4, ExceptSeq, Zenon DEF ContentInv
      <4> QED BY <3>1, <4>1, <4>3, <4>4
    <3> QED BY <1>3, <3>1, <3>2, <3>3 DEF CallbackFirst, CallbackSecond, Store
  <2> QED BY <1>3, <2>3, <2>4 DEF CallbackFirst, CallbackSecond, ContentInv
<1> QED BY <1>1, <1>2, <1>3

\* The operations return what a mailbox holds, or the request's number.
LEMMA OperationContent ==
  ASSUME RequestTypes, ContentInv, Operation \/ ModeStep
  PROVE  ContentInv'
<1>1. UNCHANGED cmsg
  BY DEF Operation, ModeStep, Send, SendFail, MonitorBegin, MonitorSet, MonitorEnd,
         PollAnswered, PollTimeout, TakeSetIf, ApplySetIf, FinishSetIf, TakeTxPower,
         ZeroTxPower, TakeBuffer, ReleaseBuffer, ClearBuffer
<1>2. unclean' \subseteq Kinds
  BY DEF Operation, ModeStep, Send, SendFail, MonitorBegin, MonitorSet, MonitorEnd,
         PollAnswered, PollTimeout, TakeSetIf, ApplySetIf, FinishSetIf, TakeTxPower,
         ZeroTxPower, TakeBuffer, ReleaseBuffer, ClearBuffer, ContentInv, RequestTypes
<1>3. value' \in [Flags -> 0..MaxReq]
  <2>1. 0 \in 0..MaxReq
    BY MaxReqAssumption
  <2>2. UNCHANGED value \/ value' = [value EXCEPT !["tx_power"] = 0]
    BY DEF Operation, ModeStep, Send, SendFail, MonitorBegin, MonitorSet, MonitorEnd,
           PollAnswered, PollTimeout, TakeSetIf, ApplySetIf, FinishSetIf, TakeTxPower,
           ZeroTxPower, TakeBuffer, ReleaseBuffer, ClearBuffer, mboxVars
  <2> QED BY <2>1, <2>2 DEF ContentInv
<1>4. heap' \in Seq(-2..MaxReq)
  <2>1. UNCHANGED heap \/ ReleaseBuffer
    BY DEF Operation, ModeStep, Send, SendFail, MonitorBegin, MonitorSet, MonitorEnd,
           PollAnswered, PollTimeout, TakeSetIf, ApplySetIf, FinishSetIf, TakeTxPower,
           ZeroTxPower, TakeBuffer, ClearBuffer, mboxVars
  <2>2. CASE ReleaseBuffer
    <3>1. ptr[rkind] \in 0..Len(heap) /\ Len(heap) \in Nat
      BY <2>2, LenProperties DEF ReleaseBuffer, RequestTypes
    <3>2. ptr[rkind] # NULL => ptr[rkind] \in 1..Len(heap)
      BY <3>1 DEF NULL
    <3>3. Freed \in -2..MaxReq
      BY MaxReqAssumption DEF Freed
    <3> QED BY <2>2, <3>2, <3>3, ExceptSeq DEF ReleaseBuffer, ContentInv
  <2> QED BY <2>1, <2>2 DEF ContentInv
<1>5. result' \in {None} \union (-1..MaxReq)
  <2>1. \/ result' \in {result, None} \/ ApplySetIf \/ TakeTxPower
        \/ /\ rkind \in PtrKinds /\ Live(ptr[rkind])
           /\ result' = heap[ptr[rkind]]
    BY DEF Operation, ModeStep, Send, SendFail, MonitorBegin, MonitorSet, MonitorEnd,
           PollAnswered, PollTimeout, TakeSetIf, FinishSetIf, ZeroTxPower, TakeBuffer,
           ReleaseBuffer, ClearBuffer
  <2>2. CASE ApplySetIf
    BY <2>2, MaxReqAssumption DEF ApplySetIf, RequestTypes
  <2>3. CASE TakeTxPower
    <3>1. value["tx_power"] \in 0..MaxReq
      BY DEF ContentInv, Flags
    <3> QED BY <2>3, <3>1, MaxReqAssumption DEF TakeTxPower
  <2>4. ASSUME rkind \in PtrKinds, Live(ptr[rkind]), result' = heap[ptr[rkind]]
        PROVE  result' \in -1..MaxReq
    <3>1. ptr[rkind] \in 0..Len(heap) /\ Len(heap) \in Nat
      BY <2>4, LenProperties DEF RequestTypes
    <3>2. ptr[rkind] \in 1..Len(heap)
      BY <2>4, <3>1 DEF Live, NULL
    <3>3. heap[ptr[rkind]] \in -2..MaxReq
      BY <3>2, ElementOfSeq DEF ContentInv
    <3>4. heap[ptr[rkind]] # -2
      BY <2>4 DEF Live, Freed
    <3> QED BY <2>4, <3>3, <3>4, MaxReqAssumption
  <2> QED BY <2>1, <2>2, <2>3, <2>4 DEF ContentInv
<1> QED BY <1>1, <1>2, <1>3, <1>4, <1>5 DEF ContentInv

\* Every variable of the requests stays in its range; in particular, no operation
\* ever reports as its result what is left of a freed buffer.
THEOREM RequestTypeCorrect == VifSpec => []TypeOK
<1>1. Init => ContentInv
  <2> SUFFICES ASSUME Init PROVE ContentInv
    OBVIOUS
  <2>1. value \in [Flags -> 0..MaxReq]
    BY MaxReqAssumption DEF Init, Flags
  <2>2. heap \in Seq(-2..MaxReq)
    BY EmptySeq DEF Init
  <2> QED BY <2>1, <2>2 DEF Init, ContentInv
<1>2. RequestInv /\ ContentInv /\ [Next]_vars => ContentInv'
  <2> SUFFICES ASSUME RequestInv, ContentInv, [Next]_vars PROVE ContentInv'
    OBVIOUS
  <2>1. RequestTypes
    BY DEF RequestInv
  <2>2. CASE UNCHANGED vars
    BY <2>2 DEF vars, ContentInv
  <2> QED BY <2>1, <2>2, CallbackContent, OperationContent DEF Next, Callback
<1>3. RequestInv /\ ContentInv => TypeOK
  BY DEF RequestInv, RequestTypes, ContentInv, TypeOK, Flags
<1>4. Spec => []TypeOK
  BY <1>1, <1>2, <1>3, RequestInvariant, PTL DEF Spec
<1> QED BY <1>4, VifModesImplementRequests, PTL

\* ResultIsOwn: however requests of all kinds follow each other, time out and are
\* answered late, a request that reports success returns the answer to itself,
\* unless an older answer of its kind was about when it was sent or it met its
\* callback half-way, and that takes an earlier trouble of its kind.
THEOREM ResultsAreOwn == VifSpec => []ResultIsOwn
<1>1. RequestInv => ResultIsOwn
  BY DEF RequestInv
<1> QED BY <1>1, RequestInvariant, VifModesImplementRequests, PTL

\* ModeAgreement: until a chg_vif times out or meets its callback half-way, the
\* interface type of the host is the firmware's, monitor mode apart.
THEOREM ModesAgree == VifSpec => []ModeAgreement
<1>1. RequestInv => ModeAgreement
  BY DEF RequestInv, ModeInv, ModeAgreement, SameMode
<1> QED BY <1>1, RequestInvariant, VifModesImplementRequests, PTL

\* BuffersSafe: until a get_station or get_channel times out or meets its callback
\* half-way, no buffer is touched after kfree or through NULL, and none is lost.
THEOREM AnswerBuffersAreSafe == VifSpec => []BuffersSafe
<1>1. RequestInv => BuffersSafe
  BY DEF RequestInv
<1> QED BY <1>1, RequestInvariant, VifModesImplementRequests, PTL

\* VifInv is an invariant of the interface, the requests' invariant given.
LEMMA VifInvariant == VifSpec => []VifInv
<1>1. RequestInv => RequestTypes
  BY DEF RequestInv
<1>2. RequestTypes /\ VifInv /\ [VifNext]_vifVars => VifInv'
  BY TypeStep, RxStep, TxStep DEF VifInv
<1> QED BY <1>1, <1>2, VifStart, RequestInvariant, VifModesImplementRequests, PTL
        DEF VifSpec

\* TypesAgree: between changes, the netdev is a radiotap one exactly in monitor
\* mode and the FMAC's interface has the host's type or is a monitor, except for
\* a transmit worker that raced with the change.
THEOREM TypeCopiesAgree == VifSpec => []TypesAgree
<1>1. VifInv => TypesAgree
  BY TypeInvAgrees DEF VifInv
<1> QED BY <1>1, VifInvariant, PTL

\* FramesMatchLink: a frame that meets no change of type in the callback is parsed
\* as Ethernet exactly on an Ethernet link, a raced injector's captures apart.
THEOREM FramesAreParsedAsAnnounced == VifSpec => []FramesMatchLink
<1>1. VifInv => FramesMatchLink
  BY TypeInvAgrees DEF VifInv
<1> QED BY <1>1, VifInvariant, PTL

\* InjectedAsAsked: a frame that meets no change of type is sent by an injector,
\* and a legacy rate the driver reports of captured frames is sent as it is.
THEOREM InjectionIsAsAsked == VifSpec => []InjectedAsAsked
<1>1. VifInv => InjectedAsAsked
  BY TxInvInjects DEF VifInv
<1> QED BY <1>1, VifInvariant, PTL
===============================================================================
