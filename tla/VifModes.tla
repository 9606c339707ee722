------------------------------- MODULE VifModes -------------------------------
(***************************************************************************)
(* The type of an interface is kept four times, and chg_vif of             *)
(* src/src/cfg80211_if.c changes the copies one after the other: the       *)
(* firmware's (fwType) and wdev->iftype (hostType) of RpuRequests, the     *)
(* FMAC interface's if_type, and the netdev's link-layer type. The receive *)
(* callbacks and the raw branch of the transmit worker (src/src/netdev.c,  *)
(* src/src/main.c) read some of the copies, and the worker writes one,     *)
(* without a lock, while chg_vif is half-way. NetdevTx has the queueing of *)
(* the worker; here only the frame in hand matters.                        *)
(*                                                                         *)
(* Also the operations that run under the same lock as chg_vif and send    *)
(* their command without waiting: keys, stations, AP, QoS map, channel.    *)
(***************************************************************************)
EXTENDS RpuRequests

CONSTANTS
  Frames,     \* the frames handed to the raw branch (see Prepared)
  Rates,      \* the rates, in the firmware's units, of captured frames
  MaxFrames,  \* bound: frames received and sent
  MaxConfigs  \* bound: operations other than the polled ones

ASSUME VifAssumption ==
  /\ Rates \subseteq 0..255 /\ MaxFrames \in Nat /\ MaxConfigs \in Nat

Absent == -1      \* a radiotap field the header does not have

VARIABLES
  fmacType,                     \* fmac_vif->if_type
  link,                         \* netdev->type
  rxPc, rxHead, rxRate, rxSwitch,  \* the frame being received
  txPc, txFrame, txMeta, txAs, txSwitch,  \* the frame being injected
  raced,      \* history: the worker wrote if_type against a change of mode
  nframes, nconf, panic

typeVars == <<fmacType, link>>
rxVars   == <<rxPc, rxHead, rxRate, rxSwitch>>
txVars   == <<txPc, txFrame, txMeta, txAs, txSwitch>>
vifVars  == <<vars, typeVars, rxVars, txVars, raced, nframes, nconf, panic>>

VifInit ==
  /\ Init
  /\ fmacType = "STATION" /\ link = "ETHER"
  /\ rxPc = "idle" /\ rxHead = "none" /\ rxRate = 0 /\ rxSwitch = FALSE
  /\ txPc = "idle" /\ txFrame = <<>> /\ txMeta = <<>> /\ txAs = "none"
  /\ txSwitch = FALSE /\ raced = FALSE
  /\ nframes = 0 /\ nconf = 0 /\ panic = FALSE

\* chg_vif has begun to change the types and has not finished.
Switching == rpc \in {"apply", "finish", "monitor", "monitor_link"}
-----------------------------------------------------------------------------
(* chg_vif *)

\* nrf_wifi_netdev_set_iftype: type, header length, header_ops and IFF_NOARP
\* change together.
LinkOf(t) == IF t = "MONITOR" THEN "RADIOTAP" ELSE "ETHER"

\* nrf_wifi_fmac_vif_update_if_type, once the firmware has accepted the change.
\* (txinjection_mode, set below, is never reset.)
UpdateIfType ==
  /\ TakeSetIf
  /\ fmacType' = IF rpc' = "apply" THEN target ELSE fmacType
  /\ UNCHANGED link

\* The FMAC's interface becomes an injector before anything else changes.
ForceInjector ==
  /\ MonitorBegin
  /\ fmacType' = "INJECTOR"
  /\ UNCHANGED link

SetWdev == (ApplySetIf \/ MonitorSet) /\ UNCHANGED typeVars

\* chg_vif got as far as wdev->iftype: its result is set, or the mode is monitor.
Accepted == rpc = "monitor_link" \/ result = rid

\* Faulty variant of SetLink: the way back from monitor mode forgets the netdev.
SetLink_OneWay ==
  /\ FinishSetIf \/ MonitorEnd
  /\ link' = IF rpc = "monitor_link" THEN "RADIOTAP" ELSE link
  /\ UNCHANGED fmacType

\* Last the netdev follows, unless the firmware refused the change.
SetLink ==
  /\ FinishSetIf \/ MonitorEnd
  /\ link' = IF Accepted THEN LinkOf(hostType) ELSE link
  /\ UNCHANGED fmacType

ChangeTypes ==
  /\ UpdateIfType \/ ForceInjector \/ SetWdev \/ SetLink
  /\ rxSwitch' = (rxPc # "idle") /\ txSwitch' = (txPc # "idle")
  /\ UNCHANGED <<rxPc, rxHead, rxRate, txPc, txFrame, txMeta, txAs, raced,
                 nframes, nconf, panic>>

\* (external) An event makes the FMAC show plain MONITOR where the driver had
\* forced the injector, as the comment in nrf_cfg80211_data_tx_routine has it.
FmacModeEvent ==
  /\ fmacType = "INJECTOR" /\ hostType = "MONITOR" /\ ~panic /\ ~oops
  /\ fmacType' = "MONITOR"
  /\ txSwitch' = (txPc # "idle")
  /\ UNCHANGED <<vars, link, rxVars, txPc, txFrame, txMeta, txAs, raced,
                 nframes, nconf, panic>>
-----------------------------------------------------------------------------
(* Receive *)

RxStart ==
  /\ rxPc = "idle" /\ nframes < MaxFrames /\ ~panic /\ ~oops
  /\ nframes' = nframes + 1
  /\ rxPc' = "parsed" /\ rxSwitch' = Switching
  /\ UNCHANGED <<vars, typeVars, txVars, raced, nconf, panic>>

\* Faulty variant of RxData: eth_type_trans for every frame.
RxData_Ethernet ==
  /\ RxStart
  /\ rxHead' = "ethernet"
  /\ rxRate' = 0

\* nrf_wifi_netdev_frame_rx_callbk_fn: wdev->iftype decides whether the Ethernet
\* header is parsed and pulled, or the bytes are left as they came.
RxData ==
  /\ RxStart
  /\ rxHead' = IF hostType = "MONITOR" THEN "bare" ELSE "ethernet"
  /\ rxRate' = 0

\* nrf_wifi_raw_legacy_rate_to_rtap: Mb/s, or 55 for 5.5, into units of 500 kb/s
\* (an unsigned char).
LegacyRateToRtap(r) ==
  CASE r = 55 -> 11 [] r <= 54 -> (2 * r) % 256 [] OTHER -> 0

\* nrf_wifi_rx_sniffer_frm_callbk_fn with nrf_wifi_fill_radiotap_rx: a radiotap
\* header in front, whatever the type of the netdev, or none if the FMAC passed no
\* raw header. The FMAC passes captured frames on only while its interface is a
\* monitor.
RxSniffer ==
  /\ RxStart
  /\ fmacType \in {"INJECTOR", "MONITOR"}
  /\ \/ /\ rxHead' = "radiotap"
        /\ rxRate' \in {LegacyRateToRtap(r) : r \in Rates}
     \/ rxHead' = "bare" /\ rxRate' = 0

\* netif_rx: packet sockets read the frame by the netdev's type.
RxDeliver ==
  /\ rxPc = "parsed" /\ ~panic
  /\ rxPc' = "delivered"
  /\ UNCHANGED <<vars, typeVars, rxHead, rxRate, rxSwitch, txVars, raced,
                 nframes, nconf, panic>>

\* The frame is the stack's, or was freed because skb_cow_head failed.
RxDone ==
  /\ \/ rxPc = "delivered"
     \/ rxPc = "parsed" /\ rxHead = "radiotap"
  /\ ~panic
  /\ rxPc' = "idle" /\ rxHead' = "none" /\ rxRate' = 0 /\ rxSwitch' = FALSE
  /\ UNCHANGED <<vars, typeVars, txVars, raced, nframes, nconf, panic>>
-----------------------------------------------------------------------------
(* Injection: the raw branch of nrf_cfg80211_data_tx_routine *)

TxStart ==
  /\ txPc = "idle" /\ hostType = "MONITOR" /\ nframes < MaxFrames
  /\ ~panic /\ ~oops
  /\ nframes' = nframes + 1
  /\ txPc' = "assert" /\ txFrame' \in Frames /\ txSwitch' = Switching
  /\ UNCHANGED <<vars, typeVars, rxVars, txMeta, txAs, raced, nconf, panic>>

\* Faulty variant of TxAssert: the type is not asserted again.
TxAssert_Trusting ==
  /\ txPc = "assert" /\ ~panic
  /\ txPc' = "prepare"
  /\ UNCHANGED <<vars, typeVars, rxVars, txFrame, txMeta, txAs, txSwitch, raced,
                 nframes, nconf, panic>>

\* The injector type is asserted again. History: against a change of mode that
\* has already written if_type, perhaps all of it.
TxAssert ==
  /\ txPc = "assert" /\ ~panic
  /\ fmacType' = "INJECTOR"
  /\ raced' = (raced \/ rpc = "apply" \/ hostType # "MONITOR")
  /\ txPc' = "prepare"
  /\ UNCHANGED <<vars, link, rxVars, txFrame, txMeta, txAs, txSwitch,
                 nframes, nconf, panic>>

\* Faulty variant of MapRadiotapRate: without the case of 5.5 Mb/s.
MapRadiotapRate_NoHalf(rt) == IF rt % 2 = 0 THEN rt \div 2 ELSE 0

\* nrf_wifi_map_radiotap_rate: back to the firmware's units.
MapRadiotapRate(rt) ==
  CASE rt = 11 -> 55 [] rt # 11 /\ rt % 2 = 0 -> rt \div 2 [] OTHER -> 0

AtMost(n, max) == IF n > max THEN max ELSE n

\* nrf_wifi_parse_radiotap_tx_meta: the iterator gives the fields in the order of
\* their numbers, rate, MCS, VHT, and the last that says something stands.
TxMeta(f) ==
  CASE f.vht # Absent -> <<"VHT", AtMost(f.vht, 9)>>
    [] f.vht = Absent /\ f.mcs # Absent -> <<"HT", AtMost(f.mcs, 7)>>
    [] f.vht = Absent /\ f.mcs = Absent /\ f.rate # Absent
         -> <<"LEGACY", MapRadiotapRate(f.rate)>>
    [] OTHER -> <<"LEGACY", 0>>

\* nrf_wifi_prepare_monitor_tx_skb. A frame that already has the raw header
\* keeps it; no radiotap header, or a malformed one, means rate 0.
Prepared(f) ==
  CASE f.form = "raw_header" -> <<f.form, 0>>
    [] f.form = "radiotap" -> TxMeta(f)
    [] OTHER -> <<"LEGACY", 0>>

\* ... which fails for a frame longer than U16_MAX, or without memory.
TxPrepareFail ==
  /\ txPc = "prepare" /\ ~panic
  /\ txFrame.form # "raw_header"
  /\ txPc' = "done"
  /\ UNCHANGED <<vars, typeVars, rxVars, txFrame, txMeta, txAs, txSwitch, raced,
                 nframes, nconf, panic>>

\* nrf_wifi_fmac_start_rawpkt_xmit looks at the FMAC's type and mode.
TxSend ==
  /\ txPc = "prepare" /\ ~panic
  /\ txFrame.form # "oversize"
  /\ txMeta' = Prepared(txFrame) /\ txAs' = fmacType
  /\ txPc' = "done"
  /\ UNCHANGED <<vars, typeVars, rxVars, txFrame, txSwitch, raced, nframes,
                 nconf, panic>>

TxDone ==
  /\ txPc = "done" /\ ~panic
  /\ txPc' = "idle" /\ txFrame' = <<>> /\ txMeta' = <<>> /\ txAs' = "none"
  /\ txSwitch' = FALSE
  /\ UNCHANGED <<vars, typeVars, rxVars, raced, nframes, nconf, panic>>
-----------------------------------------------------------------------------
(* Operations that do not wait: the FMAC passes the command to the firmware,  *)
(* in order, and the driver remembers nothing of it.                          *)

Config ==
  /\ rpc = "idle" /\ nconf < MaxConfigs /\ ~panic /\ ~oops
  /\ nconf' = nconf + 1
  /\ UNCHANGED <<vars, typeVars, rxVars, txVars, raced, nframes>>

\* No memory, or the FMAC refused the command: an error, and nothing was done.
ConfigFail == Config /\ UNCHANGED panic

\* add_key, del_key, set_def_key, set_def_mgmt_key
AddKey        == Config /\ UNCHANGED panic
DelKey        == Config /\ UNCHANGED panic
SetDefKey     == Config /\ UNCHANGED panic
SetDefMgmtKey == Config /\ UNCHANGED panic

\* start_ap, chg_bcn, stop_ap, del_sta, chg_bss: the structure is filled in and
\* freed again, nothing is sent, and the answer is -1.
StartAp == ConfigFail
ChgBcn  == ConfigFail
StopAp  == ConfigFail
DelSta  == ConfigFail
ChgBss  == ConfigFail

\* set_txq_params answers 0, and does nothing either.
SetTxqParams == Config /\ UNCHANGED panic

\* add_sta writes the station's flags through flags2, which is NULL.
AddSta ==
  /\ Config /\ hostType = "AP"
  /\ panic' = TRUE

\* chg_sta and set_qos_map are sent; nothing on the host depends on them.
ChgSta    == Config /\ UNCHANGED panic
SetQosMap == Config /\ UNCHANGED panic

\* set_monitor_channel: for a monitor interface only.
SetMonitorChannel ==
  /\ Config /\ hostType = "MONITOR"
  /\ UNCHANGED panic
-----------------------------------------------------------------------------
Requests ==
  /\ Operation \/ Callback
  /\ ~panic
  /\ UNCHANGED <<typeVars, rxVars, txVars, raced, nframes, nconf, panic>>

Receive == RxData \/ RxSniffer \/ RxDeliver \/ RxDone

Inject == TxStart \/ TxAssert \/ TxPrepareFail \/ TxSend \/ TxDone

Configure ==
  \/ AddKey \/ DelKey \/ SetDefKey \/ SetDefMgmtKey
  \/ ConfigFail \/ StartAp \/ ChgBcn \/ StopAp \/ DelSta \/ ChgBss
  \/ SetTxqParams \/ AddSta \/ ChgSta \/ SetQosMap \/ SetMonitorChannel

VifNext ==
  Requests \/ (~panic /\ ChangeTypes) \/ FmacModeEvent \/ Receive \/ Inject
           \/ Configure

VifSpec == VifInit /\ [][VifNext]_vifVars
-----------------------------------------------------------------------------
(* Properties *)

\* When no change is under way and no frame is being injected, the four copies
\* of the interface's type agree, however requests timed out before, firmware
\* apart (ModeAgreement): the netdev is a radiotap one exactly in monitor mode,
\* and the FMAC's interface has the type cfg80211 sees, or a monitor's. The one
\* way out is the transmit worker that found monitor mode and asserted the
\* injector type after chg_vif had changed if_type back.
TypesAgree ==
  (~Switching /\ txPc = "idle") =>
    /\ link = LinkOf(hostType)
    /\ \/ hostType = "MONITOR" /\ fmacType \in {"INJECTOR", "MONITOR"}
       \/ hostType # "MONITOR" /\ fmacType = hostType
       \/ raced

\* A frame reaches the stack parsed as Ethernet exactly when its netdev announces
\* Ethernet, although the callbacks read wdev->iftype or the FMAC's type and never
\* the netdev's. Otherwise the type was changed while the frame was in the
\* callback, or a raced injector made the FMAC capture for a station. (Whether an
\* unparsed frame has its radiotap header is MonitorFramesHaveRadiotap.)
FramesMatchLink ==
  (rxPc = "delivered" /\ ~rxSwitch) =>
    \/ (rxHead = "ethernet") = (link = "ETHER")
    \/ rxHead # "ethernet" /\ raced

\* What docs/wfb-rx-compat-patch-plan.md asks of monitor receive, and the radiotap
\* type of the netdev announces: every frame a monitor interface delivers begins
\* with a radiotap header.
MonitorFramesHaveRadiotap ==
  (rxPc = "delivered" /\ ~rxSwitch /\ link = "RADIOTAP") => rxHead = "radiotap"

\* A frame is injected as an injector's, although firmware events overwrite the
\* type (the one exception: a change or an event while this frame was in hand),
\* and a legacy rate the driver itself reports of captured frames is sent as
\* asked: captured again, the frame would show the rate of its radiotap header.
InjectedAsAsked ==
  txAs # "none" =>
    /\ txAs = "INJECTOR" \/ txSwitch
    /\ (/\ txMeta[1] = "LEGACY" /\ txFrame.form = "radiotap"
        /\ txFrame.rate \in {LegacyRateToRtap(r) : r \in Rates})
         => LegacyRateToRtap(txMeta[2]) = txFrame.rate
===============================================================================
