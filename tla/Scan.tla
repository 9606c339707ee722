--------------------------------- MODULE Scan ---------------------------------
(***************************************************************************)
(* Scanning: nrf_wifi_cfg80211_scan and the scan callbacks of              *)
(* src/src/cfg80211_if.c, for one interface.                               *)
(*                                                                         *)
(* The driver remembers the request it serves in nrf_wifi_scan_req. The    *)
(* operation runs under the wiphy lock; the callbacks run in the event     *)
(* work item, one at a time, and share the pointer with it without a lock. *)
(* cfg80211 (external) has at most one request outstanding, refuses a scan *)
(* meanwhile, and frees the request in a work item of its own once         *)
(* cfg80211_scan_done has been called, or when the interface goes down.    *)
(* Requests are numbered; an event carries the number of its scan.         *)
(***************************************************************************)
EXTENDS Integers, Sequences

CONSTANTS
  MaxScans,     \* bound: requests cfg80211 hands to the driver
  MaxResults,   \* bound: result events
  MaxDowns      \* bound: how often the interface goes down during a scan

ASSUME ScanAssumption ==
  MaxScans \in Nat /\ MaxResults \in Nat /\ MaxDowns \in Nat

VARIABLES
  nscan,       \* requests so far
  cfgReq,      \* the request cfg80211 has outstanding, 0 if none
  reported,    \* cfg80211_scan_done was called for it
  spc,         \* nrf_wifi_cfg80211_scan: "idle", or "sent" and not stored yet
  drvReq,      \* vif_ctx_lnx->nrf_wifi_scan_req, 0 if NULL
  fw,          \* scans the firmware has been asked for, in order
  nresults,    \* result events so far
  scanEvents,  \* events on their way to the host, in order
  epc, ev,     \* the callback: "idle", "check" or "clear"; its event
  endedBy,     \* history: the scan whose event ended each outstanding request
  raced,       \* history: requests that met one of the two races
  lastEnds,    \* history: a result without more_res has ended a request
  downs,       \* how often the interface went down during a scan
  stale        \* cfg80211_scan_done was called with a request no longer its own

scanCfgVars == <<nscan, cfgReq, reported>>
scanFwVars  == <<fw, nresults>>
scanHistory == <<endedBy, raced, lastEnds, downs, stale>>
scanVars == <<nscan, cfgReq, reported, spc, drvReq, fw, nresults, scanEvents, epc,
              ev, endedBy, raced, lastEnds, downs, stale>>

Scans     == 1..MaxScans
ScanEvent == [type : {"result", "last", "done", "abort"}, scan : Scans]

ScanTypeOK ==
  /\ nscan \in 0..MaxScans /\ cfgReq \in 0..MaxScans /\ drvReq \in 0..MaxScans
  /\ reported \in BOOLEAN /\ spc \in {"idle", "sent"}
  /\ fw \in Seq(Scans) /\ nresults \in 0..MaxResults
  /\ scanEvents \in Seq(ScanEvent)
  /\ epc \in {"idle", "check", "clear"} /\ ev \in ScanEvent \union {<<>>}
  /\ endedBy \in [Scans -> 0..MaxScans]
  /\ raced \subseteq Scans
  /\ lastEnds \in BOOLEAN /\ downs \in 0..MaxDowns /\ stale \in BOOLEAN

ScanInit ==
  /\ nscan = 0 /\ cfgReq = 0 /\ reported = FALSE
  /\ spc = "idle" /\ drvReq = 0
  /\ fw = <<>> /\ nresults = 0 /\ scanEvents = <<>>
  /\ epc = "idle" /\ ev = <<>>
  /\ endedBy = [n \in Scans |-> 0] /\ raced = {}
  /\ lastEnds = FALSE /\ downs = 0 /\ stale = FALSE
-----------------------------------------------------------------------------
(* nrf_wifi_cfg80211_scan *)

\* An access point, too many channels or named SSIDs, an SSID that is too long,
\* no memory, or a command the FMAC library does not take: the driver keeps
\* nothing, and cfg80211 frees the request.
ScanRefused ==
  /\ spc = "idle" /\ cfgReq = 0 /\ nscan < MaxScans
  /\ nscan' = nscan + 1
  /\ UNCHANGED <<cfgReq, reported, spc, drvReq, scanFwVars, scanEvents, epc, ev,
                 scanHistory>>

\* nrf_wifi_fmac_scan took the command. History: a callback that is about to
\* clear nrf_wifi_scan_req races with the store that follows.
ScanSend ==
  /\ spc = "idle" /\ cfgReq = 0 /\ nscan < MaxScans
  /\ nscan' = nscan + 1 /\ cfgReq' = nscan + 1 /\ reported' = FALSE
  /\ spc' = "sent"
  /\ fw' = Append(fw, nscan + 1)
  /\ raced' = IF epc = "clear" THEN raced \union {nscan + 1} ELSE raced
  /\ UNCHANGED <<drvReq, nresults, scanEvents, epc, ev, endedBy, lastEnds, downs,
                 stale>>

\* Faulty variant of ScanStore: only if no older request is there.
ScanStore_IfNull ==
  /\ spc = "sent"
  /\ drvReq' = IF drvReq = 0 THEN nscan ELSE drvReq
  /\ spc' = "idle"
  /\ UNCHANGED <<scanCfgVars, scanFwVars, scanEvents, epc, ev, scanHistory>>

\* The request is remembered only now that the command has been sent.
ScanStore ==
  /\ spc = "sent"
  /\ drvReq' = nscan
  /\ spc' = "idle"
  /\ UNCHANGED <<scanCfgVars, scanFwVars, scanEvents, epc, ev, scanHistory>>
-----------------------------------------------------------------------------
(* The callbacks *)

\* Faulty variant of EndsScan: every result ends the scan.
EndsScan_EveryResult(type) == TRUE

\* Faulty variant of EndsScan: an abort does not end the scan.
EndsScan_NoAbort(type) == type \notin {"result", "abort"}

\* The done and abort callbacks end the scan, and so does a result that no more
\* results follow.
EndsScan(type) == type \in {"last", "done", "abort"}

\* nrf_wifi_cfg80211_scan_res_callbk_fn informs cfg80211 of the network.
CallbackStart ==
  /\ epc = "idle" /\ scanEvents # <<>>
  /\ scanEvents' = Tail(scanEvents)
  /\ \/ ~EndsScan(Head(scanEvents).type) /\ UNCHANGED <<epc, ev>>
     \/ EndsScan(Head(scanEvents).type) /\ epc' = "check" /\ ev' = Head(scanEvents)
  /\ UNCHANGED <<scanCfgVars, spc, drvReq, scanFwVars, scanHistory>>

\* nrf_wifi_cfg80211_scan_done: nothing to end. History: the event may belong
\* to the request the operation is about to store.
ScanDoneNothing ==
  /\ epc = "check" /\ drvReq = 0
  /\ epc' = "idle" /\ ev' = <<>>
  /\ raced' = IF spc = "sent" THEN raced \union {nscan} ELSE raced
  /\ UNCHANGED <<scanCfgVars, spc, drvReq, scanFwVars, scanEvents, endedBy,
                 lastEnds, downs, stale>>

\* cfg80211_scan_done(nrf_wifi_scan_req). History as above: the pointer may
\* still be that of an older request.
ScanDone ==
  /\ epc = "check" /\ drvReq # 0
  /\ epc' = "clear"
  /\ stale' = (stale \/ drvReq # cfgReq \/ reported)
  /\ reported' = (reported \/ drvReq = cfgReq)
  /\ endedBy' = IF drvReq = cfgReq THEN [endedBy EXCEPT ![drvReq] = ev.scan]
                ELSE endedBy
  /\ lastEnds' = (lastEnds \/ ev.type = "last")
  /\ raced' = IF spc = "sent" THEN raced \union {nscan} ELSE raced
  /\ UNCHANGED <<nscan, cfgReq, spc, drvReq, scanFwVars, scanEvents, ev, downs>>

\* Faulty variant of ScanDoneClear: the pointer is kept.
ScanDoneClear_Keeps ==
  /\ epc = "clear"
  /\ epc' = "idle" /\ ev' = <<>>
  /\ UNCHANGED <<scanCfgVars, spc, drvReq, scanFwVars, scanEvents, scanHistory>>

\* ... and nrf_wifi_scan_req = NULL, whatever it is by now.
ScanDoneClear ==
  /\ epc = "clear"
  /\ drvReq' = 0
  /\ epc' = "idle" /\ ev' = <<>>
  /\ UNCHANGED <<scanCfgVars, spc, scanFwVars, scanEvents, scanHistory>>
-----------------------------------------------------------------------------
(* The firmware and cfg80211 (external) *)

\* A result of the scan under way; "last" has no more results behind it.
FwResult(type) ==
  /\ fw # <<>> /\ nresults < MaxResults
  /\ nresults' = nresults + 1
  /\ scanEvents' = Append(scanEvents, [type |-> type, scan |-> Head(fw)])
  /\ UNCHANGED <<scanCfgVars, spc, drvReq, fw, epc, ev, scanHistory>>

FwEnd(type) ==
  /\ fw # <<>>
  /\ scanEvents' = Append(scanEvents, [type |-> type, scan |-> Head(fw)])
  /\ fw' = Tail(fw)
  /\ UNCHANGED <<scanCfgVars, spc, drvReq, nresults, epc, ev, scanHistory>>

\* cfg80211's work item tells the user and frees the request; it takes the
\* wiphy lock, so no operation is under way.
CfgReport ==
  /\ reported /\ spc = "idle"
  /\ cfgReq' = 0 /\ reported' = FALSE
  /\ UNCHANGED <<nscan, spc, drvReq, scanFwVars, scanEvents, epc, ev, scanHistory>>

\* The interface goes down: cfg80211 frees the request, the driver, which has
\* no abort_scan, keeps its pointer.
InterfaceDown ==
  /\ cfgReq # 0 /\ spc = "idle" /\ downs < MaxDowns
  /\ cfgReq' = 0 /\ reported' = FALSE
  /\ downs' = downs + 1
  /\ UNCHANGED <<nscan, spc, drvReq, scanFwVars, scanEvents, epc, ev, endedBy,
                 raced, lastEnds, stale>>
-----------------------------------------------------------------------------
Request  == ScanRefused \/ ScanSend
Callback == CallbackStart \/ ScanDoneNothing \/ ScanDone \/ ScanDoneClear
Firmware == (\E t \in {"result", "last"} : FwResult(t))
              \/ \E t \in {"done", "abort"} : FwEnd(t)

ScanNext == Request \/ ScanStore \/ Callback \/ Firmware \/ CfgReport
              \/ InterfaceDown

ScanSpec == ScanInit /\ [][ScanNext]_scanVars

\* The operation returns, the event and cfg80211 work items run, and the
\* firmware ends every scan.
ScanFairness ==
  /\ WF_scanVars(ScanStore) /\ WF_scanVars(Callback) /\ WF_scanVars(CfgReport)
  /\ WF_scanVars(\E t \in {"done", "abort"} : FwEnd(t))
-----------------------------------------------------------------------------
(* Properties *)

\* The driver does not forget a request it has accepted: until cfg80211_scan_done
\* is called for it, nrf_wifi_scan_req points at it. Two races apart: an end
\* event handled before the request is stored, and a request stored before the
\* callback that ended the one before it has cleared the pointer.
NeverForgotten ==
  (cfgReq # 0 /\ spc = "idle" /\ cfgReq \notin raced) =>
     reported \/ drvReq = cfgReq

\* A request is ended by an event of its own scan, although events carry no
\* request: unless a scan has ended twice, with its last result and with its
\* done event, or the interface went down during a scan.
EndedByOwn ==
  \A n \in Scans : endedBy[n] \in {0, n} \/ lastEnds \/ downs > 0

\* cfg80211_scan_done is called once per request and never with one cfg80211
\* has freed, unless the interface went down during a scan.
EndsOnlyOutstanding == stale => downs > 0

\* Both: cfg80211_scan_done is called for the request whose scan has ended.
ScanDoneIsDue == EndedByOwn /\ EndsOnlyOutstanding

\* A scan the driver has accepted ends, and cfg80211 accepts scans again, the
\* two races apart: a request they have caught is never ended.
ScanEnds ==
  \A n \in Scans : (cfgReq = n) ~> (cfgReq # n \/ n \in raced)
===============================================================================
