-------------------------------- MODULE RpuConfig --------------------------------
(***************************************************************************)
(* Setting parameters of the device while it comes and goes: the debugfs   *)
(* files conf, twt, stats and version (src/src/debugfs), the cfg80211      *)
(* operations that set the same parameters, and the TWT events, on top of  *)
(* the life cycle of the device.                                           *)
(*                                                                         *)
(* conf_params is the driver's shadow of what the firmware was told: a     *)
(* write that repeats the shadow is not sent. Several processes may write  *)
(* at once, nothing locks the shadow, and cfg80211 sets two of the         *)
(* parameters past it. debugfs (external) lets a file operation that has   *)
(* begun end before it removes the file.                                   *)
(***************************************************************************)
EXTENDS DeviceLifecycle

CONSTANTS
  Writers,     \* the processes that use the files
  MaxConf,     \* bound: file operations and parameters set through cfg80211
  MaxEvents    \* bound: TWT events of the firmware

ASSUME ConfigAssumption == MaxConf \in Nat /\ MaxEvents \in Nat

Params  == {"uapsd_queue", "power_save", "he_gi", "rts_threshold"}
Vals    == 0..1
Default == 2         \* a value of the firmware's own, never written
Flows   == 0..1      \* TWT flow identifiers

VARIABLES
  wpc,      \* where each writer stands
  arg,      \* the parameter and value, or the TWT flow, it was given
  shadow,   \* ctx->conf_params
  fw,       \* what the firmware was last told
  stored,   \* history: parameters a write has stored in the shadow
  clash,    \* history: parameters set past the shadow, or by two at once
  nconf,    \* operations so far
  twtCmd,   \* twt_params.twt_cmd: the flow of the last setup command
  tries,    \* twt_retry_attempt of each writer
  fwFlows,  \* the flows the firmware has set up
  evt,      \* twt_params.twt_event: flow and the other fields; info_avail
  evpc,     \* the event being handled, its flow, and the number of them
  rd        \* the reader of the stats file: its step, and what it has shown

confVars == <<wpc, arg, shadow, fw, stored, clash, nconf>>
twtVars  == <<twtCmd, tries, fwFlows>>
evtVars  == <<evt, evpc>>
cfgVars  == <<confVars, twtVars, evtVars, rd>>
allVars  == <<vars, cfgVars>>

ConfigTypeOK ==
  /\ TypeOK
  /\ wpc \in [Writers -> {"idle", "send", "store", "copy", "setup", "wait"}]
  /\ shadow \in [Params -> Vals] /\ fw \in [Params -> Vals \union {Default}]
  /\ stored \subseteq Params /\ clash \subseteq Params
  /\ nconf \in 0..MaxConf /\ tries \in [Writers -> 0..2]
  /\ twtCmd \in Flows /\ fwFlows \subseteq Flows

ConfigInit ==
  /\ Init
  /\ wpc = [w \in Writers |-> "idle"]
  /\ arg = [w \in Writers |-> [p |-> "none", v |-> 0]]
  /\ shadow = [p \in Params |-> 0] /\ fw = [p \in Params |-> Default]
  /\ stored = {} /\ clash = {} /\ nconf = 0
  /\ twtCmd = 0 /\ tries = [w \in Writers |-> 0] /\ fwFlows = {}
  /\ evt = [flow |-> 0, rest |-> 0, avail |-> FALSE]
  /\ evpc = [step |-> "idle", flow |-> 0, n |-> 0]
  /\ rd = [step |-> "idle", flow |-> 0, rest |-> 0]

\* A new operation: the bound, and no thread has crashed.
NewOp == fault = "none" /\ nconf < MaxConf /\ nconf' = nconf + 1

Goto(w, s) == wpc' = [wpc EXCEPT ![w] = s]

\* Another writer is setting p.
Setting(p) == \E w \in Writers : wpc[w] \in {"send", "store"} /\ arg[w].p = p

\* Whether the firmware takes a command: only if the FMAC device is initialised.
Outcome == IF fmacUp THEN BOOLEAN ELSE {FALSE}
-----------------------------------------------------------------------------
(* nrf_wifi_wlan_fmac_conf_write *)

\* The value is valid and not the shadow's. (A write that is refused or repeats
\* the shadow changes nothing.) he_gi is never sent.
ConfBegin(w) ==
  \E p \in Params, v \in Vals :
    /\ files /\ wpc[w] = "idle" /\ NewOp
    /\ p = "rts_threshold" => v # 0
    /\ shadow[p] # v
    /\ arg' = [arg EXCEPT ![w] = [p |-> p, v |-> v]]
    /\ Goto(w, IF p = "he_gi" THEN "store" ELSE "send")
    /\ clash' = IF Setting(p) THEN clash \union {p} ELSE clash
    /\ UNCHANGED <<vars, shadow, fw, stored, twtVars, evtVars, rd>>

\* Faulty variant of ConfSend: the shadow is set first.
ConfSend_ShadowFirst(w) ==
  /\ wpc[w] = "send" /\ fault = "none"
  /\ shadow' = [shadow EXCEPT ![arg[w].p] = arg[w].v]
  /\ stored' = stored \union {arg[w].p}
  /\ \E ok \in Outcome :
       /\ fw' = IF ok THEN [fw EXCEPT ![arg[w].p] = arg[w].v] ELSE fw
       /\ Goto(w, "idle")
  /\ UNCHANGED <<vars, arg, clash, nconf, twtVars, evtVars, rd>>

\* nrf_wifi_fmac_set_uapsd_queue, _set_power_save, _set_wiphy_params. If it
\* fails the shadow is left alone; the write reports success all the same.
ConfSend(w) ==
  /\ wpc[w] = "send" /\ fault = "none"
  /\ \E ok \in Outcome :
       /\ fw' = IF ok THEN [fw EXCEPT ![arg[w].p] = arg[w].v] ELSE fw
       /\ Goto(w, IF ok THEN "store" ELSE "idle")
  /\ UNCHANGED <<vars, arg, shadow, stored, clash, nconf, twtVars, evtVars, rd>>

ConfStore(w) ==
  /\ wpc[w] = "store" /\ fault = "none"
  /\ shadow' = [shadow EXCEPT ![arg[w].p] = arg[w].v]
  /\ stored' = stored \union {arg[w].p}
  /\ Goto(w, "idle")
  /\ UNCHANGED <<vars, arg, fw, clash, nconf, twtVars, evtVars, rd>>
-----------------------------------------------------------------------------
(* cfg80211: nrf_wifi_cfg80211_set_power_mgmt, _set_wiphy_params            *)

\* The firmware is told, the shadow is not.
SetPast(p, v, ok) ==
  /\ fw' = IF ok THEN [fw EXCEPT ![p] = v] ELSE fw
  /\ clash' = clash \union {p}

\* Power save of the default interface.
SetPowerMgmt ==
  /\ "def" \in netdevs /\ NewOp
  /\ \E v \in Vals, ok \in Outcome : SetPast("power_save", v, ok)
  /\ UNCHANGED <<vars, wpc, arg, shadow, stored, twtVars, evtVars, rd>>

\* def_vif_ctx points at the default interface: not while a probe or a remove is
\* under way, and not after a probe that failed and deleted the interface only.
DefaultUsable == defVif /\ ~("probe_failed" \in trouble /\ "def" \notin netdevs)

\* The index is read through def_vif_ctx, unchecked. (A threshold that did not
\* change is sent as 0, which the firmware takes for no change.)
SetWiphyParams ==
  /\ wiphy /\ NewOp
  /\ \/ /\ DefaultUsable
        /\ \E ok \in Outcome : SetPast("rts_threshold", 1, ok)
        /\ UNCHANGED vars
     \/ /\ ~DefaultUsable
        /\ fault' = "bad_params"
        /\ UNCHANGED <<loadVars, probeVars, rpc, devVars, vifVars, loopVars, trouble,
                       fw, clash>>
  /\ UNCHANGED <<wpc, arg, shadow, stored, twtVars, evtVars, rd>>
-----------------------------------------------------------------------------
(* nrf_wifi_wlan_twt_write *)

\* "twt_setup": the fields are parsed into twt_cmd, which all writers share ...
TwtParse(w) ==
  \E f \in Flows :
    /\ files /\ wpc[w] = "idle" /\ NewOp
    /\ twtCmd' = f
    /\ tries' = [tries EXCEPT ![w] = 0]
    /\ Goto(w, "copy")
    /\ UNCHANGED <<vars, arg, shadow, fw, stored, clash, fwFlows, evtVars, rd>>

\* ... and copied from there into the command.
TwtCopy(w) ==
  /\ wpc[w] = "copy" /\ fault = "none"
  /\ arg' = [arg EXCEPT ![w] = [p |-> "twt", v |-> twtCmd]]
  /\ Goto(w, "setup")
  /\ UNCHANGED <<vars, shadow, fw, stored, clash, nconf, twtVars, evtVars, rd>>

\* umac_cmd_cfg; if it fails the command is not freed.
TwtSetup(w) ==
  /\ wpc[w] = "setup" /\ fault = "none"
  /\ \E ok \in Outcome :
       /\ fwFlows' = IF ok THEN fwFlows \union {arg[w].v} ELSE fwFlows
       /\ Goto(w, IF ok THEN "wait" ELSE "idle")
  /\ UNCHANGED <<vars, arg, shadow, fw, stored, clash, nconf, twtCmd, tries,
                 evtVars, rd>>

\* Nothing sets twt_setup_event: the wait always lasts a second, and the command
\* is sent a second time.
TwtTimeout(w) ==
  /\ wpc[w] = "wait" /\ fault = "none"
  /\ tries' = [tries EXCEPT ![w] = @ + 1]
  /\ Goto(w, IF tries'[w] # 2 THEN "setup" ELSE "idle")
  /\ UNCHANGED <<vars, arg, shadow, fw, stored, clash, nconf, twtCmd, fwFlows,
                 evtVars, rd>>

\* "twt_teardown" of the flow last set up. The flow of the command itself is not
\* filled in: it is flow 0 that goes. (Any other flow_id is refused.)
TwtTeardown(w) ==
  /\ files /\ wpc[w] = "idle" /\ NewOp
  /\ \E ok \in Outcome : fwFlows' = IF ok THEN fwFlows \ {0} ELSE fwFlows
  /\ UNCHANGED <<vars, wpc, arg, shadow, fw, stored, clash, twtCmd, tries, evtVars,
                 rd>>
-----------------------------------------------------------------------------
(* The TWT events, and nrf_wifi_wlan_fmac_dbgfs_stats_show, which shows them *)

NewEvent == fault = "none" /\ evpc.step = "idle" /\ evpc.n < MaxEvents

\* Faulty variant of TwtEventFlow: twt_event_info_avail is set first.
TwtEventFlow_AvailFirst ==
  /\ NewEvent /\ "def" \in netdevs
  /\ \E f \in fwFlows :
       /\ evpc' = [step |-> "rest", flow |-> f, n |-> evpc.n + 1]
       /\ evt' = [evt EXCEPT !.flow = f, !.avail = TRUE]
  /\ UNCHANGED <<vars, confVars, twtVars, rd>>

\* nrf_wifi_twt_config_callbk_fn: the fields one by one, at last
\* twt_event_info_avail.
TwtEventFlow ==
  /\ NewEvent /\ "def" \in netdevs
  /\ \E f \in fwFlows :
       /\ evpc' = [step |-> "rest", flow |-> f, n |-> evpc.n + 1]
       /\ evt' = [evt EXCEPT !.flow = f]
  /\ UNCHANGED <<vars, confVars, twtVars, rd>>

TwtEventRest ==
  /\ evpc.step = "rest" /\ fault = "none"
  /\ evt' = [evt EXCEPT !.rest = evpc.flow]
  /\ evpc' = [evpc EXCEPT !.step = "avail"]
  /\ UNCHANGED <<vars, confVars, twtVars, rd>>

TwtEventAvail ==
  /\ evpc.step = "avail" /\ fault = "none"
  /\ evt' = [evt EXCEPT !.avail = TRUE]
  /\ evpc' = [evpc EXCEPT !.step = "idle"]
  /\ UNCHANGED <<vars, confVars, twtVars, rd>>

\* nrf_wifi_twt_teardown_callbk_fn overwrites the flow of the setup event.
TwtTeardownEvent ==
  /\ NewEvent /\ "def" \in netdevs
  /\ \E f \in Flows :
       /\ evt' = [evt EXCEPT !.flow = f]
       /\ evpc' = [evpc EXCEPT !.n = @ + 1]
  /\ UNCHANGED <<vars, confVars, twtVars, rd>>

\* The stats are fetched from the firmware first; the file shows the TWT event
\* if there is one.
StatsGet ==
  /\ files /\ rd.step \in {"idle", "shown"} /\ NewOp
  /\ \E ok \in Outcome :
       rd' = [rd EXCEPT !.step = IF ok /\ evt.avail THEN "flow" ELSE "idle"]
  /\ UNCHANGED <<vars, wpc, arg, shadow, fw, stored, clash, twtVars, evtVars>>

StatsFlow ==
  /\ rd.step = "flow" /\ fault = "none"
  /\ rd' = [rd EXCEPT !.flow = evt.flow, !.step = "rest"]
  /\ UNCHANGED <<vars, confVars, twtVars, evtVars>>

StatsRest ==
  /\ rd.step = "rest" /\ fault = "none"
  /\ rd' = [rd EXCEPT !.rest = evt.rest, !.step = "shown"]
  /\ UNCHANGED <<vars, confVars, twtVars, evtVars>>
-----------------------------------------------------------------------------
\* A file operation is in progress.
InFile == (\E w \in Writers : wpc[w] # "idle") \/ rd.step \in {"flow", "rest"}

Writing(w) == ConfBegin(w) \/ ConfSend(w) \/ ConfStore(w) \/ TwtParse(w)
                \/ TwtCopy(w) \/ TwtSetup(w) \/ TwtTimeout(w) \/ TwtTeardown(w)
Cfg80211   == SetPowerMgmt \/ SetWiphyParams
Events     == TwtEventFlow \/ TwtEventRest \/ TwtEventAvail \/ TwtTeardownEvent
Reading    == StatsGet \/ StatsFlow \/ StatsRest

\* The life cycle goes on meanwhile, but debugfs_remove_recursive waits.
ConfigNext ==
  \/ Next /\ UNCHANGED cfgVars /\ (files /\ ~files' => ~InFile)
  \/ \E w \in Writers : Writing(w)
  \/ Cfg80211 \/ Events \/ Reading

ConfigSpec == ConfigInit /\ [][ConfigNext]_allVars
-----------------------------------------------------------------------------
(* Properties *)

\* What the conf file shows, and compares the next write with, is what the
\* firmware was told, for a parameter that was written and only one at a time
\* through the file, however those writes fail. If it were not, a later write of
\* the value shown would be dropped, and the firmware never get it.
ShadowIsTrue ==
  \A p \in (stored \ clash) \ {"he_gi"} : Setting(p) \/ shadow[p] = fw[p]

\* The files are there before nrf_wifi_fmac_dev_init and still after
\* nrf_wifi_fmac_dev_deinit. Still, an operation on them never outlives the
\* device context, and one that meets an uninitialised FMAC device meets it only
\* while a probe or a remove is under way or after one has failed.
FileHasDevice ==
  InFile => /\ files /\ wiphy /\ fmacDev
            /\ fmacUp \/ ppc # "idle" \/ rpc # "idle" \/ trouble # {}

\* The callback fills in the event without a lock, but marks it available last:
\* the first event the stats file shows is never half of one.
FirstEventIsWhole ==
  (rd.step = "shown" /\ evpc.n = 1) => rd.flow = rd.rest
===============================================================================
