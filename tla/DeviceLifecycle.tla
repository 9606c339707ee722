---------------------------- MODULE DeviceLifecycle ----------------------------
(***************************************************************************)
(* Loading, probing, removing and unloading: nrf_wifi_init_lnx,            *)
(* nrf_wifi_fmac_dev_add_lnx, _dev_init_lnx, _dev_deinit_lnx, _dev_rem_lnx *)
(* and nrf_wifi_deinit_lnx of src/src/main.c, the SPI bus part of          *)
(* src/src/shim.c, and add_vif/del_vif of src/src/cfg80211_if.c.           *)
(*                                                                         *)
(* Four threads: module load and unload; the work item that registers the  *)
(* SPI driver, in which the probe runs while the load may still be under   *)
(* way; the driver core, which removes and probes again; and the cfg80211  *)
(* user, who adds and deletes interfaces as soon as the wiphy is           *)
(* registered.                                                             *)
(***************************************************************************)
EXTENDS Integers, FiniteSets, FiniteSetsExt

CONSTANTS
  Users,       \* the interfaces a user may create
  MaxVifs,     \* MAX_NUM_VIFS
  MaxLoads     \* bound: times the module is loaded

ASSUME LifecycleAssumption ==
  /\ MaxVifs \in Nat \ {0} /\ MaxLoads \in Nat
  /\ "def" \notin Users /\ "free" \notin Users /\ "freed" \notin Users

Ifs     == Users \union {"def"}
Idx     == 0..(MaxVifs - 1)
WaitMax == 5                     \* turns of dev_add's wait for drv_init

VARIABLES
  mpc,       \* load and unload
  reg,       \* drv_reg work: "none", "pending" or "done"
  ppc,       \* the probe
  rpc,       \* the remove
  waits,     \* i of nrf_wifi_fmac_dev_add_lnx, while it waits
  nloads,    \* loads so far
  drvInit,   \* rpu_drv_priv.drv_init
  fmacPriv,  \* rpu_drv_priv.fmac_priv # NULL
  spiPriv,   \* lnx_spi_priv: "none", "partial" (no spi_drv), "full", "freed"
  spiDev,    \* lnx_spi_priv->spi_dev # NULL
  bound,     \* the driver core has bound the device
  wiphy,     \* registered
  fmacDev,   \* rpu_ctx # NULL: added to FMAC and to the bus
  irq,       \* "off", "on", or "raw": requested before INIT_WORK
  files,     \* the debugfs files of the device exist
  fmacUp,    \* nrf_wifi_fmac_dev_init done, _dev_deinit not
  slots,     \* def_dev_ctx->vif_ctx[], the interfaces FMAC knows
  idx,       \* vif_ctx_lnx->if_idx; MaxVifs: no index
  netdevs,   \* registered net devices
  defVif,    \* rpu_ctx_lnx->def_vif_ctx # NULL
  ri,        \* i of nrf_wifi_fmac_dev_deinit_lnx
  held,      \* the interface its vif_ctx_lnx points at: "none", "freed" or its name
  late,      \* history: interfaces added at an index the remove has passed
  fault,     \* the invalid access that stopped the kernel thread
  trouble    \* history: what went wrong so far

loadVars  == <<mpc, nloads, reg, drvInit, fmacPriv, spiPriv>>
probeVars == <<ppc, waits, spiDev, bound>>
initVars  == <<files, fmacUp>>
devVars   == <<wiphy, fmacDev, irq, initVars>>
vifVars   == <<slots, idx, netdevs, defVif>>
loopVars  == <<ri, held, late>>
vars == <<loadVars, probeVars, rpc, devVars, vifVars, loopVars, fault, trouble>>

Troubles == {"bad_load", "reg_failed", "probe_failed", "no_default",
             "early_rmmod", "no_netdev", "late_del"}

TypeOK ==
  /\ mpc \in {"absent", "fmac_ret", "drv_init", "loaded", "unregister"}
  /\ reg \in {"none", "pending", "done"}
  /\ ppc \in {"idle", "wait", "wiphy", "bus", "intr", "fw_load", "add_vif",
              "fmac_vif", "dbgfs", "dev_init"}
  /\ rpc \in {"idle", "others", "lock", "clear", "default", "dbgfs", "dev", "wiphy",
              "bus"}
  /\ waits \in 0..WaitMax /\ nloads \in 0..MaxLoads
  /\ drvInit \in BOOLEAN /\ fmacPriv \in BOOLEAN
  /\ spiPriv \in {"none", "partial", "full", "freed"}
  /\ spiDev \in BOOLEAN /\ bound \in BOOLEAN /\ wiphy \in BOOLEAN
  /\ files \in BOOLEAN /\ fmacUp \in BOOLEAN
  /\ fmacDev \in BOOLEAN /\ irq \in {"off", "raw", "on"}
  /\ slots \in [Idx -> Ifs \union {"free"}]
  /\ idx \in [Ifs -> 0..MaxVifs]
  /\ netdevs \subseteq Ifs /\ defVif \in BOOLEAN
  /\ ri \in 0..MaxVifs /\ held \in Ifs \union {"none", "freed"}
  /\ late \subseteq Users
  /\ fault \in {"none", "null_fmac", "null_default", "null_spi_dev", "null_deinit",
                "bad_params", "freed", "freed_vif", "raw_work"}
  /\ trouble \subseteq Troubles

Init ==
  /\ mpc = "absent" /\ reg = "none" /\ ppc = "idle" /\ rpc = "idle"
  /\ waits = 0 /\ nloads = 0 /\ drvInit = FALSE /\ fmacPriv = FALSE
  /\ spiPriv = "none" /\ spiDev = FALSE /\ bound = FALSE /\ wiphy = FALSE
  /\ fmacDev = FALSE /\ irq = "off" /\ files = FALSE /\ fmacUp = FALSE
  /\ slots = [i \in Idx |-> "free"] /\ idx = [u \in Ifs |-> MaxVifs]
  /\ netdevs = {} /\ defVif = FALSE /\ ri = 0 /\ held = "none" /\ late = {}
  /\ fault = "none" /\ trouble = {}

\* What has gone wrong is remembered.
Note(w) == trouble' = trouble \union {w}
-----------------------------------------------------------------------------
(* Module load: nrf_wifi_init_lnx *)

\* insmod. (A load after trouble is not modelled.)
Insmod(next) ==
  /\ mpc = "absent" /\ nloads < MaxLoads /\ trouble = {} /\ fault = "none"
  /\ mpc' = next /\ nloads' = nloads + 1

\* Bad rf_params, or nrf_wifi_fmac_init returns NULL: "goto out" with ret still
\* 0 from nrf_wifi_dbgfs_init, so the module stays loaded.
LoadUseless ==
  /\ Insmod("loaded")
  /\ drvInit' = FALSE /\ Note("bad_load")
  /\ UNCHANGED <<reg, fmacPriv, spiPriv, probeVars, rpc, devVars, vifVars,
                 loopVars, fault>>

\* Faulty variant of LoadBus: drv_init is set before nrf_wifi_fmac_init.
LoadBus_FlagFirst ==
  /\ Insmod("fmac_ret")
  /\ drvInit' = TRUE
  /\ spiPriv' = "full" /\ reg' = "pending"
  /\ UNCHANGED <<fmacPriv, probeVars, rpc, devVars, vifVars, loopVars, fault,
                 trouble>>

\* nrf_wifi_fmac_init has called shim_bus_spi_init, which schedules the
\* registration; without memory for spi_drv it returns a half-built spi_priv.
LoadBus ==
  /\ Insmod("fmac_ret")
  /\ drvInit' = FALSE
  /\ \/ spiPriv' = "full" /\ reg' = "pending"
     \/ spiPriv' = "partial" /\ reg' = "none"
  /\ UNCHANGED <<fmacPriv, probeVars, rpc, devVars, vifVars, loopVars, fault,
                 trouble>>

LoadFmacReturns ==
  /\ mpc = "fmac_ret" /\ fault = "none"
  /\ fmacPriv' = TRUE /\ mpc' = "drv_init"
  /\ UNCHANGED <<nloads, reg, drvInit, spiPriv, probeVars, rpc, devVars, vifVars,
                 loopVars, fault, trouble>>

LoadDone ==
  /\ mpc = "drv_init" /\ fault = "none"
  /\ drvInit' = TRUE /\ mpc' = "loaded"
  /\ UNCHANGED <<nloads, reg, fmacPriv, spiPriv, probeVars, rpc, devVars, vifVars,
                 loopVars, fault, trouble>>

\* shim_bus_spi_reg_drv: spi_register_driver probes the device that is there.
\* The work item may outlive spi_priv: nothing cancels it.
RegDrv ==
  /\ reg = "pending" /\ fault = "none"
  /\ reg' = "done"
  /\ \/ /\ spiPriv = "full"
        /\ ppc' = "wait" /\ waits' = 0 /\ spiDev' = TRUE
        /\ UNCHANGED <<spiPriv, fault, trouble>>
     \/ /\ spiPriv = "full"          \* registration fails: everything is freed
        /\ spiPriv' = "freed" /\ Note("reg_failed")
        /\ UNCHANGED <<ppc, waits, spiDev, fault>>
     \/ /\ spiPriv = "freed"
        /\ fault' = "freed"
        /\ UNCHANGED <<ppc, waits, spiDev, spiPriv, trouble>>
  /\ UNCHANGED <<mpc, nloads, drvInit, fmacPriv, bound, rpc, devVars, vifVars,
                 loopVars>>
-----------------------------------------------------------------------------
(* Probe: shim_bus_spi_probe, nrf_wifi_fmac_dev_add_lnx, _dev_init_lnx *)

\* A probe that fails leaves spi_dev set, and "Previous detected device still
\* not added" refuses every later one; a probe that succeeds is followed by a
\* remove that does not come back (RemoveBus). So one probe per load is enough.

ProbeWait ==
  /\ ppc = "wait" /\ ~drvInit /\ waits < WaitMax /\ fault = "none"
  /\ waits' = waits + 1
  /\ UNCHANGED <<loadVars, ppc, spiDev, bound, rpc, devVars, vifVars, loopVars,
                 fault, trouble>>

\* i = 5: the probe fails, also when drv_init came true in the last turn. The
\* same exit serves a wiphy that cannot be registered.
ProbeGiveUp ==
  /\ ppc = "wait" /\ (waits = WaitMax \/ drvInit) /\ fault = "none"
  /\ ppc' = "idle" /\ waits' = 0
  /\ UNCHANGED <<loadVars, spiDev, bound, rpc, devVars, vifVars, loopVars, fault,
                 trouble>>

\* Faulty variant of Ready: the probe does not wait.
Ready_Always == TRUE

\* The wait for drv_init ended in time.
Ready == drvInit /\ waits < WaitMax

\* cfg80211_if_init
ProbeWiphy ==
  /\ ppc = "wait" /\ Ready /\ fault = "none"
  /\ ppc' = "wiphy" /\ wiphy' = TRUE /\ waits' = 0
  /\ UNCHANGED <<loadVars, spiDev, bound, rpc, fmacDev, irq, initVars, vifVars,
                 loopVars, fault, trouble>>

\* nrf_wifi_fmac_dev_add, which calls shim_bus_spi_dev_add and
\* shim_bus_spi_intr_reg; the latter requests the interrupt first and
\* initialises its work item afterwards.
ProbeBus ==
  /\ ppc = "wiphy" /\ fault = "none"
  /\ \/ fmacPriv /\ ppc' = "intr" /\ irq' = "raw" /\ UNCHANGED fault
     \/ ~fmacPriv /\ fault' = "null_fmac" /\ UNCHANGED <<ppc, irq>>
  /\ UNCHANGED <<loadVars, waits, spiDev, bound, rpc, wiphy, fmacDev, initVars,
                 vifVars, loopVars, trouble>>

\* nrf_wifi_fmac_dev_add returned NULL: the wiphy is unregistered.
ProbeBusFail ==
  /\ ppc = "wiphy" /\ fmacPriv /\ fault = "none"
  /\ ppc' = "idle" /\ wiphy' = FALSE
  /\ UNCHANGED <<loadVars, waits, spiDev, bound, rpc, fmacDev, irq, initVars,
                 vifVars, loopVars, fault, trouble>>

ProbeIntr ==
  /\ ppc = "intr" /\ fault = "none"
  /\ ppc' = "fw_load" /\ irq' = "on" /\ fmacDev' = TRUE
  /\ UNCHANGED <<loadVars, waits, spiDev, bound, rpc, wiphy, initVars, vifVars,
                 loopVars, fault, trouble>>

\* nrf_wifi_wlan_fmac_fw_load failed: the wiphy goes, the FMAC device, its
\* interrupt and spi_dev stay.
ProbeFwFail ==
  /\ ppc = "fw_load" /\ fault = "none"
  /\ ppc' = "idle" /\ wiphy' = FALSE /\ Note("probe_failed")
  /\ UNCHANGED <<loadVars, waits, spiDev, bound, rpc, fmacDev, irq, initVars,
                 vifVars, loopVars, fault>>

\* The MAC address cannot be read: nothing is undone.
ProbeOtpFail ==
  /\ ppc = "add_vif" /\ fault = "none"
  /\ ppc' = "idle" /\ Note("probe_failed")
  /\ UNCHANGED <<loadVars, waits, spiDev, bound, rpc, devVars, vifVars, loopVars,
                 fault>>

\* The firmware runs.
ProbeFw ==
  /\ ppc = "fw_load" /\ fault = "none"
  /\ ppc' = "add_vif"
  /\ UNCHANGED <<loadVars, waits, spiDev, bound, rpc, devVars, vifVars, loopVars,
                 fault, trouble>>

\* The probe succeeds: the device is bound, spi_dev is cleared.
ProbeOk == ppc' = "idle" /\ bound' = TRUE /\ spiDev' = FALSE

\* nrf_wifi_wlan_fmac_add_vif: nrf_wifi_netdev_add_vif returns the interface
\* although it is not registered when its queue cannot be allocated (ret is 0).
RegisterNetdev(u, noted) ==
  \/ netdevs' = netdevs \union {u} /\ trouble' = trouble \union noted
  \/ netdevs' = netdevs /\ trouble' = trouble \union noted \union {"no_netdev"}

ProbeAddVif ==
  /\ ppc = "add_vif" /\ fault = "none"
  /\ RegisterNetdev("def", {})
  /\ ppc' = "fmac_vif"
  /\ UNCHANGED <<loadVars, waits, spiDev, bound, rpc, devVars, slots, idx, defVif,
                 loopVars, fault>>

\* "Unable to register default interface": status is still SUCCESS.
ProbeNoVif ==
  /\ ppc = "add_vif" /\ fault = "none"
  /\ ProbeOk /\ Note("no_default")
  /\ UNCHANGED <<loadVars, waits, rpc, devVars, vifVars, loopVars, fault>>

\* The index nrf_wifi_fmac_add_vif hands out (external): the first free one.
FreeIdx  == {i \in Idx : slots[i] = "free"}
FmacIdx  == IF FreeIdx = {} THEN MaxVifs ELSE Min(FreeIdx)

\* FMAC learns of interface u.
FmacAddVif(u) ==
  /\ idx' = [idx EXCEPT ![u] = FmacIdx]
  /\ slots' = IF FmacIdx = MaxVifs THEN slots ELSE [slots EXCEPT ![FmacIdx] = u]

\* The default interface must get index 0; if not, def_vif_ctx stays NULL, and
\* the status is SUCCESS again.
ProbeFmacVif ==
  /\ ppc = "fmac_vif" /\ fault = "none"
  /\ FmacAddVif("def")
  /\ \/ /\ FmacIdx = 0
        /\ defVif' = TRUE /\ ppc' = "dbgfs"
        /\ UNCHANGED <<bound, spiDev, trouble>>
     \/ /\ FmacIdx # 0
        /\ ProbeOk /\ Note("no_default")
        /\ UNCHANGED defVif
  /\ UNCHANGED <<loadVars, waits, rpc, devVars, netdevs, loopVars, fault>>

\* nrf_wifi_wlan_fmac_dbgfs_init: the files can be used from here on.
ProbeDbgfs ==
  /\ ppc = "dbgfs" /\ fault = "none"
  /\ files' = TRUE /\ ppc' = "dev_init"
  /\ UNCHANGED <<loadVars, waits, spiDev, bound, rpc, wiphy, fmacDev, irq, fmacUp,
                 vifVars, loopVars, fault, trouble>>

\* Version, nrf_wifi_fmac_dev_init, MAC address.
ProbeDone ==
  /\ ppc = "dev_init" /\ fault = "none"
  /\ ProbeOk
  /\ fmacUp' = TRUE
  /\ UNCHANGED <<loadVars, waits, rpc, wiphy, fmacDev, irq, files, vifVars,
                 loopVars, fault, trouble>>

\* One of them failed: the default interface is deleted, but FMAC's slot and
\* def_vif_ctx keep pointing at it; wiphy, device, interrupt and the debugfs
\* files stay, and so does an initialised FMAC device if only its MAC address
\* could not be set. (Only dbgfs_init itself cleans up, what it created.)
ProbeInitFail ==
  /\ ppc \in {"dbgfs", "dev_init"} /\ fault = "none"
  /\ netdevs' = netdevs \ {"def"}
  /\ fmacUp' \in (IF ppc = "dev_init" THEN BOOLEAN ELSE {FALSE})
  /\ ppc' = "idle" /\ Note("probe_failed")
  /\ UNCHANGED <<loadVars, waits, spiDev, bound, rpc, wiphy, fmacDev, irq, files,
                 slots, idx, defVif, loopVars, fault>>
-----------------------------------------------------------------------------
(* The user: add_vif and del_vif, under rtnl and the wiphy lock *)

\* The wiphy is registered before the FMAC device is added: an interface created
\* in between is refused ("Invalid driver context"). One created while a probe or
\* a remove is under way is not. An add that fails, for want of an index or at
\* any other step, deletes the new interface again and changes nothing.
AddVif(u) ==
  /\ wiphy /\ fmacDev /\ fault = "none"
  /\ u \notin netdevs /\ (\A i \in Idx : slots[i] # u)
  /\ FmacIdx < MaxVifs
  /\ FmacAddVif(u)
  /\ RegisterNetdev(u, {})
  /\ late' = IF FmacIdx < ri THEN late \union {u} ELSE late
  /\ UNCHANGED <<loadVars, probeVars, rpc, devVars, defVif, ri, held, fault>>

\* The remove may have looked the interface up already and be waiting for rtnl.
FreeVif(u) ==
  /\ netdevs' = netdevs \ {u}
  /\ late' = late \ {u}
  /\ IF held = u THEN held' = "freed" /\ Note("late_del")
                 ELSE UNCHANGED <<held, trouble>>

\* Faulty variant of DelVif: nrf_wifi_fmac_vif_clear_ctx is not called.
DelVif_KeepsCtx(u) ==
  /\ wiphy /\ fault = "none"
  /\ u \in netdevs /\ idx[u] # 0
  /\ FreeVif(u)
  /\ idx' = [idx EXCEPT ![u] = MaxVifs]
  /\ UNCHANGED <<loadVars, probeVars, rpc, devVars, slots, defVif, ri, fault>>

\* Index 0 is refused. (nrf_wifi_fmac_del_vif failing changes nothing.)
DelVif(u) ==
  /\ wiphy /\ fault = "none"
  /\ u \in netdevs /\ idx[u] \in Idx \ {0}
  /\ FreeVif(u)
  /\ slots' = [slots EXCEPT ![idx[u]] = "free"]
  /\ idx' = [idx EXCEPT ![u] = MaxVifs]
  /\ UNCHANGED <<loadVars, probeVars, rpc, devVars, defVif, ri, fault>>
-----------------------------------------------------------------------------
(* Remove: shim_bus_spi_remove, nrf_wifi_fmac_dev_deinit_lnx, _dev_rem_lnx *)

\* Faulty variant of FirstOther: the loop starts one too late.
FirstOther_Late == 2

\* The first index of "Delete all other interfaces".
FirstOther == 1

\* By hand, or by spi_unregister_driver; dev_init and dev_added are both set.
RemoveStart ==
  /\ bound /\ rpc = "idle" /\ ppc = "idle" /\ fault = "none"
  /\ mpc \in {"loaded", "unregister"}
  /\ rpc' = "others" /\ ri' = FirstOther
  /\ UNCHANGED <<loadVars, probeVars, devVars, vifVars, held, late, fault,
                 trouble>>

\* The loop takes the interface from FMAC's table, without rtnl. (A delete that
\* comes between the reads of the table, of os_vif_ctx and of if_idx ends like one
\* that comes after them: in RemoveDel.)
RemoveLook ==
  /\ rpc = "others" /\ fault = "none"
  /\ \/ ri \in Idx /\ slots[ri] # "free"
        /\ held' = slots[ri] /\ rpc' = "lock" /\ UNCHANGED ri
     \/ ri \in Idx /\ slots[ri] = "free"
        /\ ri' = ri + 1 /\ UNCHANGED <<rpc, held>>
     \/ ri \notin Idx
        /\ rpc' = "default" /\ UNCHANGED <<ri, held>>
  /\ UNCHANGED <<loadVars, probeVars, devVars, vifVars, late, fault, trouble>>

\* nrf_wifi_wlan_fmac_del_vif, under rtnl.
RemoveDel ==
  /\ rpc = "lock" /\ fault = "none"
  /\ \/ /\ held # "freed"
        /\ netdevs' = netdevs \ {held} /\ rpc' = "clear"
        /\ UNCHANGED fault
     \/ /\ held = "freed"
        /\ fault' = "freed_vif"
        /\ UNCHANGED <<netdevs, rpc>>
  /\ UNCHANGED <<loadVars, probeVars, devVars, slots, idx, defVif, loopVars,
                 trouble>>

\* nrf_wifi_fmac_del_vif, and the slot is cleared; rtnl is released.
RemoveClear ==
  /\ rpc = "clear" /\ fault = "none"
  /\ slots' = [slots EXCEPT ![ri] = "free"]
  /\ idx' = [idx EXCEPT ![held] = MaxVifs]
  /\ held' = "none" /\ ri' = ri + 1 /\ rpc' = "others"
  /\ UNCHANGED <<loadVars, probeVars, devVars, netdevs, defVif, late, fault,
                 trouble>>

\* if_idx is read through def_vif_ctx, then nrf_wifi_fmac_dev_deinit shuts the
\* FMAC device down. The library (external) may call the bus's dev_deinit on the
\* way, and shim_bus_spi_dev_deinit calls through dev->deinit, which sp_dev never
\* sets.
RemoveDevDeinit ==
  /\ rpc = "default" /\ fault = "none"
  /\ \/ defVif /\ rpc' = "dbgfs" /\ fmacUp' = FALSE /\ UNCHANGED fault
     \/ defVif /\ fault' = "null_deinit" /\ UNCHANGED <<rpc, fmacUp>>
     \/ ~defVif /\ fault' = "null_default" /\ UNCHANGED <<rpc, fmacUp>>
  /\ UNCHANGED <<loadVars, probeVars, wiphy, fmacDev, irq, files, vifVars,
                 loopVars, trouble>>

\* Faulty variant of RemoveDbgfs: the files stay.
RemoveDbgfs_Forgotten ==
  /\ rpc = "dbgfs" /\ fault = "none"
  /\ rpc' = "dev"
  /\ UNCHANGED <<loadVars, probeVars, devVars, vifVars, loopVars, fault, trouble>>

\* nrf_wifi_wlan_fmac_dbgfs_deinit
RemoveDbgfs ==
  /\ rpc = "dbgfs" /\ fault = "none"
  /\ files' = FALSE
  /\ rpc' = "dev"
  /\ UNCHANGED <<loadVars, probeVars, wiphy, fmacDev, irq, fmacUp, vifVars,
                 loopVars, fault, trouble>>

RemoveDefault ==
  /\ rpc = "dev" /\ fault = "none"
  /\ netdevs' = netdevs \ {"def"}
  /\ defVif' = FALSE
  /\ rpc' = "wiphy"
  /\ UNCHANGED <<loadVars, probeVars, devVars, slots, idx, loopVars, fault,
                 trouble>>

\* cfg80211_if_deinit
RemoveWiphy ==
  /\ rpc = "wiphy" /\ fault = "none"
  /\ wiphy' = FALSE
  /\ rpc' = "bus"
  /\ UNCHANGED <<loadVars, probeVars, fmacDev, irq, initVars, vifVars, loopVars,
                 fault, trouble>>

\* nrf_wifi_fmac_dev_rem (external) frees the interrupt (shim_bus_spi_intr_unreg)
\* and calls shim_bus_spi_dev_rem, which writes through spi_priv->spi_dev: NULL
\* since the probe that succeeded cleared it.
RemoveBus ==
  /\ rpc = "bus" /\ fault = "none"
  /\ irq' = "off"
  /\ ~spiDev
  /\ fault' = "null_spi_dev"
  /\ UNCHANGED <<loadVars, probeVars, rpc, wiphy, fmacDev, initVars, vifVars,
                 loopVars, trouble>>
-----------------------------------------------------------------------------
(* Module unload: nrf_wifi_deinit_lnx; and the interrupt *)

\* nrf_wifi_fmac_deinit with no FMAC to deinitialise, after LoadUseless.
UnloadUseless ==
  /\ mpc = "loaded" /\ ~fmacPriv /\ fault = "none"
  /\ fault' = "null_fmac"
  /\ UNCHANGED <<loadVars, probeVars, rpc, devVars, vifVars, loopVars, trouble>>

\* nrf_wifi_fmac_deinit calls shim_bus_spi_deinit: spi_unregister_driver waits
\* for a probe to end and removes a bound device ...
Unload ==
  /\ mpc = "loaded" /\ fmacPriv /\ reg # "pending" /\ fault = "none"
  /\ mpc' = "unregister"
  /\ UNCHANGED <<nloads, reg, drvInit, fmacPriv, spiPriv, probeVars, rpc, devVars,
                 vifVars, loopVars, fault, trouble>>

\* ... then the bus context is freed (twice, if the registration failed).
UnloadFree ==
  /\ mpc = "unregister" /\ ppc = "idle" /\ ~bound /\ fault = "none"
  /\ \/ /\ spiPriv # "freed"
        /\ spiPriv' = "freed" /\ spiDev' = FALSE
        /\ mpc' = "absent" /\ fmacPriv' = FALSE /\ drvInit' = FALSE
        /\ UNCHANGED fault
     \/ /\ spiPriv = "freed"
        /\ fault' = "freed"
        /\ UNCHANGED <<mpc, spiPriv, spiDev, fmacPriv, drvInit>>
  /\ UNCHANGED <<nloads, reg, ppc, waits, bound, rpc, devVars, vifVars, loopVars,
                 trouble>>

\* Unloading before the registration has run: the driver is not registered yet,
\* so nothing is unregistered, and the work item is not cancelled.
UnloadEarly ==
  /\ mpc = "loaded" /\ fmacPriv /\ reg = "pending" /\ fault = "none"
  /\ spiPriv' = "freed"
  /\ mpc' = "absent" /\ fmacPriv' = FALSE /\ drvInit' = FALSE
  /\ Note("early_rmmod")
  /\ UNCHANGED <<nloads, reg, probeVars, rpc, devVars, vifVars, loopVars, fault>>

\* shim_spi_irq_handler runs before its work item is initialised, or after
\* lnx_spi_priv, its argument, is gone. (Otherwise it only queues the work.)
Interrupt ==
  /\ fault = "none"
  /\ \/ irq = "raw" /\ fault' = "raw_work"
     \/ irq # "off" /\ spiPriv = "freed" /\ fault' = "freed"
  /\ UNCHANGED <<loadVars, probeVars, rpc, devVars, vifVars, loopVars, trouble>>
-----------------------------------------------------------------------------
Load  == LoadUseless \/ LoadBus \/ LoadFmacReturns \/ LoadDone \/ RegDrv
Probe == \/ ProbeWait \/ ProbeGiveUp \/ ProbeWiphy \/ ProbeBus \/ ProbeBusFail
         \/ ProbeIntr \/ ProbeFwFail \/ ProbeFw \/ ProbeOtpFail \/ ProbeAddVif
         \/ ProbeNoVif \/ ProbeFmacVif \/ ProbeDbgfs \/ ProbeDone
         \/ ProbeInitFail
User  == (\E u \in Users : AddVif(u)) \/ (\E u \in Ifs : DelVif(u))
Remove == \/ RemoveStart \/ RemoveLook \/ RemoveDel \/ RemoveClear
          \/ RemoveDevDeinit \/ RemoveDbgfs \/ RemoveDefault \/ RemoveWiphy
          \/ RemoveBus
Unloading == UnloadUseless \/ Unload \/ UnloadFree \/ UnloadEarly

Next == Load \/ Probe \/ User \/ Remove \/ Unloading \/ Interrupt

Spec == Init /\ [][Next]_vars
-----------------------------------------------------------------------------
(* Properties *)

\* The probe, which runs in a work item while nrf_wifi_init_lnx may still be
\* under way, gets past its wait only when the driver is initialised, and the
\* driver stays initialised until the probe has ended.
ProbeAfterInit == ppc \notin {"idle", "wait"} => drvInit /\ fmacPriv

\* Between operations, FMAC's table and the registered interfaces agree: an
\* interface holds the slot its if_idx names, and no slot is held by one that
\* is gone.
SlotsAgree ==
  (trouble = {} /\ ppc = "idle" /\ rpc = "idle") =>
     /\ \A u \in netdevs : idx[u] \in Idx /\ slots[idx[u]] = u
     /\ \A i \in Idx : slots[i] # "free" => slots[i] \in netdevs

\* When the module is gone, or the remove has come to the bus device, there is no
\* wiphy and no net device, whatever the user adds and deletes while the probe
\* and the remove run and the loop waits for rtnl, and whatever failed before:
\* every interface that was there, or came ahead of the loop, is deleted. Two
\* exceptions: a probe that failed undoes nothing, and an interface added behind
\* the loop, which the wiphy allows until it is unregistered, stays.
NothingLeft ==
  ("probe_failed" \notin trouble /\ (mpc = "absent" \/ rpc = "bus")) =>
     ~wiphy /\ netdevs \subseteq late

\* What each invalid access takes. A missing FMAC context is met only after a load
\* that went wrong and yet succeeded; a missing default interface only after a
\* probe that could not create it and yet succeeded; the freed bus context only
\* after a failed registration or probe, or an unload ahead of the registration;
\* a freed interface only if the user deletes it while the remove waits for rtnl;
\* the work item of the interrupt only between the two steps that set it up; and
\* parameters miss the default interface only while a probe or a remove is under
\* way, or after a probe that failed or did without it. (The remove of a working
\* device calls the dev->deinit that nothing sets, if the library asks for it, and
\* writes through the spi_dev that the successful probe cleared, with nothing
\* having failed.)
FaultHasCause ==
  /\ fault = "null_fmac" => "bad_load" \in trouble
  /\ fault = "null_default" => "no_default" \in trouble
  /\ fault = "freed" => trouble \cap {"reg_failed", "probe_failed", "early_rmmod"} # {}
  /\ fault = "freed_vif" => "late_del" \in trouble
  /\ fault = "raw_work" => ppc = "intr"
  /\ fault = "bad_params" => \/ ppc # "idle" \/ rpc # "idle"
                            \/ trouble \cap {"no_default", "probe_failed"} # {}
===============================================================================
