------------------------------ MODULE DeviceProofs ------------------------------
(***************************************************************************)
(* Proofs about loading, probing, removing and unloading, and about the    *)
(* files that set parameters of the device meanwhile (DeviceLifecycle and  *)
(* RpuConfig), for every set of interfaces and writers and every bound.    *)
(***************************************************************************)
EXTENDS RpuConfig, WellFoundedInduction, TLAPS

(* The invariants *)

\* Steps of the probe at which the wiphy, and at which the FMAC device is there.
WithWiphy == {"wiphy", "bus", "intr", "fw_load", "add_vif", "fmac_vif", "dbgfs",
              "dev_init"}
WithFmac  == {"fw_load", "add_vif", "fmac_vif", "dbgfs", "dev_init"}

\* What load, registration, probe and remove know of one another, whatever went
\* wrong: a probe runs only inside the registration's work item, which is done,
\* and in a module that is there; a device that is bound is not probed; only a
\* bound device is removed.
BootInv ==
  /\ drvInit => fmacPriv /\ mpc \in {"loaded", "unregister"}
  /\ mpc = "absent" => ~fmacPriv /\ ppc = "idle" /\ ~bound
  /\ mpc = "drv_init" => fmacPriv
  /\ mpc = "loaded" /\ fmacPriv => drvInit
  /\ mpc = "unregister" => drvInit
  /\ ProbeAfterInit
  /\ ppc # "idle" => reg = "done" /\ ~bound
  /\ reg = "pending" => /\ mpc # "unregister"
                        /\ mpc = "absent" => spiPriv = "freed" /\ trouble # {}
  /\ bound => reg = "done" /\ mpc \in {"loaded", "unregister"}
  /\ rpc # "idle" => bound

\* The debugfs files stand only on a device context.
FilesInv ==
  /\ ppc \in WithWiphy => wiphy
  /\ ppc \in WithFmac => fmacDev
  /\ files => /\ wiphy /\ fmacDev /\ ppc \in {"idle", "dev_init"}
              /\ rpc \notin {"dev", "wiphy", "bus"}
  /\ reg = "pending" => ~files

\* Where what went wrong shows, and where it does not: a module without FMAC, a
\* freed bus context, a wiphy, an FMAC device or an interrupt that no probe and no
\* bound device stands for, and a missing default interface each have one cause.
CauseInv ==
  /\ "probe_failed" \in trouble => ppc = "idle" /\ ~bound /\ reg # "pending"
  /\ "bad_load" \in trouble <=> mpc = "loaded" /\ ~fmacPriv
  /\ reg = "pending" /\ spiPriv = "freed" => "early_rmmod" \in trouble
  /\ mpc # "absent" /\ spiPriv = "freed" =>
       "reg_failed" \in trouble \/ "bad_load" \in trouble
  /\ ppc # "idle" \/ bound => spiPriv = "full"
  /\ wiphy => bound \/ ppc \in WithWiphy \/ "probe_failed" \in trouble
  /\ fmacDev => bound \/ ppc \in WithFmac \/ "probe_failed" \in trouble
  /\ irq # "off" => \/ bound \/ ppc \in WithFmac \/ ppc = "intr"
                    \/ "probe_failed" \in trouble
  /\ irq = "raw" => ppc = "intr"
  /\ ppc \in {"dbgfs", "dev_init"} \/ rpc \in {"dbgfs", "dev"} => defVif
  /\ bound /\ rpc \notin {"wiphy", "bus"} => defVif \/ "no_default" \in trouble
  /\ rpc = "bus" => ~wiphy
  /\ trouble = {} /\ bound /\ rpc = "idle" => fmacUp

\* FMAC's table and the interfaces, whatever went wrong: a registered interface,
\* the default one apart as long as it has no index, holds the slot it names, and
\* a slot is held by the interface that names it. Index 0 is the default
\* interface's as soon as the driver points at it. Only a failed probe leaves
\* interfaces without a probe or a bound device.
TableInv ==
  /\ \A u \in netdevs : \/ u = "def" /\ idx[u] = MaxVifs
                        \/ idx[u] \in Idx /\ slots[idx[u]] = u
  /\ \A i \in Idx : slots[i] # "free" => idx[slots[i]] = i
  /\ defVif \/ rpc \in {"wiphy", "bus"} => slots[0] = "def"

EmptyInv ==
  ~bound /\ "probe_failed" \notin trouble =>
    /\ ppc \notin WithFmac => netdevs = {} /\ \A i \in Idx : slots[i] = "free"
    /\ ppc \notin {"dbgfs", "dev_init"} => idx["def"] = MaxVifs

\* As long as nothing went wrong, who holds a slot is registered.
RegisteredInv ==
  trouble = {} =>
    /\ ppc = "fmac_vif" => "def" \in netdevs
    /\ rpc = "idle" => \A i \in Idx : slots[i] # "free" => slots[i] \in netdevs

\* The loop of the remove: behind it only interfaces that came late hold slots;
\* the interface it has taken from the table holds the slot it was taken from
\* until the loop clears it, or the user has deleted it.
LoopInv ==
  /\ rpc # "idle" => ri >= 1 /\ \A i \in 1..(ri - 1) :
       i \in Idx /\ slots[i] # "free" => slots[i] \in late
  /\ rpc \notin {"idle", "others", "lock", "clear"} => ri = MaxVifs
  /\ rpc \in {"lock", "clear"} => ri \in Idx
  /\ rpc = "lock" => held = "freed" \/ (held \in Ifs /\ slots[ri] = held)
  /\ rpc = "clear" => held \in Ifs /\ slots[ri] = held /\ held \notin netdevs
  /\ held = "freed" => "late_del" \in trouble
  /\ rpc \in {"wiphy", "bus"} => "def" \notin netdevs

VifInv == TableInv /\ EmptyInv /\ RegisteredInv /\ LoopInv

DeviceInv ==
  TypeOK /\ BootInv /\ FilesInv /\ CauseInv /\ VifInv /\ FaultHasCause

\* A parameter that was set only through the file, and by one writer at a time:
\* it is the writer's from the moment the firmware has it until the shadow does.
ShadowInv ==
  /\ \A w \in Writers : wpc[w] \in {"send", "store"} => arg[w].p \in Params
  /\ \A p \in (Params \ clash) \ {"he_gi"} :
       /\ \A v, w \in Writers :
            /\ wpc[v] \in {"send", "store"} /\ arg[v].p = p
            /\ wpc[w] \in {"send", "store"} /\ arg[w].p = p
            => v = w
       /\ \A w \in Writers : wpc[w] = "store" /\ arg[w].p = p => fw[p] = arg[w].v
       /\ p \in stored =>
            \/ shadow[p] = fw[p]
            \/ \E w \in Writers : wpc[w] = "store" /\ arg[w].p = p

\* ConfigTypeOK without the types of the life cycle.
ConfTypes ==
  /\ wpc \in [Writers -> {"idle", "send", "store", "copy", "setup", "wait"}]
  /\ shadow \in [Params -> Vals] /\ fw \in [Params -> Vals \union {Default}]
  /\ stored \subseteq Params /\ clash \subseteq Params
  /\ nconf \in 0..MaxConf /\ tries \in [Writers -> 0..2]
  /\ twtCmd \in Flows /\ fwFlows \subseteq Flows

\* What each writer was given, and that it retries a TWT command only once.
WriterInv ==
  /\ arg \in [Writers -> [p : Params \union {"none", "twt"}, v : Vals]]
  /\ \A w \in Writers : wpc[w] \in {"copy", "setup", "wait"} => tries[w] \in 0..1

\* A file operation in progress holds the files in place.
FileInv == InFile => files

\* The TWT event, its callback and its reader, up to the first event.
EventInv ==
  /\ evt \in [flow : Flows, rest : Flows, avail : BOOLEAN]
  /\ evpc \in [step : {"idle", "rest", "avail"}, flow : Flows, n : Nat]
  /\ rd \in [step : {"idle", "flow", "rest", "shown"}, flow : Flows, rest : Flows]
  /\ evpc.n = 0 => ~evt.avail /\ evpc.step = "idle"
  /\ rd.step # "idle" => evt.avail
  /\ evpc.n = 1 =>
       /\ evpc.step # "idle" => ~evt.avail /\ evt.flow = evpc.flow
       /\ evpc.step = "avail" => evt.rest = evpc.flow
       /\ evt.avail => evt.flow = evt.rest
       /\ rd.step = "rest" => rd.flow = evt.flow
       /\ rd.step = "shown" => rd.flow = rd.rest

ConfigInv ==
  ConfTypes /\ DeviceInv /\ WriterInv /\ ShadowInv /\ FileInv /\ EventInv
-----------------------------------------------------------------------------
(* The index FMAC hands out *)

\* A nonempty set of natural numbers has a least element, so Min is one.
LEMMA MinIsMember ==
  ASSUME NEW S, S \subseteq Nat, S # {}
  PROVE  Min(S) \in S
<1> DEFINE R == {ss \in Nat \X Nat : ss[1] < ss[2]}
<1>1. IsWellFoundedOn(R, Nat)
  BY NatLessThanWellFounded, Zenon DEF OpToRel
<1> HIDE DEF R
<1>2. PICK x \in S : \A y \in S : <<y, x>> \notin R
  BY <1>1, WFMin
<1>3. ASSUME NEW y \in S PROVE x =< y
  <2>1. x \in Nat /\ y \in Nat
    OBVIOUS
  <2>2. y < x => <<y, x>> \in R
    BY <2>1 DEF R
  <2> QED BY <1>2, <2>1, <2>2
<1> QED BY <1>3 DEF Min

\* FMAC hands out a free index or none.
LEMMA FmacIdxIsFree ==
  /\ FmacIdx \in 0..MaxVifs
  /\ FmacIdx # MaxVifs => FmacIdx \in Idx /\ slots[FmacIdx] = "free"
<1>1. MaxVifs \in Nat \ {0}
  BY LifecycleAssumption
<1>2. CASE FreeIdx = {}
  BY <1>1, <1>2 DEF FmacIdx
<1>3. CASE FreeIdx # {}
  <2>1. FreeIdx \subseteq Nat
    BY <1>1 DEF FreeIdx, Idx
  <2>2. FmacIdx \in FreeIdx
    BY <1>3, <2>1, MinIsMember DEF FmacIdx
  <2> QED BY <1>1, <2>2 DEF FreeIdx, Idx
<1> QED BY <1>2, <1>3
-----------------------------------------------------------------------------
(* The steps of the life cycle *)

\* TypeOK in parts that different provers deal with.
StepTypes ==
  /\ mpc \in {"absent", "fmac_ret", "drv_init", "loaded", "unregister"}
  /\ reg \in {"none", "pending", "done"}
  /\ ppc \in {"idle", "wait", "wiphy", "bus", "intr", "fw_load", "add_vif",
              "fmac_vif", "dbgfs", "dev_init"}
  /\ rpc \in {"idle", "others", "lock", "clear", "default", "dbgfs", "dev", "wiphy",
              "bus"}
  /\ spiPriv \in {"none", "partial", "full", "freed"}
  /\ irq \in {"off", "raw", "on"}
  /\ fault \in {"none", "null_fmac", "null_default", "null_spi_dev", "null_deinit",
                "bad_params", "freed", "freed_vif", "raw_work"}

CountTypes == waits \in 0..WaitMax /\ nloads \in 0..MaxLoads

LoadFlags   == drvInit \in BOOLEAN /\ fmacPriv \in BOOLEAN /\ spiDev \in BOOLEAN
DeviceFlags == /\ bound \in BOOLEAN /\ wiphy \in BOOLEAN /\ files \in BOOLEAN
               /\ fmacUp \in BOOLEAN /\ fmacDev \in BOOLEAN /\ defVif \in BOOLEAN

VifTypes ==
  /\ slots \in [Idx -> Ifs \union {"free"}] /\ idx \in [Ifs -> 0..MaxVifs]
  /\ netdevs \subseteq Ifs

LoopTypes ==
  /\ ri \in 0..MaxVifs /\ held \in Ifs \union {"none", "freed"}
  /\ late \subseteq Users

\* Every step goes where the code goes next.
LEMMA StepTypesKeep ==
  ASSUME StepTypes, [Next]_vars
  PROVE  StepTypes'
<1>1. CASE LoadUseless \/ LoadBus \/ LoadFmacReturns \/ LoadDone
  BY <1>1 DEF LoadUseless, LoadBus, LoadFmacReturns, LoadDone, Insmod, Note,
     StepTypes, loadVars, probeVars, initVars, devVars, vifVars, loopVars
<1>2. CASE RegDrv
  BY <1>2 DEF RegDrv, Note, StepTypes, loadVars, probeVars, initVars, devVars,
     vifVars, loopVars
<1>3. CASE ProbeWait \/ ProbeGiveUp \/ ProbeWiphy \/ ProbeBus \/ ProbeBusFail
  BY <1>3 DEF ProbeWait, ProbeGiveUp, ProbeWiphy, ProbeBus, ProbeBusFail, Ready,
     StepTypes, loadVars, probeVars, initVars, devVars, vifVars, loopVars
<1>4. CASE ProbeIntr \/ ProbeFwFail \/ ProbeFw \/ ProbeOtpFail \/ ProbeAddVif
  BY <1>4 DEF ProbeIntr, ProbeFwFail, ProbeFw, ProbeOtpFail, ProbeAddVif, Note,
     RegisterNetdev, StepTypes, loadVars, probeVars, initVars, devVars, vifVars,
     loopVars
<1>5. CASE ProbeNoVif \/ ProbeFmacVif
  BY <1>5 DEF ProbeNoVif, ProbeFmacVif, ProbeOk, Note, FmacAddVif, StepTypes,
     loadVars, probeVars, initVars, devVars, vifVars, loopVars
<1>6. CASE ProbeDbgfs \/ ProbeDone
  BY <1>6 DEF ProbeDbgfs, ProbeDone, ProbeOk, StepTypes, loadVars, probeVars,
     initVars, devVars, vifVars, loopVars
<1>7. CASE ProbeInitFail
  BY <1>7 DEF ProbeInitFail, Note, StepTypes, loadVars, probeVars, initVars, devVars,
     vifVars, loopVars
<1>8. CASE Interrupt
  BY <1>8 DEF Interrupt, StepTypes, loadVars, probeVars, initVars, devVars, vifVars,
     loopVars
<1>9. ASSUME NEW u \in Users, AddVif(u) PROVE StepTypes'
  BY <1>9 DEF AddVif, RegisterNetdev, FmacAddVif, StepTypes, loadVars, probeVars,
     initVars, devVars, vifVars, loopVars
<1>10. ASSUME NEW u \in Ifs, DelVif(u) PROVE StepTypes'
  BY <1>10 DEF DelVif, FreeVif, Note, StepTypes, loadVars, probeVars, initVars,
     devVars, vifVars, loopVars
<1>11. CASE RemoveStart \/ RemoveLook \/ RemoveDel \/ RemoveClear
  BY <1>11 DEF RemoveStart, RemoveLook, RemoveDel, RemoveClear, FirstOther, StepTypes,
     loadVars, probeVars, initVars, devVars, vifVars, loopVars
<1>12. CASE RemoveDevDeinit \/ RemoveDbgfs
  BY <1>12 DEF RemoveDevDeinit, RemoveDbgfs, StepTypes, loadVars, probeVars, initVars,
     devVars, vifVars, loopVars
<1>13. CASE RemoveDefault \/ RemoveWiphy \/ RemoveBus
  BY <1>13 DEF RemoveDefault, RemoveWiphy, RemoveBus, StepTypes, loadVars, probeVars,
     initVars, devVars, vifVars, loopVars
<1>14. CASE UnloadUseless \/ Unload \/ UnloadFree \/ UnloadEarly
  BY <1>14 DEF UnloadUseless, Unload, UnloadFree, UnloadEarly, Note, StepTypes,
     loadVars, probeVars, initVars, devVars, vifVars, loopVars
<1>15. CASE UNCHANGED vars
  BY <1>15 DEF StepTypes, vars, loadVars, probeVars, initVars, devVars, vifVars,
     loopVars
<1> QED BY <1>1, <1>2, <1>3, <1>4, <1>5, <1>6, <1>7, <1>8, <1>9, <1>10, <1>11, <1>12,
   <1>13, <1>14, <1>15 DEF Next, Load, Probe, User, Remove, Unloading

\* The counters stay in their bounds.
LEMMA CountTypesKeep ==
  ASSUME CountTypes, [Next]_vars
  PROVE  CountTypes'
<1>1. CASE LoadUseless \/ LoadBus \/ LoadFmacReturns \/ LoadDone
  BY <1>1, LifecycleAssumption DEF LoadUseless, LoadBus, LoadFmacReturns, LoadDone,
     Insmod, Note, CountTypes, WaitMax, loadVars, probeVars, initVars, devVars,
     vifVars, loopVars
<1>2. CASE RegDrv
  BY <1>2 DEF RegDrv, Note, CountTypes, WaitMax, loadVars, probeVars, initVars,
     devVars, vifVars, loopVars
<1>3. CASE ProbeWait \/ ProbeGiveUp \/ ProbeWiphy \/ ProbeBus \/ ProbeBusFail
  BY <1>3 DEF ProbeWait, ProbeGiveUp, ProbeWiphy, ProbeBus, ProbeBusFail, Ready,
     CountTypes, WaitMax, loadVars, probeVars, initVars, devVars, vifVars, loopVars
<1>4. CASE ProbeIntr \/ ProbeFwFail \/ ProbeFw \/ ProbeOtpFail \/ ProbeAddVif
  BY <1>4 DEF ProbeIntr, ProbeFwFail, ProbeFw, ProbeOtpFail, ProbeAddVif, Note,
     RegisterNetdev, CountTypes, WaitMax, loadVars, probeVars, initVars, devVars,
     vifVars, loopVars
<1>5. CASE ProbeNoVif \/ ProbeFmacVif
  BY <1>5 DEF ProbeNoVif, ProbeFmacVif, ProbeOk, Note, FmacAddVif, CountTypes,
     WaitMax, loadVars, probeVars, initVars, devVars, vifVars, loopVars
<1>6. CASE ProbeDbgfs \/ ProbeDone
  BY <1>6 DEF ProbeDbgfs, ProbeDone, ProbeOk, CountTypes, WaitMax, loadVars,
     probeVars, initVars, devVars, vifVars, loopVars
<1>7. CASE ProbeInitFail
  BY <1>7 DEF ProbeInitFail, Note, CountTypes, WaitMax, loadVars, probeVars, initVars,
     devVars, vifVars, loopVars
<1>8. CASE Interrupt
  BY <1>8 DEF Interrupt, CountTypes, WaitMax, loadVars, probeVars, initVars, devVars,
     vifVars, loopVars
<1>9. ASSUME NEW u \in Users, AddVif(u) PROVE CountTypes'
  BY <1>9 DEF AddVif, RegisterNetdev, FmacAddVif, CountTypes, WaitMax, loadVars,
     probeVars, initVars, devVars, vifVars, loopVars
<1>10. ASSUME NEW u \in Ifs, DelVif(u) PROVE CountTypes'
  BY <1>10 DEF DelVif, FreeVif, Note, CountTypes, WaitMax, loadVars, probeVars,
     initVars, devVars, vifVars, loopVars
<1>11. CASE RemoveStart \/ RemoveLook \/ RemoveDel \/ RemoveClear
  BY <1>11 DEF RemoveStart, RemoveLook, RemoveDel, RemoveClear, FirstOther,
     CountTypes, WaitMax, loadVars, probeVars, initVars, devVars, vifVars, loopVars
<1>12. CASE RemoveDevDeinit \/ RemoveDbgfs
  BY <1>12 DEF RemoveDevDeinit, RemoveDbgfs, CountTypes, WaitMax, loadVars, probeVars,
     initVars, devVars, vifVars, loopVars
<1>13. CASE RemoveDefault \/ RemoveWiphy \/ RemoveBus
  BY <1>13 DEF RemoveDefault, RemoveWiphy, RemoveBus, CountTypes, WaitMax, loadVars,
     probeVars, initVars, devVars, vifVars, loopVars
<1>14. CASE UnloadUseless \/ Unload \/ UnloadFree \/ UnloadEarly
  BY <1>14 DEF UnloadUseless, Unload, UnloadFree, UnloadEarly, Note, CountTypes,
     WaitMax, loadVars, probeVars, initVars, devVars, vifVars, loopVars
<1>15. CASE UNCHANGED vars
  BY <1>15 DEF CountTypes, WaitMax, vars, loadVars, probeVars, initVars, devVars,
     vifVars, loopVars
<1> QED BY <1>1, <1>2, <1>3, <1>4, <1>5, <1>6, <1>7, <1>8, <1>9, <1>10, <1>11, <1>12,
   <1>13, <1>14, <1>15 DEF Next, Load, Probe, User, Remove, Unloading

\* The flags of the load stay flags.
LEMMA LoadFlagsKeep ==
  ASSUME LoadFlags, [Next]_vars
  PROVE  LoadFlags'
<1>1. CASE LoadUseless \/ LoadBus \/ LoadFmacReturns \/ LoadDone
  BY <1>1 DEF LoadUseless, LoadBus, LoadFmacReturns, LoadDone, Insmod, Note,
     LoadFlags, loadVars, probeVars, initVars, devVars, vifVars, loopVars
<1>2. CASE RegDrv
  BY <1>2 DEF RegDrv, Note, LoadFlags, loadVars, probeVars, initVars, devVars,
     vifVars, loopVars
<1>3. CASE ProbeWait \/ ProbeGiveUp \/ ProbeWiphy \/ ProbeBus \/ ProbeBusFail
  BY <1>3 DEF ProbeWait, ProbeGiveUp, ProbeWiphy, ProbeBus, ProbeBusFail, Ready,
     LoadFlags, loadVars, probeVars, initVars, devVars, vifVars, loopVars
<1>4. CASE ProbeIntr \/ ProbeFwFail \/ ProbeFw \/ ProbeOtpFail \/ ProbeAddVif
  BY <1>4 DEF ProbeIntr, ProbeFwFail, ProbeFw, ProbeOtpFail, ProbeAddVif, Note,
     RegisterNetdev, LoadFlags, loadVars, probeVars, initVars, devVars, vifVars,
     loopVars
<1>5. CASE ProbeNoVif \/ ProbeFmacVif
  BY <1>5 DEF ProbeNoVif, ProbeFmacVif, ProbeOk, Note, FmacAddVif, LoadFlags,
     loadVars, probeVars, initVars, devVars, vifVars, loopVars
<1>6. CASE ProbeDbgfs \/ ProbeDone
  BY <1>6 DEF ProbeDbgfs, ProbeDone, ProbeOk, LoadFlags, loadVars, probeVars,
     initVars, devVars, vifVars, loopVars
<1>7. CASE ProbeInitFail
  BY <1>7 DEF ProbeInitFail, Note, LoadFlags, loadVars, probeVars, initVars, devVars,
     vifVars, loopVars
<1>8. CASE Interrupt
  BY <1>8 DEF Interrupt, LoadFlags, loadVars, probeVars, initVars, devVars, vifVars,
     loopVars
<1>9. ASSUME NEW u \in Users, AddVif(u) PROVE LoadFlags'
  BY <1>9 DEF AddVif, RegisterNetdev, FmacAddVif, LoadFlags, loadVars, probeVars,
     initVars, devVars, vifVars, loopVars
<1>10. ASSUME NEW u \in Ifs, DelVif(u) PROVE LoadFlags'
  BY <1>10 DEF DelVif, FreeVif, Note, LoadFlags, loadVars, probeVars, initVars,
     devVars, vifVars, loopVars
<1>11. CASE RemoveStart \/ RemoveLook \/ RemoveDel \/ RemoveClear
  BY <1>11 DEF RemoveStart, RemoveLook, RemoveDel, RemoveClear, FirstOther, LoadFlags,
     loadVars, probeVars, initVars, devVars, vifVars, loopVars
<1>12. CASE RemoveDevDeinit \/ RemoveDbgfs
  BY <1>12 DEF RemoveDevDeinit, RemoveDbgfs, LoadFlags, loadVars, probeVars, initVars,
     devVars, vifVars, loopVars
<1>13. CASE RemoveDefault \/ RemoveWiphy \/ RemoveBus
  BY <1>13 DEF RemoveDefault, RemoveWiphy, RemoveBus, LoadFlags, loadVars, probeVars,
     initVars, devVars, vifVars, loopVars
<1>14. CASE UnloadUseless \/ Unload \/ UnloadFree \/ UnloadEarly
  BY <1>14 DEF UnloadUseless, Unload, UnloadFree, UnloadEarly, Note, LoadFlags,
     loadVars, probeVars, initVars, devVars, vifVars, loopVars
<1>15. CASE UNCHANGED vars
  BY <1>15 DEF LoadFlags, vars, loadVars, probeVars, initVars, devVars, vifVars,
     loopVars
<1> QED BY <1>1, <1>2, <1>3, <1>4, <1>5, <1>6, <1>7, <1>8, <1>9, <1>10, <1>11, <1>12,
   <1>13, <1>14, <1>15 DEF Next, Load, Probe, User, Remove, Unloading

\* The flags of the device stay flags.
LEMMA DeviceFlagsKeep ==
  ASSUME DeviceFlags, [Next]_vars
  PROVE  DeviceFlags'
<1>1. CASE LoadUseless \/ LoadBus \/ LoadFmacReturns \/ LoadDone
  BY <1>1 DEF LoadUseless, LoadBus, LoadFmacReturns, LoadDone, Insmod, Note,
     DeviceFlags, loadVars, probeVars, initVars, devVars, vifVars, loopVars
<1>2. CASE RegDrv
  BY <1>2 DEF RegDrv, Note, DeviceFlags, loadVars, probeVars, initVars, devVars,
     vifVars, loopVars
<1>3. CASE ProbeWait \/ ProbeGiveUp \/ ProbeWiphy \/ ProbeBus \/ ProbeBusFail
  BY <1>3 DEF ProbeWait, ProbeGiveUp, ProbeWiphy, ProbeBus, ProbeBusFail, Ready,
     DeviceFlags, loadVars, probeVars, initVars, devVars, vifVars, loopVars
<1>4. CASE ProbeIntr \/ ProbeFwFail \/ ProbeFw \/ ProbeOtpFail \/ ProbeAddVif
  BY <1>4 DEF ProbeIntr, ProbeFwFail, ProbeFw, ProbeOtpFail, ProbeAddVif, Note,
     RegisterNetdev, DeviceFlags, loadVars, probeVars, initVars, devVars, vifVars,
     loopVars
<1>5. CASE ProbeNoVif \/ ProbeFmacVif
  BY <1>5 DEF ProbeNoVif, ProbeFmacVif, ProbeOk, Note, FmacAddVif, DeviceFlags,
     loadVars, probeVars, initVars, devVars, vifVars, loopVars
<1>6. CASE ProbeDbgfs \/ ProbeDone
  BY <1>6 DEF ProbeDbgfs, ProbeDone, ProbeOk, DeviceFlags, loadVars, probeVars,
     initVars, devVars, vifVars, loopVars
<1>7. CASE ProbeInitFail
  BY <1>7 DEF ProbeInitFail, Note, DeviceFlags, loadVars, probeVars, initVars,
     devVars, vifVars, loopVars
<1>8. CASE Interrupt
  BY <1>8 DEF Interrupt, DeviceFlags, loadVars, probeVars, initVars, devVars, vifVars,
     loopVars
<1>9. ASSUME NEW u \in Users, AddVif(u) PROVE DeviceFlags'
  BY <1>9 DEF AddVif, RegisterNetdev, FmacAddVif, DeviceFlags, loadVars, probeVars,
     initVars, devVars, vifVars, loopVars
<1>10. ASSUME NEW u \in Ifs, DelVif(u) PROVE DeviceFlags'
  BY <1>10 DEF DelVif, FreeVif, Note, DeviceFlags, loadVars, probeVars, initVars,
     devVars, vifVars, loopVars
<1>11. CASE RemoveStart \/ RemoveLook \/ RemoveDel \/ RemoveClear
  BY <1>11 DEF RemoveStart, RemoveLook, RemoveDel, RemoveClear, FirstOther,
     DeviceFlags, loadVars, probeVars, initVars, devVars, vifVars, loopVars
<1>12. CASE RemoveDevDeinit \/ RemoveDbgfs
  BY <1>12 DEF RemoveDevDeinit, RemoveDbgfs, DeviceFlags, loadVars, probeVars,
     initVars, devVars, vifVars, loopVars
<1>13. CASE RemoveDefault \/ RemoveWiphy \/ RemoveBus
  BY <1>13 DEF RemoveDefault, RemoveWiphy, RemoveBus, DeviceFlags, loadVars,
     probeVars, initVars, devVars, vifVars, loopVars
<1>14. CASE UnloadUseless \/ Unload \/ UnloadFree \/ UnloadEarly
  BY <1>14 DEF UnloadUseless, Unload, UnloadFree, UnloadEarly, Note, DeviceFlags,
     loadVars, probeVars, initVars, devVars, vifVars, loopVars
<1>15. CASE UNCHANGED vars
  BY <1>15 DEF DeviceFlags, vars, loadVars, probeVars, initVars, devVars, vifVars,
     loopVars
<1> QED BY <1>1, <1>2, <1>3, <1>4, <1>5, <1>6, <1>7, <1>8, <1>9, <1>10, <1>11, <1>12,
   <1>13, <1>14, <1>15 DEF Next, Load, Probe, User, Remove, Unloading

\* The table holds interfaces, and the interfaces hold indices.
LEMMA VifTypesKeep ==
  ASSUME VifTypes, LoopTypes, [Next]_vars
  PROVE  VifTypes'
<1>1. CASE LoadUseless \/ LoadBus \/ LoadFmacReturns \/ LoadDone
  BY <1>1 DEF LoadUseless, LoadBus, LoadFmacReturns, LoadDone, Insmod, Note, VifTypes,
     Ifs, loadVars, probeVars, initVars, devVars, vifVars, loopVars
<1>2. CASE RegDrv
  BY <1>2 DEF RegDrv, Note, VifTypes, Ifs, loadVars, probeVars, initVars, devVars,
     vifVars, loopVars
<1>3. CASE ProbeWait \/ ProbeGiveUp \/ ProbeWiphy \/ ProbeBus \/ ProbeBusFail
  BY <1>3 DEF ProbeWait, ProbeGiveUp, ProbeWiphy, ProbeBus, ProbeBusFail, Ready,
     VifTypes, Ifs, loadVars, probeVars, initVars, devVars, vifVars, loopVars
<1>4. CASE ProbeIntr \/ ProbeFwFail \/ ProbeFw \/ ProbeOtpFail \/ ProbeAddVif
  BY <1>4 DEF ProbeIntr, ProbeFwFail, ProbeFw, ProbeOtpFail, ProbeAddVif, Note,
     RegisterNetdev, VifTypes, Ifs, loadVars, probeVars, initVars, devVars, vifVars,
     loopVars
<1>5. CASE ProbeNoVif \/ ProbeFmacVif
  BY <1>5, FmacIdxIsFree, LifecycleAssumption DEF ProbeNoVif, ProbeFmacVif, ProbeOk,
     Note, FmacAddVif, VifTypes, Ifs, loadVars, probeVars, initVars, devVars, vifVars,
     loopVars
<1>6. CASE ProbeDbgfs \/ ProbeDone
  BY <1>6 DEF ProbeDbgfs, ProbeDone, ProbeOk, VifTypes, Ifs, loadVars, probeVars,
     initVars, devVars, vifVars, loopVars
<1>7. CASE ProbeInitFail
  BY <1>7 DEF ProbeInitFail, Note, VifTypes, Ifs, loadVars, probeVars, initVars,
     devVars, vifVars, loopVars
<1>8. CASE Interrupt
  BY <1>8 DEF Interrupt, VifTypes, Ifs, loadVars, probeVars, initVars, devVars,
     vifVars, loopVars
<1>9. ASSUME NEW u \in Users, AddVif(u) PROVE VifTypes'
  BY <1>9, FmacIdxIsFree, LifecycleAssumption DEF AddVif, RegisterNetdev, FmacAddVif,
     VifTypes, Ifs, loadVars, probeVars, initVars, devVars, vifVars, loopVars
<1>10. ASSUME NEW u \in Ifs, DelVif(u) PROVE VifTypes'
  BY <1>10, FmacIdxIsFree, LifecycleAssumption DEF DelVif, FreeVif, Note, VifTypes,
     Ifs, loadVars, probeVars, initVars, devVars, vifVars, loopVars
<1>11. CASE RemoveStart \/ RemoveLook \/ RemoveDel \/ RemoveClear
  BY <1>11, FmacIdxIsFree, LifecycleAssumption DEF RemoveStart, RemoveLook, RemoveDel,
     RemoveClear, FirstOther, VifTypes, Ifs, LoopTypes, Idx, loadVars, probeVars,
     initVars, devVars, vifVars, loopVars
<1>12. CASE RemoveDevDeinit \/ RemoveDbgfs
  BY <1>12 DEF RemoveDevDeinit, RemoveDbgfs, VifTypes, Ifs, loadVars, probeVars,
     initVars, devVars, vifVars, loopVars
<1>13. CASE RemoveDefault \/ RemoveWiphy \/ RemoveBus
  BY <1>13 DEF RemoveDefault, RemoveWiphy, RemoveBus, VifTypes, Ifs, loadVars,
     probeVars, initVars, devVars, vifVars, loopVars
<1>14. CASE UnloadUseless \/ Unload \/ UnloadFree \/ UnloadEarly
  BY <1>14 DEF UnloadUseless, Unload, UnloadFree, UnloadEarly, Note, VifTypes, Ifs,
     loadVars, probeVars, initVars, devVars, vifVars, loopVars
<1>15. CASE UNCHANGED vars
  BY <1>15 DEF VifTypes, Ifs, vars, loadVars, probeVars, initVars, devVars, vifVars,
     loopVars
<1> QED BY <1>1, <1>2, <1>3, <1>4, <1>5, <1>6, <1>7, <1>8, <1>9, <1>10, <1>11, <1>12,
   <1>13, <1>14, <1>15 DEF Next, Load, Probe, User, Remove, Unloading

\* The loop of the remove stays in the table.
LEMMA LoopTypesKeep ==
  ASSUME TypeOK, LoopInv, [Next]_vars
  PROVE  LoopTypes'
<1>1. CASE LoadUseless \/ LoadBus \/ LoadFmacReturns \/ LoadDone
  BY <1>1 DEF LoadUseless, LoadBus, LoadFmacReturns, LoadDone, Insmod, Note,
     LoopTypes, TypeOK, LoopInv, Idx, Ifs, loadVars, probeVars, initVars, devVars,
     vifVars, loopVars
<1>2. CASE RegDrv
  BY <1>2 DEF RegDrv, Note, LoopTypes, TypeOK, LoopInv, Idx, Ifs, loadVars, probeVars,
     initVars, devVars, vifVars, loopVars
<1>3. CASE ProbeWait \/ ProbeGiveUp \/ ProbeWiphy \/ ProbeBus \/ ProbeBusFail
  BY <1>3 DEF ProbeWait, ProbeGiveUp, ProbeWiphy, ProbeBus, ProbeBusFail, Ready,
     LoopTypes, TypeOK, LoopInv, Idx, Ifs, loadVars, probeVars, initVars, devVars,
     vifVars, loopVars
<1>4. CASE ProbeIntr \/ ProbeFwFail \/ ProbeFw \/ ProbeOtpFail \/ ProbeAddVif
  BY <1>4 DEF ProbeIntr, ProbeFwFail, ProbeFw, ProbeOtpFail, ProbeAddVif, Note,
     RegisterNetdev, LoopTypes, TypeOK, LoopInv, Idx, Ifs, loadVars, probeVars,
     initVars, devVars, vifVars, loopVars
<1>5. CASE ProbeNoVif \/ ProbeFmacVif
  BY <1>5 DEF ProbeNoVif, ProbeFmacVif, ProbeOk, Note, FmacAddVif, LoopTypes, TypeOK,
     LoopInv, Idx, Ifs, loadVars, probeVars, initVars, devVars, vifVars, loopVars
<1>6. CASE ProbeDbgfs \/ ProbeDone
  BY <1>6 DEF ProbeDbgfs, ProbeDone, ProbeOk, LoopTypes, TypeOK, LoopInv, Idx, Ifs,
     loadVars, probeVars, initVars, devVars, vifVars, loopVars
<1>7. CASE ProbeInitFail
  BY <1>7 DEF ProbeInitFail, Note, LoopTypes, TypeOK, LoopInv, Idx, Ifs, loadVars,
     probeVars, initVars, devVars, vifVars, loopVars
<1>8. CASE Interrupt
  BY <1>8 DEF Interrupt, LoopTypes, TypeOK, LoopInv, Idx, Ifs, loadVars, probeVars,
     initVars, devVars, vifVars, loopVars
<1>9. ASSUME NEW u \in Users, AddVif(u) PROVE LoopTypes'
  BY <1>9 DEF AddVif, RegisterNetdev, FmacAddVif, LoopTypes, TypeOK, LoopInv, Idx,
     Ifs, loadVars, probeVars, initVars, devVars, vifVars, loopVars
<1>10. ASSUME NEW u \in Ifs, DelVif(u) PROVE LoopTypes'
  BY <1>10 DEF DelVif, FreeVif, Note, LoopTypes, TypeOK, LoopInv, Idx, Ifs, loadVars,
     probeVars, initVars, devVars, vifVars, loopVars
<1>11. CASE RemoveStart \/ RemoveLook \/ RemoveDel \/ RemoveClear
  BY <1>11, LifecycleAssumption DEF RemoveStart, RemoveLook, RemoveDel, RemoveClear,
     FirstOther, LoopTypes, TypeOK, LoopInv, Idx, Ifs, loadVars, probeVars, initVars,
     devVars, vifVars, loopVars
<1>12. CASE RemoveDevDeinit \/ RemoveDbgfs
  BY <1>12 DEF RemoveDevDeinit, RemoveDbgfs, LoopTypes, TypeOK, LoopInv, Idx, Ifs,
     loadVars, probeVars, initVars, devVars, vifVars, loopVars
<1>13. CASE RemoveDefault \/ RemoveWiphy \/ RemoveBus
  BY <1>13 DEF RemoveDefault, RemoveWiphy, RemoveBus, LoopTypes, TypeOK, LoopInv, Idx,
     Ifs, loadVars, probeVars, initVars, devVars, vifVars, loopVars
<1>14. CASE UnloadUseless \/ Unload \/ UnloadFree \/ UnloadEarly
  BY <1>14 DEF UnloadUseless, Unload, UnloadFree, UnloadEarly, Note, LoopTypes,
     TypeOK, LoopInv, Idx, Ifs, loadVars, probeVars, initVars, devVars, vifVars,
     loopVars
<1>15. CASE UNCHANGED vars
  BY <1>15 DEF LoopTypes, TypeOK, LoopInv, Idx, Ifs, vars, loadVars, probeVars,
     initVars, devVars, vifVars, loopVars
<1> QED BY <1>1, <1>2, <1>3, <1>4, <1>5, <1>6, <1>7, <1>8, <1>9, <1>10, <1>11, <1>12,
   <1>13, <1>14, <1>15 DEF Next, Load, Probe, User, Remove, Unloading

\* Only known failures are noted.
LEMMA TroubleTypeKeep ==
  ASSUME trouble \subseteq Troubles, [Next]_vars
  PROVE  trouble' \subseteq Troubles
<1>1. CASE LoadUseless \/ LoadBus \/ LoadFmacReturns \/ LoadDone
  BY <1>1 DEF LoadUseless, LoadBus, LoadFmacReturns, LoadDone, Insmod, Note, Troubles,
     loadVars, probeVars, initVars, devVars, vifVars, loopVars
<1>2. CASE RegDrv
  BY <1>2 DEF RegDrv, Note, Troubles, loadVars, probeVars, initVars, devVars, vifVars,
     loopVars
<1>3. CASE ProbeWait \/ ProbeGiveUp \/ ProbeWiphy \/ ProbeBus \/ ProbeBusFail
  BY <1>3 DEF ProbeWait, ProbeGiveUp, ProbeWiphy, ProbeBus, ProbeBusFail, Ready,
     Troubles, loadVars, probeVars, initVars, devVars, vifVars, loopVars
<1>4. CASE ProbeIntr \/ ProbeFwFail \/ ProbeFw \/ ProbeOtpFail \/ ProbeAddVif
  BY <1>4 DEF ProbeIntr, ProbeFwFail, ProbeFw, ProbeOtpFail, ProbeAddVif, Note,
     RegisterNetdev, Troubles, loadVars, probeVars, initVars, devVars, vifVars,
     loopVars
<1>5. CASE ProbeNoVif \/ ProbeFmacVif
  BY <1>5 DEF ProbeNoVif, ProbeFmacVif, ProbeOk, Note, FmacAddVif, Troubles, loadVars,
     probeVars, initVars, devVars, vifVars, loopVars
<1>6. CASE ProbeDbgfs \/ ProbeDone
  BY <1>6 DEF ProbeDbgfs, ProbeDone, ProbeOk, Troubles, loadVars, probeVars, initVars,
     devVars, vifVars, loopVars
<1>7. CASE ProbeInitFail
  BY <1>7 DEF ProbeInitFail, Note, Troubles, loadVars, probeVars, initVars, devVars,
     vifVars, loopVars
<1>8. CASE Interrupt
  BY <1>8 DEF Interrupt, Troubles, loadVars, probeVars, initVars, devVars, vifVars,
     loopVars
<1>9. ASSUME NEW u \in Users, AddVif(u) PROVE trouble' \subseteq Troubles
  BY <1>9 DEF AddVif, RegisterNetdev, FmacAddVif, Troubles, loadVars, probeVars,
     initVars, devVars, vifVars, loopVars
<1>10. ASSUME NEW u \in Ifs, DelVif(u) PROVE trouble' \subseteq Troubles
  BY <1>10 DEF DelVif, FreeVif, Note, Troubles, loadVars, probeVars, initVars,
     devVars, vifVars, loopVars
<1>11. CASE RemoveStart \/ RemoveLook \/ RemoveDel \/ RemoveClear
  BY <1>11 DEF RemoveStart, RemoveLook, RemoveDel, RemoveClear, FirstOther, Troubles,
     loadVars, probeVars, initVars, devVars, vifVars, loopVars
<1>12. CASE RemoveDevDeinit \/ RemoveDbgfs
  BY <1>12 DEF RemoveDevDeinit, RemoveDbgfs, Troubles, loadVars, probeVars, initVars,
     devVars, vifVars, loopVars
<1>13. CASE RemoveDefault \/ RemoveWiphy \/ RemoveBus
  BY <1>13 DEF RemoveDefault, RemoveWiphy, RemoveBus, Troubles, loadVars, probeVars,
     initVars, devVars, vifVars, loopVars
<1>14. CASE UnloadUseless \/ Unload \/ UnloadFree \/ UnloadEarly
  BY <1>14 DEF UnloadUseless, Unload, UnloadFree, UnloadEarly, Note, Troubles,
     loadVars, probeVars, initVars, devVars, vifVars, loopVars
<1>15. CASE UNCHANGED vars
  BY <1>15 DEF Troubles, vars, loadVars, probeVars, initVars, devVars, vifVars,
     loopVars
<1> QED BY <1>1, <1>2, <1>3, <1>4, <1>5, <1>6, <1>7, <1>8, <1>9, <1>10, <1>11, <1>12,
   <1>13, <1>14, <1>15 DEF Next, Load, Probe, User, Remove, Unloading

\* Every step of the life cycle keeps the types.
LEMMA TypesKeep ==
  ASSUME TypeOK, LoopInv, [Next]_vars
  PROVE  TypeOK'
<1>1. /\ StepTypes /\ CountTypes /\ LoadFlags /\ DeviceFlags /\ VifTypes /\ LoopTypes
      /\ trouble \subseteq Troubles
  BY DEF TypeOK, StepTypes, CountTypes, LoadFlags, DeviceFlags, VifTypes, LoopTypes
<1>2. /\ StepTypes' /\ CountTypes' /\ LoadFlags' /\ DeviceFlags' /\ VifTypes'
      /\ LoopTypes' /\ trouble' \subseteq Troubles
  BY <1>1, StepTypesKeep, CountTypesKeep, LoadFlagsKeep, DeviceFlagsKeep, VifTypesKeep,
     LoopTypesKeep, TroubleTypeKeep
<1> QED BY <1>2 DEF TypeOK, StepTypes, CountTypes, LoadFlags, DeviceFlags, VifTypes,
   LoopTypes

\* Load, registration, probe and remove keep to their order.
LEMMA BootKeep ==
  ASSUME DeviceInv, [Next]_vars
  PROVE  BootInv'
<1>1. CASE LoadUseless
  BY <1>1 DEF LoadUseless, Insmod, Note, BootInv, ProbeAfterInit, DeviceInv, loadVars,
     probeVars, initVars, devVars, vifVars, loopVars
<1>2. CASE LoadBus
  BY <1>2 DEF LoadBus, Insmod, BootInv, ProbeAfterInit, DeviceInv, loadVars,
     probeVars, initVars, devVars, vifVars, loopVars
<1>3. CASE LoadFmacReturns
  BY <1>3 DEF LoadFmacReturns, BootInv, ProbeAfterInit, DeviceInv, loadVars,
     probeVars, initVars, devVars, vifVars, loopVars
<1>4. CASE LoadDone
  BY <1>4 DEF LoadDone, BootInv, ProbeAfterInit, DeviceInv, loadVars, probeVars,
     initVars, devVars, vifVars, loopVars
<1>5. CASE RegDrv
  BY <1>5 DEF RegDrv, Note, BootInv, ProbeAfterInit, DeviceInv, loadVars, probeVars,
     initVars, devVars, vifVars, loopVars
<1>6. CASE ProbeWait
  BY <1>6 DEF ProbeWait, BootInv, ProbeAfterInit, DeviceInv, loadVars, probeVars,
     initVars, devVars, vifVars, loopVars
<1>7. CASE ProbeGiveUp
  BY <1>7 DEF ProbeGiveUp, BootInv, ProbeAfterInit, DeviceInv, loadVars, probeVars,
     initVars, devVars, vifVars, loopVars
<1>8. CASE ProbeWiphy
  BY <1>8 DEF ProbeWiphy, Ready, BootInv, ProbeAfterInit, DeviceInv, loadVars,
     probeVars, initVars, devVars, vifVars, loopVars
<1>9. CASE ProbeBus
  BY <1>9 DEF ProbeBus, BootInv, ProbeAfterInit, DeviceInv, loadVars, probeVars,
     initVars, devVars, vifVars, loopVars
<1>10. CASE ProbeBusFail
  BY <1>10 DEF ProbeBusFail, BootInv, ProbeAfterInit, DeviceInv, loadVars, probeVars,
     initVars, devVars, vifVars, loopVars
<1>11. CASE ProbeIntr
  BY <1>11 DEF ProbeIntr, BootInv, ProbeAfterInit, DeviceInv, loadVars, probeVars,
     initVars, devVars, vifVars, loopVars
<1>12. CASE ProbeFwFail
  BY <1>12 DEF ProbeFwFail, Note, BootInv, ProbeAfterInit, DeviceInv, loadVars,
     probeVars, initVars, devVars, vifVars, loopVars
<1>13. CASE ProbeFw
  BY <1>13 DEF ProbeFw, BootInv, ProbeAfterInit, DeviceInv, loadVars, probeVars,
     initVars, devVars, vifVars, loopVars
<1>14. CASE ProbeOtpFail
  BY <1>14 DEF ProbeOtpFail, Note, BootInv, ProbeAfterInit, DeviceInv, loadVars,
     probeVars, initVars, devVars, vifVars, loopVars
<1>15. CASE ProbeAddVif
  BY <1>15 DEF ProbeAddVif, RegisterNetdev, BootInv, ProbeAfterInit, DeviceInv,
     loadVars, probeVars, initVars, devVars, vifVars, loopVars
<1>16. CASE ProbeNoVif
  BY <1>16 DEF ProbeNoVif, ProbeOk, Note, BootInv, ProbeAfterInit, DeviceInv,
     loadVars, probeVars, initVars, devVars, vifVars, loopVars
<1>17. CASE ProbeFmacVif
  BY <1>17 DEF ProbeFmacVif, ProbeOk, Note, FmacAddVif, BootInv, ProbeAfterInit,
     DeviceInv, loadVars, probeVars, initVars, devVars, vifVars, loopVars
<1>18. CASE ProbeDbgfs
  BY <1>18 DEF ProbeDbgfs, BootInv, ProbeAfterInit, DeviceInv, loadVars, probeVars,
     initVars, devVars, vifVars, loopVars
<1>19. CASE ProbeDone
  BY <1>19 DEF ProbeDone, ProbeOk, BootInv, ProbeAfterInit, DeviceInv, loadVars,
     probeVars, initVars, devVars, vifVars, loopVars
<1>20. CASE ProbeInitFail
  BY <1>20 DEF ProbeInitFail, Note, BootInv, ProbeAfterInit, DeviceInv, loadVars,
     probeVars, initVars, devVars, vifVars, loopVars
<1>21. ASSUME NEW u \in Users, AddVif(u) PROVE BootInv'
  BY <1>21 DEF AddVif, RegisterNetdev, FmacAddVif, BootInv, ProbeAfterInit, DeviceInv,
     loadVars, probeVars, initVars, devVars, vifVars, loopVars
<1>22. ASSUME NEW u \in Ifs, DelVif(u) PROVE BootInv'
  BY <1>22 DEF DelVif, FreeVif, Note, BootInv, ProbeAfterInit, DeviceInv, loadVars,
     probeVars, initVars, devVars, vifVars, loopVars
<1>23. CASE RemoveStart
  BY <1>23 DEF RemoveStart, FirstOther, BootInv, ProbeAfterInit, DeviceInv, loadVars,
     probeVars, initVars, devVars, vifVars, loopVars
<1>24. CASE RemoveLook
  BY <1>24 DEF RemoveLook, BootInv, ProbeAfterInit, DeviceInv, loadVars, probeVars,
     initVars, devVars, vifVars, loopVars
<1>25. CASE RemoveDel
  BY <1>25 DEF RemoveDel, BootInv, ProbeAfterInit, DeviceInv, loadVars, probeVars,
     initVars, devVars, vifVars, loopVars
<1>26. CASE RemoveClear
  BY <1>26 DEF RemoveClear, BootInv, ProbeAfterInit, DeviceInv, loadVars, probeVars,
     initVars, devVars, vifVars, loopVars
<1>27. CASE RemoveDevDeinit
  BY <1>27 DEF RemoveDevDeinit, BootInv, ProbeAfterInit, DeviceInv, loadVars,
     probeVars, initVars, devVars, vifVars, loopVars
<1>28. CASE RemoveDbgfs
  BY <1>28 DEF RemoveDbgfs, BootInv, ProbeAfterInit, DeviceInv, loadVars, probeVars,
     initVars, devVars, vifVars, loopVars
<1>29. CASE RemoveDefault
  BY <1>29 DEF RemoveDefault, BootInv, ProbeAfterInit, DeviceInv, loadVars, probeVars,
     initVars, devVars, vifVars, loopVars
<1>30. CASE RemoveWiphy
  BY <1>30 DEF RemoveWiphy, BootInv, ProbeAfterInit, DeviceInv, loadVars, probeVars,
     initVars, devVars, vifVars, loopVars
<1>31. CASE RemoveBus
  BY <1>31 DEF RemoveBus, BootInv, ProbeAfterInit, DeviceInv, loadVars, probeVars,
     initVars, devVars, vifVars, loopVars
<1>32. CASE UnloadUseless
  BY <1>32 DEF UnloadUseless, BootInv, ProbeAfterInit, DeviceInv, loadVars, probeVars,
     initVars, devVars, vifVars, loopVars
<1>33. CASE Unload
  BY <1>33 DEF Unload, BootInv, ProbeAfterInit, DeviceInv, loadVars, probeVars,
     initVars, devVars, vifVars, loopVars
<1>34. CASE UnloadFree
  <2>1. /\ mpc = "unregister" /\ ppc = "idle" /\ ~bound
        /\ ppc' = ppc /\ bound' = bound /\ reg' = reg /\ rpc' = rpc
    BY <1>34 DEF UnloadFree
  <2>2. reg # "pending" /\ rpc = "idle"
    BY <2>1 DEF DeviceInv, BootInv
  <2>3. CASE mpc' = "absent" /\ fmacPriv' = FALSE /\ drvInit' = FALSE
    BY <2>1, <2>2, <2>3 DEF BootInv, ProbeAfterInit
  <2>4. CASE UNCHANGED <<mpc, fmacPriv, drvInit>>
    BY <2>1, <2>2, <2>4 DEF BootInv, ProbeAfterInit, DeviceInv
  <2> QED BY <1>34, <2>3, <2>4 DEF UnloadFree
<1>35. CASE UnloadEarly
  BY <1>35 DEF UnloadEarly, Note, BootInv, ProbeAfterInit, DeviceInv, loadVars,
     probeVars, initVars, devVars, vifVars, loopVars
<1>36. CASE Interrupt
  BY <1>36 DEF Interrupt, BootInv, ProbeAfterInit, DeviceInv, loadVars, probeVars,
     initVars, devVars, vifVars, loopVars
<1>37. CASE UNCHANGED vars
  BY <1>37 DEF BootInv, ProbeAfterInit, DeviceInv, vars, loadVars, probeVars,
     initVars, devVars, vifVars, loopVars
<1> QED BY <1>1, <1>2, <1>3, <1>4, <1>5, <1>6, <1>7, <1>8, <1>9, <1>10, <1>11, <1>12,
   <1>13, <1>14, <1>15, <1>16, <1>17, <1>18, <1>19, <1>20, <1>21, <1>22, <1>23, <1>24,
   <1>25, <1>26, <1>27, <1>28, <1>29, <1>30, <1>31, <1>32, <1>33, <1>34, <1>35, <1>36,
   <1>37 DEF Next, Load, Probe, User, Remove, Unloading

\* The files never lose the device context.
LEMMA FilesKeep ==
  ASSUME DeviceInv, [Next]_vars
  PROVE  FilesInv'
<1>1. CASE LoadUseless
  BY <1>1 DEF LoadUseless, Insmod, Note, FilesInv, BootInv, DeviceInv, WithWiphy,
     WithFmac, loadVars, probeVars, initVars, devVars, vifVars, loopVars
<1>2. CASE LoadBus
  BY <1>2 DEF LoadBus, Insmod, FilesInv, BootInv, DeviceInv, WithWiphy, WithFmac,
     CauseInv, loadVars, probeVars, initVars, devVars, vifVars, loopVars
<1>3. CASE LoadFmacReturns
  BY <1>3 DEF LoadFmacReturns, FilesInv, BootInv, DeviceInv, WithWiphy, WithFmac,
     loadVars, probeVars, initVars, devVars, vifVars, loopVars
<1>4. CASE LoadDone
  BY <1>4 DEF LoadDone, FilesInv, BootInv, DeviceInv, WithWiphy, WithFmac, loadVars,
     probeVars, initVars, devVars, vifVars, loopVars
<1>5. CASE RegDrv
  BY <1>5 DEF RegDrv, Note, FilesInv, BootInv, DeviceInv, WithWiphy, WithFmac,
     loadVars, probeVars, initVars, devVars, vifVars, loopVars
<1>6. CASE ProbeWait
  BY <1>6 DEF ProbeWait, FilesInv, BootInv, DeviceInv, WithWiphy, WithFmac, loadVars,
     probeVars, initVars, devVars, vifVars, loopVars
<1>7. CASE ProbeGiveUp
  BY <1>7 DEF ProbeGiveUp, FilesInv, BootInv, DeviceInv, WithWiphy, WithFmac,
     loadVars, probeVars, initVars, devVars, vifVars, loopVars
<1>8. CASE ProbeWiphy
  BY <1>8 DEF ProbeWiphy, Ready, FilesInv, BootInv, DeviceInv, WithWiphy, WithFmac,
     loadVars, probeVars, initVars, devVars, vifVars, loopVars
<1>9. CASE ProbeBus
  BY <1>9 DEF ProbeBus, FilesInv, BootInv, DeviceInv, WithWiphy, WithFmac, loadVars,
     probeVars, initVars, devVars, vifVars, loopVars
<1>10. CASE ProbeBusFail
  BY <1>10 DEF ProbeBusFail, FilesInv, BootInv, DeviceInv, WithWiphy, WithFmac,
     loadVars, probeVars, initVars, devVars, vifVars, loopVars
<1>11. CASE ProbeIntr
  BY <1>11 DEF ProbeIntr, FilesInv, BootInv, DeviceInv, WithWiphy, WithFmac, loadVars,
     probeVars, initVars, devVars, vifVars, loopVars
<1>12. CASE ProbeFwFail
  BY <1>12 DEF ProbeFwFail, Note, FilesInv, BootInv, DeviceInv, WithWiphy, WithFmac,
     loadVars, probeVars, initVars, devVars, vifVars, loopVars
<1>13. CASE ProbeFw
  BY <1>13 DEF ProbeFw, FilesInv, BootInv, DeviceInv, WithWiphy, WithFmac, loadVars,
     probeVars, initVars, devVars, vifVars, loopVars
<1>14. CASE ProbeOtpFail
  BY <1>14 DEF ProbeOtpFail, Note, FilesInv, BootInv, DeviceInv, WithWiphy, WithFmac,
     loadVars, probeVars, initVars, devVars, vifVars, loopVars
<1>15. CASE ProbeAddVif
  BY <1>15 DEF ProbeAddVif, RegisterNetdev, FilesInv, BootInv, DeviceInv, WithWiphy,
     WithFmac, loadVars, probeVars, initVars, devVars, vifVars, loopVars
<1>16. CASE ProbeNoVif
  BY <1>16 DEF ProbeNoVif, ProbeOk, Note, FilesInv, BootInv, DeviceInv, WithWiphy,
     WithFmac, loadVars, probeVars, initVars, devVars, vifVars, loopVars
<1>17. CASE ProbeFmacVif
  BY <1>17 DEF ProbeFmacVif, ProbeOk, Note, FmacAddVif, FilesInv, BootInv, DeviceInv,
     WithWiphy, WithFmac, loadVars, probeVars, initVars, devVars, vifVars, loopVars
<1>18. CASE ProbeDbgfs
  BY <1>18 DEF ProbeDbgfs, FilesInv, BootInv, DeviceInv, WithWiphy, WithFmac,
     loadVars, probeVars, initVars, devVars, vifVars, loopVars
<1>19. CASE ProbeDone
  BY <1>19 DEF ProbeDone, ProbeOk, FilesInv, BootInv, DeviceInv, WithWiphy, WithFmac,
     loadVars, probeVars, initVars, devVars, vifVars, loopVars
<1>20. CASE ProbeInitFail
  BY <1>20 DEF ProbeInitFail, Note, FilesInv, BootInv, DeviceInv, WithWiphy, WithFmac,
     loadVars, probeVars, initVars, devVars, vifVars, loopVars
<1>21. ASSUME NEW u \in Users, AddVif(u) PROVE FilesInv'
  BY <1>21 DEF AddVif, RegisterNetdev, FmacAddVif, FilesInv, BootInv, DeviceInv,
     WithWiphy, WithFmac, loadVars, probeVars, initVars, devVars, vifVars, loopVars
<1>22. ASSUME NEW u \in Ifs, DelVif(u) PROVE FilesInv'
  BY <1>22 DEF DelVif, FreeVif, Note, FilesInv, BootInv, DeviceInv, WithWiphy,
     WithFmac, loadVars, probeVars, initVars, devVars, vifVars, loopVars
<1>23. CASE RemoveStart
  BY <1>23 DEF RemoveStart, FirstOther, FilesInv, BootInv, DeviceInv, WithWiphy,
     WithFmac, loadVars, probeVars, initVars, devVars, vifVars, loopVars
<1>24. CASE RemoveLook
  BY <1>24 DEF RemoveLook, FilesInv, BootInv, DeviceInv, WithWiphy, WithFmac,
     loadVars, probeVars, initVars, devVars, vifVars, loopVars
<1>25. CASE RemoveDel
  BY <1>25 DEF RemoveDel, FilesInv, BootInv, DeviceInv, WithWiphy, WithFmac, loadVars,
     probeVars, initVars, devVars, vifVars, loopVars
<1>26. CASE RemoveClear
  BY <1>26 DEF RemoveClear, FilesInv, BootInv, DeviceInv, WithWiphy, WithFmac,
     loadVars, probeVars, initVars, devVars, vifVars, loopVars
<1>27. CASE RemoveDevDeinit
  BY <1>27 DEF RemoveDevDeinit, FilesInv, BootInv, DeviceInv, WithWiphy, WithFmac,
     loadVars, probeVars, initVars, devVars, vifVars, loopVars
<1>28. CASE RemoveDbgfs
  BY <1>28 DEF RemoveDbgfs, FilesInv, BootInv, DeviceInv, WithWiphy, WithFmac,
     loadVars, probeVars, initVars, devVars, vifVars, loopVars
<1>29. CASE RemoveDefault
  BY <1>29 DEF RemoveDefault, FilesInv, BootInv, DeviceInv, WithWiphy, WithFmac,
     loadVars, probeVars, initVars, devVars, vifVars, loopVars
<1>30. CASE RemoveWiphy
  BY <1>30 DEF RemoveWiphy, FilesInv, BootInv, DeviceInv, WithWiphy, WithFmac,
     loadVars, probeVars, initVars, devVars, vifVars, loopVars
<1>31. CASE RemoveBus
  BY <1>31 DEF RemoveBus, FilesInv, BootInv, DeviceInv, WithWiphy, WithFmac, loadVars,
     probeVars, initVars, devVars, vifVars, loopVars
<1>32. CASE UnloadUseless
  BY <1>32 DEF UnloadUseless, FilesInv, BootInv, DeviceInv, WithWiphy, WithFmac,
     loadVars, probeVars, initVars, devVars, vifVars, loopVars
<1>33. CASE Unload
  BY <1>33 DEF Unload, FilesInv, BootInv, DeviceInv, WithWiphy, WithFmac, loadVars,
     probeVars, initVars, devVars, vifVars, loopVars
<1>34. CASE UnloadFree
  BY <1>34 DEF UnloadFree, FilesInv, BootInv, DeviceInv, WithWiphy, WithFmac,
     loadVars, probeVars, initVars, devVars, vifVars, loopVars
<1>35. CASE UnloadEarly
  BY <1>35 DEF UnloadEarly, Note, FilesInv, BootInv, DeviceInv, WithWiphy, WithFmac,
     loadVars, probeVars, initVars, devVars, vifVars, loopVars
<1>36. CASE Interrupt
  BY <1>36 DEF Interrupt, FilesInv, BootInv, DeviceInv, WithWiphy, WithFmac, loadVars,
     probeVars, initVars, devVars, vifVars, loopVars
<1>37. CASE UNCHANGED vars
  BY <1>37 DEF FilesInv, BootInv, DeviceInv, WithWiphy, WithFmac, vars, loadVars,
     probeVars, initVars, devVars, vifVars, loopVars
<1> QED BY <1>1, <1>2, <1>3, <1>4, <1>5, <1>6, <1>7, <1>8, <1>9, <1>10, <1>11, <1>12,
   <1>13, <1>14, <1>15, <1>16, <1>17, <1>18, <1>19, <1>20, <1>21, <1>22, <1>23, <1>24,
   <1>25, <1>26, <1>27, <1>28, <1>29, <1>30, <1>31, <1>32, <1>33, <1>34, <1>35, <1>36,
   <1>37 DEF Next, Load, Probe, User, Remove, Unloading

\* What went wrong keeps its place.
LEMMA CauseKeep ==
  ASSUME DeviceInv, [Next]_vars
  PROVE  CauseInv'
<1>1. CASE LoadUseless
  BY <1>1 DEF LoadUseless, Insmod, Note, CauseInv, BootInv, ProbeAfterInit, DeviceInv,
     WithWiphy, WithFmac, loadVars, probeVars, initVars, devVars, vifVars, loopVars
<1>2. CASE LoadBus
  BY <1>2 DEF LoadBus, Insmod, CauseInv, BootInv, ProbeAfterInit, DeviceInv,
     WithWiphy, WithFmac, loadVars, probeVars, initVars, devVars, vifVars, loopVars
<1>3. CASE LoadFmacReturns
  BY <1>3 DEF LoadFmacReturns, CauseInv, BootInv, ProbeAfterInit, DeviceInv,
     WithWiphy, WithFmac, loadVars, probeVars, initVars, devVars, vifVars, loopVars
<1>4. CASE LoadDone
  BY <1>4 DEF LoadDone, CauseInv, BootInv, ProbeAfterInit, DeviceInv, WithWiphy,
     WithFmac, loadVars, probeVars, initVars, devVars, vifVars, loopVars
<1>5. CASE RegDrv
  BY <1>5 DEF RegDrv, Note, CauseInv, BootInv, ProbeAfterInit, DeviceInv, WithWiphy,
     WithFmac, loadVars, probeVars, initVars, devVars, vifVars, loopVars
<1>6. CASE ProbeWait
  BY <1>6 DEF ProbeWait, CauseInv, BootInv, ProbeAfterInit, DeviceInv, WithWiphy,
     WithFmac, loadVars, probeVars, initVars, devVars, vifVars, loopVars
<1>7. CASE ProbeGiveUp
  BY <1>7 DEF ProbeGiveUp, CauseInv, BootInv, ProbeAfterInit, DeviceInv, WithWiphy,
     WithFmac, loadVars, probeVars, initVars, devVars, vifVars, loopVars
<1>8. CASE ProbeWiphy
  BY <1>8 DEF ProbeWiphy, Ready, CauseInv, BootInv, ProbeAfterInit, DeviceInv,
     WithWiphy, WithFmac, loadVars, probeVars, initVars, devVars, vifVars, loopVars
<1>9. CASE ProbeBus
  BY <1>9 DEF ProbeBus, CauseInv, BootInv, ProbeAfterInit, DeviceInv, WithWiphy,
     WithFmac, loadVars, probeVars, initVars, devVars, vifVars, loopVars
<1>10. CASE ProbeBusFail
  BY <1>10 DEF ProbeBusFail, CauseInv, BootInv, ProbeAfterInit, DeviceInv, WithWiphy,
     WithFmac, loadVars, probeVars, initVars, devVars, vifVars, loopVars
<1>11. CASE ProbeIntr
  BY <1>11 DEF ProbeIntr, CauseInv, BootInv, ProbeAfterInit, DeviceInv, WithWiphy,
     WithFmac, loadVars, probeVars, initVars, devVars, vifVars, loopVars
<1>12. CASE ProbeFwFail
  BY <1>12 DEF ProbeFwFail, Note, CauseInv, BootInv, ProbeAfterInit, DeviceInv,
     WithWiphy, WithFmac, loadVars, probeVars, initVars, devVars, vifVars, loopVars
<1>13. CASE ProbeFw
  BY <1>13 DEF ProbeFw, CauseInv, BootInv, ProbeAfterInit, DeviceInv, WithWiphy,
     WithFmac, loadVars, probeVars, initVars, devVars, vifVars, loopVars
<1>14. CASE ProbeOtpFail
  BY <1>14 DEF ProbeOtpFail, Note, CauseInv, BootInv, ProbeAfterInit, DeviceInv,
     WithWiphy, WithFmac, loadVars, probeVars, initVars, devVars, vifVars, loopVars
<1>15. CASE ProbeAddVif
  BY <1>15 DEF ProbeAddVif, RegisterNetdev, CauseInv, BootInv, ProbeAfterInit,
     DeviceInv, WithWiphy, WithFmac, loadVars, probeVars, initVars, devVars, vifVars,
     loopVars
<1>16. CASE ProbeNoVif
  BY <1>16 DEF ProbeNoVif, ProbeOk, Note, CauseInv, BootInv, ProbeAfterInit,
     DeviceInv, WithWiphy, WithFmac, loadVars, probeVars, initVars, devVars, vifVars,
     loopVars
<1>17. CASE ProbeFmacVif
  BY <1>17 DEF ProbeFmacVif, ProbeOk, Note, FmacAddVif, CauseInv, BootInv,
     ProbeAfterInit, DeviceInv, WithWiphy, WithFmac, loadVars, probeVars, initVars,
     devVars, vifVars, loopVars
<1>18. CASE ProbeDbgfs
  BY <1>18 DEF ProbeDbgfs, CauseInv, BootInv, ProbeAfterInit, DeviceInv, WithWiphy,
     WithFmac, loadVars, probeVars, initVars, devVars, vifVars, loopVars
<1>19. CASE ProbeDone
  BY <1>19 DEF ProbeDone, ProbeOk, CauseInv, BootInv, ProbeAfterInit, DeviceInv,
     WithWiphy, WithFmac, loadVars, probeVars, initVars, devVars, vifVars, loopVars
<1>20. CASE ProbeInitFail
  BY <1>20 DEF ProbeInitFail, Note, CauseInv, BootInv, ProbeAfterInit, DeviceInv,
     WithWiphy, WithFmac, loadVars, probeVars, initVars, devVars, vifVars, loopVars
<1>21. ASSUME NEW u \in Users, AddVif(u) PROVE CauseInv'
  BY <1>21 DEF AddVif, RegisterNetdev, FmacAddVif, CauseInv, BootInv, ProbeAfterInit,
     DeviceInv, WithWiphy, WithFmac, loadVars, probeVars, initVars, devVars, vifVars,
     loopVars
<1>22. ASSUME NEW u \in Ifs, DelVif(u) PROVE CauseInv'
  BY <1>22 DEF DelVif, FreeVif, Note, CauseInv, BootInv, ProbeAfterInit, DeviceInv,
     WithWiphy, WithFmac, loadVars, probeVars, initVars, devVars, vifVars, loopVars
<1>23. CASE RemoveStart
  BY <1>23 DEF RemoveStart, FirstOther, CauseInv, BootInv, ProbeAfterInit, DeviceInv,
     WithWiphy, WithFmac, loadVars, probeVars, initVars, devVars, vifVars, loopVars
<1>24. CASE RemoveLook
  BY <1>24 DEF RemoveLook, CauseInv, BootInv, ProbeAfterInit, DeviceInv, WithWiphy,
     WithFmac, loadVars, probeVars, initVars, devVars, vifVars, loopVars
<1>25. CASE RemoveDel
  BY <1>25 DEF RemoveDel, CauseInv, BootInv, ProbeAfterInit, DeviceInv, WithWiphy,
     WithFmac, loadVars, probeVars, initVars, devVars, vifVars, loopVars
<1>26. CASE RemoveClear
  BY <1>26 DEF RemoveClear, CauseInv, BootInv, ProbeAfterInit, DeviceInv, WithWiphy,
     WithFmac, loadVars, probeVars, initVars, devVars, vifVars, loopVars
<1>27. CASE RemoveDevDeinit
  BY <1>27 DEF RemoveDevDeinit, CauseInv, BootInv, ProbeAfterInit, DeviceInv,
     WithWiphy, WithFmac, loadVars, probeVars, initVars, devVars, vifVars, loopVars
<1>28. CASE RemoveDbgfs
  BY <1>28 DEF RemoveDbgfs, CauseInv, BootInv, ProbeAfterInit, DeviceInv, WithWiphy,
     WithFmac, loadVars, probeVars, initVars, devVars, vifVars, loopVars
<1>29. CASE RemoveDefault
  BY <1>29 DEF RemoveDefault, CauseInv, BootInv, ProbeAfterInit, DeviceInv, WithWiphy,
     WithFmac, loadVars, probeVars, initVars, devVars, vifVars, loopVars
<1>30. CASE RemoveWiphy
  BY <1>30 DEF RemoveWiphy, CauseInv, BootInv, ProbeAfterInit, DeviceInv, WithWiphy,
     WithFmac, loadVars, probeVars, initVars, devVars, vifVars, loopVars
<1>31. CASE RemoveBus
  BY <1>31 DEF RemoveBus, CauseInv, BootInv, ProbeAfterInit, DeviceInv, WithWiphy,
     WithFmac, loadVars, probeVars, initVars, devVars, vifVars, loopVars
<1>32. CASE UnloadUseless
  BY <1>32 DEF UnloadUseless, CauseInv, BootInv, ProbeAfterInit, DeviceInv, WithWiphy,
     WithFmac, loadVars, probeVars, initVars, devVars, vifVars, loopVars
<1>33. CASE Unload
  BY <1>33 DEF Unload, CauseInv, BootInv, ProbeAfterInit, DeviceInv, WithWiphy,
     WithFmac, loadVars, probeVars, initVars, devVars, vifVars, loopVars
<1>34. CASE UnloadFree
  BY <1>34 DEF UnloadFree, CauseInv, BootInv, ProbeAfterInit, DeviceInv, WithWiphy,
     WithFmac, loadVars, probeVars, initVars, devVars, vifVars, loopVars
<1>35. CASE UnloadEarly
  BY <1>35 DEF UnloadEarly, Note, CauseInv, BootInv, ProbeAfterInit, DeviceInv,
     WithWiphy, WithFmac, loadVars, probeVars, initVars, devVars, vifVars, loopVars
<1>36. CASE Interrupt
  BY <1>36 DEF Interrupt, CauseInv, BootInv, ProbeAfterInit, DeviceInv, WithWiphy,
     WithFmac, loadVars, probeVars, initVars, devVars, vifVars, loopVars
<1>37. CASE UNCHANGED vars
  BY <1>37 DEF CauseInv, BootInv, ProbeAfterInit, DeviceInv, WithWiphy, WithFmac,
     vars, loadVars, probeVars, initVars, devVars, vifVars, loopVars
<1> QED BY <1>1, <1>2, <1>3, <1>4, <1>5, <1>6, <1>7, <1>8, <1>9, <1>10, <1>11, <1>12,
   <1>13, <1>14, <1>15, <1>16, <1>17, <1>18, <1>19, <1>20, <1>21, <1>22, <1>23, <1>24,
   <1>25, <1>26, <1>27, <1>28, <1>29, <1>30, <1>31, <1>32, <1>33, <1>34, <1>35, <1>36,
   <1>37 DEF Next, Load, Probe, User, Remove, Unloading

\* An interface that FMAC takes up gets a slot that was free.
LEMMA AddedSlot ==
  ASSUME TypeOK, NEW u \in Ifs, FmacAddVif(u), FmacIdx # MaxVifs
  PROVE  \E n \in Idx :
           /\ n = FmacIdx /\ slots[n] = "free" /\ slots'[n] = u /\ idx'[u] = n
           /\ \A i \in Idx : i # n => slots'[i] = slots[i]
           /\ \A v \in Ifs : v # u => idx'[v] = idx[v]
<1>1. FmacIdx \in Idx /\ slots[FmacIdx] = "free"
  BY FmacIdxIsFree
<1> DEFINE n == FmacIdx
<1>2. slots' = [slots EXCEPT ![n] = u] /\ idx' = [idx EXCEPT ![u] = n]
  BY DEF FmacAddVif
<1> HIDE DEF n
<1>3. n \in Idx
  BY <1>1 DEF n
<1>4. /\ slots'[n] = u /\ idx'[u] = n
      /\ \A i \in Idx : i # n => slots'[i] = slots[i]
      /\ \A v \in Ifs : v # u => idx'[v] = idx[v]
  BY <1>2, <1>3 DEF TypeOK
<1> QED BY <1>1, <1>3, <1>4 DEF n

\* An interface that the user deletes gives its slot back, and no other.
LEMMA FreedSlot ==
  ASSUME TypeOK, TableInv, NEW u \in Ifs, DelVif(u)
  PROVE  \E n \in Idx \ {0} :
           /\ n = idx[u] /\ slots[n] = u /\ slots'[n] = "free" /\ idx'[u] = MaxVifs
           /\ \A i \in Idx : i # n => slots'[i] = slots[i] /\ slots[i] # u
           /\ \A v \in Ifs : v # u => idx'[v] = idx[v]
<1>1. /\ u \in netdevs /\ idx[u] \in Idx \ {0}
      /\ slots' = [slots EXCEPT ![idx[u]] = "free"] /\ idx' = [idx EXCEPT ![u] = MaxVifs]
  BY DEF DelVif
<1>2. MaxVifs \notin Idx /\ u # "free"
  BY LifecycleAssumption DEF Idx, Ifs
<1>3. slots[idx[u]] = u
  BY <1>1, <1>2 DEF TableInv
<1>4. \A i \in Idx : slots[i] = u => i = idx[u]
  BY <1>2 DEF TableInv
<1> DEFINE n == idx[u]
<1>5. slots' = [slots EXCEPT ![n] = "free"] /\ n \in Idx \ {0} /\ slots[n] = u
  BY <1>1, <1>3
<1>6. \A i \in Idx : i # n => slots[i] # u
  BY <1>4
<1> HIDE DEF n
<1>7. /\ slots'[n] = "free" /\ idx'[u] = MaxVifs
      /\ \A i \in Idx : i # n => slots'[i] = slots[i]
      /\ \A v \in Ifs : v # u => idx'[v] = idx[v]
  BY <1>1, <1>5 DEF TypeOK
<1> QED BY <1>5, <1>6, <1>7 DEF n

\* The loop of the remove clears the slot it took its interface from, and no other.
LEMMA ClearedSlot ==
  ASSUME TypeOK, TableInv, LoopInv, RemoveClear
  PROVE  /\ ri \in Idx \ {0} /\ held \in Ifs /\ held \notin netdevs
         /\ slots[ri] = held /\ slots'[ri] = "free" /\ idx'[held] = MaxVifs
         /\ \A i \in Idx : i # ri => slots'[i] = slots[i] /\ slots[i] # held
         /\ \A v \in Ifs : v # held => idx'[v] = idx[v]
<1>1. /\ rpc = "clear" /\ slots' = [slots EXCEPT ![ri] = "free"]
      /\ idx' = [idx EXCEPT ![held] = MaxVifs]
  BY DEF RemoveClear
<1>2. /\ ri \in Idx /\ ri # 0 /\ held \in Ifs /\ held \notin netdevs /\ slots[ri] = held
  BY <1>1 DEF LoopInv
<1>3. held # "free"
  BY <1>2, LifecycleAssumption DEF Ifs
<1>4. \A i \in Idx : slots[i] = held => i = ri
  BY <1>2, <1>3 DEF TableInv
<1>5. /\ slots'[ri] = "free" /\ idx'[held] = MaxVifs
      /\ \A i \in Idx : i # ri => slots'[i] = slots[i]
      /\ \A v \in Ifs : v # held => idx'[v] = idx[v]
  BY <1>1, <1>2 DEF TypeOK
<1> QED BY <1>2, <1>4, <1>5

\* FMAC's table and the interfaces stay matched.
LEMMA TableKeep ==
  ASSUME DeviceInv, [Next]_vars
  PROVE  TableInv'
<1>1. CASE LoadUseless \/ LoadBus \/ LoadFmacReturns \/ LoadDone
  BY <1>1 DEF LoadUseless, LoadBus, LoadFmacReturns, LoadDone, Insmod, Note, TableInv,
     VifInv, DeviceInv, loadVars, probeVars, initVars, devVars, vifVars, loopVars
<1>2. CASE RegDrv
  BY <1>2 DEF RegDrv, Note, TableInv, VifInv, DeviceInv, loadVars, probeVars,
     initVars, devVars, vifVars, loopVars
<1>3. CASE ProbeWait \/ ProbeGiveUp \/ ProbeWiphy \/ ProbeBus \/ ProbeBusFail
  BY <1>3 DEF ProbeWait, ProbeGiveUp, ProbeWiphy, ProbeBus, ProbeBusFail, Ready,
     TableInv, VifInv, DeviceInv, loadVars, probeVars, initVars, devVars, vifVars,
     loopVars
<1>4. CASE ProbeIntr \/ ProbeFwFail \/ ProbeFw \/ ProbeOtpFail
  BY <1>4 DEF ProbeIntr, ProbeFwFail, ProbeFw, ProbeOtpFail, Note, TableInv, VifInv,
     DeviceInv, loadVars, probeVars, initVars, devVars, vifVars, loopVars
<1>5. CASE ProbeAddVif
  BY <1>5 DEF ProbeAddVif, RegisterNetdev, TableInv, VifInv, DeviceInv, BootInv,
     CauseInv, EmptyInv, loadVars, probeVars, initVars, devVars, vifVars, loopVars
<1>6. CASE ProbeNoVif
  BY <1>6 DEF ProbeNoVif, ProbeOk, Note, TableInv, VifInv, DeviceInv, loadVars,
     probeVars, initVars, devVars, vifVars, loopVars
<1>7. CASE ProbeFmacVif
  <2>1. /\ ppc = "fmac_vif" /\ FmacAddVif("def") /\ netdevs' = netdevs /\ rpc' = rpc
        /\ \/ FmacIdx = 0
           \/ FmacIdx # 0 /\ defVif' = defVif
    BY <1>7 DEF ProbeFmacVif
  <2>2. TypeOK /\ TableInv /\ rpc = "idle" /\ idx["def"] = MaxVifs
    BY <2>1 DEF DeviceInv, BootInv, CauseInv, VifInv, EmptyInv
  <2>3. "def" \in Ifs /\ 0 \in Idx /\ MaxVifs \notin Idx /\ 0 # MaxVifs /\ "free" \notin Ifs
    BY LifecycleAssumption DEF Ifs, Idx
  <2>4. CASE FmacIdx = MaxVifs
    <3>1. slots' = slots /\ idx' = idx
      BY <2>1, <2>2, <2>3, <2>4 DEF FmacAddVif, TypeOK
    <3> QED BY <2>1, <2>2, <2>3, <2>4, <3>1 DEF TableInv
  <2>5. CASE FmacIdx # MaxVifs
    <3>1. PICK n \in Idx :
            /\ n = FmacIdx /\ slots[n] = "free" /\ slots'[n] = "def" /\ idx'["def"] = n
            /\ \A i \in Idx : i # n => slots'[i] = slots[i]
            /\ \A v \in Ifs : v # "def" => idx'[v] = idx[v]
      BY <2>1, <2>2, <2>3, <2>5, AddedSlot
    <3>2. ASSUME NEW v \in netdevs'
          PROVE  idx'[v] \in Idx /\ slots'[idx'[v]] = v
      <4>1. v \in netdevs /\ v \in Ifs
        BY <2>1, <2>2 DEF TypeOK
      <4>2. CASE v = "def"
        BY <3>1, <4>2
      <4>3. CASE v # "def"
        <5>1. idx[v] \in Idx /\ slots[idx[v]] = v /\ v # "free"
          BY <2>2, <2>3, <4>1, <4>3 DEF TableInv
        <5> QED BY <3>1, <4>1, <4>3, <5>1
      <4> QED BY <4>2, <4>3
    <3>3. ASSUME NEW i \in Idx, slots'[i] # "free" PROVE idx'[slots'[i]] = i
      <4>1. CASE i = n
        BY <3>1, <4>1
      <4>2. CASE i # n
        <5>1. slots'[i] = slots[i] /\ slots[i] \in Ifs /\ idx[slots[i]] = i
          BY <2>2, <3>1, <3>3, <4>2 DEF TableInv, TypeOK
        <5> QED BY <2>2, <2>3, <3>1, <5>1
      <4> QED BY <4>1, <4>2
    <3>4. defVif' \/ rpc' \in {"wiphy", "bus"} => slots'[0] = "def"
      <4>1. CASE FmacIdx = 0
        BY <3>1, <4>1
      <4>2. CASE FmacIdx # 0
        BY <2>1, <2>2, <2>3, <3>1, <4>2 DEF TableInv
      <4> QED BY <4>1, <4>2
    <3> QED BY <3>2, <3>3, <3>4 DEF TableInv
  <2> QED BY <2>4, <2>5
<1>8. CASE ProbeDbgfs \/ ProbeDone
  BY <1>8 DEF ProbeDbgfs, ProbeDone, ProbeOk, TableInv, VifInv, DeviceInv, loadVars,
     probeVars, initVars, devVars, vifVars, loopVars
<1>9. CASE ProbeInitFail
  BY <1>9 DEF ProbeInitFail, Note, TableInv, VifInv, DeviceInv, loadVars, probeVars,
     initVars, devVars, vifVars, loopVars
<1>10. ASSUME NEW u \in Users, AddVif(u) PROVE TableInv'
  <2>1. /\ FmacAddVif(u) /\ FmacIdx < MaxVifs /\ netdevs' \subseteq netdevs \union {u}
        /\ (\A i \in Idx : slots[i] # u) /\ defVif' = defVif /\ rpc' = rpc
    BY <1>10 DEF AddVif, RegisterNetdev
  <2>2. TypeOK /\ TableInv
    BY DEF DeviceInv, VifInv
  <2>3. u \in Ifs /\ 0 \in Idx /\ "free" \notin Ifs /\ FmacIdx # MaxVifs
    BY <2>1, LifecycleAssumption DEF Ifs, Idx
  <2>4. PICK n \in Idx :
          /\ n = FmacIdx /\ slots[n] = "free" /\ slots'[n] = u /\ idx'[u] = n
          /\ \A i \in Idx : i # n => slots'[i] = slots[i]
          /\ \A v \in Ifs : v # u => idx'[v] = idx[v]
    BY <2>1, <2>2, <2>3, AddedSlot
  <2>5. ASSUME NEW v \in netdevs'
        PROVE  \/ v = "def" /\ idx'[v] = MaxVifs
               \/ idx'[v] \in Idx /\ slots'[idx'[v]] = v
    <3>1. CASE v = u
      BY <2>4, <3>1
    <3>2. CASE v # u
      <4>1. v \in netdevs /\ v \in Ifs /\ idx'[v] = idx[v] /\ v # "free"
        BY <2>1, <2>2, <2>3, <2>4, <3>2 DEF TypeOK
      <4> QED BY <2>2, <2>4, <4>1 DEF TableInv
    <3> QED BY <3>1, <3>2
  <2>6. ASSUME NEW i \in Idx, slots'[i] # "free" PROVE idx'[slots'[i]] = i
    <3>1. CASE i = n
      BY <2>4, <3>1
    <3>2. CASE i # n
      <4>1. slots'[i] = slots[i] /\ slots[i] \in Ifs /\ idx[slots[i]] = i /\ slots[i] # u
        BY <2>1, <2>2, <2>4, <2>6, <3>2 DEF TableInv, TypeOK
      <4> QED BY <2>4, <4>1
    <3> QED BY <3>1, <3>2
  <2>7. defVif' \/ rpc' \in {"wiphy", "bus"} => slots'[0] = "def"
    BY <2>1, <2>2, <2>3, <2>4 DEF TableInv
  <2> QED BY <2>5, <2>6, <2>7 DEF TableInv
<1>11. ASSUME NEW u \in Ifs, DelVif(u) PROVE TableInv'
  <2>1. netdevs' = netdevs \ {u} /\ defVif' = defVif /\ rpc' = rpc
    BY <1>11 DEF DelVif, FreeVif
  <2>2. TypeOK /\ TableInv /\ 0 \in Idx
    BY LifecycleAssumption DEF DeviceInv, VifInv, Idx
  <2>3. PICK n \in Idx \ {0} :
          /\ n = idx[u] /\ slots[n] = u /\ slots'[n] = "free" /\ idx'[u] = MaxVifs
          /\ \A i \in Idx : i # n => slots'[i] = slots[i] /\ slots[i] # u
          /\ \A v \in Ifs : v # u => idx'[v] = idx[v]
    BY <1>11, <2>2, FreedSlot
  <2>4. ASSUME NEW v \in netdevs'
        PROVE  \/ v = "def" /\ idx'[v] = MaxVifs
               \/ idx'[v] \in Idx /\ slots'[idx'[v]] = v
    <3>1. v \in netdevs /\ v \in Ifs /\ v # u /\ idx'[v] = idx[v]
      BY <2>1, <2>2, <2>3 DEF TypeOK
    <3> QED BY <2>2, <2>3, <3>1 DEF TableInv
  <2>5. ASSUME NEW i \in Idx, slots'[i] # "free" PROVE idx'[slots'[i]] = i
    <3>1. slots'[i] = slots[i] /\ slots[i] \in Ifs /\ idx[slots[i]] = i /\ slots[i] # u
      BY <2>2, <2>3, <2>5 DEF TableInv, TypeOK
    <3> QED BY <2>3, <3>1
  <2>6. defVif' \/ rpc' \in {"wiphy", "bus"} => slots'[0] = "def"
    BY <2>1, <2>2, <2>3 DEF TableInv
  <2> QED BY <2>4, <2>5, <2>6 DEF TableInv
<1>12. CASE RemoveStart
  BY <1>12 DEF RemoveStart, FirstOther, TableInv, VifInv, DeviceInv, loadVars,
     probeVars, initVars, devVars, vifVars, loopVars
<1>13. CASE RemoveLook
  BY <1>13 DEF RemoveLook, TableInv, VifInv, DeviceInv, loadVars, probeVars, initVars,
     devVars, vifVars, loopVars
<1>14. CASE RemoveDel
  BY <1>14 DEF RemoveDel, TableInv, VifInv, DeviceInv, loadVars, probeVars, initVars,
     devVars, vifVars, loopVars
<1>15. CASE RemoveClear
  <2>1. netdevs' = netdevs /\ defVif' = defVif /\ rpc' = "others"
    BY <1>15 DEF RemoveClear
  <2>2. TypeOK /\ TableInv /\ 0 \in Idx
    BY LifecycleAssumption DEF DeviceInv, VifInv, Idx
  <2>3. /\ ri \in Idx \ {0} /\ held \in Ifs /\ held \notin netdevs
        /\ slots[ri] = held /\ slots'[ri] = "free"
        /\ \A i \in Idx : i # ri => slots'[i] = slots[i] /\ slots[i] # held
        /\ \A v \in Ifs : v # held => idx'[v] = idx[v]
    BY <1>15, <2>2, ClearedSlot DEF DeviceInv, VifInv
  <2>4. ASSUME NEW v \in netdevs'
        PROVE  \/ v = "def" /\ idx'[v] = MaxVifs
               \/ idx'[v] \in Idx /\ slots'[idx'[v]] = v
    <3>1. v \in netdevs /\ v \in Ifs /\ v # held /\ idx'[v] = idx[v]
      BY <2>1, <2>2, <2>3 DEF TypeOK
    <3> QED BY <2>2, <2>3, <3>1 DEF TableInv
  <2>5. ASSUME NEW i \in Idx, slots'[i] # "free" PROVE idx'[slots'[i]] = i
    <3>1. slots'[i] = slots[i] /\ slots[i] \in Ifs /\ idx[slots[i]] = i /\ slots[i] # held
      BY <2>2, <2>3, <2>5 DEF TableInv, TypeOK
    <3> QED BY <2>3, <3>1
  <2>6. defVif' \/ rpc' \in {"wiphy", "bus"} => slots'[0] = "def"
    BY <2>1, <2>2, <2>3 DEF TableInv
  <2> QED BY <2>4, <2>5, <2>6 DEF TableInv
<1>16. CASE RemoveDevDeinit \/ RemoveDbgfs
  BY <1>16 DEF RemoveDevDeinit, RemoveDbgfs, TableInv, VifInv, DeviceInv, loadVars,
     probeVars, initVars, devVars, vifVars, loopVars
<1>17. CASE RemoveDefault
  BY <1>17 DEF RemoveDefault, TableInv, VifInv, DeviceInv, CauseInv, loadVars,
     probeVars, initVars, devVars, vifVars, loopVars
<1>18. CASE RemoveWiphy \/ RemoveBus
  BY <1>18 DEF RemoveWiphy, RemoveBus, TableInv, VifInv, DeviceInv, loadVars,
     probeVars, initVars, devVars, vifVars, loopVars
<1>19. CASE UnloadUseless \/ Unload \/ UnloadFree \/ UnloadEarly
  BY <1>19 DEF UnloadUseless, Unload, UnloadFree, UnloadEarly, Note, TableInv, VifInv,
     DeviceInv, loadVars, probeVars, initVars, devVars, vifVars, loopVars
<1>20. CASE Interrupt
  BY <1>20 DEF Interrupt, TableInv, VifInv, DeviceInv, loadVars, probeVars, initVars,
     devVars, vifVars, loopVars
<1>21. CASE UNCHANGED vars
  BY <1>21 DEF TableInv, VifInv, DeviceInv, vars, loadVars, probeVars, initVars,
     devVars, vifVars, loopVars
<1> QED BY <1>1, <1>2, <1>3, <1>4, <1>5, <1>6, <1>7, <1>8, <1>9, <1>10, <1>11, <1>12,
   <1>13, <1>14, <1>15, <1>16, <1>17, <1>18, <1>19, <1>20, <1>21 DEF Next, Load,
   Probe, User, Remove, Unloading

\* Only a failed probe leaves interfaces behind.
LEMMA EmptyKeep ==
  ASSUME DeviceInv, [Next]_vars
  PROVE  EmptyInv'
<1>1. CASE LoadUseless \/ LoadBus \/ LoadFmacReturns \/ LoadDone
  BY <1>1 DEF LoadUseless, LoadBus, LoadFmacReturns, LoadDone, Insmod, Note, EmptyInv,
     VifInv, CauseInv, BootInv, DeviceInv, WithFmac, loadVars, probeVars, initVars,
     devVars, vifVars, loopVars
<1>2. CASE RegDrv
  BY <1>2 DEF RegDrv, Note, EmptyInv, VifInv, CauseInv, BootInv, DeviceInv, WithFmac,
     loadVars, probeVars, initVars, devVars, vifVars, loopVars
<1>3. CASE ProbeWait \/ ProbeGiveUp \/ ProbeWiphy \/ ProbeBus \/ ProbeBusFail
  BY <1>3 DEF ProbeWait, ProbeGiveUp, ProbeWiphy, ProbeBus, ProbeBusFail, Ready,
     EmptyInv, VifInv, CauseInv, BootInv, DeviceInv, WithFmac, loadVars, probeVars,
     initVars, devVars, vifVars, loopVars
<1>4. CASE ProbeIntr \/ ProbeFwFail \/ ProbeFw \/ ProbeOtpFail
  BY <1>4 DEF ProbeIntr, ProbeFwFail, ProbeFw, ProbeOtpFail, Note, EmptyInv, VifInv,
     CauseInv, BootInv, DeviceInv, WithFmac, loadVars, probeVars, initVars, devVars,
     vifVars, loopVars
<1>5. CASE ProbeAddVif
  BY <1>5 DEF ProbeAddVif, RegisterNetdev, EmptyInv, VifInv, CauseInv, BootInv,
     DeviceInv, WithFmac, loadVars, probeVars, initVars, devVars, vifVars, loopVars
<1>6. CASE ProbeNoVif
  BY <1>6 DEF ProbeNoVif, ProbeOk, Note, EmptyInv, VifInv, CauseInv, BootInv,
     DeviceInv, WithFmac, loadVars, probeVars, initVars, devVars, vifVars, loopVars
<1>7. CASE ProbeFmacVif
  <2>1. /\ ppc = "fmac_vif"
        /\ ppc' = "dbgfs" \/ bound' = TRUE
    BY <1>7 DEF ProbeFmacVif, ProbeOk
  <2> QED BY <2>1 DEF EmptyInv, WithFmac
<1>8. CASE ProbeDbgfs \/ ProbeDone
  BY <1>8 DEF ProbeDbgfs, ProbeDone, ProbeOk, EmptyInv, VifInv, CauseInv, BootInv,
     DeviceInv, WithFmac, loadVars, probeVars, initVars, devVars, vifVars, loopVars
<1>9. CASE ProbeInitFail
  BY <1>9 DEF ProbeInitFail, Note, EmptyInv, VifInv, CauseInv, BootInv, DeviceInv,
     WithFmac, loadVars, probeVars, initVars, devVars, vifVars, loopVars
<1>10. ASSUME NEW u \in Users, AddVif(u) PROVE EmptyInv'
  <2>1. fmacDev /\ bound' = bound /\ ppc' = ppc
    BY <1>10 DEF AddVif, probeVars
  <2>2. trouble \subseteq trouble'
    BY <1>10 DEF AddVif, RegisterNetdev
  <2>3. ~bound' /\ "probe_failed" \notin trouble' =>
          ppc \in WithFmac /\ (ppc \notin {"dbgfs", "dev_init"} => idx["def"] = MaxVifs)
    BY <2>1, <2>2 DEF DeviceInv, CauseInv, VifInv, EmptyInv
  <2>4. idx'["def"] = idx["def"]
    BY <1>10, LifecycleAssumption DEF AddVif, FmacAddVif, DeviceInv, TypeOK, Ifs
  <2> QED BY <2>1, <2>3, <2>4 DEF EmptyInv
<1>11. ASSUME NEW u \in Ifs, DelVif(u) PROVE EmptyInv'
  <2>1. u \in netdevs /\ bound' = bound /\ ppc' = ppc /\ trouble \subseteq trouble'
    BY <1>11 DEF DelVif, FreeVif, Note, probeVars
  <2>2. ~bound' /\ "probe_failed" \notin trouble' =>
          ppc \in WithFmac /\ (ppc \notin {"dbgfs", "dev_init"} => idx["def"] = MaxVifs)
    BY <2>1 DEF DeviceInv, VifInv, EmptyInv
  <2>3. idx["def"] = MaxVifs => idx'["def"] = MaxVifs
    BY <1>11 DEF DelVif, DeviceInv, TypeOK, Ifs
  <2> QED BY <2>1, <2>2, <2>3 DEF EmptyInv
<1>12. CASE RemoveStart
  BY <1>12 DEF RemoveStart, FirstOther, EmptyInv, VifInv, CauseInv, BootInv,
     DeviceInv, WithFmac, loadVars, probeVars, initVars, devVars, vifVars, loopVars
<1>13. CASE RemoveLook
  BY <1>13 DEF RemoveLook, EmptyInv, VifInv, CauseInv, BootInv, DeviceInv, WithFmac,
     loadVars, probeVars, initVars, devVars, vifVars, loopVars
<1>14. CASE RemoveDel
  BY <1>14 DEF RemoveDel, EmptyInv, VifInv, CauseInv, BootInv, DeviceInv, WithFmac,
     loadVars, probeVars, initVars, devVars, vifVars, loopVars
<1>15. CASE RemoveClear
  BY <1>15 DEF RemoveClear, EmptyInv, VifInv, CauseInv, BootInv, DeviceInv, WithFmac,
     loadVars, probeVars, initVars, devVars, vifVars, loopVars
<1>16. CASE RemoveDevDeinit \/ RemoveDbgfs
  BY <1>16 DEF RemoveDevDeinit, RemoveDbgfs, EmptyInv, VifInv, CauseInv, BootInv,
     DeviceInv, WithFmac, loadVars, probeVars, initVars, devVars, vifVars, loopVars
<1>17. CASE RemoveDefault
  BY <1>17 DEF RemoveDefault, EmptyInv, VifInv, CauseInv, BootInv, DeviceInv,
     WithFmac, loadVars, probeVars, initVars, devVars, vifVars, loopVars
<1>18. CASE RemoveWiphy \/ RemoveBus
  BY <1>18 DEF RemoveWiphy, RemoveBus, EmptyInv, VifInv, CauseInv, BootInv, DeviceInv,
     WithFmac, loadVars, probeVars, initVars, devVars, vifVars, loopVars
<1>19. CASE UnloadUseless \/ Unload \/ UnloadFree \/ UnloadEarly
  BY <1>19 DEF UnloadUseless, Unload, UnloadFree, UnloadEarly, Note, EmptyInv, VifInv,
     CauseInv, BootInv, DeviceInv, WithFmac, loadVars, probeVars, initVars, devVars,
     vifVars, loopVars
<1>20. CASE Interrupt
  BY <1>20 DEF Interrupt, EmptyInv, VifInv, CauseInv, BootInv, DeviceInv, WithFmac,
     loadVars, probeVars, initVars, devVars, vifVars, loopVars
<1>21. CASE UNCHANGED vars
  BY <1>21 DEF EmptyInv, VifInv, CauseInv, BootInv, DeviceInv, WithFmac, vars,
     loadVars, probeVars, initVars, devVars, vifVars, loopVars
<1> QED BY <1>1, <1>2, <1>3, <1>4, <1>5, <1>6, <1>7, <1>8, <1>9, <1>10, <1>11, <1>12,
   <1>13, <1>14, <1>15, <1>16, <1>17, <1>18, <1>19, <1>20, <1>21 DEF Next, Load,
   Probe, User, Remove, Unloading

\* Without trouble who holds a slot is registered.
LEMMA RegisteredKeep ==
  ASSUME DeviceInv, [Next]_vars
  PROVE  RegisteredInv'
<1>1. CASE LoadUseless \/ LoadBus \/ LoadFmacReturns \/ LoadDone
  BY <1>1 DEF LoadUseless, LoadBus, LoadFmacReturns, LoadDone, Insmod, Note,
     RegisteredInv, VifInv, DeviceInv, loadVars, probeVars, initVars, devVars,
     vifVars, loopVars
<1>2. CASE RegDrv
  BY <1>2 DEF RegDrv, Note, RegisteredInv, VifInv, DeviceInv, loadVars, probeVars,
     initVars, devVars, vifVars, loopVars
<1>3. CASE ProbeWait \/ ProbeGiveUp \/ ProbeWiphy \/ ProbeBus \/ ProbeBusFail
  BY <1>3 DEF ProbeWait, ProbeGiveUp, ProbeWiphy, ProbeBus, ProbeBusFail, Ready,
     RegisteredInv, VifInv, DeviceInv, loadVars, probeVars, initVars, devVars,
     vifVars, loopVars
<1>4. CASE ProbeIntr \/ ProbeFwFail \/ ProbeFw \/ ProbeOtpFail
  BY <1>4 DEF ProbeIntr, ProbeFwFail, ProbeFw, ProbeOtpFail, Note, RegisteredInv,
     VifInv, DeviceInv, loadVars, probeVars, initVars, devVars, vifVars, loopVars
<1>5. CASE ProbeAddVif
  BY <1>5 DEF ProbeAddVif, RegisterNetdev, RegisteredInv, VifInv, DeviceInv, loadVars,
     probeVars, initVars, devVars, vifVars, loopVars
<1>6. CASE ProbeNoVif
  BY <1>6 DEF ProbeNoVif, ProbeOk, Note, RegisteredInv, VifInv, DeviceInv, loadVars,
     probeVars, initVars, devVars, vifVars, loopVars
<1>7. CASE ProbeFmacVif
  <2> SUFFICES ASSUME trouble' = {} PROVE RegisteredInv'
    BY DEF RegisteredInv
  <2>1. /\ ppc = "fmac_vif" /\ ppc' = "dbgfs" /\ FmacIdx = 0 /\ FmacAddVif("def")
        /\ UNCHANGED <<rpc, netdevs, trouble>>
    BY <1>7 DEF ProbeFmacVif, Note
  <2>2. "def" \in Ifs /\ FmacIdx # MaxVifs
    BY <2>1, LifecycleAssumption DEF Ifs
  <2>3. PICK n \in Idx : slots'[n] = "def" /\ \A i \in Idx : i # n => slots'[i] = slots[i]
    BY <2>1, <2>2, AddedSlot DEF DeviceInv
  <2> QED BY <2>1, <2>3 DEF RegisteredInv, VifInv, DeviceInv
<1>8. CASE ProbeDbgfs \/ ProbeDone
  BY <1>8 DEF ProbeDbgfs, ProbeDone, ProbeOk, RegisteredInv, VifInv, DeviceInv,
     loadVars, probeVars, initVars, devVars, vifVars, loopVars
<1>9. CASE ProbeInitFail
  BY <1>9 DEF ProbeInitFail, Note, RegisteredInv, VifInv, DeviceInv, loadVars,
     probeVars, initVars, devVars, vifVars, loopVars
<1>10. ASSUME NEW u \in Users, AddVif(u) PROVE RegisteredInv'
  <2> SUFFICES ASSUME trouble' = {} PROVE RegisteredInv'
    BY DEF RegisteredInv
  <2>1. /\ FmacIdx < MaxVifs /\ FmacAddVif(u) /\ netdevs' = netdevs \union {u}
        /\ trouble = {} /\ ppc' = ppc /\ rpc' = rpc
    BY <1>10 DEF AddVif, RegisterNetdev, probeVars
  <2>2. u \in Ifs /\ FmacIdx # MaxVifs
    BY <2>1, LifecycleAssumption DEF Ifs
  <2>3. PICK n \in Idx : slots'[n] = u /\ \A i \in Idx : i # n => slots'[i] = slots[i]
    BY <2>1, <2>2, AddedSlot DEF DeviceInv
  <2> QED BY <2>1, <2>3 DEF RegisteredInv, VifInv, DeviceInv
<1>11. ASSUME NEW u \in Ifs, DelVif(u) PROVE RegisteredInv'
  <2> SUFFICES ASSUME trouble' = {} PROVE RegisteredInv'
    BY DEF RegisteredInv
  <2>1. /\ netdevs' = netdevs \ {u} /\ trouble = {} /\ ppc' = ppc /\ rpc' = rpc
    BY <1>11 DEF DelVif, FreeVif, Note, probeVars
  <2>2. PICK n \in Idx \ {0} :
          /\ n = idx[u] /\ slots'[n] = "free"
          /\ \A i \in Idx : i # n => slots'[i] = slots[i] /\ slots[i] # u
    BY <1>11, FreedSlot DEF DeviceInv, VifInv
  <2>3. ppc = "fmac_vif" => u # "def"
    <3>1. MaxVifs \notin Idx
      BY LifecycleAssumption DEF Idx
    <3> QED BY <2>1, <2>2, <3>1 DEF DeviceInv, BootInv, VifInv, EmptyInv
  <2> QED BY <2>1, <2>2, <2>3 DEF RegisteredInv, VifInv, DeviceInv
<1>12. CASE RemoveStart
  BY <1>12 DEF RemoveStart, FirstOther, RegisteredInv, VifInv, DeviceInv, loadVars,
     probeVars, initVars, devVars, vifVars, loopVars
<1>13. CASE RemoveLook
  BY <1>13 DEF RemoveLook, RegisteredInv, VifInv, DeviceInv, loadVars, probeVars,
     initVars, devVars, vifVars, loopVars
<1>14. CASE RemoveDel
  BY <1>14 DEF RemoveDel, RegisteredInv, VifInv, DeviceInv, BootInv, loadVars,
     probeVars, initVars, devVars, vifVars, loopVars
<1>15. CASE RemoveClear
  BY <1>15 DEF RemoveClear, RegisteredInv, VifInv, DeviceInv, loadVars, probeVars,
     initVars, devVars, vifVars, loopVars
<1>16. CASE RemoveDevDeinit \/ RemoveDbgfs
  BY <1>16 DEF RemoveDevDeinit, RemoveDbgfs, RegisteredInv, VifInv, DeviceInv,
     loadVars, probeVars, initVars, devVars, vifVars, loopVars
<1>17. CASE RemoveDefault
  BY <1>17 DEF RemoveDefault, RegisteredInv, VifInv, DeviceInv, BootInv, loadVars,
     probeVars, initVars, devVars, vifVars, loopVars
<1>18. CASE RemoveWiphy \/ RemoveBus
  BY <1>18 DEF RemoveWiphy, RemoveBus, RegisteredInv, VifInv, DeviceInv, loadVars,
     probeVars, initVars, devVars, vifVars, loopVars
<1>19. CASE UnloadUseless \/ Unload \/ UnloadFree \/ UnloadEarly
  BY <1>19 DEF UnloadUseless, Unload, UnloadFree, UnloadEarly, Note, RegisteredInv,
     VifInv, DeviceInv, loadVars, probeVars, initVars, devVars, vifVars, loopVars
<1>20. CASE Interrupt
  BY <1>20 DEF Interrupt, RegisteredInv, VifInv, DeviceInv, loadVars, probeVars,
     initVars, devVars, vifVars, loopVars
<1>21. CASE UNCHANGED vars
  BY <1>21 DEF RegisteredInv, VifInv, DeviceInv, vars, loadVars, probeVars, initVars,
     devVars, vifVars, loopVars
<1> QED BY <1>1, <1>2, <1>3, <1>4, <1>5, <1>6, <1>7, <1>8, <1>9, <1>10, <1>11, <1>12,
   <1>13, <1>14, <1>15, <1>16, <1>17, <1>18, <1>19, <1>20, <1>21 DEF Next, Load,
   Probe, User, Remove, Unloading

\* Behind the loop of the remove there is only what came late.
LEMMA LoopKeep ==
  ASSUME DeviceInv, [Next]_vars
  PROVE  LoopInv'
<1>1. CASE LoadUseless \/ LoadBus \/ LoadFmacReturns \/ LoadDone
  BY <1>1 DEF LoadUseless, LoadBus, LoadFmacReturns, LoadDone, Insmod, Note, LoopInv,
     VifInv, BootInv, DeviceInv, loadVars, probeVars, initVars, devVars, vifVars,
     loopVars
<1>2. CASE RegDrv
  BY <1>2 DEF RegDrv, Note, LoopInv, VifInv, BootInv, DeviceInv, loadVars, probeVars,
     initVars, devVars, vifVars, loopVars
<1>3. CASE ProbeWait \/ ProbeGiveUp \/ ProbeWiphy \/ ProbeBus \/ ProbeBusFail
  BY <1>3 DEF ProbeWait, ProbeGiveUp, ProbeWiphy, ProbeBus, ProbeBusFail, Ready,
     LoopInv, VifInv, BootInv, DeviceInv, loadVars, probeVars, initVars, devVars,
     vifVars, loopVars
<1>4. CASE ProbeIntr \/ ProbeFwFail \/ ProbeFw \/ ProbeOtpFail
  BY <1>4 DEF ProbeIntr, ProbeFwFail, ProbeFw, ProbeOtpFail, Note, LoopInv, VifInv,
     BootInv, DeviceInv, loadVars, probeVars, initVars, devVars, vifVars, loopVars
<1>5. CASE ProbeAddVif
  <2>1. rpc = "idle" /\ rpc' = rpc /\ held' = held /\ trouble \subseteq trouble'
    BY <1>5 DEF ProbeAddVif, RegisterNetdev, DeviceInv, BootInv, loopVars
  <2> QED BY <2>1 DEF LoopInv, VifInv, DeviceInv
<1>6. CASE ProbeNoVif
  BY <1>6 DEF ProbeNoVif, ProbeOk, Note, LoopInv, VifInv, BootInv, DeviceInv,
     loadVars, probeVars, initVars, devVars, vifVars, loopVars
<1>7. CASE ProbeFmacVif
  <2>1. rpc = "idle" /\ rpc' = rpc /\ held' = held /\ trouble \subseteq trouble'
    BY <1>7 DEF ProbeFmacVif, ProbeOk, Note, DeviceInv, BootInv, loopVars
  <2> QED BY <2>1 DEF LoopInv, VifInv, DeviceInv
<1>8. CASE ProbeDbgfs \/ ProbeDone
  BY <1>8 DEF ProbeDbgfs, ProbeDone, ProbeOk, LoopInv, VifInv, BootInv, DeviceInv,
     loadVars, probeVars, initVars, devVars, vifVars, loopVars
<1>9. CASE ProbeInitFail
  BY <1>9 DEF ProbeInitFail, Note, LoopInv, VifInv, BootInv, DeviceInv, loadVars,
     probeVars, initVars, devVars, vifVars, loopVars
<1>10. ASSUME NEW u \in Users, AddVif(u) PROVE LoopInv'
  <2>1. /\ FmacIdx < MaxVifs /\ FmacAddVif(u) /\ netdevs' \subseteq netdevs \union {u}
        /\ late' = (IF FmacIdx < ri THEN late \union {u} ELSE late)
        /\ trouble \subseteq trouble' /\ UNCHANGED <<rpc, ri, held>>
        /\ \A i \in Idx : slots[i] # u
    BY <1>10 DEF AddVif, RegisterNetdev
  <2>2. TypeOK /\ LoopInv
    BY DEF DeviceInv, VifInv
  <2>3. /\ u \in Ifs /\ u # "def" /\ "free" \notin Ifs /\ FmacIdx # MaxVifs
        /\ Idx \subseteq Nat
    BY <2>1, LifecycleAssumption DEF Ifs, Idx
  <2>4. PICK n \in Idx :
          /\ n = FmacIdx /\ slots[n] = "free" /\ slots'[n] = u
          /\ \A i \in Idx : i # n => slots'[i] = slots[i]
    BY <2>1, <2>2, <2>3, AddedSlot
  <2>5. ASSUME NEW i \in 1..(ri' - 1), rpc' # "idle", i \in Idx, slots'[i] # "free"
        PROVE  slots'[i] \in late'
    <3>1. CASE i = n
      BY <2>1, <2>2, <2>3, <2>4, <2>5, <3>1 DEF TypeOK
    <3>2. CASE i # n
      BY <2>1, <2>2, <2>4, <2>5, <3>2 DEF LoopInv
    <3> QED BY <3>1, <3>2
  <2>6. rpc' # "idle" => ri' >= 1
    BY <2>1, <2>2 DEF LoopInv
  <2>7. /\ rpc = "lock" => held = "freed" \/ (held \in Ifs /\ slots'[ri] = held)
        /\ rpc = "clear" => held \in Ifs /\ slots'[ri] = held /\ held \notin netdevs'
    <3>1. rpc \in {"lock", "clear"} /\ held \in Ifs /\ slots[ri] = held =>
            ri \in Idx /\ slots'[ri] = held /\ held # u
      BY <2>1, <2>2, <2>3, <2>4 DEF LoopInv
    <3> QED BY <2>1, <2>2, <3>1 DEF LoopInv
  <2>8. rpc \in {"wiphy", "bus"} => "def" \notin netdevs'
    BY <2>1, <2>2, <2>3 DEF LoopInv
  <2> QED BY <2>1, <2>2, <2>5, <2>6, <2>7, <2>8 DEF LoopInv
<1>11. ASSUME NEW u \in Ifs, DelVif(u) PROVE LoopInv'
  <2>1. /\ netdevs' = netdevs \ {u} /\ u \in netdevs /\ late' = late \ {u}
        /\ UNCHANGED <<rpc, ri>>
        /\ \/ held = u /\ held' = "freed" /\ trouble' = trouble \union {"late_del"}
           \/ held # u /\ held' = held /\ trouble' = trouble
    BY <1>11 DEF DelVif, FreeVif, Note
  <2>2. TypeOK /\ LoopInv
    BY DEF DeviceInv, VifInv
  <2>3. PICK n \in Idx \ {0} :
          /\ n = idx[u] /\ slots[n] = u /\ slots'[n] = "free"
          /\ \A i \in Idx : i # n => slots'[i] = slots[i] /\ slots[i] # u
    BY <1>11, FreedSlot DEF DeviceInv, VifInv
  <2>4. rpc' # "idle" => ri' >= 1 /\ \A i \in 1..(ri' - 1) :
          i \in Idx /\ slots'[i] # "free" => slots'[i] \in late'
    BY <2>1, <2>2, <2>3 DEF LoopInv
  <2>5. rpc = "lock" => held' = "freed" \/ (held' \in Ifs /\ slots'[ri] = held')
    BY <2>1, <2>2, <2>3 DEF LoopInv
  <2>6. rpc = "clear" => held' \in Ifs /\ slots'[ri] = held' /\ held' \notin netdevs'
    BY <2>1, <2>2, <2>3 DEF LoopInv
  <2> QED BY <2>1, <2>2, <2>4, <2>5, <2>6 DEF LoopInv
<1>12. CASE RemoveStart
  <2>1. /\ rpc' = "others" /\ ri' = 1 /\ held' = held /\ trouble' = trouble
    BY <1>12 DEF RemoveStart, FirstOther
  <2>2. 1..(1 - 1) = {}
    OBVIOUS
  <2> QED BY <2>1, <2>2 DEF LoopInv, VifInv, DeviceInv
<1>13. CASE RemoveLook
  <2>1. /\ rpc = "others" /\ UNCHANGED <<slots, netdevs, late, trouble>>
        /\ \/ ri \in Idx /\ slots[ri] # "free" /\ held' = slots[ri] /\ rpc' = "lock"
              /\ ri' = ri
           \/ ri \in Idx /\ slots[ri] = "free" /\ ri' = ri + 1 /\ rpc' = rpc
              /\ held' = held
           \/ ri \notin Idx /\ rpc' = "default" /\ ri' = ri /\ held' = held
    BY <1>13 DEF RemoveLook, vifVars
  <2>2. /\ LoopInv /\ ri \in 0..MaxVifs /\ MaxVifs \in Nat /\ "freed" \notin Ifs
        /\ slots \in [Idx -> Ifs \union {"free"}]
    BY LifecycleAssumption DEF DeviceInv, VifInv, TypeOK, Ifs
  <2>3. CASE ri \in Idx /\ slots[ri] # "free" /\ rpc' = "lock"
    BY <2>1, <2>2, <2>3 DEF LoopInv
  <2>4. CASE ri \in Idx /\ slots[ri] = "free" /\ ri' = ri + 1 /\ rpc' = rpc /\ held' = held
    <3>1. \A i \in 1..(ri' - 1) : i \in 1..(ri - 1) \/ i = ri
      BY <2>2, <2>4
    <3> QED BY <2>1, <2>2, <2>4, <3>1 DEF LoopInv
  <2>5. CASE ri \notin Idx /\ rpc' = "default" /\ ri' = ri /\ held' = held
    <3>1. ri = MaxVifs
      BY <2>2, <2>5 DEF Idx
    <3> QED BY <2>1, <2>2, <2>5, <3>1 DEF LoopInv
  <2> QED BY <2>1, <2>3, <2>4, <2>5
<1>14. CASE RemoveDel
  <2>1. /\ rpc = "lock" /\ UNCHANGED <<slots, ri, held, late, trouble>>
        /\ \/ held # "freed" /\ netdevs' = netdevs \ {held} /\ rpc' = "clear"
           \/ netdevs' = netdevs /\ rpc' = rpc
    BY <1>14 DEF RemoveDel, loopVars
  <2>2. LoopInv
    BY DEF DeviceInv, VifInv
  <2> QED BY <2>1, <2>2 DEF LoopInv
<1>15. CASE RemoveClear
  <2>1. /\ netdevs' = netdevs /\ rpc = "clear" /\ rpc' = "others" /\ ri' = ri + 1
        /\ held' = "none" /\ late' = late /\ trouble' = trouble
    BY <1>15 DEF RemoveClear
  <2>2. LoopInv /\ ri \in 0..MaxVifs /\ MaxVifs \in Nat
    BY LifecycleAssumption DEF DeviceInv, VifInv, TypeOK
  <2>3. /\ ri \in Idx \ {0} /\ slots'[ri] = "free"
        /\ \A i \in Idx : i # ri => slots'[i] = slots[i]
    BY <1>15, ClearedSlot DEF DeviceInv, VifInv
  <2>4. \A i \in 1..(ri' - 1) : i \in 1..(ri - 1) \/ i = ri
    BY <2>1, <2>2
  <2>5. ri' >= 1 /\ \A i \in 1..(ri' - 1) :
          i \in Idx /\ slots'[i] # "free" => slots'[i] \in late'
    BY <2>1, <2>2, <2>3, <2>4 DEF LoopInv
  <2> QED BY <2>1, <2>5 DEF LoopInv
<1>16. CASE RemoveDevDeinit \/ RemoveDbgfs
  BY <1>16 DEF RemoveDevDeinit, RemoveDbgfs, LoopInv, VifInv, BootInv, DeviceInv,
     loadVars, probeVars, initVars, devVars, vifVars, loopVars
<1>17. CASE RemoveDefault
  BY <1>17 DEF RemoveDefault, LoopInv, VifInv, BootInv, DeviceInv, loadVars,
     probeVars, initVars, devVars, vifVars, loopVars
<1>18. CASE RemoveWiphy \/ RemoveBus
  BY <1>18 DEF RemoveWiphy, RemoveBus, LoopInv, VifInv, BootInv, DeviceInv, loadVars,
     probeVars, initVars, devVars, vifVars, loopVars
<1>19. CASE UnloadUseless \/ Unload \/ UnloadFree \/ UnloadEarly
  BY <1>19 DEF UnloadUseless, Unload, UnloadFree, UnloadEarly, Note, LoopInv, VifInv,
     BootInv, DeviceInv, loadVars, probeVars, initVars, devVars, vifVars, loopVars
<1>20. CASE Interrupt
  BY <1>20 DEF Interrupt, LoopInv, VifInv, BootInv, DeviceInv, loadVars, probeVars,
     initVars, devVars, vifVars, loopVars
<1>21. CASE UNCHANGED vars
  BY <1>21 DEF LoopInv, VifInv, BootInv, DeviceInv, vars, loadVars, probeVars,
     initVars, devVars, vifVars, loopVars
<1> QED BY <1>1, <1>2, <1>3, <1>4, <1>5, <1>6, <1>7, <1>8, <1>9, <1>10, <1>11, <1>12,
   <1>13, <1>14, <1>15, <1>16, <1>17, <1>18, <1>19, <1>20, <1>21 DEF Next, Load,
   Probe, User, Remove, Unloading
\* Every invalid access has its cause.
LEMMA FaultKeep ==
  ASSUME DeviceInv, [Next]_vars
  PROVE  FaultHasCause'
<1>1. CASE LoadUseless \/ LoadBus \/ LoadFmacReturns \/ LoadDone
  BY <1>1 DEF LoadUseless, LoadBus, LoadFmacReturns, LoadDone, Insmod, Note,
     FaultHasCause, loadVars, probeVars, initVars, devVars, vifVars, loopVars
<1>2. CASE RegDrv
  BY <1>2 DEF RegDrv, Note, FaultHasCause, CauseInv, DeviceInv, loadVars, probeVars,
     initVars, devVars, vifVars, loopVars
<1>3. CASE ProbeWait \/ ProbeGiveUp \/ ProbeWiphy \/ ProbeBusFail
  BY <1>3 DEF ProbeWait, ProbeGiveUp, ProbeWiphy, ProbeBusFail, Ready, FaultHasCause,
     loadVars, probeVars, initVars, devVars, vifVars, loopVars
<1>4. CASE ProbeBus
  BY <1>4 DEF ProbeBus, FaultHasCause, BootInv, ProbeAfterInit, DeviceInv, loadVars,
     probeVars, initVars, devVars, vifVars, loopVars
<1>5. CASE ProbeIntr \/ ProbeFwFail \/ ProbeFw \/ ProbeOtpFail \/ ProbeAddVif
  BY <1>5 DEF ProbeIntr, ProbeFwFail, ProbeFw, ProbeOtpFail, ProbeAddVif, Note,
     RegisterNetdev, FaultHasCause, loadVars, probeVars, initVars, devVars, vifVars,
     loopVars
<1>6. CASE ProbeNoVif \/ ProbeFmacVif
  BY <1>6 DEF ProbeNoVif, ProbeFmacVif, ProbeOk, Note, FmacAddVif, FaultHasCause,
     loadVars, probeVars, initVars, devVars, vifVars, loopVars
<1>7. CASE ProbeDbgfs \/ ProbeDone \/ ProbeInitFail
  BY <1>7 DEF ProbeDbgfs, ProbeDone, ProbeInitFail, ProbeOk, Note, FaultHasCause,
     loadVars, probeVars, initVars, devVars, vifVars, loopVars
<1>8. ASSUME NEW u \in Users, AddVif(u) PROVE FaultHasCause'
  BY <1>8 DEF AddVif, RegisterNetdev, FmacAddVif, FaultHasCause, loadVars, probeVars,
     initVars, devVars, vifVars, loopVars
<1>9. ASSUME NEW u \in Ifs, DelVif(u) PROVE FaultHasCause'
  BY <1>9 DEF DelVif, FreeVif, Note, FaultHasCause, loadVars, probeVars, initVars,
     devVars, vifVars, loopVars
<1>10. CASE RemoveStart \/ RemoveLook \/ RemoveClear
  BY <1>10 DEF RemoveStart, RemoveLook, RemoveClear, FirstOther, FaultHasCause,
     loadVars, probeVars, initVars, devVars, vifVars, loopVars
<1>11. CASE RemoveDel
  BY <1>11 DEF RemoveDel, FaultHasCause, VifInv, LoopInv, DeviceInv, loadVars,
     probeVars, initVars, devVars, vifVars, loopVars
<1>12. CASE RemoveDevDeinit
  BY <1>12 DEF RemoveDevDeinit, FaultHasCause, CauseInv, BootInv, DeviceInv, loadVars,
     probeVars, initVars, devVars, vifVars, loopVars
<1>13. CASE RemoveDbgfs \/ RemoveDefault \/ RemoveWiphy \/ RemoveBus
  BY <1>13 DEF RemoveDbgfs, RemoveDefault, RemoveWiphy, RemoveBus, FaultHasCause,
     loadVars, probeVars, initVars, devVars, vifVars, loopVars
<1>14. CASE UnloadUseless
  BY <1>14 DEF UnloadUseless, FaultHasCause, CauseInv, DeviceInv, loadVars, probeVars,
     initVars, devVars, vifVars, loopVars
<1>15. CASE Unload \/ UnloadEarly
  BY <1>15 DEF Unload, UnloadEarly, Note, FaultHasCause, loadVars, probeVars,
     initVars, devVars, vifVars, loopVars
<1>16. CASE UnloadFree
  BY <1>16 DEF UnloadFree, FaultHasCause, CauseInv, DeviceInv, loadVars, probeVars,
     initVars, devVars, vifVars, loopVars
<1>17. CASE Interrupt
  BY <1>17 DEF Interrupt, FaultHasCause, CauseInv, BootInv, DeviceInv, WithFmac,
     loadVars, probeVars, initVars, devVars, vifVars, loopVars
<1>18. CASE UNCHANGED vars
  BY <1>18 DEF FaultHasCause, DeviceInv, vars, loadVars, probeVars, initVars, devVars,
     vifVars, loopVars
<1> QED BY <1>1, <1>2, <1>3, <1>4, <1>5, <1>6, <1>7, <1>8, <1>9, <1>10, <1>11, <1>12,
   <1>13, <1>14, <1>15, <1>16, <1>17, <1>18 DEF Next, Load, Probe, User, Remove,
   Unloading

\* The initial state.
LEMMA DeviceStart == Init => DeviceInv
<1> SUFFICES ASSUME Init PROVE DeviceInv
  OBVIOUS
<1>1. StepTypes /\ trouble = {}
  BY DEF Init, StepTypes
<1>2. CountTypes
  BY LifecycleAssumption DEF Init, CountTypes, WaitMax
<1>3. LoadFlags /\ DeviceFlags
  BY DEF Init, LoadFlags, DeviceFlags
<1>4. VifTypes
  BY LifecycleAssumption DEF Init, VifTypes
<1>5. TypeOK
  <2>1. LoopTypes
    BY LifecycleAssumption DEF Init, LoopTypes
  <2> QED BY <1>1, <1>2, <1>3, <1>4, <2>1
       DEF TypeOK, StepTypes, CountTypes, LoadFlags, DeviceFlags, VifTypes, LoopTypes
<1>6. BootInv /\ FilesInv /\ CauseInv
  BY DEF Init, BootInv, ProbeAfterInit, FilesInv, CauseInv, WithWiphy, WithFmac
<1>7. VifInv
  BY LifecycleAssumption
     DEF Init, VifInv, TableInv, EmptyInv, RegisteredInv, LoopInv, Ifs
<1>8. FaultHasCause
  BY DEF Init, FaultHasCause
<1> QED BY <1>5, <1>6, <1>7, <1>8 DEF DeviceInv

\* Every step of the life cycle keeps the invariant.
LEMMA DeviceStep ==
  ASSUME DeviceInv, [Next]_vars
  PROVE  DeviceInv'
<1>1. TypeOK'
  BY TypesKeep DEF DeviceInv, VifInv
<1>2. VifInv'
  BY TableKeep, EmptyKeep, RegisteredKeep, LoopKeep DEF VifInv
<1> QED BY <1>1, <1>2, BootKeep, FilesKeep, CauseKeep, FaultKeep DEF DeviceInv

\* So does setting wiphy parameters: it misses the default interface only while
\* a probe or a remove is under way, or after a probe that failed or did without.
LEMMA SetWiphyParamsKeeps ==
  ASSUME DeviceInv, SetWiphyParams
  PROVE  DeviceInv'
<1>1. CASE UNCHANGED vars
  BY <1>1, DeviceStep
<1>2. CASE /\ ~DefaultUsable /\ fault' = "bad_params"
           /\ UNCHANGED <<loadVars, probeVars, rpc, devVars, vifVars, loopVars, trouble>>
  <2>1. wiphy
    BY DEF SetWiphyParams
  <2>2. TypeOK'
    BY <1>2 DEF DeviceInv, TypeOK, loadVars, probeVars, initVars, devVars, vifVars,
       loopVars
  <2>3. BootInv' /\ FilesInv' /\ CauseInv'
    BY <1>2 DEF DeviceInv, BootInv, ProbeAfterInit, FilesInv, CauseInv, loadVars,
       probeVars, initVars, devVars, vifVars
  <2>4. VifInv'
    BY <1>2 DEF DeviceInv, VifInv, TableInv, EmptyInv, RegisteredInv, LoopInv,
       probeVars, vifVars, loopVars
  <2>5. \/ ppc # "idle" \/ rpc # "idle"
        \/ trouble \cap {"no_default", "probe_failed"} # {}
    BY <1>2, <2>1 DEF DefaultUsable, DeviceInv, CauseInv, WithWiphy
  <2>6. FaultHasCause'
    BY <1>2, <2>5 DEF FaultHasCause, probeVars
  <2> QED BY <2>2, <2>3, <2>4, <2>6 DEF DeviceInv
<1> QED BY <1>1, <1>2 DEF SetWiphyParams
-----------------------------------------------------------------------------
(* The steps of the files, of cfg80211 and of the TWT events *)

\* A step is one of the life cycle, an invalid access, or leaves the life cycle be.
LEMMA LifeStep ==
  ASSUME [ConfigNext]_allVars
  PROVE  \/ Next /\ UNCHANGED cfgVars /\ (files /\ ~files' => ~InFile)
         \/ UNCHANGED vars \/ SetWiphyParams
<1>1. ASSUME NEW w \in Writers, Writing(w) PROVE UNCHANGED vars
  BY <1>1 DEF Writing, ConfBegin, ConfSend, ConfStore, TwtParse, TwtCopy, TwtSetup,
     TwtTimeout, TwtTeardown
<1>2. CASE SetPowerMgmt \/ Events \/ Reading
  BY <1>2 DEF SetPowerMgmt, Events, TwtEventFlow, TwtEventRest, TwtEventAvail,
     TwtTeardownEvent, Reading, StatsGet, StatsFlow, StatsRest
<1>3. CASE UNCHANGED allVars
  BY <1>3 DEF allVars
<1> QED BY <1>1, <1>2, <1>3 DEF ConfigNext, Cfg80211

\* Every step keeps the invariant of the device.
LEMMA DeviceKeep ==
  ASSUME DeviceInv, [ConfigNext]_allVars
  PROVE  DeviceInv'
<1>1. CASE Next \/ UNCHANGED vars
  BY <1>1, DeviceStep
<1>2. CASE SetWiphyParams
  BY <1>2, SetWiphyParamsKeeps
<1> QED BY <1>1, <1>2, LifeStep

\* Operations are counted up to the bound.
LEMMA NewOpCounts ==
  ASSUME ConfTypes, NewOp
  PROVE  nconf' \in 0..MaxConf
BY ConfigAssumption DEF ConfTypes, NewOp

\* The types.
LEMMA ConfTypesKeep ==
  ASSUME ConfigInv, [ConfigNext]_allVars
  PROVE  ConfTypes'
<1>1. ConfTypes /\ WriterInv /\ ShadowInv /\ Vals = Flows
  BY DEF ConfigInv, Vals, Flows
<1>2. CASE UNCHANGED cfgVars
  BY <1>1, <1>2 DEF ConfTypes, cfgVars, confVars, twtVars
<1>3. ASSUME NEW w \in Writers, ConfBegin(w) PROVE ConfTypes'
  <2>1. PICK p \in Params : clash' = IF Setting(p) THEN clash \union {p} ELSE clash
    BY <1>3 DEF ConfBegin
  <2>2. clash' \subseteq Params
    BY <1>1, <2>1 DEF ConfTypes
  <2>3. nconf' \in 0..MaxConf
    BY <1>1, <1>3, NewOpCounts DEF ConfBegin
  <2>4. wpc' \in [Writers -> {"idle", "send", "store", "copy", "setup", "wait"}]
    BY <1>1, <1>3 DEF ConfBegin, Goto, ConfTypes
  <2> QED BY <1>1, <1>3, <2>2, <2>3, <2>4 DEF ConfBegin, ConfTypes, twtVars
<1>4. ASSUME NEW w \in Writers, ConfSend(w) PROVE ConfTypes'
  <2>1. arg[w].p \in Params /\ arg[w].v \in Vals
    BY <1>1, <1>4 DEF ConfSend, WriterInv, ShadowInv
  <2> QED BY <1>1, <1>4, <2>1 DEF ConfSend, Goto, ConfTypes, Outcome, twtVars
<1>5. ASSUME NEW w \in Writers, ConfStore(w) PROVE ConfTypes'
  <2>1. arg[w].p \in Params /\ arg[w].v \in Vals
    BY <1>1, <1>5 DEF ConfStore, WriterInv, ShadowInv
  <2> QED BY <1>1, <1>5, <2>1 DEF ConfStore, Goto, ConfTypes, twtVars
<1>6. ASSUME NEW w \in Writers, TwtParse(w) PROVE ConfTypes'
  <2>1. nconf' \in 0..MaxConf
    BY <1>1, <1>6, NewOpCounts DEF TwtParse
  <2>2. wpc' \in [Writers -> {"idle", "send", "store", "copy", "setup", "wait"}]
    BY <1>1, <1>6 DEF TwtParse, Goto, ConfTypes
  <2>3. tries' \in [Writers -> 0..2]
    BY <1>1, <1>6 DEF TwtParse, ConfTypes
  <2> QED BY <1>1, <1>6, <2>1, <2>2, <2>3 DEF TwtParse, ConfTypes
<1>7. ASSUME NEW w \in Writers, TwtCopy(w) PROVE ConfTypes'
  BY <1>1, <1>7 DEF TwtCopy, Goto, ConfTypes, twtVars
<1>8. ASSUME NEW w \in Writers, TwtSetup(w) PROVE ConfTypes'
  <2>1. arg[w].v \in Flows
    BY <1>1 DEF WriterInv
  <2>2. fwFlows' \subseteq Flows
    BY <1>1, <1>8, <2>1 DEF TwtSetup, ConfTypes
  <2>3. wpc' \in [Writers -> {"idle", "send", "store", "copy", "setup", "wait"}]
    BY <1>1, <1>8 DEF TwtSetup, Goto, ConfTypes
  <2> QED BY <1>1, <1>8, <2>2, <2>3 DEF TwtSetup, ConfTypes
<1>9. ASSUME NEW w \in Writers, TwtTimeout(w) PROVE ConfTypes'
  BY <1>1, <1>9 DEF TwtTimeout, Goto, ConfTypes, WriterInv
<1>10. ASSUME NEW w \in Writers, TwtTeardown(w) PROVE ConfTypes'
  <2>1. nconf' \in 0..MaxConf
    BY <1>1, <1>10, NewOpCounts DEF TwtTeardown
  <2>2. fwFlows' \subseteq Flows
    BY <1>1, <1>10 DEF TwtTeardown, ConfTypes
  <2> QED BY <1>1, <1>10, <2>1, <2>2 DEF TwtTeardown, ConfTypes
<1>11. CASE SetPowerMgmt \/ SetWiphyParams
  <2>1. nconf' \in 0..MaxConf
    BY <1>1, <1>11, NewOpCounts DEF SetPowerMgmt, SetWiphyParams
  <2>2. CASE \E p \in Params, v \in Vals, ok \in Outcome : SetPast(p, v, ok)
    <3>1. PICK p \in Params, v \in Vals, ok \in Outcome : SetPast(p, v, ok)
      BY <2>2
    <3>2. fw' \in [Params -> Vals \union {Default}] /\ clash' \subseteq Params
      BY <1>1, <3>1 DEF SetPast, ConfTypes
    <3> QED BY <1>1, <1>11, <2>1, <3>2 DEF SetPowerMgmt, SetWiphyParams, ConfTypes,
            twtVars
  <2>3. CASE UNCHANGED <<fw, clash>>
    BY <1>1, <1>11, <2>1, <2>3 DEF SetPowerMgmt, SetWiphyParams, ConfTypes, twtVars
  <2>4. "power_save" \in Params /\ "rts_threshold" \in Params /\ 1 \in Vals
    BY DEF Params, Vals
  <2> QED BY <1>11, <2>2, <2>3, <2>4 DEF SetPowerMgmt, SetWiphyParams
<1>12. CASE Events \/ StatsFlow \/ StatsRest
  BY <1>1, <1>12 DEF Events, TwtEventFlow, TwtEventRest, TwtEventAvail,
     TwtTeardownEvent, StatsFlow, StatsRest, ConfTypes, confVars, twtVars
<1>13. CASE StatsGet
  <2>1. nconf' \in 0..MaxConf
    BY <1>1, <1>13, NewOpCounts DEF StatsGet
  <2> QED BY <1>1, <1>13, <2>1 DEF StatsGet, ConfTypes, twtVars
<1> QED BY <1>2, <1>3, <1>4, <1>5, <1>6, <1>7, <1>8, <1>9, <1>10, <1>11, <1>12, <1>13
        DEF ConfigNext, Writing, Cfg80211, Reading, allVars

\* The writers keep what they were given.
LEMMA WriterKeep ==
  ASSUME ConfigInv, [ConfigNext]_allVars
  PROVE  WriterInv'
<1>1. CASE Next /\ UNCHANGED cfgVars /\ (files /\ ~files' => ~InFile)
  BY <1>1 DEF WriterInv, ConfTypes, ConfigInv, Vals, Flows, allVars, cfgVars,
     confVars, twtVars, evtVars
<1>2. ASSUME NEW w \in Writers, ConfBegin(w) PROVE WriterInv'
  BY <1>2 DEF ConfBegin, NewOp, Goto, Setting, WriterInv, ConfTypes, ConfigInv,
     Vals, Flows, allVars, cfgVars, confVars, twtVars, evtVars
<1>3. ASSUME NEW w \in Writers, ConfSend(w) PROVE WriterInv'
  BY <1>3 DEF ConfSend, Goto, WriterInv, ConfTypes, ConfigInv, Vals, Flows,
     allVars, cfgVars, confVars, twtVars, evtVars
<1>4. ASSUME NEW w \in Writers, ConfStore(w) PROVE WriterInv'
  BY <1>4 DEF ConfStore, Goto, WriterInv, ConfTypes, ConfigInv, Vals, Flows,
     allVars, cfgVars, confVars, twtVars, evtVars
<1>5. ASSUME NEW w \in Writers, TwtParse(w) PROVE WriterInv'
  BY <1>5 DEF TwtParse, NewOp, Goto, WriterInv, ConfTypes, ConfigInv, Vals,
     Flows, allVars, cfgVars, confVars, twtVars, evtVars
<1>6. ASSUME NEW w \in Writers, TwtCopy(w) PROVE WriterInv'
  BY <1>6 DEF TwtCopy, Goto, WriterInv, ConfTypes, ConfigInv, Vals, Flows,
     allVars, cfgVars, confVars, twtVars, evtVars
<1>7. ASSUME NEW w \in Writers, TwtSetup(w) PROVE WriterInv'
  BY <1>7 DEF TwtSetup, Goto, WriterInv, ConfTypes, ConfigInv, Vals, Flows,
     allVars, cfgVars, confVars, twtVars, evtVars
<1>8. ASSUME NEW w \in Writers, TwtTimeout(w) PROVE WriterInv'
  BY <1>8 DEF TwtTimeout, Goto, WriterInv, ConfTypes, ConfigInv, Vals, Flows,
     allVars, cfgVars, confVars, twtVars, evtVars
<1>9. ASSUME NEW w \in Writers, TwtTeardown(w) PROVE WriterInv'
  BY <1>9 DEF TwtTeardown, NewOp, WriterInv, ConfTypes, ConfigInv, Vals, Flows,
     allVars, cfgVars, confVars, twtVars, evtVars
<1>10. CASE SetPowerMgmt
  BY <1>10 DEF SetPowerMgmt, NewOp, SetPast, WriterInv, ConfTypes, ConfigInv,
     Vals, Flows, allVars, cfgVars, confVars, twtVars, evtVars
<1>11. CASE SetWiphyParams
  BY <1>11 DEF SetWiphyParams, NewOp, SetPast, WriterInv, ConfTypes, ConfigInv,
     Vals, Flows, allVars, cfgVars, confVars, twtVars, evtVars
<1>12. CASE TwtEventFlow
  BY <1>12 DEF TwtEventFlow, NewEvent, WriterInv, ConfTypes, ConfigInv, Vals,
     Flows, allVars, cfgVars, confVars, twtVars, evtVars
<1>13. CASE TwtEventRest
  BY <1>13 DEF TwtEventRest, WriterInv, ConfTypes, ConfigInv, Vals, Flows,
     allVars, cfgVars, confVars, twtVars, evtVars
<1>14. CASE TwtEventAvail
  BY <1>14 DEF TwtEventAvail, WriterInv, ConfTypes, ConfigInv, Vals, Flows,
     allVars, cfgVars, confVars, twtVars, evtVars
<1>15. CASE TwtTeardownEvent
  BY <1>15 DEF TwtTeardownEvent, NewEvent, WriterInv, ConfTypes, ConfigInv, Vals,
     Flows, allVars, cfgVars, confVars, twtVars, evtVars
<1>16. CASE StatsGet
  BY <1>16 DEF StatsGet, NewOp, WriterInv, ConfTypes, ConfigInv, Vals, Flows,
     allVars, cfgVars, confVars, twtVars, evtVars
<1>17. CASE StatsFlow
  BY <1>17 DEF StatsFlow, WriterInv, ConfTypes, ConfigInv, Vals, Flows, allVars,
     cfgVars, confVars, twtVars, evtVars
<1>18. CASE StatsRest
  BY <1>18 DEF StatsRest, WriterInv, ConfTypes, ConfigInv, Vals, Flows, allVars,
     cfgVars, confVars, twtVars, evtVars
<1>19. CASE UNCHANGED allVars
  BY <1>19 DEF WriterInv, ConfTypes, ConfigInv, Vals, Flows, vars, allVars,
     cfgVars, confVars, twtVars, evtVars
<1> QED BY <1>1, <1>2, <1>3, <1>4, <1>5, <1>6, <1>7, <1>8, <1>9, <1>10, <1>11,
   <1>12, <1>13, <1>14, <1>15, <1>16, <1>17, <1>18, <1>19 DEF ConfigNext, Writing,
   Cfg80211, Events, Reading

\* A shadow that only one writer sets stays what the firmware has.
LEMMA ShadowKeep ==
  ASSUME ConfigInv, [ConfigNext]_allVars
  PROVE  ShadowInv'
<1>1. CASE Next /\ UNCHANGED cfgVars /\ (files /\ ~files' => ~InFile)
  BY <1>1 DEF ShadowInv, WriterInv, ConfTypes, ConfigInv, allVars, cfgVars,
     confVars, twtVars, evtVars
<1>2. ASSUME NEW w \in Writers, ConfBegin(w) PROVE ShadowInv'
  BY <1>2 DEF ConfBegin, NewOp, Goto, Setting, ShadowInv, WriterInv, ConfTypes,
     ConfigInv, allVars, cfgVars, confVars, twtVars, evtVars
<1>3. ASSUME NEW w \in Writers, ConfSend(w) PROVE ShadowInv'
  BY <1>3 DEF ConfSend, Goto, ShadowInv, WriterInv, ConfTypes, ConfigInv,
     allVars, cfgVars, confVars, twtVars, evtVars
<1>4. ASSUME NEW w \in Writers, ConfStore(w) PROVE ShadowInv'
  BY <1>4 DEF ConfStore, Goto, ShadowInv, WriterInv, ConfTypes, ConfigInv,
     allVars, cfgVars, confVars, twtVars, evtVars
<1>5. ASSUME NEW w \in Writers, TwtParse(w) PROVE ShadowInv'
  BY <1>5 DEF TwtParse, NewOp, Goto, ShadowInv, WriterInv, ConfTypes, ConfigInv,
     allVars, cfgVars, confVars, twtVars, evtVars
<1>6. ASSUME NEW w \in Writers, TwtCopy(w) PROVE ShadowInv'
  BY <1>6 DEF TwtCopy, Goto, ShadowInv, WriterInv, ConfTypes, ConfigInv, allVars,
     cfgVars, confVars, twtVars, evtVars
<1>7. ASSUME NEW w \in Writers, TwtSetup(w) PROVE ShadowInv'
  BY <1>7 DEF TwtSetup, Goto, ShadowInv, WriterInv, ConfTypes, ConfigInv,
     allVars, cfgVars, confVars, twtVars, evtVars
<1>8. ASSUME NEW w \in Writers, TwtTimeout(w) PROVE ShadowInv'
  BY <1>8 DEF TwtTimeout, Goto, ShadowInv, WriterInv, ConfTypes, ConfigInv,
     allVars, cfgVars, confVars, twtVars, evtVars
<1>9. ASSUME NEW w \in Writers, TwtTeardown(w) PROVE ShadowInv'
  BY <1>9 DEF TwtTeardown, NewOp, ShadowInv, WriterInv, ConfTypes, ConfigInv,
     allVars, cfgVars, confVars, twtVars, evtVars
<1>10. CASE SetPowerMgmt
  BY <1>10 DEF SetPowerMgmt, NewOp, SetPast, ShadowInv, WriterInv, ConfTypes,
     ConfigInv, allVars, cfgVars, confVars, twtVars, evtVars
<1>11. CASE SetWiphyParams
  BY <1>11 DEF SetWiphyParams, NewOp, SetPast, ShadowInv, WriterInv, ConfTypes,
     ConfigInv, allVars, cfgVars, confVars, twtVars, evtVars
<1>12. CASE TwtEventFlow
  BY <1>12 DEF TwtEventFlow, NewEvent, ShadowInv, WriterInv, ConfTypes,
     ConfigInv, allVars, cfgVars, confVars, twtVars, evtVars
<1>13. CASE TwtEventRest
  BY <1>13 DEF TwtEventRest, ShadowInv, WriterInv, ConfTypes, ConfigInv, allVars,
     cfgVars, confVars, twtVars, evtVars
<1>14. CASE TwtEventAvail
  BY <1>14 DEF TwtEventAvail, ShadowInv, WriterInv, ConfTypes, ConfigInv,
     allVars, cfgVars, confVars, twtVars, evtVars
<1>15. CASE TwtTeardownEvent
  BY <1>15 DEF TwtTeardownEvent, NewEvent, ShadowInv, WriterInv, ConfTypes,
     ConfigInv, allVars, cfgVars, confVars, twtVars, evtVars
<1>16. CASE StatsGet
  BY <1>16 DEF StatsGet, NewOp, ShadowInv, WriterInv, ConfTypes, ConfigInv,
     allVars, cfgVars, confVars, twtVars, evtVars
<1>17. CASE StatsFlow
  BY <1>17 DEF StatsFlow, ShadowInv, WriterInv, ConfTypes, ConfigInv, allVars,
     cfgVars, confVars, twtVars, evtVars
<1>18. CASE StatsRest
  BY <1>18 DEF StatsRest, ShadowInv, WriterInv, ConfTypes, ConfigInv, allVars,
     cfgVars, confVars, twtVars, evtVars
<1>19. CASE UNCHANGED allVars
  BY <1>19 DEF ShadowInv, WriterInv, ConfTypes, ConfigInv, vars, allVars,
     cfgVars, confVars, twtVars, evtVars
<1> QED BY <1>1, <1>2, <1>3, <1>4, <1>5, <1>6, <1>7, <1>8, <1>9, <1>10, <1>11,
   <1>12, <1>13, <1>14, <1>15, <1>16, <1>17, <1>18, <1>19 DEF ConfigNext, Writing,
   Cfg80211, Events, Reading

\* A file operation holds the files in place.
LEMMA FileKeep ==
  ASSUME ConfigInv, [ConfigNext]_allVars
  PROVE  FileInv'
<1>1. CASE Next /\ UNCHANGED cfgVars /\ (files /\ ~files' => ~InFile)
  BY <1>1 DEF FileInv, InFile, ConfigInv, cfgVars, confVars
<1>2. (~InFile /\ InFile') => files
  <2>1. ASSUME NEW w \in Writers, Writing(w) PROVE files \/ wpc[w] # "idle"
    BY <2>1 DEF Writing, ConfBegin, ConfSend, ConfStore, TwtParse, TwtCopy, TwtSetup,
       TwtTimeout, TwtTeardown
  <2>2. CASE Cfg80211 \/ Events
    BY <2>2 DEF Cfg80211, SetPowerMgmt, SetWiphyParams, Events, TwtEventFlow,
       TwtEventRest, TwtEventAvail, TwtTeardownEvent, InFile, confVars
  <2>3. CASE StatsGet
    BY <2>3 DEF StatsGet
  <2>4. CASE StatsFlow \/ StatsRest
    BY <2>4 DEF StatsFlow, StatsRest, InFile
  <2>5. CASE UNCHANGED cfgVars
    BY <2>5 DEF InFile, cfgVars, confVars
  <2> QED BY <2>1, <2>2, <2>3, <2>4, <2>5 DEF ConfigNext, Reading, InFile, allVars
<1>3. CASE UNCHANGED vars \/ SetWiphyParams
  <2>1. files' = files
    BY <1>3 DEF SetWiphyParams, vars, devVars, initVars
  <2> QED BY <1>2, <2>1 DEF FileInv, ConfigInv
<1> QED BY <1>1, <1>3, LifeStep

\* The first event is filled in before it is marked.
LEMMA EventKeep ==
  ASSUME ConfigInv, [ConfigNext]_allVars
  PROVE  EventInv'
<1>1. CASE Next /\ UNCHANGED cfgVars /\ (files /\ ~files' => ~InFile)
  BY <1>1 DEF EventInv, ConfigInv, ConfTypes, Flows, allVars, cfgVars, confVars,
     twtVars, evtVars
<1>2. ASSUME NEW w \in Writers, ConfBegin(w) PROVE EventInv'
  BY <1>2 DEF ConfBegin, NewOp, Goto, Setting, EventInv, ConfigInv, ConfTypes,
     Flows, allVars, cfgVars, confVars, twtVars, evtVars
<1>3. ASSUME NEW w \in Writers, ConfSend(w) PROVE EventInv'
  BY <1>3 DEF ConfSend, Goto, EventInv, ConfigInv, ConfTypes, Flows, allVars,
     cfgVars, confVars, twtVars, evtVars
<1>4. ASSUME NEW w \in Writers, ConfStore(w) PROVE EventInv'
  BY <1>4 DEF ConfStore, Goto, EventInv, ConfigInv, ConfTypes, Flows, allVars,
     cfgVars, confVars, twtVars, evtVars
<1>5. ASSUME NEW w \in Writers, TwtParse(w) PROVE EventInv'
  BY <1>5 DEF TwtParse, NewOp, Goto, EventInv, ConfigInv, ConfTypes, Flows,
     allVars, cfgVars, confVars, twtVars, evtVars
<1>6. ASSUME NEW w \in Writers, TwtCopy(w) PROVE EventInv'
  BY <1>6 DEF TwtCopy, Goto, EventInv, ConfigInv, ConfTypes, Flows, allVars,
     cfgVars, confVars, twtVars, evtVars
<1>7. ASSUME NEW w \in Writers, TwtSetup(w) PROVE EventInv'
  BY <1>7 DEF TwtSetup, Goto, EventInv, ConfigInv, ConfTypes, Flows, allVars,
     cfgVars, confVars, twtVars, evtVars
<1>8. ASSUME NEW w \in Writers, TwtTimeout(w) PROVE EventInv'
  BY <1>8 DEF TwtTimeout, Goto, EventInv, ConfigInv, ConfTypes, Flows, allVars,
     cfgVars, confVars, twtVars, evtVars
<1>9. ASSUME NEW w \in Writers, TwtTeardown(w) PROVE EventInv'
  BY <1>9 DEF TwtTeardown, NewOp, EventInv, ConfigInv, ConfTypes, Flows, allVars,
     cfgVars, confVars, twtVars, evtVars
<1>10. CASE SetPowerMgmt
  BY <1>10 DEF SetPowerMgmt, NewOp, SetPast, EventInv, ConfigInv, ConfTypes,
     Flows, allVars, cfgVars, confVars, twtVars, evtVars
<1>11. CASE SetWiphyParams
  BY <1>11 DEF SetWiphyParams, NewOp, SetPast, EventInv, ConfigInv, ConfTypes,
     Flows, allVars, cfgVars, confVars, twtVars, evtVars
<1>12. CASE TwtEventFlow
  BY <1>12 DEF TwtEventFlow, NewEvent, EventInv, ConfigInv, ConfTypes, Flows,
     allVars, cfgVars, confVars, twtVars, evtVars
<1>13. CASE TwtEventRest
  BY <1>13 DEF TwtEventRest, EventInv, ConfigInv, ConfTypes, Flows, allVars,
     cfgVars, confVars, twtVars, evtVars
<1>14. CASE TwtEventAvail
  BY <1>14 DEF TwtEventAvail, EventInv, ConfigInv, ConfTypes, Flows, allVars,
     cfgVars, confVars, twtVars, evtVars
<1>15. CASE TwtTeardownEvent
  BY <1>15 DEF TwtTeardownEvent, NewEvent, EventInv, ConfigInv, ConfTypes, Flows,
     allVars, cfgVars, confVars, twtVars, evtVars
<1>16. CASE StatsGet
  BY <1>16 DEF StatsGet, NewOp, EventInv, ConfigInv, ConfTypes, Flows, allVars,
     cfgVars, confVars, twtVars, evtVars
<1>17. CASE StatsFlow
  BY <1>17 DEF StatsFlow, EventInv, ConfigInv, ConfTypes, Flows, allVars,
     cfgVars, confVars, twtVars, evtVars
<1>18. CASE StatsRest
  BY <1>18 DEF StatsRest, EventInv, ConfigInv, ConfTypes, Flows, allVars,
     cfgVars, confVars, twtVars, evtVars
<1>19. CASE UNCHANGED allVars
  BY <1>19 DEF EventInv, ConfigInv, ConfTypes, Flows, vars, allVars, cfgVars,
     confVars, twtVars, evtVars
<1> QED BY <1>1, <1>2, <1>3, <1>4, <1>5, <1>6, <1>7, <1>8, <1>9, <1>10, <1>11,
   <1>12, <1>13, <1>14, <1>15, <1>16, <1>17, <1>18, <1>19 DEF ConfigNext, Writing,
   Cfg80211, Events, Reading
-----------------------------------------------------------------------------
(* Together *)

\* The initial state.
LEMMA ConfigStart == ConfigInit => ConfigInv
<1> SUFFICES ASSUME ConfigInit PROVE ConfigInv
  OBVIOUS
<1>1. DeviceInv
  BY DeviceStart DEF ConfigInit
<1>2. wpc = [w \in Writers |-> "idle"] /\ stored = {} /\ rd.step = "idle"
  BY DEF ConfigInit
<1>3. ConfTypes
  <2>1. nconf \in 0..MaxConf
    BY ConfigAssumption DEF ConfigInit
  <2>2. /\ shadow \in [Params -> Vals] /\ fw \in [Params -> Vals \union {Default}]
        /\ twtCmd \in Flows
    BY DEF ConfigInit, Vals, Flows
  <2> QED BY <1>2, <2>1, <2>2 DEF ConfigInit, ConfTypes
<1>4. WriterInv /\ ShadowInv
  BY <1>2 DEF ConfigInit, WriterInv, ShadowInv, Vals
<1>5. FileInv
  BY <1>2 DEF FileInv, InFile
<1>6. EventInv
  BY DEF ConfigInit, EventInv, Flows
<1> QED BY <1>1, <1>3, <1>4, <1>5, <1>6 DEF ConfigInv

\* ConfigInv is an invariant of the device and its files.
LEMMA ConfigInvariant == ConfigSpec => []ConfigInv
<1>1. ConfigInv /\ [ConfigNext]_allVars => ConfigInv'
  <2> SUFFICES ASSUME ConfigInv, [ConfigNext]_allVars PROVE ConfigInv'
    OBVIOUS
  <2>1. DeviceInv'
    BY DeviceKeep DEF ConfigInv
  <2> QED BY <2>1, ConfTypesKeep, WriterKeep, ShadowKeep, FileKeep, EventKeep DEF ConfigInv
<1> QED BY <1>1, ConfigStart, PTL DEF ConfigSpec

\* Types of the life cycle and of the files.
THEOREM ConfigTypes == ConfigSpec => []ConfigTypeOK
<1>1. ConfigInv => ConfigTypeOK
  BY DEF ConfigInv, DeviceInv, ConfTypes, ConfigTypeOK
<1> QED BY <1>1, ConfigInvariant, PTL

\* The probe, in its work item, gets past its wait only when nrf_wifi_init_lnx has
\* finished, and the driver stays initialised until the probe has ended.
THEOREM ProbesFollowInit == ConfigSpec => []ProbeAfterInit
<1>1. ConfigInv => ProbeAfterInit
  BY DEF ConfigInv, DeviceInv, BootInv
<1> QED BY <1>1, ConfigInvariant, PTL

\* Between operations FMAC's table and the registered interfaces agree, for any
\* number of interfaces and indices, whatever the user added during the probe.
THEOREM TableAndInterfacesAgree == ConfigSpec => []SlotsAgree
<1>1. ConfigInv => SlotsAgree
  <2> SUFFICES ASSUME ConfigInv, trouble = {}, ppc = "idle", rpc = "idle"
               PROVE  /\ \A u \in netdevs : idx[u] \in Idx /\ slots[idx[u]] = u
                      /\ \A i \in Idx : slots[i] # "free" => slots[i] \in netdevs
    BY DEF SlotsAgree
  <2>1. CauseInv /\ TableInv /\ EmptyInv /\ RegisteredInv
    BY DEF ConfigInv, DeviceInv, VifInv
  <2>2. \A i \in Idx : slots[i] # "free" => slots[i] \in netdevs
    BY <2>1 DEF RegisteredInv
  <2>3. ASSUME NEW u \in netdevs PROVE idx[u] \in Idx /\ slots[idx[u]] = u
    <3>1. bound
      BY <2>1 DEF EmptyInv, WithFmac
    <3>2. slots[0] = "def"
      BY <2>1, <3>1 DEF CauseInv, TableInv
    <3>3. 0 \in Idx /\ 0 # MaxVifs
      BY LifecycleAssumption DEF Idx
    <3>4. idx["def"] # MaxVifs
      BY <2>1, <3>2, <3>3 DEF TableInv
    <3> QED BY <2>1, <3>4 DEF TableInv
  <2> QED BY <2>2, <2>3
<1> QED BY <1>1, ConfigInvariant, PTL

\* For any number of interfaces and indices: a remove that gets as far as the bus
\* device, and an unload, leave no wiphy and no net device behind, whatever the
\* user adds and deletes between the steps of the probe and of the loop, except
\* after a failed probe and except those added behind the loop.
THEOREM RemoveLeavesNothing == ConfigSpec => []NothingLeft
<1>1. ConfigInv => NothingLeft
  <2> SUFFICES ASSUME ConfigInv, "probe_failed" \notin trouble,
                      mpc = "absent" \/ rpc = "bus"
               PROVE  ~wiphy /\ netdevs \subseteq late
    BY DEF NothingLeft
  <2>1. TypeOK /\ BootInv /\ CauseInv /\ TableInv /\ EmptyInv /\ LoopInv
    BY DEF ConfigInv, DeviceInv, VifInv
  <2>2. CASE mpc = "absent"
    BY <2>1, <2>2 DEF BootInv, CauseInv, EmptyInv, WithWiphy, WithFmac
  <2>3. CASE rpc = "bus"
    <3>1. ~wiphy /\ slots[0] = "def" /\ "def" \notin netdevs /\ ri = MaxVifs
      BY <2>1, <2>3 DEF CauseInv, TableInv, LoopInv
    <3>2. ASSUME NEW u \in netdevs PROVE u \in late
      <4>1. u # "def" /\ u # "free" /\ idx[u] \in Idx /\ slots[idx[u]] = u
        BY <2>1, <3>1, LifecycleAssumption DEF TableInv, TypeOK, Ifs
      <4>2. idx[u] # 0
        BY <3>1, <4>1
      <4>3. idx[u] \in 1..(ri - 1)
        BY <3>1, <4>1, <4>2, LifecycleAssumption DEF Idx
      <4> QED BY <2>1, <2>3, <4>1, <4>3 DEF LoopInv
    <3> QED BY <3>1, <3>2
  <2> QED BY <2>2, <2>3
<1> QED BY <1>1, ConfigInvariant, PTL

\* Whatever the load, the probe, the user, the remove, the unload and the
\* interrupt do meanwhile, each invalid access happens only after the failure, or
\* in the window between two steps, that FaultHasCause names for it.
THEOREM FaultsHaveCauses == ConfigSpec => []FaultHasCause
<1>1. ConfigInv => FaultHasCause
  BY DEF ConfigInv, DeviceInv
<1> QED BY <1>1, ConfigInvariant, PTL

\* The conf file shows what the firmware was told, for a parameter set through the
\* file alone and by one writer at a time, however many writers and failures.
THEOREM ShadowsAreTrue == ConfigSpec => []ShadowIsTrue
<1>1. ConfigInv => ShadowIsTrue
  <2> SUFFICES ASSUME ConfigInv, NEW p \in (stored \ clash) \ {"he_gi"}
               PROVE  Setting(p) \/ shadow[p] = fw[p]
    BY DEF ShadowIsTrue
  <2>1. p \in Params
    BY DEF ConfigInv, ConfTypes
  <2> QED BY <2>1 DEF ConfigInv, ShadowInv, Setting
<1> QED BY <1>1, ConfigInvariant, PTL

\* An operation on a debugfs file never outlives the device context, and meets an
\* uninitialised FMAC device only during a probe or a remove or after a failure.
THEOREM FilesHaveDevice == ConfigSpec => []FileHasDevice
<1>1. ConfigInv => FileHasDevice
  <2> SUFFICES ASSUME ConfigInv, InFile
               PROVE  /\ files /\ wiphy /\ fmacDev
                      /\ fmacUp \/ ppc # "idle" \/ rpc # "idle" \/ trouble # {}
    BY DEF FileHasDevice
  <2>1. files /\ wiphy /\ fmacDev
    BY DEF ConfigInv, FileInv, DeviceInv, FilesInv
  <2>2. ppc = "idle" /\ trouble = {} => bound
    BY <2>1 DEF ConfigInv, DeviceInv, CauseInv, WithWiphy
  <2> QED BY <2>1, <2>2 DEF ConfigInv, DeviceInv, CauseInv
<1> QED BY <1>1, ConfigInvariant, PTL

\* The stats file never shows half of the first TWT event, although the callback
\* fills it in without a lock.
THEOREM FirstEventsAreWhole == ConfigSpec => []FirstEventIsWhole
<1>1. ConfigInv => FirstEventIsWhole
  BY DEF ConfigInv, EventInv, FirstEventIsWhole
<1> QED BY <1>1, ConfigInvariant, PTL
===============================================================================
