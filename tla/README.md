# Verification of the nRF70 Linux driver

TLA+ models of the nRF70 Wi-Fi driver (`src/src/`), checked with TLC on small
instances and, for every safety property of a passing run, proved with TLAPS for every value
of the constants. Paths below are relative to the repository; `PROJECT.json` maps every
definition to the lines it models.

    tlc -workers 2 -config NetdevTx.cfg MCNetdevTx     # one run
    tlapm NetdevProofs.tla                             # the proofs of one module

## The system

The driver sits between four parties it does not contain: the network stack and
cfg80211 above it, the FMAC library (nrfxlib, fetched by `west`) and the SPI core
below. The library calls back into the driver with events of the RPU firmware.

| Component | State | Operations | Hard part |
|---|---|---|---|
| Data transmit path (`netdev.c`) | `data_txq`, `num_tx_pkt`, the netdev queue, two work items | `start_xmit`, `data_tx_routine`, `queue_monitor_routine` | stop/wake protocol over two counters nobody locks, one of them shared by all interfaces |
| Interface life cycle (`netdev.c`) | carrier, netdev, queue | open, close, del_vif, state-change callback | work items that reschedule themselves outlive close |
| Polled requests and interface modes (`cfg80211_if.c`, `main.c`, `netdev.c`) | one mailbox per kind of request in the interface context; the type of the interface, kept four times | chg_vif, get_station, get_tx_power, get_channel; four callbacks; receive and sniffer callbacks, raw transmit | mailboxes without lock or request number; timeouts; frames that meet a change of type half-way |
| Device life cycle (`main.c`, `shim.c`) | `rpu_drv_priv`, `lnx_spi_priv`, interface table, wiphy | module init/exit, registration work, probe, remove, add_vif, del_vif | probe runs while the load is still under way; each step can fail |
| Scan (`cfg80211_if.c`) | `nrf_wifi_scan_req` | scan; result, done, abort callbacks | pointer shared with the event work item, stored after the command is sent |
| Connection (`cfg80211_if.c`) | `bss` | auth, assoc, deauth, disassoc; their callbacks | responses that come after the user has moved on |
| Management frames (`cfg80211_if.c`, `main.c`) | cookie counter, `cookie_list` | mgmt_tx, cookie response, tx status; remain-on-channel | firmware and host name a frame differently |
| RPU power, SPI (`spi/src/*.c`) | GPIO lines, bus speed, poll counters | rpu_enable, wakeup, sleep, disable; register and block transfers | every result is ignored, every wait is a bounded poll |
| Keys, AP and station management (`cfg80211_if.c:347-1027`) | none of its own | one command each, or none at all | early returns, operations that answer without sending |
| Configuration (`debugfs/main.c`, `cfg80211_if.c`) | `conf_params`, a shadow of the firmware's parameters | conf file; set_power_mgmt, set_wiphy_params | the shadow is compared, sent and stored in three steps, and bypassed by cfg80211 |
| Suspend and resume | - | suspend does nothing, resume fails | a failed resume makes cfg80211 close the interfaces |
| TWT (`debugfs/wlan_fmac_twt.c`, `main.c:859-931`) | flow parameters, last event | setup, teardown, events, sleep event | in a LOW_POWER build a second owner of the netdev queue; events shown while they are stored |
| Work items and timers of the shim (`shim.c`) | work items, timers | alloc, init, schedule, kill, free | a timer's callback runs in a work item the kill does not know |
| Rest of the shim (`shim.c`) | lists, locks, memory | forwards to the kernel | - |
| Monitor receive, radiotap (`main.c`, `netdev.c:57-171`) | - | header construction and parsing | rates in two units |
| Radio test (`debugfs/radio_test.c`, separate build) | configuration, "test running" flags, capture buffer | one handler per parameter and command | flags set before a command and kept when it fails; any order of writes |
| Debugfs statistics, version; wiphy tables; hex parsing | - | formatting, tables | - |

How they interact: cfg80211 calls the operations one at a time under the wiphy
lock. The FMAC library dispatches firmware events from a work item, one after the
other, concurrently with the operations and with no lock in common. The transmit
path runs in the stack's context (one call at a time under the queue's transmit
lock) and in two items of the system workqueue. The probe runs inside a work item
scheduled by the module's init function.

`PROJECT.json` "hazards" lists where this goes wrong or could, each at its line
with the properties that watch it.

## Modules

| Module | Models | Extends / composed with |
|---|---|---|
| `TxChannel` | abstract specification: a bounded FIFO channel | - |
| `NetdevTx` | transmit path | refines `TxChannel` (`INSTANCE ... WITH`) |
| `NetdevLifecycle` | open, close, carrier, delete | extends `NetdevTx`: every step of the path interleaves with every step of the life cycle |
| `TwtSleep` | TWT sleep events | extends `NetdevLifecycle`: a second owner of the same queue |
| `RpuRequests` | polled requests | - |
| `VifModes` | the four copies of the interface type, receive and injection, radiotap rates, operations that do not wait | extends `RpuRequests` |
| `DeviceLifecycle` | load, probe, interfaces, remove, unload | - |
| `RpuConfig` | conf, twt and stats files, cfg80211 parameters, TWT events | extends `DeviceLifecycle`: the files come and go with the device |
| `Scan`, `Connection` | as named | `Scan` is checked beside `MgmtCookies`; the two share no state |
| `MgmtStatus` | abstract specification: a cookie for each frame, one status under it | - |
| `MgmtCookies` | management frames, the two cookies and the list that pairs them | refines `MgmtStatus` (`INSTANCE ... WITH`) |
| `RpuPower` | GPIO power, bus speed, wake-up, sleep, disable | - |
| `RpuBus` | register and block transfers against a byte memory | extends `RpuPower`: transfers meet a sleeping RPU |
| `DeferredWork` | work items and timers of the shim | checked beside `RpuBus`; the two share no state |
| `RadioTest` | the radio-test build's configuration file | - |
| `NetdevProofs` | theorems about the transmit path, and about it under open, close and sleep events | extends `TwtSleep` |
| `VifModesProofs`, `DeviceProofs` | theorems about requests and modes; about the device and its files | extend `VifModes`; `RpuConfig` |
| `ScanProofs`, `ConnectionProofs`, `MgmtCookiesProofs`, `RadioTestProofs` | theorems about the module of that name | extend it |
| `RpuPowerProofs` | theorems about power, bus and deferred work | extends `RpuBus` and `DeferredWork` |
| `MC...` | instances for TLC | extend the module of that name, or the one built on top of it |

Conventions. An operation or work item that other actors can observe half-way is
split at each access to shared state; its program counter (`xpc`, `txPc`, `monPc`,
`rpc`, `ppc`, ...) names the step it is about to take. Definitions with an
underscore (`Full_Late`) are faulty variants of the definition after them; no
specification uses them. A variable marked *history* records what happened for the
properties and is read by no guard. What is not in the repository is marked
external and modelled from the driver's use of it.

### NetdevTx

`start_xmit` is seven actions in program order: `XmitCheck` (the test at
netdev.c:309), `XmitStop`, `XmitScheduleMonitor`, `XmitEnqueue` or `XmitBusy`,
`XmitCount`, `XmitScheduleTx`. `data_tx_routine` is `TxStart`, `TxNothing` or
`TxDequeue`, then `TxPrepareFail`, `TxHandOver` or `TxRefused`, then `TxResched`;
`queue_monitor_routine` is `MonStart`, `MonCheck`, `MonWake` or `MonResched`. A work
item has a pending bit and a program counter; it is not re-entrant and an item
scheduled while it runs is run again. `FmacCount` is the library counting a packet
as sent; `OtherInterfaceCount` counts one of another interface, since
`host_stats` is one per device. The unsigned subtraction of the counters is
`Pending`, modulo `CounterMod`.

Assumptions: `skb->dev` is the interface (netdev.c:304-307 never fires); the
library does not count a packet it refused; the radiotap header of an injected
frame is abstracted to its preparation succeeding or failing; the `raw_tx_*`
statistics are left out.

### NetdevLifecycle

`flush_work` waits for the instance pending or running when it is called. `flush`
follows that instance: `start` (not started), `end` (running), `done`. With
`DownFirst` the interface is brought down before the driver is removed, as
test-commands.md prescribes; without it `del_vif` closes a running interface through
`unregister_netdevice`. Resume always
fails, and cfg80211 (external) then closes the interface.

### TwtSleep

The sleep callback stops the queue (`TwtBlock`) or wakes it (`TwtUnblock`), however full
it is. `quiet` records whether a monitor run was due when a block stopped the queue: if
so, that run wakes the queue under the block. The life cycle and the transmit path go
on as before. Assumption: the firmware blocks and unblocks in turn.

### RpuRequests

Each operation is send, poll, take, and for the two buffers release and clear; each
callback is two steps in the order of its two stores. The order is the source's; the
stores have no barriers, but the model does not reorder them. Answers carry the number
of their request, which the code does not have: `ResultIsOwn` compares it. `exposed`
and `unclean` record that a request could meet an answer not its own, and that a
request has timed out or met a half-run callback.

chg_vif's changes of `wdev->iftype` are steps of their own, for `VifModes` to put the
other copies of the type between them.

### VifModes

chg_vif writes the FMAC's `if_type`, then `wdev->iftype`, then the netdev's link type
(to monitor mode: the injector's type first, with no command to the firmware). Against it
run the data callback (reads `wdev->iftype`, delivers), the sniffer callback (adds
a radiotap header unless the FMAC passed no raw header, delivers) and the raw branch of the transmit worker (reads
`wdev->iftype`, forces the injector type, prepares, sends). `rxSwitch` and `txSwitch`
record a change while the frame was in hand, `raced` a worker that forced the type after
chg_vif had changed it back. A frame is the radiotap fields it carries; `TxMeta` and
`Prepared` say what is sent, `LegacyRateToRtap` and `MapRadiotapRate` are the two
conversions of rates. `InjectedAsAsked` compares them: a rate the driver reports of
a captured frame is the rate it sends for it.

The operations that do not wait are one action each. Those that answer -1 without
sending anything (start_ap, chg_bcn, stop_ap, del_sta, chg_bss) are kept as what they are;
`AddSta` ends in a write through NULL. The key operations send one command and keep nothing,
so the keys themselves are not part of the state: there would be nothing to compare.

### DeviceLifecycle

Load, probe, remove and interface operations as steps of four threads. Every failure
the code handles is a step, and `trouble` records it. `fault` records an invalid
access; it stops the thread that made it. The loop that deletes all interfaces but the default one
is three steps for each, as the code takes rtnl only for the one in the middle:
`RemoveLook` reads FMAC's table (main.c:576-580), `RemoveDel` deletes what it found
(581-583), `RemoveClear` clears the slot (584-585). Users add and delete interfaces in between.
`ri` is the index of the loop, `held` the interface it has looked up, `"freed"` once a user has
deleted it (`late_del`); `late` records the interfaces added behind the loop. A user's add or
delete is one step, under rtnl. Assumptions: removing the FMAC device calls
the shim's `intr_unreg` and `dev_rem`; a device is probed once per load; a
module is not loaded again after trouble.

### RpuConfig

A write to `conf` is `ConfBegin` (the comparison with the shadow), `ConfSend`, `ConfStore`;
two processes interleave. `stored` and `clash` record which parameters a write has
stored and which were set past the shadow or by two at once: the shadow of the others is
what the firmware was told. `uapsd_queue`, `power_save`, `he_gi` and `rts_threshold` stand
for the parameters: two kinds of command, one that is also set by cfg80211 per interface,
one that is set for the wiphy, one that is never sent. A write to `twt` parses into
`twt_cmd`, copies, sends, waits for an event nobody signals, and sends again. A TWT event
is stored in two steps and a mark; `StatsFlow` and `StatsRest` read it in two. debugfs
(external) removes no file under an operation.

### Scan

The operation is `ScanSend` and `ScanStore`, since the pointer is stored after the
command was sent; ending a scan is `ScanDone` (the call of `cfg80211_scan_done`) and
`ScanDoneClear`. cfg80211 has one request at a time and frees it in its own work item
or when the interface goes down. Which SSIDs a scan asks for is left out. It ignores the requested
channels (`req->n_channels = 0`, line 1048), so they are not modelled.
`umac_event_scan_done` has no caller.

### Connection

`Assoc` stores `bss` before anything is checked, `AssocRefused` does the same and then
returns an error; `Deauth` leaves it, `Disassoc` clears it. The user (wpa_supplicant)
joins with auth and assoc, may roam, and gives up with deauth when an answer does not
come. cfg80211's holds are counted per BSS: taken by an accepted assoc, let go with
the BSS the response names, or with the connection.

### MgmtCookies

The counter is modulo `CookieMod` and skips zero. The firmware tells its cookie in a
response, in order, and the statuses in any order. `Found` is the
`host_cookie` the loop over `cookie_list` in tx_status ends with (it does not stop at a match), and
`Walked` what it has left of the list past each entry. Starting and ending
remain-on-channel is not modelled: `remain_on_channel` sends nothing and returns an
error, and the report of its cancel callback stands where it cannot run.

### RpuPower

`rpu_enable`'s five parts, `rpu_wakeup`, `rpu_sleep` and `rpu_disable`, each step
taken whatever became of the one before, as in the code. GPIO set-up can fail at each
line and each call, register access can fail, and the RPU wakes up late or never.
Bus speeds are numbers: the device tree's value is four bytes, and `HostValue` is
how the driver reads them on a little-endian host. Wake-up and sleep outside
`rpu_enable` exist in a LOW_POWER build.

### RpuBus

One block of memory below 0x0C0000, read a word per message, and one above, read in one.
A read rounds the count up to words and fills a destination whose caller asked for the
count; every message can fail, nobody learns of it, and the RPU rewrites a block when it
likes. `calm` records that no message failed and the RPU was meant to be awake. The bytes
of a block are numbers of rewrites, so that a torn read shows.

### DeferredWork

A tasklet is a work item; a timer is a kernel timer whose handler queues a work item.
The library (external) allocates, initialises, schedules, kills and frees, in this order.
`owed` records work that was queued or running when its timer was killed.

### RadioTest

Each write to the file `conf` is `SetParam` (a parameter) or a command. `Accepts` is the
dispatch, with one operator per handler for the values it takes; a write that is refused
before it changes anything is no step. `conf` is `conf_params`; `running` is what the
firmware runs. Commands that change state after their answer (`RfTest`, `RxCap`, the
stages of `init`) are split there. `rx_cap` is `RxCap` (frees the old buffer), `RxCapAlloc` or
`RxCapNoMemory`, and `RxCapEnd`. The reader of the statistics file holds no lock either: it tests
the pointer (`StatsOpen`), prints one sample after the other through whatever the pointer is by then
(`StatsTest`, `StatsPrint`), frees (`StatsFree`) and clears it (`StatsClear`), and every step of the
writer may come in between. `misused` records what can make this go wrong: a refused or failed
capture (`error`), a raised length (`longer`), a read under the capture (`early_read`), a capture
under a read (`overlap`). Assumptions: one process writes and one reads; `radio_test_init` neither starts
nor stops a test; the enumerations are the library's.

## Runs

| Run | Checks | Shows |
|---|---|---|
| `tx` (128,552 states) | `NoStrandedPacket`, `StoppedIsWatched`, `Accounting`, `PendingBound`, `WrapsOnlyInsideXmit`, `ImplementsFairChannel`, `StoppedQueueWoken` | no lost wakeup, no lost or reordered packet, the limit is exceeded by one packet at most; accepted packets leave, and a stopped queue is woken unless the counters have drifted apart |
| `tx_injection_stall` | `InjectionNeverStalls` (violated) | frames that fail preparation stop the queue for ever |
| `netdev_lifecycle` (1,091,418) | `QuiescentAfterFlush`, `SleepBacklogBound`, `SleepSharesQueue`, `CloseReturns` | close returns; it leaves `ws_data_tx` idle only if nothing was queued; a quiet sleep keeps the queue stopped, no wakeup is lost between the owners of the queue, and every unblock lets at most one packet past the limit |
| `netdev_reload` | `SafeReload` (violated) | `data_tx_routine` runs on the freed queue |
| `rpu_requests` (1,349,844) | `ResultIsOwn`, `ModeAgreement`, `BuffersSafe`, `TypesAgree`, `FramesMatchLink`, `InjectedAsAsked` | the mailboxes work as long as no request times out or meets a half-run callback; the copies of the type agree again after every change, frames are parsed as their link is announced and injected as asked, the races named apart |
| `rpu_requests_oops` | `NoOops` (violated) | one `get_channel` is enough for a write to freed memory |
| `monitor_radiotap` | `MonitorFramesHaveRadiotap` (violated) | a monitor interface delivers frames without the radiotap header its netdev announces |
| `device_lifecycle` (994,283) | `ProbeAfterInit`, `SlotsAgree`, `NothingLeft`, `FaultHasCause`, `ShadowIsTrue`, `FileHasDevice`, `FirstEventIsWhole` | the probe waits for the load; tables agree; teardown leaves only interfaces added behind its loop; each kind of invalid access has the cause named for it; the shadow of the configuration is true for parameters set one at a time through the file; no file outlives the device; the first TWT event shown is whole |
| `scan_mgmt` (213,935) | `NeverForgotten`, `ScanDoneIsDue`, `ScanEnds`, `StatusesPaired`, `ImplementsStatuses` | a scan is neither forgotten nor ended twice or by another's event, outside the races and situations named in the properties; every scan ends, the two races apart. Statuses of management frames reach their sender across a wrapping counter; the list does not leak; to cfg80211 all this is a cookie per frame and at most one status under it |
| `connection` (294,390) | `ResponseKeepsBss`, `HoldsBalance` | a response names its own BSS and holds balance, unless overtaken |
| `rpu_power` (964,225) | `EnabledMeansAwake`, `SlowOnlyIfUnconfirmed`, `ReadIsSound`, `KillIsFinal`, `PowerOrder` | what `rpu_enable` guarantees if nothing went wrong; the order of the power lines; the bus is left slow only by a wake-up that was not confirmed; a read is what the memory held, torn at most between words of low memory, and overruns its buffer by less than a word; no callback outlives the kill of its item, a timer's queued work apart |
| `radio_test` (1,843,891) | `HostKnowsTests`, `BufferSafe` | the driver knows what the firmware runs and with which parameters, and each misuse of the capture buffer has the cause named for it |

Each module states its type invariant (`TypeOK`, `LifeTypeOK`, `SleepTypeOK`, `BusTypeOK`,
...) as documentation of its variables; add it to the cfg when a module changes. The
runs leave them out, since most of what they say is about the model. All of them are proved.

Several properties have an exception in their statement ("unless a request has timed
out", "the two races apart"). The exception is the part of the behaviour where the code
does go wrong: it is stated as narrowly as TLC allows, so that the property says
exactly which situations are needed for the fault, and the hazard list names the
line.

### Bounds and why they are enough

- `MaxPending` is 2 instead of 48: the limit, the half limit and the packet between
  them differ. `MaxPkts = 7` fills the queue, drains it and fills it again.
  `CounterMod = 1000` is far above any count, so a wrapped difference is huge as in
  the driver. Two failed preparations are more than `MaxPending \div 2`, enough for the
  counters to drift so far that the queue stays stopped; one refusal, one failed enqueue
  and one packet of another interface each meet every state of the others.
- `NetdevLifecycle`, `TwtSleep`: two opens, so that work left by one session meets the next;
  a limit of one packet; one sleep period, in any state of the rest. The bound on the backlog
  is three after the unblock, and with four packets a run could exceed it. (Refusals are left
  to `tx`; with one of them the run holds as well.)
- `RpuRequests`: three requests, so that a late answer meets two later requests.
- `VifModes`: two changes of type and one frame or one change and two frames
  (`MaxMixed`): a change back meets the frame of the change before. Rates are 5.5 Mb/s
  (55), one that is even and one above 54 that radiotap cannot name; the frames are
  listed in `MCRpuRequests`. One operation that does not wait: they keep no state.
- `DeviceLifecycle`: a table of two and two users, so that it is full and both an interface
  of the loop and one behind it can come and go; two loads. A table of three
  (3,832,447 states) holds as well.
  The two users are interchangeable (symmetry). `RpuConfig`: two file operations or
  parameters of two interchangeable processes, and one TWT event, in every state of
  the life cycle.
- `Scan`: three scans, so that both ends of one scan can meet later ones.
- `Connection`: two networks (interchangeable) and five commands, two complete
  attempts and a third begun.
- `MgmtCookies`: a counter of two bits, which wraps with four frames and one failure.
- `RpuPower`: three polls instead of ten (the loops tell the first, a middle and the
  last apart) and the device tree's real frequency; four operations cover enable, sleep,
  wake-up, disable and a second enable. `RpuBus`: blocks of two words, whole and
  incomplete counts, two transfers and one rewrite. `DeferredWork`: three schedulings of
  each item.
- `RadioTest`: every sequence of five accepted writes, one failing command. The longest
  chain of dependent parameters and a test takes five (init, mode, rate, MCS, tx); a
  misuse of the buffer takes four.

`CHECK_DEADLOCK FALSE` is given where the system may stop: the module is unloaded, an
interface is gone, a bound on requests is used up. The transmit runs check deadlock.

### Fairness

- `start_xmit` returns, the system workqueue runs pending items, the FMAC library sends
  what it took: weak fairness of each. None for the stack, which need not send, except
  that it offers a packet again after `NETDEV_TX_BUSY` when the queue is not stopped.
- The thread inside close and the system workqueue run (`SleepFairSpec`). Nothing is
  assumed of the firmware there: it may leave the queue blocked.
- Scan (`ScanFairness`): the operation returns, the event and cfg80211 work items run, the firmware ends
  each scan with a done or abort event.

The other runs check safety only and assume no fairness.

## Findings

1. `netdev.c:217`: a monitor frame that fails preparation stays in the difference of
   the counters; enough of them and the queue is never woken (`tx_injection_stall`).
2. `netdev.c:389`: `data_txq` is freed under a pending or running `data_tx_routine`
   (`netdev_reload`).
3. `main.c:637`: the channel callback copies into a buffer it has already published
   and the operation may have freed (`rpu_requests_oops`).
4. `netdev.c:477`, `main.c:810`: frames of the data callback, and sniffer frames without a
   raw header, are delivered by a monitor interface without a radiotap header, which
   docs/wfb-rx-compat-patch-plan.md:51-53 asks for (`monitor_radiotap`).

Observed while modelling, without a run:

- the big-endian `spi-max-frequency` is read as a host integer (spi_if.c:38): on the
  Raspberry Pi the bus runs at 16.6 MHz where the device tree says 112
  (`HostValue` and `CellValue` of `RpuPower`);
- `tx_tone_freq` accepts no value: `val < -10` compares unsigned numbers
  (radio_test.c:924);
- a transmission at less than the system test's power raises the power ceiling in the RF
  parameters until the next `init` (radio_test.c:1217-1225), also for later transmissions at
  the system test's power;
- the radio-test file reports success for parameters it has refused
  (radio_test.c:1799-1805);
- `shim_bus_spi_dev_rem` (shim.c:866) writes through `spi_dev`, which a successful probe
  has set to NULL, and `dev_deinit` calls through a pointer nobody sets (shim.c:818): the two
  invalid accesses for which `FaultHasCause` has no cause to name;
- a user who deletes an interface between the look-up of the remove loop (main.c:576-580) and its
  rtnl_lock (581) makes the loop use the freed interface (`freed_vif` of `DeviceLifecycle`); an
  interface added behind the loop is still registered when its wiphy is gone (`late`). Nor does the
  loop see whether `add_vif` has stored `if_idx` yet (cfg80211_if.c:126-127), which the model,
  taking `add_vif` as one step, leaves out;
- an SSID of length 0 before a named one leaves a hole in the scan command: entries are filled at
  the index in the request, `num_scan_ssids` counts the filled ones (cfg80211_if.c:1065-1085);
- the statistics file frees the capture at the end of a read (stats.c:677), but seq_file calls the
  function again with a larger buffer when its output did not fit: a long capture is then gone;
- the probe reports success although the default interface could not be added
  (main.c:459);
- `deauth_info` and `disassoc_info` (cfg80211_if.c:1536, 1592) are never freed;
- `cfg80211_inform_bss`'s reference is not put (cfg80211_if.c:1149);
- resume always answers with an error (cfg80211_if.c:2030), so cfg80211 closes every
  interface after a suspend;
- `add_sta` writes through `flags2`, which is NULL; start_ap, chg_bcn, stop_ap, del_sta and
  chg_bss fill in a structure, send nothing and answer -1 (cfg80211_if.c:538-1018);
- `set_wiphy_params` reads through `def_vif_ctx` unchecked (cfg80211_if.c:2568);
- TWT: nothing sets `twt_setup_event`, so every setup is sent twice; a teardown always
  names flow 0 (debugfs/wlan_fmac_twt.c:206-277); a setup that is not sent leaks its command;
- the statistics file leaks its buffer at every read (debugfs/stats.c:531);
- `shim_timer_alloc` initialises a work item it could not allocate (shim.c:673-685), and
  `shim_timer_kill` leaves the queued work item of its timer behind (`owed` of
  `DeferredWork`);
- a block copy writes up to three bytes behind a buffer whose size is no multiple of
  four (`Rounded` of `RpuBus`);
- `txinjection_mode` is never reset.

## Proofs

Every theorem holds for every value of the constants that the module's named assumption
admits. The assumptions say that bounds are natural numbers, that `MaxPending`, `MaxVifs`, `Polls`
and `BlockBytes` are not 0, that the cookie counter has a value besides 0 (`CookieMod > 1`), that a block is whole words and no count exceeds it, that a device-tree
speed is four bytes or missing, that rates are bytes, that the counters' modulus is above
`MaxPending + 1`, and that the names of interfaces and networks differ from the markers (`"def"`,
`"free"`, `"freed"`, `NULL`, `"unsaid"`). Two theorems have a hypothesis of their own, given below. TLC has checked every inductive
invariant on the instance of the module's run before it was proved.

| Module | Theorem | Property, of every behaviour of | Inductive invariant |
|---|---|---|---|
| `NetdevProofs` | `TypeCorrect` | `TypeOK`, `Spec` | `IInv` |
| | `NoLostWakeup` | `StoppedIsWatched` | `IInv` |
| | `Bounded` | `PendingBound` | `IInv` |
| | `PacketsAccountedFor` | `Accounting` | `IInv`, `FlowInv` |
| | `NoPacketStranded` | `NoStrandedPacket` | `IInv`, `FlowInv` |
| | `NoWrapAtCheck` | `WrapsOnlyInsideXmit` | `IInv`, `FlowInv` |
| | `Refinement` | `ImplementsChannel` | `IInv`, `FlowInv` |
| | `SleepTypeCorrect` | `SleepTypeOK`, `SleepSpec` | `SleepTypes`, `LifeTypes` |
| | `FlushLeavesTxIdle` | `QuiescentAfterFlush`, `SleepSpec` | `FlushInv` |
| | `SleepAndTxShareQueue` | `SleepSharesQueue` | `QuietInv` |
| | `SleepBacklogIsBounded` | `SleepBacklogBound` | `SleepIInv` |
| `VifModesProofs` | `VifModesImplementRequests` | `VifSpec => Spec` of `RpuRequests` | - |
| | `RequestTypeCorrect` | `TypeOK`, `VifSpec` | `RequestInv`, `ContentInv` |
| | `ResultsAreOwn`, `ModesAgree`, `AnswerBuffersAreSafe` | `ResultIsOwn`, `ModeAgreement`, `BuffersSafe`, `VifSpec` | `RequestInv` |
| | `TypeCopiesAgree`, `FramesAreParsedAsAnnounced`, `InjectionIsAsAsked` | `TypesAgree`, `FramesMatchLink`, `InjectedAsAsked` | `VifInv` |
| `DeviceProofs` | `ConfigTypes` | `ConfigTypeOK`, `ConfigSpec` | `ConfigInv` |
| | `ProbesFollowInit` | `ProbeAfterInit` | `BootInv` |
| | `TableAndInterfacesAgree`, `RemoveLeavesNothing`, `FaultsHaveCauses` | `SlotsAgree`, `NothingLeft`, `FaultHasCause` | `DeviceInv` |
| | `FilesHaveDevice` | `FileHasDevice` | `DeviceInv`, `FileInv` |
| | `ShadowsAreTrue` | `ShadowIsTrue` | `ShadowInv` |
| | `FirstEventsAreWhole` | `FirstEventIsWhole` | `EventInv` |
| `ScanProofs` | `RequestsAreRemembered`, `ScansEndInTurn` | `NeverForgotten`, `ScanDoneIsDue`, `ScanSpec` | `ScanInv` |
| | `ScanTypeCorrect` | `ScanTypeOK` | `ScanInv`, `RangeInv` |
| `ConnectionProofs` | `ResponsesKeepBss` | `ResponseKeepsBss`, `Spec` | `ConnInv` |
| | `HoldsAreBalanced` | `HoldsBalance` | `ConnInv`, `HoldsInv` |
| | `ConnectionTypeCorrect` | `TypeOK` | `ConnInv` |
| `MgmtCookiesProofs` | `CookieTypesCorrect`, `StatusesArePaired` | `TypeOK`, `StatusesPaired`, `Spec` | `IInv` |
| | `StatusRefinement` | `ImplementsStatuses` | `IInv` |
| `RpuPowerProofs` | `PowerTypeCorrect` | `TypeOK`, `Spec` | `PowerInv`, `LoopInv` |
| | `EnabledIsAwake`, `LinesGoUpInOrder`, `SlowIsUnconfirmed` | `EnabledMeansAwake`, `PowerOrder`, `SlowOnlyIfUnconfirmed`, `Spec` | `PowerInv` |
| | `ReadsAreSound` | `ReadIsSound`, `BusSpec` | `PowerInv`, `BusInv` |
| | `BusTypeCorrect` | `BusTypeOK`, `BusSpec` | `BusInv`, `BusRanges` |
| | `KilledWorkStaysDead`, `WorkTypeCorrect` | `KillIsFinal`, `WorkTypeOK`, `WorkSpec` | `WorkInv` |
| `RadioTestProofs` | `TestsAreKnown` | `HostKnowsTests`, `Spec` | `HostInv` |
| | `CaptureBufferIsSafe` | `BufferSafe` | `BufferInv` |
| | `ParametersStayInRange` | `TypeOK` | `HostInv`, `BufferInv`, `ConfOk`, `XoInv` |

The arguments, and why the properties alone are not inductive:

- **Transmit path.** Whether a packet may be added depends on
  a test made three steps earlier, and the queue is woken on a reading of the counters
  that may be old. `IInv` is `TypeOK`, `MonitorInv` and `BoundInv`. `BoundInv` counts the
  packet of a call in progress as committed, and bounds what is committed more tightly
  while the queue is open and while the monitor is about to wake it. Its wake case needs
  that no second call of `start_xmit` can stop the queue and no second run of the monitor
  can be pending meanwhile: that is `MonitorInv`, the monitor is active exactly while
  the queue is stopped and ends by waking it. The lemma `PendingReading` ties the wrapped
  unsigned difference the code tests to the real one: a difference that has wrapped is
  above every limit, so both tests err on the safe side. `FlowInv` (accounting and the
  run ahead of each queued packet) is inductive relative to `IInv`, and the refinement
  maps the channel to the packet in the routine's hands followed by `data_txq`; that its
  capacity is respected follows from `BoundInv` and `Accounting`.
- **Sleep events.** `MonitorInv` fails as soon as the firmware wakes a queue the transmit path
  has stopped. `SleepMonitorInv` keeps it until the first unblock, and `SleepBoundInv` allows
  one packet more for each. An unblock that finds the monitor about to wake a drained queue
  lets nothing in by itself: its packet comes in with the monitor's stale wake-up, so the
  invariant has a case for it. `SleepBacklogIsBounded` assumes
  `MaxPending + 1 + MaxSleeps < CounterMod`: more sleep periods than that and the wrapped
  difference could be read as a small one. With 64 bits that is no restriction in practice.
- **Requests.** `RequestInv` says what each mailbox may hold at each step of its operation and
  of its callback: while a request is polled for, the only answer of its kind is its own, on its
  way, in the callback or in the mailbox (`PollInv`, `TakeInv`); a kind without trouble is quiet
  outside its requests (`QuietInv`); a buffer is in at most one mailbox (`HeapInv`).
  It is proved about `RpuRequests` and carried to `VifModes` by the refinement: receive,
  injection and the operations that do not wait map to stuttering steps.
- **Modes.** `TypeInv` follows the four copies of the type through a change, the FMAC's first and
  the netdev's last, with the worker that forces the injector's type in between. `RxInv` and
  `TxInv` say what a frame in hand may rely on as long as it met no change.
  That a captured rate is injected as that rate is a fact about the two conversions of rates
  and needs no invariant.
- **Device.** `BootInv` relates the program counters of load, registration work, probe and remove
  whatever failed: a probe runs only after the registration's work item has begun and in a
  module that is there. `CauseInv` says where each failure shows and where it does not, so that an
  invalid access can be traced to its cause. `TableInv` holds whatever failed and at every step: a registered
  interface holds the slot its index names, and index 0 is the default interface's, so that
  "delete all other interfaces" from index 1 reaches every user's. `LoopInv` follows the loop: behind
  its index only interfaces that came late hold slots, and the interface it has looked up still holds
  the slot it was taken from, or the user has deleted it. They rest on the index FMAC hands out being
  free, which needs the least element of a set of numbers (`MinIsMember`).
- **Files.** `ShadowInv`: of a parameter only one writer sets, the firmware has the writer's value
  from the send to the store. `EventInv` follows event, callback and reader until a second event.
- **Scan.** `OrderInv` says that only the scan under way has results and an end in
  flight, unless a scan ends twice; `PointerInv` that the pointer is NULL, about to be cleared, or
  the request cfg80211 waits for.
- **Connection.** `AnswerInv`: a command is answered at most once; `BssInv`: the remembered BSS is
  that of every unanswered association, or it was changed since. `HoldsInv` is the balance as an equation,
  with the cardinality of the open commands.
- **Management cookies.** A status finds its frame over two queues, a list and two numberings.
  `PlaceInv` says where a frame is: it waits, then its cookie response is on its way, then it is sent,
  then its status is on its way, and that ends it. `OrderInv`: nothing is queued twice, and a frame's
  response is before its status. `PairInv`: the list has one pair for each frame between the
  two, with the cookie its sender was given. A wrapped counter may give a host cookie twice; the firmware's
  cookie is given once, so at most one pair matches a status. What the walk leaves
  (`Walked`) is a recursive function of the place in the list; that it exists, satisfies its
  equations and keeps exactly the pairs that do not match is proved by induction. The library's
  induction theorems take a predicate, which the provers cannot instantiate: `InductionUpTo` is stated for a
  set of numbers and rests on the least element of its complement. The refinement maps `lost` to
  `dropped` and leaves out the queues, the list and the firmware's cookies.
- **Power and bus.** `CalmInv` lists what is known at each step of `rpu_enable` when nothing failed.
  `SlowIsUnconfirmed` assumes that the device tree gives a speed and that neither reading of
  its bytes is the wake-up speed itself: at that speed "slow" could not be told. `BusInv` tells for
  each word read so far which contents of the block it can be from.
- **Deferred work.** `WorkInv` adds that a tasklet being killed is off the queue: nothing puts it
  back.
- **Radio test.** `HostInv` and `BufferInv` state the properties also while a command is waited for,
  and keep, for each deviation, its recorded cause. A freed buffer has a pointer for a moment even
  when nothing goes wrong, until the reader clears it or the writer replaces it; `BufferInv` says that
  the other one then overlaps. That the XO parameter keeps its range needs
  `XoInv`: the value is checked when it is written and stored only when the firmware has answered.

Only model-checked:

- liveness under fairness, which is beyond the prover: `ImplementsFairChannel` (its safety part is
  `Refinement`), `StoppedQueueWoken`, `CloseReturns`, `ScanEnds`;
- the four runs that end in a violation, by their nature.

## Not modelled

The FMAC library, the firmware, cfg80211, debugfs and the SPI core appear as external
actions. Left out:

- `set_multicast_list` (netdev.c:425-464), which hands the list to the firmware and keeps
  nothing;
- the remain-on-channel callbacks (cfg80211_if.c:1883-1976): `remain_on_channel` sends
  nothing and returns an error, so no event can reach them;
- `umac_event_scan_done` and other functions without a caller;
- wiphy tables, the formatting of statistics and version files: no state;
- memory, string, lock and buffer wrappers of the shim: forwards to the kernel. Locks
  appear where they exclude something (the bus lock in `RpuBus`, the transmit lock in
  `NetdevTx`), the list where it is used (`data_txq`);
- hex parsing (`linux_util.c`): character by character, with no state;
- the channel flags of a captured frame's radiotap header.

Memory ordering is that of the source.

## Plan

Done: the transmit path with its abstract specification; the interface's life
cycle with the TWT sleep event; the device's with its files, parameters and TWT events;
polled requests with the modes of an interface, frames, key and station operations; scan;
connection; management cookies with their abstract specification; RPU power and the bus;
deferred work; radio test; proofs of all their safety properties and type invariants.

Next:

1. An abstract specification of the mailbox of a request, and `RpuRequests` shown to implement
   it while no request times out.
