------------------------------ MODULE RpuRequests ------------------------------
(***************************************************************************)
(* Requests to the RPU firmware that poll for their answer: chg_vif,       *)
(* get_station, get_tx_power and get_channel of src/src/cfg80211_if.c,     *)
(* against the event callbacks of src/src/main.c. Each kind of request has *)
(* a mailbox in the interface context, with no lock, no request number and *)
(* no barrier:                                                             *)
(*   set_if    event_set_if, then status_set_if                            *)
(*   tx_power  tx_power, then event_tx_power                               *)
(*   station   station_info, a buffer published before it is filled        *)
(*   channel   chan_def, likewise                                          *)
(* cfg80211 runs one operation at a time (wiphy lock); the callbacks run   *)
(* in the event work item, one at a time, concurrently with it.            *)
(* Requests are numbered; an answer carries the number of its request.     *)
(***************************************************************************)
EXTENDS Integers, Sequences

CONSTANT MaxReq    \* bound: requests sent to the firmware

ASSUME MaxReqAssumption == MaxReq \in Nat

Kinds    == {"set_if", "tx_power", "station", "channel"}
PtrKinds == {"station", "channel"}
Modes    == {"STATION", "AP"}

NULL    == 0      \* a NULL pointer
NoData  == 0      \* a channel answer with center_frequency 0
Garbage == -1     \* the content of a kmalloc'ed buffer before the memcpy
Freed   == -2     \* what is left of a buffer after kfree
None    == -3     \* no result: an error was returned

VARIABLES
  rpc, rkind, rid,  \* the operation in progress: step, kind, request number
  target,           \* the interface type chg_vif was asked for
  nreq,             \* requests sent so far
  inflight,         \* answers the firmware still owes, in order
  cpc, cmsg,        \* the callback in progress: step, answer
  flag,             \* event_set_if, event_tx_power
  value,            \* status_set_if (0: success), tx_power
  ptr,              \* station_info, chan_def: a buffer or NULL
  heap,             \* what each buffer holds: an answer, Garbage or Freed
  hostType, fwType, \* wdev->iftype; the type the firmware runs
  result,           \* what the last operation returned, None on an error
  exposed,          \* history: this request can meet an answer not its own
  unclean,          \* history: kinds with a timed-out or torn request so far
  oops              \* a callback wrote through NULL or into a freed buffer

reqVars  == <<rpc, rkind, rid, target>>
mboxVars == <<flag, value, ptr, heap>>
vars == <<rpc, rkind, rid, target, nreq, inflight, cpc, cmsg, flag, value, ptr,
          heap, hostType, fwType, result, exposed, unclean, oops>>

Answer == [kind : Kinds, id : 1..MaxReq, ok : BOOLEAN, mode : Modes]

TypeOK ==
  /\ rpc \in {"idle", "poll", "take", "apply", "finish", "release", "clear",
              "monitor", "monitor_link"}
  /\ rkind \in Kinds /\ rid \in 0..MaxReq /\ nreq \in 0..MaxReq
  /\ target \in Modes
  /\ inflight \in Seq(Answer)
  /\ cpc \in {"idle", "first", "second"}
  /\ cmsg \in Answer \union {<<>>}
  /\ flag \in [{"set_if", "tx_power"} -> BOOLEAN]
  /\ value \in [{"set_if", "tx_power"} -> 0..MaxReq]
  /\ ptr \in [PtrKinds -> 0..Len(heap)]
  /\ heap \in Seq(-2..MaxReq)
  /\ hostType \in Modes \union {"MONITOR"} /\ fwType \in Modes
  /\ result \in {None} \union (-1..MaxReq)
  /\ exposed \in BOOLEAN /\ unclean \subseteq Kinds /\ oops \in BOOLEAN

Init ==
  /\ rpc = "idle" /\ rkind = "set_if" /\ rid = 0 /\ target = "STATION"
  /\ nreq = 0 /\ inflight = <<>>
  /\ cpc = "idle" /\ cmsg = <<>>
  /\ flag = [k \in {"set_if", "tx_power"} |-> FALSE]
  /\ value = [k \in {"set_if", "tx_power"} |-> 0]
  /\ ptr = [k \in PtrKinds |-> NULL] /\ heap = <<>>
  /\ hostType = "STATION" /\ fwType = "STATION"
  /\ result = None /\ exposed = FALSE /\ unclean = {} /\ oops = FALSE

\* The condition each operation polls for.
Answered(k) == IF k \in PtrKinds THEN ptr[k] # NULL ELSE flag[k]

\* An answer of kind k is on its way, or its callback is half-way.
Owed(k) ==
  \/ \E i \in DOMAIN inflight : inflight[i].kind = k
  \/ cpc # "idle" /\ cmsg.kind = k
-----------------------------------------------------------------------------
(* The operations *)

\* get_tx_power alone resets its mailbox before it sends.
ClearedAtStart(k) == IF k = "tx_power" THEN [flag EXCEPT ![k] = FALSE] ELSE flag

\* The request is sent. History: exposed records whether an older answer can
\* be mistaken for this one's.
Send(k) ==
  /\ rpc = "idle" /\ nreq < MaxReq /\ ~oops
  /\ nreq' = nreq + 1
  /\ rpc' = "poll" /\ rkind' = k /\ rid' = nreq + 1
  /\ flag' = ClearedAtStart(k)
  /\ \E ok \in BOOLEAN, m \in Modes :
       /\ (k \notin {"set_if", "channel"}) => ok
       /\ (k # "set_if") => m = "STATION"
       /\ target' = m
       /\ inflight' = Append(inflight,
                        [kind |-> k, id |-> nreq + 1, ok |-> ok, mode |-> m])
  /\ exposed' = (Owed(k) \/ (k # "tx_power" /\ Answered(k)))
  /\ result' = None
  /\ UNCHANGED <<cpc, cmsg, value, ptr, heap, hostType, fwType, unclean, oops>>

\* The command could not be sent, or the interface is down (get_tx_power and
\* get_channel): an error, the mailbox as the early return leaves it.
SendFail(k) ==
  /\ rpc = "idle" /\ ~oops
  /\ flag' = IF k = "set_if" THEN [flag EXCEPT ![k] = FALSE]
             ELSE ClearedAtStart(k)
  /\ result' = None
  /\ UNCHANGED <<reqVars, nreq, inflight, cpc, cmsg, value, ptr, heap,
                 hostType, fwType, exposed, unclean, oops>>

\* chg_vif to monitor mode stays on the host: the FMAC's interface is made an
\* injector (VifModes) ...
MonitorBegin ==
  /\ rpc = "idle" /\ ~oops
  /\ rpc' = "monitor"
  /\ result' = None
  /\ UNCHANGED <<rkind, rid, target, nreq, inflight, cpc, cmsg, mboxVars,
                 hostType, fwType, exposed, unclean, oops>>

\* ... wdev->iftype is set ...
MonitorSet ==
  /\ rpc = "monitor" /\ ~oops
  /\ hostType' = "MONITOR"
  /\ rpc' = "monitor_link"
  /\ UNCHANGED <<rkind, rid, target, nreq, inflight, cpc, cmsg, mboxVars,
                 fwType, result, exposed, unclean, oops>>

\* ... and the netdev becomes a radiotap one (VifModes), with a carrier.
MonitorEnd ==
  /\ rpc = "monitor_link" /\ ~oops
  /\ rpc' = "idle"
  /\ UNCHANGED <<rkind, rid, target, nreq, inflight, cpc, cmsg, mboxVars,
                 hostType, fwType, result, exposed, unclean, oops>>

\* The callback that has published the answer polled for is still half-way.
\* (nrf_wifi_tx_pwr_get_callbk_fn alone publishes last.)
Torn == rkind # "tx_power" /\ cpc = "second" /\ cmsg.kind = rkind

\* The poll ends with an answer in the mailbox.
PollAnswered ==
  /\ rpc = "poll" /\ ~oops /\ Answered(rkind)
  /\ rpc' = "take"
  /\ exposed' = (exposed \/ Torn)
  /\ unclean' = IF Torn THEN unclean \union {rkind} ELSE unclean
  /\ UNCHANGED <<rkind, rid, target, nreq, inflight, cpc, cmsg, mboxVars,
                 hostType, fwType, result, oops>>

\* -ETIMEDOUT after 50 polls. chg_vif leaves through its cleanup, get_channel
\* through "if (chan_def) kfree(chan_def)".
PollTimeout ==
  /\ rpc = "poll" /\ ~oops /\ ~Answered(rkind)
  /\ rpc' = IF rkind = "channel" THEN "release" ELSE "idle"
  /\ flag' = IF rkind = "set_if" THEN [flag EXCEPT ![rkind] = FALSE] ELSE flag
  /\ unclean' = unclean \union {rkind}
  /\ UNCHANGED <<rkind, rid, target, nreq, inflight, cpc, cmsg, value, ptr,
                 heap, hostType, fwType, result, exposed, oops>>

\* Faulty variant of TakeSetIf: status_set_if is not looked at.
TakeSetIf_NoStatus ==
  /\ rpc = "take" /\ rkind = "set_if" /\ ~oops
  /\ rpc' = "apply"
  /\ UNCHANGED <<rkind, rid, target, nreq, inflight, cpc, cmsg, mboxVars,
                 hostType, fwType, result, exposed, unclean, oops>>

\* chg_vif: status_set_if decides (and the FMAC's type follows: VifModes) ...
TakeSetIf ==
  /\ rpc = "take" /\ rkind = "set_if" /\ ~oops
  /\ rpc' = IF value["set_if"] = 0 THEN "apply" ELSE "finish"
  /\ UNCHANGED <<rkind, rid, target, nreq, inflight, cpc, cmsg, mboxVars,
                 hostType, fwType, result, exposed, unclean, oops>>

\* ... wdev->iftype follows ...
ApplySetIf ==
  /\ rpc = "apply" /\ ~oops
  /\ hostType' = target /\ result' = rid
  /\ rpc' = "finish"
  /\ UNCHANGED <<rkind, rid, target, nreq, inflight, cpc, cmsg, mboxVars,
                 fwType, exposed, unclean, oops>>

\* ... and event_set_if is reset on every way out.
FinishSetIf ==
  /\ rpc = "finish" /\ ~oops
  /\ flag' = [flag EXCEPT !["set_if"] = FALSE]
  /\ rpc' = "idle"
  /\ UNCHANGED <<rkind, rid, target, nreq, inflight, cpc, cmsg, value, ptr,
                 heap, hostType, fwType, result, exposed, unclean, oops>>

\* get_tx_power: *dbm = tx_power, then tx_power = 0.
TakeTxPower ==
  /\ rpc = "take" /\ rkind = "tx_power" /\ ~oops
  /\ result' = value["tx_power"]
  /\ rpc' = "release"
  /\ UNCHANGED <<rkind, rid, target, nreq, inflight, cpc, cmsg, mboxVars,
                 hostType, fwType, exposed, unclean, oops>>

ZeroTxPower ==
  /\ rpc = "release" /\ rkind = "tx_power" /\ ~oops
  /\ value' = [value EXCEPT !["tx_power"] = 0]
  /\ rpc' = "idle"
  /\ UNCHANGED <<rkind, rid, target, nreq, inflight, cpc, cmsg, flag, ptr,
                 heap, hostType, fwType, result, exposed, unclean, oops>>

\* The memory a callback or an operation may touch.
Live(p) == p # NULL /\ heap[p] # Freed

\* sta_set_sinfo, and the copies into chandef: the buffer is read, without
\* another look at the pointer. NoData is -ENODATA; what kmalloc left in an
\* unfilled buffer may read as that too.
TakeBuffer ==
  LET p == ptr[rkind] IN
  /\ rpc = "take" /\ rkind \in PtrKinds /\ ~oops
  /\ \/ /\ Live(p) /\ heap[p] # NoData
        /\ result' = heap[p]
        /\ UNCHANGED oops
     \/ /\ Live(p) /\ rkind = "channel" /\ heap[p] \in {NoData, Garbage}
        /\ UNCHANGED <<result, oops>>
     \/ /\ ~Live(p)
        /\ oops' = TRUE
        /\ UNCHANGED result
  /\ rpc' = "release"
  /\ UNCHANGED <<rkind, rid, target, nreq, inflight, cpc, cmsg, mboxVars,
                 hostType, fwType, exposed, unclean>>

\* Faulty variant of ReleaseBuffer: the kfree is missing.
ReleaseBuffer_NoFree ==
  /\ rpc = "release" /\ rkind \in PtrKinds /\ ~oops
  /\ rpc' = "clear"
  /\ UNCHANGED <<rkind, rid, target, nreq, inflight, cpc, cmsg, mboxVars,
                 hostType, fwType, result, exposed, unclean, oops>>

\* ... freed (kfree ignores NULL; get_channel tests for it and returns) ...
ReleaseBuffer ==
  LET p == ptr[rkind] IN
  /\ rpc = "release" /\ rkind \in PtrKinds /\ ~oops
  /\ heap' = IF p = NULL THEN heap ELSE [heap EXCEPT ![p] = Freed]
  /\ rpc' = IF p = NULL /\ rkind = "channel" THEN "idle" ELSE "clear"
  /\ UNCHANGED <<rkind, rid, target, nreq, inflight, cpc, cmsg, flag, value,
                 ptr, hostType, fwType, result, exposed, unclean, oops>>

\* Faulty variant of ClearBuffer: the pointer is left dangling.
ClearBuffer_Dangling ==
  /\ rpc = "clear" /\ ~oops
  /\ rpc' = "idle"
  /\ UNCHANGED <<rkind, rid, target, nreq, inflight, cpc, cmsg, mboxVars,
                 hostType, fwType, result, exposed, unclean, oops>>

\* ... and the pointer cleared.
ClearBuffer ==
  /\ rpc = "clear" /\ ~oops
  /\ ptr' = [ptr EXCEPT ![rkind] = NULL]
  /\ rpc' = "idle"
  /\ UNCHANGED <<rkind, rid, target, nreq, inflight, cpc, cmsg, flag, value,
                 heap, hostType, fwType, result, exposed, unclean, oops>>
-----------------------------------------------------------------------------
(* The firmware (external) and the callbacks *)

\* The firmware has acted on the oldest request; its event reaches the host.
Event ==
  /\ cpc = "idle" /\ inflight # <<>> /\ ~oops
  /\ cmsg' = Head(inflight) /\ inflight' = Tail(inflight)
  /\ cpc' = "first"
  /\ fwType' = IF cmsg'.kind = "set_if" /\ cmsg'.ok THEN cmsg'.mode ELSE fwType
  /\ UNCHANGED <<reqVars, nreq, mboxVars, hostType, result, exposed, unclean, oops>>

\* Faulty variant of StoreOrder: event_tx_power is set before tx_power.
StoreOrder_FlagFirst == [set_if |-> <<"flag", "value">>, tx_power |-> <<"flag", "value">>]

\* The order in which the two stores of a callback are written.
StoreOrder == [set_if |-> <<"flag", "value">>, tx_power |-> <<"value", "flag">>]

\* The content of an answer: status_set_if, no data, or the number
\* of its request.
Content(m) ==
  CASE m.kind = "set_if" -> IF m.ok THEN 0 ELSE 1
    [] m.kind = "channel" -> IF m.ok THEN m.id ELSE NoData
    [] OTHER -> m.id

\* nrf_wifi_set_if_callbk_fn, nrf_wifi_tx_pwr_get_callbk_fn
Store(n) ==
  /\ cmsg.kind \notin PtrKinds
  /\ \/ /\ StoreOrder[cmsg.kind][n] = "flag"
        /\ flag' = [flag EXCEPT ![cmsg.kind] = TRUE]
        /\ UNCHANGED value
     \/ /\ StoreOrder[cmsg.kind][n] = "value"
        /\ value' = [value EXCEPT ![cmsg.kind] = Content(cmsg)]
        /\ UNCHANGED flag
  /\ UNCHANGED <<ptr, heap, oops>>

\* nrf_wifi_get_station_callbk_fn, nrf_wifi_chnl_get_callbk_fn: kmalloc straight
\* into the mailbox; the buffer that was there, if any, is lost.
Publish ==
  /\ cmsg.kind \in PtrKinds
  /\ heap' = Append(heap, Garbage)
  /\ ptr' = [ptr EXCEPT ![cmsg.kind] = Len(heap) + 1]
  /\ UNCHANGED <<flag, value, oops>>

\* memcpy writes through the mailbox's pointer, which the compiler may have kept
\* in a register since kmalloc returned it, or read again.
Fill ==
  /\ cmsg.kind \in PtrKinds
  /\ \E p \in {Len(heap), ptr[cmsg.kind]} :
       \/ /\ Live(p)
          /\ heap' = [heap EXCEPT ![p] = Content(cmsg)]
          /\ UNCHANGED oops
       \/ /\ ~Live(p)
          /\ oops' = TRUE
          /\ UNCHANGED heap
  /\ UNCHANGED <<flag, value, ptr>>

CallbackFirst ==
  /\ cpc = "first" /\ ~oops
  /\ Store(1) \/ Publish
  /\ cpc' = "second"
  /\ UNCHANGED <<reqVars, nreq, inflight, cmsg, hostType, fwType, result,
                 exposed, unclean>>

\* kmalloc failed: the mailbox is NULL, the callback returns.
CallbackNoMemory ==
  /\ cpc = "first" /\ ~oops /\ cmsg.kind \in PtrKinds
  /\ ptr' = [ptr EXCEPT ![cmsg.kind] = NULL]
  /\ cpc' = "idle" /\ cmsg' = <<>>
  /\ UNCHANGED <<reqVars, nreq, inflight, flag, value, heap, hostType, fwType,
                 result, exposed, unclean, oops>>

CallbackSecond ==
  /\ cpc = "second" /\ ~oops
  /\ Store(2) \/ Fill
  /\ cpc' = "idle" /\ cmsg' = <<>>
  /\ UNCHANGED <<reqVars, nreq, inflight, hostType, fwType, result, exposed,
                 unclean>>
-----------------------------------------------------------------------------
\* chg_vif's steps that change the type of the interface, in VifModes joined
\* by what they do to the FMAC's interface and to the netdev.
ModeStep ==
  \/ MonitorBegin \/ MonitorSet \/ MonitorEnd
  \/ TakeSetIf \/ ApplySetIf \/ FinishSetIf

Operation ==
  \/ \E k \in Kinds : Send(k) \/ SendFail(k)
  \/ PollAnswered \/ PollTimeout \/ TakeTxPower \/ ZeroTxPower
  \/ TakeBuffer \/ ReleaseBuffer \/ ClearBuffer

Callback == Event \/ CallbackFirst \/ CallbackNoMemory \/ CallbackSecond

Next == Operation \/ ModeStep \/ Callback

Spec == Init /\ [][Next]_vars
-----------------------------------------------------------------------------
(* Properties *)

\* An operation that reports success returns the answer to its own request,
\* although the mailboxes carry no request number: it can be wrong only if an
\* older answer of the kind was still owed or left over when it was sent, or if
\* it ran into the callback half-way. Such a left-over never appears by itself:
\* it takes a request of the kind that timed out or met a half-run callback.
ResultIsOwn ==
  /\ result # None => result = rid \/ exposed
  /\ exposed => rkind \in unclean

\* While no chg_vif has timed out or met a half-run callback, the interface
\* type the host shows between operations is the one the firmware runs, monitor
\* mode, which the firmware is never told of, apart.
ModeAgreement ==
  (rpc = "idle" /\ "set_if" \notin unclean) =>
     hostType \in {"MONITOR", fwType}

\* No callback or operation touches a NULL or freed buffer while no request of
\* its kind has timed out or met a half-run callback.
OopsNeedsTrouble == oops => PtrKinds \cap unclean # {}

\* Under the same condition every buffer a callback allocates is freed, or
\* still reachable from the mailbox.
NoLeak ==
  PtrKinds \cap unclean = {} =>
     \A b \in DOMAIN heap : heap[b] = Freed \/ \E k \in PtrKinds : ptr[k] = b

\* Both: station_info and chan_def are neither lost nor used after kfree.
BuffersSafe == OopsNeedsTrouble /\ NoLeak

\* docs/wfb-rx-compat-patch-plan.md: reading the interface's channel back
\* ("iw dev nrf_wifi info") must cause no kernel oops.
NoOops == ~oops
===============================================================================
