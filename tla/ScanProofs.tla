------------------------------- MODULE ScanProofs -------------------------------
(***************************************************************************)
(* Proofs about Scan, for every number of scans, results and times the     *)
(* interface goes down.                                                    *)
(***************************************************************************)
EXTENDS Scan, SequenceTheorems, TLAPS

\* A request cfg80211 waits for.
Outstanding == cfgReq # 0 /\ ~reported

\* The part of ScanTypeOK the arguments below need.
ScanTypes ==
  /\ nscan \in Nat /\ cfgReq \in 0..MaxScans /\ drvReq \in Nat /\ downs \in Nat
  /\ reported \in BOOLEAN /\ lastEnds \in BOOLEAN /\ stale \in BOOLEAN
  /\ endedBy \in [Scans -> Nat]
  /\ fw \in Seq(Scans) /\ scanEvents \in Seq(ScanEvent)
  /\ epc = "check" => ev \in ScanEvent /\ EndsScan(ev.type)

\* While the command is sent and the request not stored, cfg80211's request is
\* the newest one, and the driver's pointer cannot be it.
SentInv ==
  /\ drvReq <= nscan
  /\ cfgReq # 0 => cfgReq <= nscan
  /\ spc \in {"idle", "sent"}
  /\ spc = "sent" => cfgReq = nscan /\ drvReq < nscan /\ ~reported

\* A callback about to clear the pointer has reported the request it forgets.
ForgetInv ==
  /\ epc = "clear" /\ cfgReq # 0 /\ cfgReq \notin raced => reported
  /\ NeverForgotten

\* With the interface up all along the pointer is NULL, about to be cleared, or
\* the request cfg80211 waits for.
PointerInv ==
  downs = 0 => ~stale /\ (epc # "clear" /\ drvReq # 0 => drvReq = cfgReq /\ ~reported)

EndTypes == {"done", "abort"}

\* The scan under way is the only one the firmware and the events know of, and
\* its end is the last that is heard of it: unless a scan ends twice.
OrderInv ==
  (downs = 0 /\ ~lastEnds) =>
    /\ epc = "check" => ev.scan = cfgReq
    /\ ~Outstanding => fw = <<>> /\ scanEvents = <<>> /\ epc # "check"
    /\ fw # <<>> => fw = <<cfgReq>>
    /\ \A i \in DOMAIN scanEvents :
         /\ scanEvents[i].scan = cfgReq
         /\ scanEvents[i].type \in EndTypes => i = Len(scanEvents) /\ fw = <<>>
    /\ epc = "check" /\ ev.type \in EndTypes => scanEvents = <<>> /\ fw = <<>>
    /\ \A n \in Scans : endedBy[n] \in {0, n}

ScanInv == ScanTypes /\ SentInv /\ ForgetInv /\ PointerInv /\ OrderInv

\* The rest of ScanTypeOK: the bounds.
RangeInv ==
  /\ nscan <= MaxScans /\ nresults \in 0..MaxResults /\ downs <= MaxDowns
  /\ epc \in {"idle", "check", "clear"} /\ ev \in ScanEvent \union {<<>>}
  /\ endedBy \in [Scans -> 0..MaxScans] /\ raced \subseteq Scans
-----------------------------------------------------------------------------
\* The initial state.
LEMMA ScanStart == ScanInit => ScanInv
<1> SUFFICES ASSUME ScanInit PROVE ScanInv
  OBVIOUS
<1> USE DEF ScanInit
<1>1. ScanTypes
  <2>1. nscan \in Nat /\ cfgReq \in 0..MaxScans /\ drvReq \in Nat /\ downs \in Nat
    BY ScanAssumption
  <2>2. endedBy \in [Scans -> Nat]
    OBVIOUS
  <2>3. fw \in Seq(Scans) /\ scanEvents \in Seq(ScanEvent) /\ epc # "check"
    BY EmptySeq
  <2> QED BY <2>1, <2>2, <2>3, Zenon DEF ScanTypes
<1>2. SentInv
  BY DEF SentInv
<1>3. ForgetInv /\ PointerInv
  BY DEF ForgetInv, NeverForgotten, PointerInv
<1>4. OrderInv
  BY DEF OrderInv
<1> QED BY <1>1, <1>2, <1>3, <1>4 DEF ScanInv

\* Types.
LEMMA ScanTypeStep == ScanTypes /\ SentInv /\ [ScanNext]_scanVars => ScanTypes'
<1> SUFFICES ASSUME ScanTypes, SentInv, [ScanNext]_scanVars PROVE ScanTypes'
  OBVIOUS
<1> USE ScanAssumption DEF ScanTypes, scanCfgVars, scanFwVars, scanHistory
<1>1. CASE ScanRefused
  BY <1>1 DEF ScanRefused
<1>2. CASE ScanSend
  <2>1. nscan + 1 \in Scans
    BY <1>2 DEF ScanSend, Scans
  <2>2. fw' \in Seq(Scans)
    BY <1>2, <2>1, AppendProperties DEF ScanSend
  <2>3. nscan' \in Nat /\ cfgReq' \in 0..MaxScans
    BY <1>2, <2>1 DEF ScanSend, Scans
  <2> QED BY <1>2, <2>2, <2>3 DEF ScanSend
<1>3. CASE ScanStore
  BY <1>3 DEF ScanStore
<1>4. CASE CallbackStart
  <2>1. Head(scanEvents) \in ScanEvent /\ scanEvents' \in Seq(ScanEvent)
    BY <1>4, HeadTailProperties DEF CallbackStart
  <2> QED BY <1>4, <2>1 DEF CallbackStart
<1>5. CASE ScanDoneNothing
  BY <1>5 DEF ScanDoneNothing
<1>6. CASE ScanDone
  <2>1. ev.scan \in Nat
    BY <1>6 DEF ScanDone, ScanEvent, Scans
  <2>2. endedBy' \in [Scans -> Nat]
    BY <1>6, <2>1 DEF ScanDone
  <2>3. stale' \in BOOLEAN /\ reported' \in BOOLEAN /\ lastEnds' \in BOOLEAN
    BY <1>6 DEF ScanDone
  <2> QED BY <1>6, <2>2, <2>3 DEF ScanDone
<1>7. CASE ScanDoneClear
  BY <1>7 DEF ScanDoneClear
<1>8. CASE Firmware
  <2>1. PICK t \in {"result", "last", "done", "abort"} : FwResult(t) \/ FwEnd(t)
    BY <1>8 DEF Firmware
  <2>2. Head(fw) \in Scans /\ Tail(fw) \in Seq(Scans)
    BY <2>1, HeadTailProperties DEF FwResult, FwEnd
  <2>3. [type |-> t, scan |-> Head(fw)] \in ScanEvent
    BY <2>2 DEF ScanEvent
  <2>4. scanEvents' \in Seq(ScanEvent)
    <3>1. scanEvents' = Append(scanEvents, [type |-> t, scan |-> Head(fw)])
      BY <2>1 DEF FwResult, FwEnd
    <3> QED BY <2>3, <3>1, AppendProperties
  <2> QED BY <2>1, <2>2, <2>4 DEF FwResult, FwEnd
<1>9. CASE CfgReport
  <2>1. cfgReq' \in 0..MaxScans
    BY <1>9 DEF CfgReport
  <2> QED BY <1>9, <2>1 DEF CfgReport
<1>10. CASE InterfaceDown
  <2>1. cfgReq' \in 0..MaxScans /\ downs' \in Nat
    BY <1>10 DEF InterfaceDown
  <2> QED BY <1>10, <2>1 DEF InterfaceDown
<1>11. CASE UNCHANGED scanVars
  BY <1>11 DEF scanVars
<1> QED BY <1>1, <1>2, <1>3, <1>4, <1>5, <1>6, <1>7, <1>8, <1>9, <1>10, <1>11
        DEF ScanNext, Request, Callback

\* The parts about the driver's pointer.
LEMMA PointerStep ==
  ScanTypes /\ SentInv /\ ForgetInv /\ PointerInv /\ [ScanNext]_scanVars
    => SentInv' /\ ForgetInv' /\ PointerInv'
<1> SUFFICES ASSUME ScanTypes, SentInv, ForgetInv, PointerInv, [ScanNext]_scanVars
             PROVE  SentInv' /\ ForgetInv' /\ PointerInv'
  OBVIOUS
<1>0. /\ nscan \in Nat /\ cfgReq \in Nat /\ drvReq \in Nat /\ downs \in Nat
      /\ reported \in BOOLEAN /\ stale \in BOOLEAN
  BY ScanAssumption DEF ScanTypes
<1> USE <1>0 DEF SentInv, ForgetInv, NeverForgotten, PointerInv, scanCfgVars, scanHistory
<1>1. CASE ScanRefused
  BY <1>1 DEF ScanRefused
<1>2. CASE ScanSend
  <2>1. SentInv'
    BY <1>2 DEF ScanSend
  <2>2. ForgetInv'
    BY <1>2 DEF ScanSend
  <2>3. PointerInv'
    BY <1>2 DEF ScanSend
  <2> QED BY <2>1, <2>2, <2>3
<1>3. CASE ScanStore
  BY <1>3 DEF ScanStore
<1>4. CASE CallbackStart
  BY <1>4 DEF CallbackStart
<1>5. CASE ScanDoneNothing
  BY <1>5 DEF ScanDoneNothing
<1>6. CASE ScanDone
  <2>1. stale' \in BOOLEAN /\ reported' \in BOOLEAN
    BY <1>6 DEF ScanDone
  <2>2. SentInv'
    BY <1>6, <2>1 DEF ScanDone
  <2>3. ForgetInv'
    BY <1>6, <2>1 DEF ScanDone
  <2>4. PointerInv'
    BY <1>6, <2>1 DEF ScanDone
  <2> QED BY <2>2, <2>3, <2>4
<1>7. CASE ScanDoneClear
  BY <1>7 DEF ScanDoneClear
<1>8. CASE Firmware
  BY <1>8 DEF Firmware, FwResult, FwEnd
<1>9. CASE CfgReport
  BY <1>9 DEF CfgReport
<1>10. CASE InterfaceDown
  BY <1>10 DEF InterfaceDown
<1>11. CASE UNCHANGED scanVars
  BY <1>11 DEF scanVars
<1> QED BY <1>1, <1>2, <1>3, <1>4, <1>5, <1>6, <1>7, <1>8, <1>9, <1>10, <1>11
        DEF ScanNext, Request, Callback

\* The part about the order of events: with the interface up and no scan that
\* ended twice, the end of a scan is the end of all that is heard of it.
LEMMA OrderStep ==
  ScanInv /\ [ScanNext]_scanVars /\ ScanTypes' => OrderInv'
<1> SUFFICES ASSUME ScanInv, [ScanNext]_scanVars, ScanTypes', downs' = 0, ~lastEnds'
             PROVE  OrderInv'
  BY DEF OrderInv
<1>0. /\ nscan \in Nat /\ cfgReq \in Nat /\ drvReq \in Nat /\ downs \in Nat
      /\ reported \in BOOLEAN /\ lastEnds \in BOOLEAN /\ endedBy \in [Scans -> Nat]
      /\ scanEvents \in Seq(ScanEvent) /\ fw \in Seq(Scans)
      /\ epc = "check" => ev \in ScanEvent
  BY ScanAssumption DEF ScanInv, ScanTypes
<1>1. downs = 0 /\ ~lastEnds
  <2>1. CASE ScanDone
    BY <2>1 DEF ScanDone
  <2>2. CASE InterfaceDown
    BY <1>0, <2>2 DEF InterfaceDown
  <2>3. CASE UNCHANGED <<downs, lastEnds>>
    BY <2>3
  <2>4. ScanDone \/ InterfaceDown \/ UNCHANGED <<downs, lastEnds>>
    BY DEF ScanNext, Request, ScanRefused, ScanSend, ScanStore, Callback, CallbackStart,
           ScanDoneNothing, ScanDoneClear, Firmware, FwResult, FwEnd, CfgReport,
           scanHistory, scanVars
  <2> QED BY <2>1, <2>2, <2>3, <2>4
<1>2. /\ epc = "check" => ev.scan = cfgReq
      /\ ~Outstanding => fw = <<>> /\ scanEvents = <<>> /\ epc # "check"
      /\ fw # <<>> => fw = <<cfgReq>>
      /\ \A i \in DOMAIN scanEvents :
           /\ scanEvents[i].scan = cfgReq
           /\ scanEvents[i].type \in EndTypes => i = Len(scanEvents) /\ fw = <<>>
      /\ epc = "check" /\ ev.type \in EndTypes => scanEvents = <<>> /\ fw = <<>>
      /\ \A n \in Scans : endedBy[n] \in {0, n}
  BY <1>1 DEF ScanInv, OrderInv
<1>3. CASE UNCHANGED <<cfgReq, reported, fw, scanEvents, epc, ev, endedBy>>
  BY <1>2, <1>3 DEF OrderInv, Outstanding
<1>4. CASE ScanSend
  <2>1. fw = <<>> /\ scanEvents = <<>> /\ epc # "check"
    BY <1>2, <1>4 DEF ScanSend, Outstanding
  <2>2. fw' = <<nscan + 1>> /\ cfgReq' = nscan + 1 /\ cfgReq' # 0 /\ ~reported'
    BY <1>0, <1>4, <2>1 DEF ScanSend
  <2>3. UNCHANGED <<scanEvents, epc, ev, endedBy>>
    BY <1>4 DEF ScanSend
  <2> QED BY <1>2, <2>1, <2>2, <2>3 DEF OrderInv, Outstanding
<1>5. CASE CallbackStart
  <2>1. /\ scanEvents # <<>> /\ scanEvents' = Tail(scanEvents) /\ epc = "idle"
        /\ UNCHANGED <<cfgReq, reported, fw, endedBy>>
        /\ \/ UNCHANGED <<epc, ev>>
           \/ epc' = "check" /\ ev' = Head(scanEvents)
    BY <1>5 DEF CallbackStart, scanCfgVars, scanFwVars, scanHistory
  <2>2. /\ Len(scanEvents) \in Nat \ {0} /\ Head(scanEvents) = scanEvents[1]
        /\ Tail(scanEvents) \in Seq(ScanEvent) /\ Len(Tail(scanEvents)) = Len(scanEvents) - 1
        /\ \A i \in 1..Len(Tail(scanEvents)) : Tail(scanEvents)[i] = scanEvents[i + 1]
        /\ DOMAIN scanEvents = 1..Len(scanEvents)
        /\ DOMAIN Tail(scanEvents) = 1..Len(Tail(scanEvents))
    BY <1>0, <2>1, EmptySeq, HeadTailProperties, LenProperties
  <2>3. Outstanding /\ Outstanding'
    BY <1>2, <2>1 DEF Outstanding
  <2>4. \A i \in DOMAIN scanEvents' :
           /\ scanEvents'[i].scan = cfgReq'
           /\ scanEvents'[i].type \in EndTypes => i = Len(scanEvents') /\ fw' = <<>>
    BY <1>2, <2>1, <2>2
  <2>5. /\ scanEvents[1].scan = cfgReq
        /\ scanEvents[1].type \in EndTypes => Len(scanEvents) = 1 /\ fw = <<>>
    BY <1>2, <2>2
  <2>6. Len(scanEvents) = 1 => scanEvents' = <<>>
    BY <2>1, <2>2, EmptySeq
  <2> QED BY <1>2, <2>1, <2>2, <2>3, <2>4, <2>5, <2>6 DEF OrderInv
<1>6. CASE ScanDoneNothing
  <2>1. epc' = "idle" /\ UNCHANGED <<cfgReq, reported, fw, scanEvents, endedBy>>
    BY <1>6 DEF ScanDoneNothing, scanCfgVars, scanFwVars
  <2> QED BY <1>2, <2>1 DEF OrderInv, Outstanding
<1>7. CASE ScanDone
  <2>1. /\ epc = "check" /\ drvReq # 0 /\ epc' = "clear"
        /\ UNCHANGED <<cfgReq, fw, scanEvents>>
        /\ endedBy' = IF drvReq = cfgReq THEN [endedBy EXCEPT ![drvReq] = ev.scan]
                      ELSE endedBy
    BY <1>7 DEF ScanDone, scanFwVars
  <2>2. drvReq = cfgReq
    BY <1>1, <2>1 DEF ScanInv, PointerInv
  <2>3. ev.type # "last"
    BY <1>7, <1>1 DEF ScanDone
  <2>4. ev \in ScanEvent /\ ev.type \in EndTypes
    <3>1. EndsScan(ev.type)
      BY <2>1 DEF ScanInv, ScanTypes
    <3> QED BY <1>0, <2>1, <2>3, <3>1 DEF EndsScan, EndTypes
  <2>5. fw' = <<>> /\ scanEvents' = <<>>
    BY <1>2, <2>1, <2>4
  <2>6. \A n \in Scans : endedBy'[n] \in {0, n}
    BY <1>0, <1>2, <2>1, <2>2
  <2> QED BY <2>1, <2>5, <2>6 DEF OrderInv
<1>8. CASE ScanDoneClear
  <2>1. epc' = "idle" /\ UNCHANGED <<cfgReq, reported, fw, scanEvents, endedBy>>
    BY <1>8 DEF ScanDoneClear, scanCfgVars, scanFwVars, scanHistory
  <2> QED BY <1>2, <2>1 DEF OrderInv, Outstanding
<1>9. CASE Firmware
  <2>1. PICK t \in {"result", "last", "done", "abort"} :
          \/ FwResult(t) /\ t \notin EndTypes
          \/ FwEnd(t) /\ t \in EndTypes
    BY <1>9 DEF Firmware, EndTypes
  <2>2. /\ fw # <<>> /\ UNCHANGED <<cfgReq, reported, epc, ev, endedBy>>
        /\ scanEvents' = Append(scanEvents, [type |-> t, scan |-> Head(fw)])
        /\ IF t \in EndTypes THEN fw' = Tail(fw) ELSE fw' = fw
    BY <2>1 DEF FwResult, FwEnd, scanCfgVars, scanHistory
  <2>3. Outstanding /\ Outstanding' /\ fw = <<cfgReq>>
    BY <1>2, <2>2 DEF Outstanding
  <2>4. Head(fw) = cfgReq /\ Tail(fw) = <<>>
    BY <2>3
  <2>5. [type |-> t, scan |-> cfgReq] \in ScanEvent
    BY <1>0, <2>2, <2>4, HeadTailProperties DEF ScanEvent
  <2>6. /\ Len(scanEvents') = Len(scanEvents) + 1
        /\ DOMAIN scanEvents' = 1..(Len(scanEvents) + 1)
        /\ DOMAIN scanEvents = 1..Len(scanEvents) /\ Len(scanEvents) \in Nat
        /\ \A i \in 1..Len(scanEvents) : scanEvents'[i] = scanEvents[i]
        /\ scanEvents'[Len(scanEvents) + 1] = [type |-> t, scan |-> cfgReq]
    BY <1>0, <2>2, <2>4, <2>5, AppendProperties, LenProperties
  <2>7. \A i \in DOMAIN scanEvents' :
           /\ scanEvents'[i].scan = cfgReq'
           /\ scanEvents'[i].type \in EndTypes => i = Len(scanEvents') /\ fw' = <<>>
    <3> SUFFICES ASSUME NEW i \in DOMAIN scanEvents'
                 PROVE  /\ scanEvents'[i].scan = cfgReq'
                        /\ scanEvents'[i].type \in EndTypes =>
                             i = Len(scanEvents') /\ fw' = <<>>
      OBVIOUS
    <3>1. CASE i = Len(scanEvents) + 1
      BY <2>2, <2>4, <2>6, <3>1
    <3>2. CASE i \in 1..Len(scanEvents)
      BY <1>2, <2>2, <2>6, <3>2
    <3> QED BY <2>6, <3>1, <3>2
  <2> QED BY <1>2, <2>2, <2>3, <2>4, <2>7 DEF OrderInv
<1>10. CASE CfgReport \/ InterfaceDown
  <2>1. reported /\ UNCHANGED <<fw, scanEvents, epc, ev, endedBy>>
    BY <1>0, <1>1, <1>10 DEF CfgReport, InterfaceDown, scanFwVars, scanHistory
  <2> QED BY <1>2, <2>1 DEF OrderInv, Outstanding
<1> QED
  BY <1>3, <1>4, <1>5, <1>6, <1>7, <1>8, <1>9, <1>10
  DEF ScanNext, Request, Callback, ScanRefused, ScanStore, scanVars, scanCfgVars,
      scanFwVars, scanHistory

\* All of the invariant.
LEMMA ScanStep == ScanInv /\ [ScanNext]_scanVars => ScanInv'
BY ScanTypeStep, PointerStep, OrderStep DEF ScanInv

\* The bounds are kept: a request that meets a race is a request cfg80211 has
\* made.
LEMMA RangeStep ==
  ScanTypes /\ SentInv /\ RangeInv /\ [ScanNext]_scanVars => RangeInv'
<1> SUFFICES ASSUME ScanTypes, SentInv, RangeInv, [ScanNext]_scanVars PROVE RangeInv'
  OBVIOUS
<1>0. /\ nscan \in Nat /\ drvReq \in Nat /\ downs \in Nat /\ scanEvents \in Seq(ScanEvent)
      /\ MaxScans \in Nat /\ MaxDowns \in Nat /\ MaxResults \in Nat
      /\ (spc = "sent" => nscan \in Scans)
  BY ScanAssumption DEF ScanTypes, SentInv, RangeInv, Scans
<1> USE DEF RangeInv, scanCfgVars, scanFwVars, scanHistory
<1>1. CASE ScanRefused
  BY <1>0, <1>1 DEF ScanRefused
<1>2. CASE ScanSend
  <2>1. nscan' <= MaxScans /\ nscan + 1 \in Scans
    BY <1>0, <1>2 DEF ScanSend, Scans
  <2>2. raced' \subseteq Scans
    BY <1>2, <2>1 DEF ScanSend
  <2> QED BY <1>2, <2>1, <2>2 DEF ScanSend
<1>3. CASE ScanStore
  BY <1>3 DEF ScanStore
<1>4. CASE CallbackStart
  <2>1. Head(scanEvents) \in ScanEvent
    BY <1>0, <1>4, HeadTailProperties DEF CallbackStart
  <2> QED BY <1>4, <2>1 DEF CallbackStart
<1>5. CASE ScanDoneNothing
  BY <1>0, <1>5 DEF ScanDoneNothing
<1>6. CASE ScanDone
  <2>1. ev.scan \in 0..MaxScans
    BY <1>0, <1>6 DEF ScanDone, ScanTypes, ScanEvent, Scans
  <2>2. endedBy' \in [Scans -> 0..MaxScans]
    BY <1>6, <2>1 DEF ScanDone
  <2>3. raced' \subseteq Scans
    BY <1>0, <1>6 DEF ScanDone
  <2> QED BY <1>6, <2>2, <2>3 DEF ScanDone
<1>7. CASE ScanDoneClear
  BY <1>7 DEF ScanDoneClear
<1>8. CASE Firmware
  <2>1. nresults' \in 0..MaxResults
    BY <1>0, <1>8 DEF Firmware, FwResult, FwEnd
  <2> QED BY <1>8, <2>1 DEF Firmware, FwResult, FwEnd
<1>9. CASE CfgReport
  BY <1>9 DEF CfgReport
<1>10. CASE InterfaceDown
  <2>1. downs' <= MaxDowns
    BY <1>0, <1>10 DEF InterfaceDown
  <2> QED BY <1>10, <2>1 DEF InterfaceDown
<1>11. CASE UNCHANGED scanVars
  BY <1>11 DEF scanVars
<1> QED BY <1>1, <1>2, <1>3, <1>4, <1>5, <1>6, <1>7, <1>8, <1>9, <1>10, <1>11
        DEF ScanNext, Request, Callback

-----------------------------------------------------------------------------
\* An accepted request stays in nrf_wifi_scan_req until cfg80211 is told of its
\* end, in every interleaving of the operation, the callbacks, cfg80211's work
\* item and the interface going down that is not one of the two races.
THEOREM RequestsAreRemembered == ScanSpec => []NeverForgotten
<1>1. ScanInv => NeverForgotten
  BY DEF ScanInv, ForgetInv
<1> QED BY <1>1, ScanStart, ScanStep, PTL DEF ScanSpec

\* cfg80211_scan_done is called for the outstanding request and by an event of
\* its own scan, for every number of scans, results and races, while the
\* interface stays up (and, for the second, while no scan ends twice).
THEOREM ScansEndInTurn == ScanSpec => []ScanDoneIsDue
<1>1. ScanInv => ScanDoneIsDue
  BY DEF ScanInv, ScanTypes, PointerInv, OrderInv, ScanDoneIsDue, EndedByOwn,
         EndsOnlyOutstanding
<1> QED BY <1>1, ScanStart, ScanStep, PTL DEF ScanSpec

\* Every variable stays in its range: the request pointer is NULL or a request
\* of cfg80211's, and an event ends a request under the number of a scan.
THEOREM ScanTypeCorrect == ScanSpec => []ScanTypeOK
<1> DEFINE TypeInv == ScanInv /\ RangeInv
<1>1. ScanInit => TypeInv
  <2>1. ScanInit => RangeInv
    BY ScanAssumption DEF ScanInit, RangeInv, Scans
  <2> QED BY <2>1, ScanStart
<1>2. TypeInv /\ [ScanNext]_scanVars => TypeInv'
  BY ScanStep, RangeStep DEF ScanInv
<1>3. TypeInv => ScanTypeOK
  <2> SUFFICES ASSUME TypeInv PROVE ScanTypeOK
    OBVIOUS
  <2>1. /\ nscan \in 0..MaxScans /\ cfgReq \in 0..MaxScans /\ drvReq \in 0..MaxScans
        /\ downs \in 0..MaxDowns
    BY ScanAssumption DEF ScanInv, ScanTypes, SentInv, RangeInv
  <2> QED BY <2>1 DEF ScanTypeOK, ScanInv, ScanTypes, SentInv, RangeInv
<1> QED BY <1>1, <1>2, <1>3, PTL DEF ScanSpec
===============================================================================
