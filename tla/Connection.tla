------------------------------ MODULE Connection ------------------------------
(***************************************************************************)
(* Joining and leaving a network: auth, assoc, deauth and disassoc of      *)
(* src/src/cfg80211_if.c with their event callbacks, for one station       *)
(* interface.                                                              *)
(*                                                                         *)
(* The operations run under the wiphy lock, one at a time, and hand their  *)
(* command to the firmware; the callbacks run later, in the event work     *)
(* item. All the driver remembers in between is vif_ctx_lnx->bss, which it *)
(* names to cfg80211 when the association response arrives. cfg80211       *)
(* (external) holds a BSS from an accepted assoc on, and lets go of the    *)
(* one the response is reported with, or, if the association succeeded,    *)
(* of that one when the connection ends.                                   *)
(***************************************************************************)
EXTENDS Integers, Sequences, FiniteSets

CONSTANTS
  Bss,        \* networks in range
  NULL,
  MaxReq      \* bound: auth and assoc commands the firmware takes

ASSUME ConnectionAssumption ==
  NULL \notin Bss /\ "unsaid" \notin Bss \union {NULL} /\ MaxReq \in Nat

VARIABLES
  sme,        \* wpa_supplicant: what it waits for or has
  target,     \* wpa_supplicant: the network it wants
  bss,        \* vif_ctx_lnx->bss
  asked,      \* commands the firmware took: [type, bss], in order
  fw,         \* numbers of the commands it has not answered
  events,     \* events on their way to the host, in order
  connected,  \* cfg80211: the BSS of the connection, or NULL
  held,       \* cfg80211: holds of each BSS
  reported,   \* history: the BSS each association response was reported with
  overtaken   \* history: assoc commands unanswered when bss changed

vars == <<sme, target, bss, asked, fw, events, connected, held, reported,
          overtaken>>

Reqs   == 1..MaxReq
Event  == [type : {"auth_resp", "assoc_ok", "assoc_fail"}, req : Reqs]
            \union [type : {"deauth", "disassoc"}, bss : Bss]
Unsaid == "unsaid"

TypeOK ==
  /\ sme \in {"idle", "authing", "authed", "associng", "associated"}
  /\ target \in Bss /\ bss \in Bss \union {NULL}
  /\ asked \in Seq([type : {"auth", "assoc"}, bss : Bss])
  /\ fw \subseteq Reqs /\ events \in Seq(Event)
  /\ connected \in Bss \union {NULL}
  /\ held \in [Bss -> Int]
  /\ reported \in [Reqs -> Bss \union {NULL, Unsaid}]
  /\ overtaken \subseteq Reqs

Init ==
  /\ sme = "idle" /\ target \in Bss /\ bss = NULL
  /\ asked = <<>> /\ fw = {} /\ events = <<>>
  /\ connected = NULL /\ held = [b \in Bss |-> 0]
  /\ reported = [n \in Reqs |-> Unsaid] /\ overtaken = {}

cfgVars == <<connected, held>>
history == <<reported, overtaken>>

\* The firmware takes a command.
Ask(type, b) ==
  /\ Len(asked) < MaxReq
  /\ asked' = Append(asked, [type |-> type, bss |-> b])
  /\ fw' = fw \union {Len(asked) + 1}

\* The assoc commands whose response has not been reported.
Unanswered ==
  {n \in DOMAIN asked : /\ asked[n].type = "assoc" /\ reported[n] = Unsaid
                        /\ \/ n \in fw
                           \/ \E i \in DOMAIN events :
                                 /\ events[i].type \in {"assoc_ok", "assoc_fail"}
                                 /\ events[i].req = n}

\* bss becomes b; history: the assoc commands that are still unanswered.
SetBss(b) ==
  /\ bss' = b
  /\ overtaken' = overtaken \union {n \in Unanswered : asked[n].bss # b}

\* cfg80211 ends its connection, if there is one, and lets go of its BSS.
Disconnected ==
  /\ connected' = NULL
  /\ held' = IF connected = NULL THEN held ELSE [held EXCEPT ![connected] = @ - 1]
-----------------------------------------------------------------------------
(* The operations. wpa_supplicant joins a network with auth and assoc, also *)
(* when it is connected to another one, and gives up with deauth.           *)

Auth(b) ==
  /\ sme \in {"idle", "associated"} /\ b # connected
  /\ target' = b
  /\ Ask("auth", b)
  /\ sme' = "authing"
  /\ UNCHANGED <<bss, events, cfgVars, history>>

\* nrf_wifi_cfg80211_auth returns an error: no memory, no IEs or too long ones,
\* an SSID IE that is missing, truncated or too long, a key or SAE data that is
\* too long, or a command the FMAC library does not take.
AuthRefused(b) ==
  /\ sme \in {"idle", "associated"} /\ b # connected
  /\ target' = b
  /\ UNCHANGED <<sme, bss, asked, fw, events, cfgVars, history>>

\* Faulty variant of AssocStore: a BSS that is there is kept.
AssocStore_IfNull == SetBss(IF bss = NULL THEN target ELSE bss)

\* The BSS is remembered before anything is checked.
AssocStore == SetBss(target)

\* nrf_wifi_cfg80211_assoc; cfg80211 holds the BSS of an assoc that succeeded.
Assoc ==
  /\ sme = "authed"
  /\ AssocStore
  /\ Ask("assoc", target)
  /\ sme' = "associng"
  /\ held' = [held EXCEPT ![target] = @ + 1]
  /\ UNCHANGED <<target, events, connected, reported>>

\* ... or it returns an error: no memory, no IEs, a bad SSID IE, IEs that are
\* too long, or a command the FMAC library does not take.
AssocRefused ==
  /\ sme = "authed"
  /\ AssocStore
  /\ sme' = "idle"
  /\ UNCHANGED <<target, asked, fw, events, cfgVars, reported>>

\* nrf_wifi_cfg80211_deauth tells cfg80211 at once, and leaves bss alone. If it
\* finds no memory or the FMAC library refuses, nothing changes; so in disassoc.
Deauth ==
  /\ sme # "idle"
  /\ Disconnected
  /\ sme' = "idle"
  /\ UNCHANGED <<target, bss, asked, fw, events, history>>

\* nrf_wifi_cfg80211_disassoc forgets the BSS ...
DisassocClear == SetBss(NULL)

\* ... and tells cfg80211, which calls it only on a connection.
Disassoc ==
  /\ sme # "idle" /\ connected # NULL
  /\ DisassocClear
  /\ Disconnected
  /\ sme' = "idle"
  /\ UNCHANGED <<target, asked, fw, events, reported>>
-----------------------------------------------------------------------------
(* The callbacks *)

Handle(types) ==
  events # <<>> /\ Head(events).type \in types /\ events' = Tail(events)

\* nrf_wifi_cfg80211_auth_resp_callbk_fn passes the frame on; it names its BSS.
AuthResp ==
  /\ Handle({"auth_resp"})
  /\ sme' = IF sme = "authing" /\ asked[Head(events).req].bss = target
            THEN "authed" ELSE sme
  /\ UNCHANGED <<target, bss, asked, fw, cfgVars, history>>

\* Faulty variant of ReportedBss: the BSS wpa_supplicant wants by now.
ReportedBss_Target == target

\* nrf_wifi_cfg80211_assoc_resp_callbk_fn names vif_ctx_lnx->bss.
ReportedBss == bss

\* cfg80211_rx_assoc_resp. On success the named BSS is that of the connection
\* from now on, and an older connection's BSS is let go; on failure the named
\* BSS is let go. Naming no BSS is refused with a warning.
AssocResp ==
  LET n  == Head(events).req
      ok == Head(events).type = "assoc_ok"
      b  == ReportedBss
  IN
  /\ Handle({"assoc_ok", "assoc_fail"})
  /\ reported' = [reported EXCEPT ![n] = b]
  /\ \/ /\ b = NULL
        /\ UNCHANGED cfgVars
     \/ /\ b # NULL /\ ok
        /\ held' = IF connected = NULL THEN held
                   ELSE [held EXCEPT ![connected] = @ - 1]
        /\ connected' = b
     \/ /\ b # NULL /\ ~ok
        /\ held' = [held EXCEPT ![b] = @ - 1]
        /\ UNCHANGED connected
  /\ sme' = IF sme = "associng" /\ asked[n].bss = target
            THEN IF ok THEN "associated" ELSE "idle"
            ELSE sme
  /\ UNCHANGED <<target, bss, asked, fw, overtaken>>

\* nrf_wifi_cfg80211_deauth_callbk_fn and _disassoc_callbk_fn pass the frame on;
\* cfg80211 ends the connection if it is the one with the frame's BSS.
LeaveEvent ==
  LET b == Head(events).bss IN
  /\ Handle({"deauth", "disassoc"})
  /\ \/ connected = b /\ Disconnected
     \/ connected # b /\ UNCHANGED cfgVars
  /\ sme' = IF target = b THEN "idle" ELSE sme
  /\ UNCHANGED <<target, bss, asked, fw, history>>
-----------------------------------------------------------------------------
(* The firmware (external) answers a command or drops it, and passes on the *)
(* frames of an access point that ends the association.                     *)

FwAnswer(n) ==
  LET types == IF asked[n].type = "auth" THEN {"auth_resp"}
               ELSE {"assoc_ok", "assoc_fail"}
  IN
  /\ n \in fw
  /\ \E t \in types : events' = Append(events, [type |-> t, req |-> n])
  /\ fw' = fw \ {n}
  /\ UNCHANGED <<sme, target, bss, asked, cfgVars, history>>

FwDrops(n) ==
  /\ n \in fw
  /\ fw' = fw \ {n}
  /\ UNCHANGED <<sme, target, bss, asked, events, cfgVars, history>>

\* Bound: one such frame at a time.
FwLeave(type, b) ==
  /\ connected = b
  /\ \A i \in DOMAIN events : events[i].type \notin {"deauth", "disassoc"}
  /\ events' = Append(events, [type |-> type, bss |-> b])
  /\ UNCHANGED <<sme, target, bss, asked, fw, cfgVars, history>>
-----------------------------------------------------------------------------
Operation == (\E b \in Bss : Auth(b) \/ AuthRefused(b))
               \/ Assoc \/ AssocRefused \/ Deauth \/ Disassoc
Callback  == AuthResp \/ AssocResp \/ LeaveEvent
Firmware  == (\E n \in Reqs : FwAnswer(n) \/ FwDrops(n))
               \/ \E t \in {"deauth", "disassoc"}, b \in Bss : FwLeave(t, b)

Next == Operation \/ Callback \/ Firmware

Spec == Init /\ [][Next]_vars
-----------------------------------------------------------------------------
(* Properties *)

\* An association response is reported to cfg80211 with the BSS its command was
\* for, although the driver remembers only one: unless a later assoc or disassoc
\* had changed it while the command was unanswered.
ResponseKeepsBss ==
  \A n \in DOMAIN asked :
     reported[n] \in {Unsaid, asked[n].bss} \/ n \in overtaken

\* cfg80211's holds balance: one for each association command that has had no
\* response reported, which a dropped command keeps for ever, and one for the
\* connection, as long as no response was overtaken.
HoldsBalance ==
  overtaken = {} =>
     \A b \in Bss :
        held[b] = Cardinality({n \in DOMAIN asked :
                                 /\ asked[n] = [type |-> "assoc", bss |-> b]
                                 /\ reported[n] = Unsaid})
                   + IF connected = b THEN 1 ELSE 0
===============================================================================
