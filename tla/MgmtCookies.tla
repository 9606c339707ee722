------------------------------ MODULE MgmtCookies ------------------------------
(***************************************************************************)
(* Management frames and their cookies: nrf_wifi_cfg80211_mgmt_tx and      *)
(* nrf_wifi_cfg80211_tx_status_callbk_fn of src/src/cfg80211_if.c, and     *)
(* nrf_wifi_cookie_rsp_callbk_fn of src/src/main.c.                        *)
(*                                                                         *)
(* The user gets a cookie for each frame; the firmware has one of its own, *)
(* tells it in a cookie response, and names it in the frame's status. The  *)
(* driver keeps the pairs in cookie_list and translates back. Frames are   *)
(* numbered, and the number stands for the firmware's cookie.              *)
(***************************************************************************)
EXTENDS Integers, Sequences, FiniteSets, FiniteSetsExt

CONSTANTS
  CookieMod,   \* 2^64: cmd_frame_cookie_g is an unsigned long long
  MaxFrames,   \* bound: frames the firmware is handed
  MaxFail      \* bound: frames the FMAC library refuses

ASSUME CookieAssumption ==
  CookieMod \in Nat /\ CookieMod > 1 /\ MaxFrames \in Nat /\ MaxFail \in Nat

NoStatus == -1

VARIABLES
  cmd_frame_cookie_g,
  host,         \* the cookie the user got for each frame, in order
  refused,      \* frames the library refused
  events,       \* events on their way to the host, in order
  sending,      \* frames the firmware has told the cookie of and still sends
  accepting,    \* frames handed over, cookie not told yet, in order
  cookie_list,  \* rpu_ctx_lnx->cookie_list
  dropped,      \* history: frames whose cookie response found no memory
  status        \* history: the cookie each frame's status was reported with

fwVars == <<events, sending, accepting>>
vars == <<cmd_frame_cookie_g, host, refused, events, sending, accepting,
          cookie_list, dropped, status>>

Frames == 1..MaxFrames
Entry  == [host_cookie : 0..(CookieMod - 1), rpu_cookie : Frames]
Event  == [type : {"cookie_rsp", "tx_status"}, frame : Frames]

TypeOK ==
  /\ cmd_frame_cookie_g \in 0..(CookieMod - 1)
  /\ host \in Seq(0..(CookieMod - 1)) /\ refused \in 0..MaxFail
  /\ events \in Seq(Event)
  /\ sending \subseteq Frames /\ accepting \in Seq(Frames)
  /\ cookie_list \in Seq(Entry)
  /\ dropped \subseteq Frames
  /\ status \in [Frames -> {NoStatus} \union (0..(CookieMod - 1))]

\* cmd_frame_cookie_g starts anywhere: it outlives interfaces and devices.
Init ==
  /\ cmd_frame_cookie_g \in 0..(CookieMod - 1)
  /\ host = <<>> /\ refused = 0
  /\ events = <<>> /\ sending = {} /\ accepting = <<>>
  /\ cookie_list = <<>> /\ dropped = {}
  /\ status = [f \in Frames |-> NoStatus]
-----------------------------------------------------------------------------
\* The counter skips zero when it overflows.
NextCookie(c) ==
  LET n == (c + 1) % CookieMod IN IF n = 0 THEN (n + 1) % CookieMod ELSE n

\* The frame is handed to the firmware with its cookie, which the user gets too.
MgmtTx ==
  LET c == NextCookie(cmd_frame_cookie_g) IN
  /\ Len(host) < MaxFrames
  /\ cmd_frame_cookie_g' = c
  /\ host' = Append(host, c)
  /\ accepting' = Append(accepting, Len(host) + 1)
  /\ UNCHANGED <<refused, events, sending, cookie_list, dropped, status>>

\* nrf_wifi_fmac_mgmt_tx failed: an error for the user, the cookie is spent.
MgmtTxFail ==
  /\ refused < MaxFail
  /\ refused' = refused + 1
  /\ cmd_frame_cookie_g' = NextCookie(cmd_frame_cookie_g)
  /\ UNCHANGED <<host, fwVars, cookie_list, dropped, status>>
-----------------------------------------------------------------------------
(* The firmware (external) *)

\* The firmware accepts a frame and tells its cookie ...
FwCookieRsp ==
  /\ accepting # <<>>
  /\ events' = Append(events, [type |-> "cookie_rsp", frame |-> Head(accepting)])
  /\ sending' = sending \union {Head(accepting)}
  /\ accepting' = Tail(accepting)
  /\ UNCHANGED <<cmd_frame_cookie_g, host, refused, cookie_list, dropped, status>>

\* ... and later, in any order, the status of the frames it has sent.
FwTxStatus(f) ==
  /\ f \in sending
  /\ events' = Append(events, [type |-> "tx_status", frame |-> f])
  /\ sending' = sending \ {f}
  /\ UNCHANGED <<cmd_frame_cookie_g, host, refused, accepting, cookie_list,
                 dropped, status>>
-----------------------------------------------------------------------------
(* The callbacks *)

Handle(type) ==
  events # <<>> /\ Head(events).type = type /\ events' = Tail(events)

\* list_add puts the new pair at the head of the list.
CookieRsp ==
  LET f == Head(events).frame IN
  /\ Handle("cookie_rsp")
  /\ cookie_list' = <<[host_cookie |-> host[f], rpu_cookie |-> f]>> \o cookie_list
  /\ UNCHANGED <<cmd_frame_cookie_g, host, refused, sending, accepting, dropped,
                 status>>

\* No memory for the pair: the response is dropped.
CookieRspNoMemory ==
  /\ Handle("cookie_rsp")
  /\ dropped' = dropped \union {Head(events).frame}
  /\ UNCHANGED <<cmd_frame_cookie_g, host, refused, sending, accepting,
                 cookie_list, status>>

\* Faulty variant of Found: statuses are taken to come in the order the frames
\* were sent, so that the oldest pair is the frame's.
Found_Oldest(rpu) ==
  IF cookie_list = <<>> THEN 0 ELSE cookie_list[Len(cookie_list)].host_cookie

\* host_cookie after the loop: the last pair of the firmware's cookie sets it,
\* and it stays 0 if there is none.
Found(rpu) ==
  LET pairs == {i \in DOMAIN cookie_list : cookie_list[i].rpu_cookie = rpu} IN
  IF pairs = {} THEN 0 ELSE cookie_list[Max(pairs)].host_cookie

\* The entries the loop has left in the list when it is past the n-th: every
\* pair of the firmware's cookie goes.
Walked(rpu) ==
  LET W[n \in 0..Len(cookie_list)] ==
        IF n = 0 THEN <<>>
        ELSE IF cookie_list[n].rpu_cookie = rpu THEN W[n - 1]
        ELSE Append(W[n - 1], cookie_list[n])
  IN W

\* Faulty variant of Unmatched: pairs are never removed.
Unmatched_Keeps(rpu) == cookie_list

\* The list after the loop.
Unmatched(rpu) == Walked(rpu)[Len(cookie_list)]

\* The status is reported with the cookie found, or with cookie 0.
TxStatus ==
  LET f == Head(events).frame IN
  /\ Handle("tx_status")
  /\ status' = [status EXCEPT ![f] = Found(f)]
  /\ cookie_list' = Unmatched(f)
  /\ UNCHANGED <<cmd_frame_cookie_g, host, refused, sending, accepting, dropped>>
-----------------------------------------------------------------------------
Next ==
  \/ MgmtTx \/ MgmtTxFail
  \/ FwCookieRsp \/ \E f \in Frames : FwTxStatus(f)
  \/ CookieRsp \/ CookieRspNoMemory \/ TxStatus

Spec == Init /\ [][Next]_vars
-----------------------------------------------------------------------------
(* Properties *)

\* A frame's status is reported with the cookie its sender was given, in
\* whatever order frames are sent and the counter wraps; with cookie 0 if the
\* cookie response was lost, and 0 is no frame's cookie.
StatusReachesSender ==
  \A f \in Frames :
     status[f] # NoStatus =>
        IF f \in dropped THEN status[f] = 0
        ELSE status[f] = host[f] /\ status[f] # 0

\* The event of that type about frame f is still on its way.
OnItsWay(type, f) ==
  \E i \in DOMAIN events : events[i] = [type |-> type, frame |-> f]

\* cookie_list holds one pair for each frame between its cookie response and
\* its status, and nothing else: it does not grow with the frames sent.
ListIsOutstanding ==
  /\ \A i, j \in DOMAIN cookie_list :
        cookie_list[i].rpu_cookie = cookie_list[j].rpu_cookie => i = j
  /\ {cookie_list[i].rpu_cookie : i \in DOMAIN cookie_list} =
       {f \in Frames :
          /\ f \in sending \/ OnItsWay("tx_status", f)
          /\ ~OnItsWay("cookie_rsp", f) /\ f \notin dropped}

\* Both: the pairs are what the statuses on their way need, and each status that
\* has come found its own.
StatusesPaired == StatusReachesSender /\ ListIsOutstanding

Statuses == INSTANCE MgmtStatus WITH Cookies <- 1..(CookieMod - 1), lost <- dropped

\* Whatever the firmware does in between, the sender of each frame sees a cookie
\* that is not 0 and at most one status, under the cookie it was given: the two
\* cookies, the list and the order of events do not show.
ImplementsStatuses == Statuses!Spec
===============================================================================
