------------------------------ MODULE MgmtStatus ------------------------------
(***************************************************************************)
(* What the driver promises the sender of management frames, without       *)
(* firmware cookies, events or a list: each frame gets a cookie, never 0,  *)
(* and at most one status, which carries that cookie, whatever happened    *)
(* between. Only a frame whose cookie response was lost before has its     *)
(* status reported with cookie 0.                                          *)
(***************************************************************************)
EXTENDS Integers, Sequences

CONSTANTS Cookies, Frames, NoStatus

VARIABLES
  host,    \* the cookie the sender got for each frame, in order
  lost,    \* frames the driver can no longer tell the cookie of
  status   \* the cookie each frame's status was reported with

statusVars == <<host, lost, status>>

Init ==
  /\ host = <<>> /\ lost = {}
  /\ status = [f \in Frames |-> NoStatus]

Send ==
  /\ \E c \in Cookies : host' = Append(host, c)
  /\ UNCHANGED <<lost, status>>

Lose(f) ==
  /\ f \notin lost /\ status[f] = NoStatus
  /\ lost' = lost \union {f}
  /\ UNCHANGED <<host, status>>

Report(f) ==
  /\ status[f] = NoStatus
  /\ status' = [status EXCEPT ![f] = IF f \in lost THEN 0 ELSE host[f]]
  /\ UNCHANGED <<host, lost>>

Next == Send \/ \E f \in DOMAIN host : Lose(f) \/ Report(f)

Spec == Init /\ [][Next]_statusVars
===============================================================================
