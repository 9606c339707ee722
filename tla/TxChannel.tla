------------------------------- MODULE TxChannel -------------------------------
(***************************************************************************)
(* What the transmit path promises, without work items, counters or a      *)
(* stop/wake protocol: a FIFO channel of bounded capacity. Packets enter   *)
(* numbered 1, 2, ... and leave in that order, each exactly once; at most  *)
(* Cap packets are in the driver and the FMAC library together.            *)
(***************************************************************************)
EXTENDS Integers, Sequences

CONSTANT Cap

VARIABLES
  chan,      \* packets in the driver, oldest first
  accepted,  \* number of packets that entered
  held       \* packets in the FMAC library

chanVars == <<chan, accepted, held>>

Init == chan = <<>> /\ accepted = 0 /\ held = 0

Accept ==
  /\ Len(chan) + held < Cap
  /\ chan' = Append(chan, accepted + 1)
  /\ accepted' = accepted + 1
  /\ UNCHANGED held

\* The oldest packet leaves the driver: handed to the library, or dropped.
Leave ==
  /\ chan # <<>>
  /\ chan' = Tail(chan)
  /\ held' \in {held, held + 1}
  /\ UNCHANGED accepted

Sent ==
  /\ held > 0
  /\ held' = held - 1
  /\ UNCHANGED <<chan, accepted>>

Next == Accept \/ Leave \/ Sent

Spec == Init /\ [][Next]_chanVars

FairSpec == Spec /\ WF_chanVars(Leave) /\ WF_chanVars(Sent)
===============================================================================
