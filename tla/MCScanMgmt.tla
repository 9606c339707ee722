------------------------------ MODULE MCScanMgmt ------------------------------
(* An instance of Scan, and of MgmtCookies beside it, for TLC. *)
EXTENDS Scan, MgmtCookies

\* The two share no state, so every step of one commutes with every step of the
\* other: it is enough to let one of them move.
MCInit == ScanInit /\ Init
MCNext == \/ ScanNext /\ Init /\ UNCHANGED vars
          \/ Next /\ ScanInit /\ UNCHANGED scanVars

MCSpec == MCInit /\ [][MCNext]_<<scanVars, vars>> /\ ScanFairness
===============================================================================
