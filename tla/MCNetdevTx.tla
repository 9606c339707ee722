------------------------------ MODULE MCNetdevTx ------------------------------
(***************************************************************************)
(* Instances of NetdevTx for TLC. The counters are unsigned long long; the *)
(* instances use a modulus far above any count they reach, so that, as in  *)
(* the driver, a wrapped difference is a huge number.                      *)
(***************************************************************************)
EXTENDS NetdevTx
===============================================================================
