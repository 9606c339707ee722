--------------------------- MODULE MCNetdevLifecycle ---------------------------
(* Instances of NetdevLifecycle, with the TWT sleep events, for TLC. *)
EXTENDS TwtSleep
===============================================================================
