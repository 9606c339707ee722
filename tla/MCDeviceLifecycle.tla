--------------------------- MODULE MCDeviceLifecycle ---------------------------
(* RpuConfig for TLC: two interfaces a user may create against a table of     *)
(* two, so that the table can be full; two loads, so that what one cycle      *)
(* leaves behind meets the next; two processes at the files.                  *)
EXTENDS RpuConfig, TLC

CONSTANTS u1, u2, w1, w2

UserSet   == {u1, u2}
WriterSet == {w1, w2}

\* The two interfaces are interchangeable, and so are the two processes.
Symmetry == Permutations(UserSet) \union Permutations(WriterSet)
===============================================================================
