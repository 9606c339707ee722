----------------------------- MODULE MCRpuRequests -----------------------------
(* RpuRequests and VifModes for TLC. Three requests are enough for an answer  *)
(* to overtake two requests of its kind, or for two kinds to interleave after *)
(* a timeout. Frames meet chg_vif only, two changes and one frame or one      *)
(* change and two frames (MaxMixed is their sum); the operations that do not  *)
(* wait meet one request of any kind.                                         *)
EXTENDS VifModes

CONSTANT MaxMixed

Legacy(rt) == [form |-> "radiotap", rate |-> rt, mcs |-> Absent, vht |-> Absent]

\* 5.5 Mb/s; a rate radiotap cannot name; HT above the limit and VHT, each with
\* a legacy rate besides; a frame with its raw header; no header; too long.
MCFrames ==
  {Legacy(11), Legacy(22), Legacy(13),
   [Legacy(12) EXCEPT !.mcs = 8], [Legacy(12) EXCEPT !.vht = 9]}
  \union {[Legacy(Absent) EXCEPT !.form = f] :
            f \in {"raw_header", "plain", "oversize"}}

MCNext ==
  /\ VifNext
  /\ nframes' > 0 => nreq' + nframes' <= MaxMixed /\ rkind' = "set_if"
  /\ nconf' > 0 => nreq' <= 1 /\ nframes' = 0

MCSpec == VifInit /\ [][MCNext]_vifVars
===============================================================================
