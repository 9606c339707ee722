----------------------------- MODULE MCRadioTest -----------------------------
(***************************************************************************)
(* Instances of RadioTest for TLC. Each parameter is written with a value  *)
(* its handler takes and one it does not, at the edge of the range where   *)
(* there is one; the parameters other handlers depend on with more.        *)
(***************************************************************************)
EXTENDS RadioTest

MCInputs ==
  [p \in Params |->
     CASE p \in PhyCalib -> {0, 2}
       [] p \in {"he_ltf", "he_gi"} -> {0, 3}
       [] p = "tput_mode" -> {LEGACY, VHT, HE_TB, TPUT_MAX}
       [] p = "sgi" -> {1, 2}
       [] p = "preamble" -> {PREAMBLE_SHORT, PREAMBLE_MIXED}
       [] p = "mcs" -> {-1, 7, 10}
       [] p = "rate" -> {-1, 0}
       [] p = "gap" -> {200000, 200001}
       [] p = "num" -> {0, 1}
       [] p = "len" -> {0, 349, 4001}
       [] p = "power" -> {TX_PWR_RADIO_TEST, TX_PWR_RADIO_TEST + 1}
       [] p = "ru_tone" -> {27, 242}
       [] p = "ru_index" -> {0, 9}
       [] p = "capture_length" -> {1, 2, 16384}
       [] p = "lna_gain" -> {4, 5}
       [] p = "bb_gain" -> {31, 32}
       [] p = "tone_freq" -> {5}
       [] p = "cw" -> {14, 1023}
       [] p = "bypass" -> {1, 2}
       [] p = "country" -> {2, 3}]
===============================================================================
