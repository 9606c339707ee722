------------------------------ MODULE RadioTest ------------------------------
(***************************************************************************)
(* The RADIO-TEST build's debugfs interface: the file "conf" of            *)
(* src/src/debugfs/radio_test.c, where each write sets a parameter or runs *)
(* a command, and the part of src/src/debugfs/stats.c that prints a        *)
(* capture.                                                                *)
(*                                                                         *)
(* One process writes; a write returns when its command has been answered. *)
(* Another reads the statistics meanwhile, without a lock, and prints and  *)
(* frees the buffer the writer frees and allocates. The firmware           *)
(* (external) takes a command or fails it, which the handler sees. What it *)
(* runs is `running'; what the driver thinks it runs is conf["tx"],        *)
(* conf["rx"], rf_test_run and rf_test.                                    *)
(*                                                                         *)
(* The write function returns success whatever the handler returned, so    *)
(* only what a handler changes is modelled, not its error code. A write    *)
(* that is refused before it changes anything is no step.                  *)
(***************************************************************************)
EXTENDS Integers, FiniteSets

CONSTANTS
  Inputs,     \* for each parameter, the values that are written
  Channels,   \* the values written to "init"
  MaxWrites,  \* bound: writes that are not refused
  MaxFail     \* bound: commands that fail

VARIABLES
  conf,         \* ctx->conf_params
  rf_test_run,  \* ctx->rf_test_run
  rf_test,      \* ctx->rf_test
  buf,          \* ctx->rx_cap_buf: "null", "alloc", or "freed" and still set
  buf_len,      \* samples it has room for
  cap_live,     \* the buffer the capture that runs was given is allocated
  rd, ri,       \* the reader: "idle" or its next step, and i
  pc,           \* the writer: "idle", or what it waits for
  arg,          \* the value being written
  running,      \* firmware: the tests that run
  sent,         \* firmware: the parameters of the transmission that runs
  writes, fails,  \* counters of the bounds
  fault,        \* history: invalid uses of the buffer
  misused,      \* history: what has been done to the present buffer
  lost          \* history: tests the driver has lost track of

vars == <<conf, rf_test_run, rf_test, buf, buf_len, cap_live, rd, ri, pc, arg,
          running, sent, writes, fails, fault, misused, lost>>

\* Enumerations of the FMAC library (external).
LEGACY == 0
HT == 1
VHT == 2
HE_SU == 3
HE_ER_SU == 4
HE_TB == 5
TPUT_MAX == 6
PREAMBLE_SHORT == 0
PREAMBLE_LONG == 1
PREAMBLE_MIXED == 2
TX_PWR_RADIO_TEST == 24
TX_PWR_SYS_TEST == 30

PhyCalib == {"rxdc", "txdc", "txpow", "rxiq", "txiq"}

\* Parameters whose handlers ask check_test_in_prog, and those that do not.
Checked   == PhyCalib \union
             {"tput_mode", "preamble", "mcs", "rate", "gap", "num", "len", "power",
              "ru_tone", "ru_index", "capture_length", "lna_gain", "bb_gain",
              "tone_freq", "cw", "bypass"}
Unchecked == {"he_ltf", "he_gi", "sgi", "country"}
Params    == Checked \union Unchecked

\* The other members of conf_params: set by commands or by nobody.
Fields == Params \union {"tx", "rx", "nss", "channel", "xo", "pwr_ceil"}

ASSUME RadioTestAssumption ==
  /\ \A p \in Params : Inputs[p] \subseteq Int
  /\ Channels \subseteq Nat /\ MaxWrites \in Nat /\ MaxFail \in Nat

RfTests == {"dpd", "xo", "temperature", "rssi", "compute_xo"}
None    == "none"
Tests   == {"tx", "rx", "tone"}

\* conf_params as it is allocated, and as a failed set_defaults leaves it.
Zeroed == [f \in Fields |-> 0]

\* nrf_wifi_radio_test_conf_init; the country code is kept, or "00" (1) if
\* none (0) was set. The XO value and power ceiling are the device's (0).
Defaults(country) ==
  [f \in Fields |->
     CASE f \in PhyCalib -> 1
       [] f \in {"nss", "channel", "preamble", "ru_index"} -> 1
       [] f = "num" -> -1
       [] f = "len" -> 1400
       [] f = "rate" -> 6
       [] f \in {"he_ltf", "he_gi"} -> 2
       [] f = "ru_tone" -> 26
       [] f = "cw" -> 15
       [] f = "power" -> TX_PWR_SYS_TEST
       [] f = "country" -> IF country = 0 THEN 1 ELSE country
       [] OTHER -> 0]

TypeOK ==
  /\ conf \in [Fields -> Int]
  /\ \A f \in PhyCalib \union {"tx", "rx", "nss", "pwr_ceil", "sgi", "bypass"} :
        conf[f] \in 0..1
  /\ conf["tput_mode"] \in 0..(TPUT_MAX - 1) /\ conf["preamble"] \in 0..2
  /\ conf["ru_index"] \in 0..9 /\ conf["xo"] \in 0..127
  /\ rf_test_run \in BOOLEAN
  /\ rf_test \in RfTests \union {None, "tone", "rx_cap"}
  /\ buf \in {"null", "alloc", "freed"} /\ buf_len \in Nat /\ cap_live \in BOOLEAN
  /\ rd \in {"idle", "test", "print", "free", "clear"} /\ ri \in Nat
  /\ pc \in RfTests \union {"idle", "rx_cap_alloc", "rx_cap", "init_rx", "init_tx",
                            "init_tone", "init_conf"}
  /\ arg \in Nat /\ running \in [Tests -> 0..1] /\ sent \in [Fields -> Int]
  /\ writes \in 0..MaxWrites /\ fails \in 0..MaxFail
  /\ fault \subseteq {"freed_use", "null_use", "over_read", "late_write"}
  /\ misused \subseteq {"error", "longer", "early_read", "overlap"}
  /\ lost \subseteq Tests \union {"rf"}

Init ==
  /\ conf = Zeroed /\ rf_test_run = FALSE /\ rf_test = None
  /\ buf = "null" /\ buf_len = 0 /\ cap_live = FALSE
  /\ rd = "idle" /\ ri = 0 /\ pc = "idle" /\ arg = 0
  /\ running = [t \in Tests |-> 0] /\ sent = Zeroed
  /\ writes = 0 /\ fails = 0 /\ fault = {} /\ misused = {} /\ lost = {}

readVars == <<rd, ri>>
bufVars == <<buf, buf_len, cap_live, readVars, fault, misused>>
rfVars  == <<rf_test_run, rf_test>>
fwVars  == <<running, sent>>
-----------------------------------------------------------------------------
(* Which values the handlers accept *)

\* Faulty variant of check_test_in_prog: a transmission is overlooked.
check_test_in_prog_RxOnly == conf["rx"] = 0

check_test_in_prog == conf["rx"] = 0 /\ conf["tx"] = 0

PhyCalibOk(v) == v \in 0..1
HeOk(v)       == v \in 0..2

TputModeOk(v) == v \in 0..(TPUT_MAX - 1)
SgiOk(v)      == v \in 0..1

PreambleOk(v) ==
  v \in IF conf["tput_mode"] = LEGACY THEN {PREAMBLE_SHORT, PREAMBLE_LONG}
        ELSE {PREAMBLE_MIXED}

\* check_valid_data_rate. Bit 7 marks an MCS. HT is recognised by its bit, which
\* HE_SU and HE_TB share; a legacy rate is accepted in every mode.
check_valid_data_rate(dr) ==
  \/ dr = -1
  \/ /\ (dr \div 128) % 2 = 1
     /\ LET mcs == dr % 128 IN
        CASE conf["tput_mode"] \in {HT, HE_SU, HE_TB} -> conf["nss"] = 1 /\ mcs <= 7
          [] conf["tput_mode"] = VHT -> mcs <= 9
          [] conf["tput_mode"] = HE_ER_SU -> mcs <= 2
          [] OTHER -> FALSE
  \/ /\ (dr \div 128) % 2 = 0
     /\ dr \in {1, 2, 55, 11, 6, 9, 12, 18, 24, 36, 48, 54}

\* val | 0x80
McsOk(v) ==
  conf["rate"] = -1
    /\ check_valid_data_rate(IF (v \div 128) % 2 = 1 THEN v ELSE v + 128)

RateOk(v) == check_valid_data_rate(v)
GapOk(v)  == v \in 0..200000
NumOk(v)  == v = -1 \/ v > 0

\* Modes other than legacy and HE_TB have no limit.
LenOk(v) ==
  /\ v > 0
  /\ conf["tput_mode"] = LEGACY => v <= 4000
  /\ conf["tput_mode"] = HE_TB =>
        CASE conf["ru_tone"] = 26  -> v < 350
          [] conf["ru_tone"] = 52  -> v < 800
          [] conf["ru_tone"] = 106 -> v < 1800
          [] conf["ru_tone"] = 242 -> v < 4000
          [] OTHER -> FALSE

PowerOk(v)  == v \in 0..TX_PWR_RADIO_TEST \union {TX_PWR_SYS_TEST}
RuToneOk(v) == v \in {26, 52, 106, 242}

RuIndexOk(v) ==
  CASE conf["ru_tone"] = 26  -> v \in 1..9
    [] conf["ru_tone"] = 52  -> v \in 1..4
    [] conf["ru_tone"] = 106 -> v \in 1..2
    [] conf["ru_tone"] = 242 -> v = 1
    [] OTHER -> FALSE

CaptureLengthOk(v) == v \in 0..16383
LnaGainOk(v)       == v \in 0..4
BbGainOk(v)        == v \in 0..31

\* The value is unsigned, and so is -10 in "val < -10": every value is above 10
\* or below it.
ToneFreqOk(v) == FALSE

CwOk(v)     == v \in {0, 3, 7, 15, 31, 63, 127, 255, 511, 1023}
BypassOk(v) == v \in 0..1

\* Two capital letters (2) or "00" (1). The code is stored before the handler
\* asks check_test_in_prog, and whatever becomes of the command after that.
RegDomainOk(v) == v \in {1, 2}

\* check_valid_channel takes an unsigned char.
check_valid_channel(v) ==
  (v % 256) \in 1..14
    \union {32 + 4 * i : i \in 0..9} \union {96 + 4 * i : i \in 0..12}
    \union {149, 153} \union {157 + 2 * i : i \in 0..10}

\* The bandwidth is never set and thus 20 MHz, which every mode allows.
check_channel_settings == conf["tput_mode"] = VHT => conf["channel"] \notin 1..14

\* The dispatch of the write function.
Accepts(p, v) ==
  CASE p \in PhyCalib -> PhyCalibOk(v)
    [] p \in {"he_ltf", "he_gi"} -> HeOk(v)
    [] p = "tput_mode" -> TputModeOk(v)
    [] p = "sgi" -> SgiOk(v)
    [] p = "preamble" -> PreambleOk(v)
    [] p = "mcs" -> McsOk(v)
    [] p = "rate" -> RateOk(v)
    [] p = "gap" -> GapOk(v)
    [] p = "num" -> NumOk(v)
    [] p = "len" -> LenOk(v)
    [] p = "power" -> PowerOk(v)
    [] p = "ru_tone" -> RuToneOk(v)
    [] p = "ru_index" -> RuIndexOk(v)
    [] p = "capture_length" -> CaptureLengthOk(v)
    [] p = "lna_gain" -> LnaGainOk(v)
    [] p = "bb_gain" -> BbGainOk(v)
    [] p = "tone_freq" -> ToneFreqOk(v)
    [] p = "cw" -> CwOk(v)
    [] p = "bypass" -> BypassOk(v)
    [] p = "country" -> RegDomainOk(v)

\* A write begins; the writer is free.
Begin ==
  /\ pc = "idle" /\ writes < MaxWrites
  /\ writes' = writes + 1
-----------------------------------------------------------------------------
(* Parameters *)

SetParam(p, v) ==
  /\ Begin
  /\ Accepts(p, v)
  /\ p \in Checked => check_test_in_prog
  /\ conf' = [conf EXCEPT ![p] = v]
  /\ misused' = IF p = "capture_length" /\ buf # "null" /\ v > buf_len
                THEN misused \union {"longer"} ELSE misused
  /\ UNCHANGED <<rfVars, buf, buf_len, cap_live, readVars, fault, pc, arg, fwVars,
                 fails, lost>>

\* The firmware takes a command, or fails it.
Command(ok) ==
  /\ ok \in BOOLEAN
  /\ ok \/ fails < MaxFail
  /\ fails' = IF ok THEN fails ELSE fails + 1

\* conf_params is overwritten, tests that run included.
ConfInit(ok, c) ==
  /\ conf' = IF ok THEN c ELSE Zeroed
  /\ lost' = lost \union {t \in {"tx", "rx"} : conf[t] = 1}

\* "set_defaults" asks nothing and ignores the result.
SetDefaults ==
  /\ Begin
  /\ \E ok \in BOOLEAN : Command(ok) /\ ConfInit(ok, Defaults(conf["country"]))
  /\ UNCHANGED <<rfVars, bufVars, pc, arg, fwVars>>
-----------------------------------------------------------------------------
(* Tests *)

\* prog_tx or prog_rx has been given the parameters c.
Program(t, c, ok) ==
  /\ Command(ok)
  /\ running' = IF ok THEN [running EXCEPT ![t] = c[t]] ELSE running
  /\ sent' = IF ok /\ t = "tx" THEN IF c["tx"] = 1 THEN c ELSE Zeroed ELSE sent
  /\ lost' = IF ok THEN lost \ {t} ELSE lost \union {t}

\* The flag is set before the command and stays if it fails. Any power but the
\* system test's raises the power ceiling in the RF parameters, for good.
SetTx(v) ==
  /\ Begin
  /\ v = 1 => check_test_in_prog /\ check_channel_settings
  /\ conf' = [conf EXCEPT
                !["tx"] = v,
                !["pwr_ceil"] = IF v = 1 /\ conf["power"] # TX_PWR_SYS_TEST
                                THEN 1 ELSE @]
  /\ \E ok \in BOOLEAN : Program("tx", conf', ok)
  /\ UNCHANGED <<rfVars, bufVars, pc, arg>>

SetRx(v) ==
  /\ Begin
  /\ v = 1 => check_test_in_prog
  /\ conf' = [conf EXCEPT !["rx"] = v]
  /\ \E ok \in BOOLEAN : Program("rx", conf', ok)
  /\ UNCHANGED <<rfVars, bufVars, pc, arg>>

\* An RF test is marked as running; if it is not the tone that was, the driver
\* forgets the tone.
MarkRfTest(k) ==
  /\ rf_test_run' = TRUE /\ rf_test' = k
  /\ lost' = IF running["tone"] = 1 THEN lost \union {"tone"} ELSE lost

\* dpd, set_xo_val, get_temperature, get_rf_rssi: 1 is refused during a test,
\* other values are not. compute_optimal_xo_val always is.
RfTest(k, v) ==
  /\ Begin
  /\ v \in IF k = "xo" THEN 0..127 ELSE 0..1
  /\ v = 1 \/ k = "compute_xo" => check_test_in_prog
  /\ MarkRfTest(k)
  /\ pc' = k /\ arg' = v
  /\ UNCHANGED <<conf, bufVars, fwVars, fails>>

\* A test that failed stays marked.
UnmarkRfTest(ok) ==
  /\ rf_test_run' = IF ok THEN FALSE ELSE rf_test_run
  /\ rf_test' = IF ok THEN None ELSE rf_test
  /\ lost' = IF ok THEN lost \ {"rf"} ELSE lost \union {"rf"}

RfTestEnd ==
  /\ pc \in RfTests
  /\ \E ok \in BOOLEAN :
        /\ Command(ok) /\ UnmarkRfTest(ok)
        /\ conf' = IF ok /\ pc = "xo" THEN [conf EXCEPT !["xo"] = arg] ELSE conf
  /\ pc' = "idle" /\ arg' = 0
  /\ UNCHANGED <<bufVars, fwVars, writes>>

\* nrf_wifi_radio_test_tx_tone; marked only when the command has succeeded.
TxTone(v) ==
  /\ Begin
  /\ v = 1 => check_test_in_prog
  /\ \E ok \in BOOLEAN :
        /\ Command(ok)
        /\ \/ /\ ok
              /\ running' = [running EXCEPT !["tone"] = v]
              /\ rf_test_run' = (v = 1)
              /\ rf_test' = IF v = 1 THEN "tone" ELSE None
              /\ lost' = lost \ {"tone", "rf"}
           \/ ~ok /\ UNCHANGED <<running, rfVars, lost>>
  /\ UNCHANGED <<conf, bufVars, pc, arg, sent>>
-----------------------------------------------------------------------------
(* "init": the tests the driver knows of are stopped one after the other,   *)
(* the configuration is reset and the channel programmed.                   *)

InitStart(ch) ==
  /\ Begin /\ check_valid_channel(ch)
  /\ pc' = "init_rx" /\ arg' = ch
  /\ UNCHANGED <<conf, rfVars, bufVars, fwVars, fails, lost>>

\* Returns at the first command that fails.
InitStop(t, here, next) ==
  /\ pc = here
  /\ \/ /\ conf[t] = 0
        /\ pc' = next /\ UNCHANGED <<conf, arg, fwVars, fails, lost>>
     \/ /\ conf[t] = 1
        /\ conf' = [conf EXCEPT ![t] = 0]
        /\ \E ok \in BOOLEAN :
              /\ Program(t, conf', ok)
              /\ pc' = IF ok THEN next ELSE "idle"
              /\ arg' = IF ok THEN arg ELSE 0
  /\ UNCHANGED <<rfVars, bufVars, writes>>

InitStopTone ==
  /\ pc = "init_tone"
  /\ \/ /\ ~rf_test_run
        /\ pc' = "init_conf" /\ UNCHANGED <<rfVars, arg, running, fails, lost>>
     \/ /\ rf_test_run /\ rf_test # "tone"
        /\ pc' = "idle" /\ arg' = 0
        /\ UNCHANGED <<rfVars, running, fails, lost>>
     \/ /\ rf_test_run /\ rf_test = "tone"
        /\ Command(TRUE)
        /\ running' = [running EXCEPT !["tone"] = 0]
        /\ rf_test_run' = FALSE /\ rf_test' = None /\ lost' = lost \ {"tone"}
        /\ pc' = "init_conf" /\ UNCHANGED arg
     \/ /\ rf_test_run /\ rf_test = "tone"
        /\ Command(FALSE)
        /\ pc' = "idle" /\ arg' = 0 /\ UNCHANGED <<rfVars, running, lost>>
  /\ UNCHANGED <<conf, bufVars, sent, writes>>

\* What becomes of the last command, radio_test_init, changes nothing.
InitConf ==
  /\ pc = "init_conf"
  /\ \E ok \in BOOLEAN :
        /\ Command(ok)
        /\ ConfInit(ok, [Defaults(conf["country"]) EXCEPT !["channel"] = arg])
  /\ pc' = "idle" /\ arg' = 0
  /\ UNCHANGED <<rfVars, bufVars, fwVars, writes>>
-----------------------------------------------------------------------------
(* Captures *)

\* kfree(rx_cap_buf), when it is not NULL. The pointer stays.
Free ==
  /\ fault' = IF buf = "freed" THEN fault \union {"freed_use"} ELSE fault
  /\ buf' = IF buf = "null" THEN "null" ELSE "freed"

\* History: the reader is between its test of the pointer and clearing it.
Overlap == IF rd = "idle" THEN {} ELSE {"overlap"}

\* The way out of rx_cap on an error: the buffer is freed, the pointer stays.
FreeOnError ==
  /\ Free
  /\ misused' = misused \union Overlap
                  \union (IF buf = "alloc" THEN {"error"} ELSE {})
  /\ UNCHANGED <<buf_len, readVars>>

\* An invalid kind of capture, no capture length, or a test in progress.
RxCapRefused(valid) ==
  /\ Begin
  /\ ~valid \/ conf["capture_length"] = 0 \/ ~check_test_in_prog
  /\ FreeOnError
  /\ UNCHANGED <<conf, rfVars, cap_live, pc, arg, fwVars, fails, lost>>

\* The checks are passed, and the buffer of the capture before is freed.
RxCap ==
  /\ Begin /\ conf["capture_length"] # 0 /\ check_test_in_prog
  /\ Free
  /\ misused' = misused \union Overlap
  /\ pc' = "rx_cap_alloc"
  /\ UNCHANGED <<conf, rfVars, buf_len, cap_live, readVars, arg, fwVars, fails, lost>>

\* History: nothing has been done to a new pointer, but a reader may be at work.
NewBuffer == misused' = misused \intersect Overlap

\* The new buffer, zeroed, is given to the command.
RxCapAlloc ==
  /\ pc = "rx_cap_alloc"
  /\ buf' = "alloc" /\ buf_len' = conf["capture_length"] /\ cap_live' = TRUE
  /\ NewBuffer
  /\ MarkRfTest("rx_cap")
  /\ pc' = "rx_cap"
  /\ UNCHANGED <<conf, readVars, fault, arg, fwVars, writes, fails>>

RxCapNoMemory ==
  /\ pc = "rx_cap_alloc"
  /\ buf' = "null" /\ buf_len' = 0
  /\ NewBuffer
  /\ pc' = "idle"
  /\ UNCHANGED <<conf, rfVars, cap_live, readVars, fault, arg, fwVars, writes, fails,
                 lost>>

\* The firmware's samples are copied to the buffer the command was given.
RxCapEnd ==
  /\ pc = "rx_cap"
  /\ \E ok \in BOOLEAN :
        /\ Command(ok) /\ UnmarkRfTest(ok)
        /\ \/ /\ ok
              /\ fault' = IF cap_live THEN fault ELSE fault \union {"late_write"}
              /\ UNCHANGED <<buf, buf_len, readVars, misused>>
           \/ ~ok /\ FreeOnError
  /\ pc' = "idle" /\ cap_live' = FALSE
  /\ UNCHANGED <<conf, arg, fwVars, writes>>
-----------------------------------------------------------------------------
(* nrf_wifi_wlan_fmac_dbgfs_stats_show: the pointer is tested, capture_length  *)
(* samples are printed through it, and it is freed and cleared. It is read     *)
(* anew at every use.                                                          *)

reader == <<conf, rfVars, pc, arg, fwVars, writes, fails, lost>>

StatsOpen ==
  /\ rd = "idle" /\ buf # "null"
  /\ rd' = "test" /\ ri' = 0
  /\ misused' = IF pc = "rx_cap_alloc" THEN misused \union {"overlap"} ELSE misused
  /\ UNCHANGED <<reader, buf, buf_len, cap_live, fault>>

StatsTest ==
  /\ rd = "test"
  /\ rd' = IF ri < conf["capture_length"] THEN "print" ELSE "free"
  /\ UNCHANGED <<reader, buf, buf_len, cap_live, ri, fault, misused>>

StatsPrint ==
  /\ rd = "print"
  /\ fault' = fault \union
       CASE buf = "freed" -> {"freed_use"}
         [] buf = "null"  -> {"null_use"}
         [] buf = "alloc" -> IF ri < buf_len THEN {} ELSE {"over_read"}
  /\ rd' = "test" /\ ri' = ri + 1
  /\ UNCHANGED <<reader, buf, buf_len, cap_live, misused>>

\* History: the buffer is freed while the command it was given to runs.
StatsFree ==
  /\ rd = "free"
  /\ Free
  /\ rd' = "clear" /\ ri' = 0
  /\ \/ /\ pc = "rx_cap" /\ buf = "alloc"
        /\ cap_live' = FALSE /\ misused' = misused \union {"early_read"}
     \/ /\ pc # "rx_cap" \/ buf # "alloc"
        /\ UNCHANGED <<cap_live, misused>>
  /\ UNCHANGED <<reader, buf_len>>

\* Faulty variant of StatsClear: the pointer to the freed buffer is kept.
StatsClear_KeepsPointer ==
  /\ rd = "clear"
  /\ rd' = "idle"
  /\ UNCHANGED <<reader, buf, buf_len, cap_live, ri, fault, misused>>

\* ... whatever the pointer is by now.
StatsClear ==
  /\ rd = "clear"
  /\ buf' = "null" /\ buf_len' = 0
  /\ rd' = "idle"
  /\ UNCHANGED <<reader, cap_live, ri, fault, misused>>
-----------------------------------------------------------------------------
Write ==
  \/ \E p \in Params : \E v \in Inputs[p] : SetParam(p, v)
  \/ SetDefaults
  \/ \E v \in 0..1 : SetTx(v) \/ SetRx(v) \/ TxTone(v)
  \/ \E k \in RfTests, v \in {0, 1, 127} : RfTest(k, v)
  \/ RfTestEnd
  \/ \E ch \in Channels : InitStart(ch)
  \/ InitStop("rx", "init_rx", "init_tx") \/ InitStop("tx", "init_tx", "init_tone")
  \/ InitStopTone \/ InitConf
  \/ \E valid \in BOOLEAN : RxCapRefused(valid)
  \/ RxCap \/ RxCapAlloc \/ RxCapNoMemory \/ RxCapEnd

Read == StatsOpen \/ StatsTest \/ StatsPrint \/ StatsFree \/ StatsClear

\* The kernel does not go on after an invalid access.
Next == fault = {} /\ (Write \/ Read)

Spec == Init /\ [][Next]_vars
-----------------------------------------------------------------------------
(* Properties *)

\* The driver knows which tests the firmware runs and never lets it transmit and
\* receive at a time, and the parameters it shows while a transmission runs are
\* those it was started with, the ones that can be changed at any time and the XO
\* value apart: unless a start or stop command failed, or defaults were set during
\* the test, and the test has not been started or stopped since. A tone is
\* forgotten only when another RF test is run, and "init" is refused only for a
\* tone or an RF test that failed.
HostKnowsTests ==
  /\ \A t \in {"tx", "rx"} : conf[t] = running[t] \/ t \in lost
  /\ running["tx"] = 1 /\ running["rx"] = 1 => lost \intersect {"tx", "rx"} # {}
  /\ pc = "idle" =>
       /\ (running["tone"] = 1) = (rf_test_run /\ rf_test = "tone")
            \/ "tone" \in lost
       /\ rf_test_run => rf_test = "tone" \/ "rf" \in lost
  /\ conf["tx"] = 1 /\ "tx" \notin lost =>
       \A p \in Checked \union {"tx", "channel", "pwr_ceil"} : sent[p] = conf[p]

\* The capture buffer is not used after it was freed, nor through NULL or beyond
\* its end, although the reader and two ways through the writer free it and only
\* the reader clears the pointer. Each misuse has a cause of its own: a refused or
\* failed capture left the pointer; the capture length was raised above the
\* buffer's; the buffer was read, and freed, while its capture was still running;
\* or a capture freed or replaced the buffer under a reader that was printing it.
BufferSafe ==
  /\ "freed_use" \in fault => misused \intersect {"error", "overlap"} # {}
  /\ "null_use" \in fault => "overlap" \in misused
  /\ "over_read" \in fault => misused \intersect {"longer", "overlap"} # {}
  /\ "late_write" \in fault => "early_read" \in misused
===============================================================================
