--------------------------- MODULE RadioTestProofs ---------------------------
(***************************************************************************)
(* Proofs about the radio test files of module RadioTest, for whatever is  *)
(* written to them: the driver knows which tests the firmware runs, and    *)
(* the capture buffer is used safely, with the exceptions the two          *)
(* properties name.                                                        *)
(***************************************************************************)
EXTENDS RadioTest, TLAPS

\* The parameters that are to stay as they are while a transmission runs.
Held == Checked \union {"tx", "channel", "pwr_ceil"}

\* The writer waits for the answer to an RF test or a capture.
Waiting == pc \in RfTests \union {"rx_cap"}

TestTypes ==
  /\ conf \in [Fields -> Int] /\ conf["tx"] \in 0..1 /\ conf["rx"] \in 0..1
  /\ running \in [Tests -> 0..1] /\ sent \in [Fields -> Int]
  /\ arg \in Nat

\* The flags agree with the firmware, and the driver never asks it to transmit
\* and receive at a time.
FlagsInv ==
  /\ conf["tx"] = running["tx"] \/ "tx" \in lost
  /\ conf["rx"] = running["rx"] \/ "rx" \in lost
  /\ conf["tx"] = 0 \/ conf["rx"] = 0

\* What is known of the tone and of the RF tests, while one is waited for, too:
\* then the mark is not the tone's.
RfInv ==
  /\ Waiting => rf_test_run /\ rf_test # "tone"
  /\ running["tone"] = 1 <=> (rf_test_run /\ rf_test = "tone") \/ "tone" \in lost
  /\ rf_test_run => rf_test = "tone" \/ "rf" \in lost \/ Waiting

\* The parameters shown are those the transmission was started with.
ShownInv ==
  conf["tx"] = 1 /\ "tx" \notin lost => \A p \in Held : sent[p] = conf[p]

HostInv == TestTypes /\ FlagsInv /\ RfInv /\ ShownInv

\* Why the capture buffer is safe: a pointer to a freed buffer, or to none under a
\* reader, a length or an index beyond the buffer and a buffer gone during a
\* capture each have their cause on record. A freed buffer has a pointer only until
\* the reader clears it or the writer replaces it, and then the other overlaps.
BufferInv ==
  /\ buf \in {"null", "alloc", "freed"} /\ buf_len \in Nat
  /\ ri \in Nat /\ conf["capture_length"] \in Nat
  /\ buf = "freed" => \/ "error" \in misused \/ "overlap" \in misused
                      \/ rd = "clear" \/ pc = "rx_cap_alloc"
  /\ pc = "rx_cap_alloc" /\ rd # "idle" => "overlap" \in misused
  /\ buf = "null" /\ rd \in {"test", "print"} => "overlap" \in misused
  /\ buf # "null" /\ conf["capture_length"] > buf_len => "longer" \in misused
  /\ rd = "print" /\ buf = "alloc" /\ ri >= buf_len =>
       "longer" \in misused \/ "overlap" \in misused
  /\ pc = "rx_cap" /\ ~cap_live => "early_read" \in misused
  /\ BufferSafe
-----------------------------------------------------------------------------
(* What the pieces of the handlers do *)

\* The reader leaves everything but the buffer alone.
LEMMA ReadLeaves == Read => UNCHANGED <<conf, rf_test_run, rf_test, running, sent, pc,
                                        arg, writes, fails, lost>>
BY DEF Read, StatsOpen, StatsTest, StatsPrint, StatsFree, StatsClear, reader, rfVars,
       fwVars

\* A configuration reset has no test on, and no capture length.
LEMMA ResetConf ==
  ASSUME NEW n \in Int, NEW ch \in Nat
  PROVE  LET D == [Defaults(n) EXCEPT !["channel"] = ch] IN
         /\ Zeroed \in [Fields -> Int]
         /\ Zeroed["tx"] = 0 /\ Zeroed["rx"] = 0 /\ Zeroed["capture_length"] = 0
         /\ Defaults(n) \in [Fields -> Int] /\ Defaults(n)["tx"] = 0
         /\ Defaults(n)["rx"] = 0 /\ Defaults(n)["capture_length"] = 0
         /\ D \in [Fields -> Int] /\ D["tx"] = 0 /\ D["rx"] = 0
         /\ D["capture_length"] = 0
<1>1. /\ "tx" \in Fields /\ "rx" \in Fields /\ "channel" \in Fields
      /\ "capture_length" \in Fields
  BY DEF Fields, Params, Checked
<1>2. /\ Zeroed \in [Fields -> Int]
      /\ Zeroed["tx"] = 0 /\ Zeroed["rx"] = 0 /\ Zeroed["capture_length"] = 0
  BY <1>1 DEF Zeroed
<1>3. Defaults(n) \in [Fields -> Int]
  BY DEF Defaults, TX_PWR_SYS_TEST
<1>4. Defaults(n)["tx"] = 0 /\ Defaults(n)["rx"] = 0 /\ Defaults(n)["capture_length"] = 0
  BY <1>1 DEF Defaults, PhyCalib
<1> HIDE DEF Defaults
<1> QED BY <1>1, <1>2, <1>3, <1>4

\* The configuration is reset: tests that were on are lost.
LEMMA ConfInitEffect ==
  ASSUME TestTypes, FlagsInv, NEW ok \in BOOLEAN, NEW c \in [Fields -> Int],
         c["tx"] = 0, c["rx"] = 0, ConfInit(ok, c)
  PROVE  /\ conf' \in [Fields -> Int] /\ conf'["tx"] = 0 /\ conf'["rx"] = 0
         /\ conf["tx"] = 0 \/ "tx" \in lost'
         /\ conf["rx"] = 0 \/ "rx" \in lost'
         /\ \A t : t \in lost => t \in lost'
         /\ "tone" \in lost' <=> "tone" \in lost
         /\ "rf" \in lost' <=> "rf" \in lost
<1>1. Zeroed \in [Fields -> Int] /\ Zeroed["tx"] = 0 /\ Zeroed["rx"] = 0
  BY ResetConf, 0 \in Int, 0 \in Nat
<1>2. conf' = c \/ conf' = Zeroed
  BY DEF ConfInit
<1>3. lost' = lost \union {t \in {"tx", "rx"} : conf[t] = 1}
  BY DEF ConfInit
<1> QED BY <1>1, <1>2, <1>3 DEF TestTypes

\* Why a reset keeps the invariant.
LEMMA ConfInitKeeps ==
  ASSUME HostInv, NEW ok \in BOOLEAN, NEW c \in [Fields -> Int],
         c["tx"] = 0, c["rx"] = 0, ConfInit(ok, c),
         UNCHANGED <<rf_test_run, rf_test, running, sent>>, arg' \in Nat,
         Waiting' <=> Waiting
  PROVE  HostInv'
<1> USE DEF HostInv
<1>1. /\ conf' \in [Fields -> Int] /\ conf'["tx"] = 0 /\ conf'["rx"] = 0
      /\ conf["tx"] = 0 \/ "tx" \in lost'
      /\ conf["rx"] = 0 \/ "rx" \in lost'
      /\ \A t : t \in lost => t \in lost'
      /\ "tone" \in lost' <=> "tone" \in lost
      /\ "rf" \in lost' <=> "rf" \in lost
  BY ConfInitEffect
<1>2. TestTypes'
  BY <1>1 DEF TestTypes
<1>3. FlagsInv'
  BY <1>1 DEF FlagsInv
<1>4. RfInv'
  BY <1>1 DEF RfInv
<1>5. ShownInv'
  BY <1>1 DEF ShownInv
<1> QED BY <1>2, <1>3, <1>4, <1>5

\* A test is programmed with the flag set to v. What is shown agrees with what
\* is sent, if it did for the parameters that the handler leaves alone.
LEMMA ProgramKeeps ==
  ASSUME HostInv, NEW t \in {"tx", "rx"}, NEW v \in 0..1, NEW ok \in BOOLEAN,
         v = 1 => check_test_in_prog,
         conf' \in [Fields -> Int], conf'[t] = v,
         conf'["tx"] = IF t = "tx" THEN v ELSE conf["tx"],
         conf'["rx"] = IF t = "rx" THEN v ELSE conf["rx"],
         t = "rx" => \A p \in Held : conf'[p] = conf[p],
         Program(t, conf', ok), UNCHANGED <<rf_test_run, rf_test>>, arg' \in Nat,
         ~Waiting, ~Waiting'
  PROVE  HostInv'
<1> USE DEF HostInv
<1>1. /\ running' = IF ok THEN [running EXCEPT ![t] = v] ELSE running
      /\ sent' = IF ok /\ t = "tx" THEN IF v = 1 THEN conf' ELSE Zeroed ELSE sent
      /\ lost' = IF ok THEN lost \ {t} ELSE lost \union {t}
  BY DEF Program
<1>2. Zeroed \in [Fields -> Int]
  BY ResetConf, 0 \in Int, 0 \in Nat
<1>3. /\ running' \in [Tests -> 0..1] /\ running'["tone"] = running["tone"]
      /\ running'["tx"] = IF ok /\ t = "tx" THEN v ELSE running["tx"]
      /\ running'["rx"] = IF ok /\ t = "rx" THEN v ELSE running["rx"]
  BY <1>1 DEF TestTypes, Tests
<1>4. sent' \in [Fields -> Int]
  BY <1>1, <1>2 DEF TestTypes
<1>5. TestTypes'
  BY <1>3, <1>4 DEF TestTypes
<1>6. FlagsInv'
  <2>1. CASE t = "tx"
    BY <2>1, <1>1, <1>3 DEF FlagsInv, check_test_in_prog, TestTypes
  <2>2. CASE t = "rx"
    BY <2>2, <1>1, <1>3 DEF FlagsInv, check_test_in_prog, TestTypes
  <2> QED BY <2>1, <2>2
<1>7. "tone" \in lost' <=> "tone" \in lost
  BY <1>1
<1>8. "rf" \in lost' <=> "rf" \in lost
  BY <1>1
<1>9. RfInv'
  BY <1>3, <1>7, <1>8 DEF RfInv
<1>10. ShownInv'
  <2>1. CASE t = "tx"
    BY <2>1, <1>1 DEF ShownInv
  <2>2. CASE t = "rx"
    BY <2>2, <1>1 DEF ShownInv
  <2> QED BY <2>1, <2>2
<1> QED BY <1>5, <1>6, <1>9, <1>10
-----------------------------------------------------------------------------
(* The driver knows the tests *)

\* A parameter that is to stay is not written during a transmission.
LEMMA SetParamKeeps ==
  ASSUME HostInv, NEW p \in Params, NEW v \in Inputs[p], SetParam(p, v)
  PROVE  HostInv'
<1> USE DEF HostInv
<1>1. /\ conf' = [conf EXCEPT ![p] = v]
      /\ p \in Checked => check_test_in_prog
      /\ UNCHANGED <<rf_test_run, rf_test, pc, arg, running, sent, lost>>
  BY DEF SetParam, rfVars, fwVars
<1>2. /\ p \in Fields /\ p \notin {"tx", "rx", "channel", "pwr_ceil"}
      /\ "tx" \in Fields /\ "rx" \in Fields
  BY DEF Params, Checked, Unchecked, PhyCalib, Fields
<1>3. v \in Int
  BY RadioTestAssumption
<1>4. /\ conf' \in [Fields -> Int] /\ conf'["tx"] = conf["tx"] /\ conf'["rx"] = conf["rx"]
      /\ \A q \in Fields : q # p => conf'[q] = conf[q]
  BY <1>1, <1>2, <1>3 DEF TestTypes
<1>5. TestTypes'
  BY <1>1, <1>4 DEF TestTypes
<1>6. FlagsInv'
  BY <1>1, <1>4 DEF FlagsInv
<1>7. RfInv'
  BY <1>1 DEF RfInv, Waiting
<1>8. ShownInv'
  <2>1. CASE p \in Checked
    BY <2>1, <1>1, <1>4 DEF ShownInv, check_test_in_prog
  <2>2. CASE p \notin Checked
    <3>1. \A q \in Held : q \in Fields /\ q # p
      BY <2>2, <1>2 DEF Held, Fields, Params
    <3> QED BY <3>1, <1>1, <1>4 DEF ShownInv
  <2> QED BY <2>1, <2>2
<1> QED BY <1>5, <1>6, <1>7, <1>8

\* The defaults switch both tests off.
LEMMA SetDefaultsKeeps ==
  ASSUME HostInv, SetDefaults
  PROVE  HostInv'
<1>1. PICK ok \in BOOLEAN : ConfInit(ok, Defaults(conf["country"]))
  BY DEF SetDefaults
<1>2. conf["country"] \in Int
  BY DEF HostInv, TestTypes, Fields, Params, Unchecked
<1>3. LET c == Defaults(conf["country"]) IN
      c \in [Fields -> Int] /\ c["tx"] = 0 /\ c["rx"] = 0
  BY <1>2, ResetConf, 0 \in Nat
<1>4. UNCHANGED <<rf_test_run, rf_test, running, sent, pc, arg>>
  BY DEF SetDefaults, rfVars, fwVars
<1>5. arg' \in Nat /\ (Waiting' <=> Waiting)
  BY <1>4 DEF Waiting, HostInv, TestTypes
<1> QED BY <1>1, <1>3, <1>4, <1>5, ConfInitKeeps

\* So does the last step of "init", with the channel that was asked for.
LEMMA InitConfKeeps ==
  ASSUME HostInv, InitConf
  PROVE  HostInv'
<1> DEFINE c == [Defaults(conf["country"]) EXCEPT !["channel"] = arg]
<1>1. PICK ok \in BOOLEAN : ConfInit(ok, c)
  BY DEF InitConf
<1>2. conf["country"] \in Int /\ arg \in Nat
  BY DEF HostInv, TestTypes, Fields, Params, Unchecked
<1>3. c \in [Fields -> Int] /\ c["tx"] = 0 /\ c["rx"] = 0
  BY <1>2, ResetConf
<1>4. UNCHANGED <<rf_test_run, rf_test, running, sent>>
  BY DEF InitConf, rfVars, fwVars
<1>5. pc = "init_conf" /\ pc' = "idle" /\ arg' = 0
  BY DEF InitConf
<1>6. arg' \in Nat /\ (Waiting' <=> Waiting)
  BY <1>5 DEF Waiting, RfTests
<1> HIDE DEF c
<1> QED BY <1>1, <1>3, <1>4, <1>6, ConfInitKeeps

\* A transmission is started or stopped.
LEMMA SetTxKeeps ==
  ASSUME HostInv, NEW v \in 0..1, SetTx(v)
  PROVE  HostInv'
<1>1. /\ v = 1 => check_test_in_prog
      /\ conf' = [conf EXCEPT !["tx"] = v,
                    !["pwr_ceil"] = IF v = 1 /\ conf["power"] # TX_PWR_SYS_TEST
                                    THEN 1 ELSE @]
      /\ UNCHANGED <<rf_test_run, rf_test, pc, arg>> /\ pc = "idle"
  BY DEF SetTx, rfVars, Begin
<1>2. PICK ok \in BOOLEAN : Program("tx", conf', ok)
  BY DEF SetTx
<1>3. conf' \in [Fields -> Int] /\ conf'["tx"] = v /\ conf'["rx"] = conf["rx"]
  BY <1>1 DEF HostInv, TestTypes, Fields
<1>4. arg' \in Nat /\ ~Waiting /\ ~Waiting'
  BY <1>1 DEF Waiting, RfTests, HostInv, TestTypes
<1> QED BY <1>1, <1>2, <1>3, <1>4, ProgramKeeps

\* A reception is started or stopped.
LEMMA SetRxKeeps ==
  ASSUME HostInv, NEW v \in 0..1, SetRx(v)
  PROVE  HostInv'
<1>1. /\ v = 1 => check_test_in_prog
      /\ conf' = [conf EXCEPT !["rx"] = v]
      /\ UNCHANGED <<rf_test_run, rf_test, pc, arg>> /\ pc = "idle"
  BY DEF SetRx, rfVars, Begin
<1>2. PICK ok \in BOOLEAN : Program("rx", conf', ok)
  BY DEF SetRx
<1>3. \A p \in Held : p \in Fields /\ p # "rx"
  BY DEF Held, Checked, PhyCalib, Fields, Params
<1>4. /\ conf' \in [Fields -> Int] /\ conf'["rx"] = v /\ conf'["tx"] = conf["tx"]
      /\ \A p \in Held : conf'[p] = conf[p]
  BY <1>1, <1>3 DEF HostInv, TestTypes, Fields
<1>5. arg' \in Nat /\ ~Waiting /\ ~Waiting'
  BY <1>1 DEF Waiting, RfTests, HostInv, TestTypes
<1> QED BY <1>1, <1>2, <1>4, <1>5, ProgramKeeps

\* "init" stops a test it finds on.
LEMMA InitStopKeeps ==
  ASSUME HostInv, NEW t \in {"tx", "rx"}, NEW here \in {"init_rx", "init_tx"},
         NEW next \in {"init_tx", "init_tone"}, InitStop(t, here, next)
  PROVE  HostInv'
<1>1. /\ pc = here /\ pc' \in {next, "idle"} /\ (arg' = arg \/ arg' = 0)
      /\ UNCHANGED <<rf_test_run, rf_test>>
  BY DEF InitStop, rfVars
<1>2. arg' \in Nat /\ ~Waiting /\ ~Waiting'
  BY <1>1 DEF Waiting, RfTests, HostInv, TestTypes
<1>3. CASE UNCHANGED <<conf, fwVars, lost>>
  BY <1>1, <1>2, <1>3
     DEF HostInv, TestTypes, FlagsInv, RfInv, ShownInv, fwVars
<1>4. CASE /\ conf' = [conf EXCEPT ![t] = 0]
           /\ \E ok \in BOOLEAN : Program(t, conf', ok)
  <2>1. PICK ok \in BOOLEAN : Program(t, conf', ok)
    BY <1>4
  <2>2. \A p \in Held : p \in Fields /\ p # "rx"
    BY DEF Held, Checked, PhyCalib, Fields, Params
  <2>3. /\ conf' \in [Fields -> Int] /\ conf'[t] = 0
        /\ conf'["tx"] = IF t = "tx" THEN 0 ELSE conf["tx"]
        /\ conf'["rx"] = IF t = "rx" THEN 0 ELSE conf["rx"]
        /\ t = "rx" => \A p \in Held : conf'[p] = conf[p]
    BY <1>4, <2>2 DEF HostInv, TestTypes, Fields
  <2> QED BY <1>1, <1>2, <2>1, <2>3, ProgramKeeps
<1> QED BY <1>3, <1>4 DEF InitStop

\* An RF test is marked: a tone that runs is forgotten.
LEMMA MarkKeeps ==
  ASSUME HostInv, NEW k \in RfTests \union {"rx_cap"}, MarkRfTest(k),
         UNCHANGED <<conf, running, sent>>, arg' \in Nat, pc' = k
  PROVE  HostInv'
<1> USE DEF HostInv
<1>1. /\ rf_test_run' = TRUE /\ rf_test' = k /\ k # "tone"
      /\ lost' = IF running["tone"] = 1 THEN lost \union {"tone"} ELSE lost
  BY DEF MarkRfTest, RfTests
<1>2. /\ "tx" \in lost' <=> "tx" \in lost
      /\ "rx" \in lost' <=> "rx" \in lost
      /\ "tone" \in lost' <=> (running["tone"] = 1 \/ "tone" \in lost)
  BY <1>1
<1>3. TestTypes'
  BY DEF TestTypes
<1>4. FlagsInv'
  BY <1>2 DEF FlagsInv
<1>5. RfInv'
  BY <1>1, <1>2 DEF RfInv, Waiting
<1>6. ShownInv'
  BY <1>2 DEF ShownInv
<1> QED BY <1>3, <1>4, <1>5, <1>6

\* The answer to an RF test or a capture: the mark goes, or the test is lost.
LEMMA UnmarkKeeps ==
  ASSUME HostInv, Waiting, NEW ok \in BOOLEAN, UnmarkRfTest(ok),
         UNCHANGED <<running, sent>>, arg' \in Nat, pc' = "idle",
         conf' \in [Fields -> Int], conf'["tx"] = conf["tx"], conf'["rx"] = conf["rx"],
         \A p \in Held : conf'[p] = conf[p]
  PROVE  HostInv'
<1> USE DEF HostInv
<1>1. /\ rf_test_run' = IF ok THEN FALSE ELSE rf_test_run
      /\ rf_test' = IF ok THEN None ELSE rf_test
      /\ lost' = IF ok THEN lost \ {"rf"} ELSE lost \union {"rf"}
  BY DEF UnmarkRfTest
<1>2. /\ "tx" \in lost' <=> "tx" \in lost
      /\ "rx" \in lost' <=> "rx" \in lost
      /\ "tone" \in lost' <=> "tone" \in lost
      /\ ok \/ "rf" \in lost'
  BY <1>1
<1>3. TestTypes'
  BY DEF TestTypes
<1>4. FlagsInv'
  BY <1>2 DEF FlagsInv
<1>5. ~Waiting' /\ rf_test_run /\ rf_test # "tone"
  BY DEF Waiting, RfTests, RfInv
<1>6. RfInv'
  <2>1. CASE ok
    BY <2>1, <1>1, <1>2, <1>5 DEF RfInv
  <2>2. CASE ~ok
    BY <2>2, <1>1, <1>2, <1>5 DEF RfInv
  <2> QED BY <2>1, <2>2
<1>7. ShownInv'
  BY <1>2 DEF ShownInv
<1> QED BY <1>3, <1>4, <1>6, <1>7

\* A tone is started or stopped.
LEMMA TxToneKeeps ==
  ASSUME HostInv, NEW v \in 0..1, TxTone(v)
  PROVE  HostInv'
<1> USE DEF HostInv
<1>1. UNCHANGED <<conf, pc, arg, sent>> /\ pc = "idle"
  BY DEF TxTone, Begin
<1>2. ~Waiting /\ ~Waiting'
  BY <1>1 DEF Waiting, RfTests
<1>3. CASE UNCHANGED <<running, rfVars, lost>>
  BY <1>1, <1>2, <1>3 DEF TestTypes, FlagsInv, RfInv, ShownInv, rfVars
<1>4. CASE /\ running' = [running EXCEPT !["tone"] = v]
           /\ rf_test_run' = (v = 1)
           /\ rf_test' = IF v = 1 THEN "tone" ELSE None
           /\ lost' = lost \ {"tone", "rf"}
  <2>1. /\ running' \in [Tests -> 0..1] /\ running'["tone"] = v
        /\ running'["tx"] = running["tx"] /\ running'["rx"] = running["rx"]
    BY <1>4 DEF TestTypes, Tests
  <2>2. /\ "tx" \in lost' <=> "tx" \in lost
        /\ "rx" \in lost' <=> "rx" \in lost
        /\ "tone" \notin lost'
    BY <1>4
  <2>3. TestTypes'
    BY <1>1, <2>1 DEF TestTypes
  <2>4. FlagsInv'
    BY <1>1, <2>1, <2>2 DEF FlagsInv
  <2>5. RfInv'
    <3>1. CASE v = 1
      BY <3>1, <1>2, <1>4, <2>1 DEF RfInv
    <3>2. CASE v # 1
      <4>1. ~rf_test_run'
        BY <3>2, <1>4
      <4> QED BY <3>2, <4>1, <1>2, <2>1, <2>2 DEF RfInv
    <3> QED BY <3>1, <3>2
  <2>6. ShownInv'
    BY <1>1, <2>2 DEF ShownInv
  <2> QED BY <2>3, <2>4, <2>5, <2>6
<1> QED BY <1>3, <1>4 DEF TxTone

\* "init" stops the tone, or gives up.
LEMMA InitStopToneKeeps ==
  ASSUME HostInv, InitStopTone
  PROVE  HostInv'
<1> USE DEF HostInv
<1>1. /\ UNCHANGED <<conf, sent>> /\ pc = "init_tone" /\ pc' \in {"init_conf", "idle"}
      /\ arg' = arg \/ arg' = 0
  BY DEF InitStopTone
<1>2. ~Waiting /\ ~Waiting' /\ arg' \in Nat
  BY <1>1 DEF Waiting, RfTests, TestTypes
<1>3. CASE UNCHANGED <<running, rfVars, lost>>
  BY <1>1, <1>2, <1>3 DEF TestTypes, FlagsInv, RfInv, ShownInv, rfVars
<1>4. CASE /\ running' = [running EXCEPT !["tone"] = 0]
           /\ rf_test_run' = FALSE /\ rf_test' = None /\ lost' = lost \ {"tone"}
  <2>1. /\ running' \in [Tests -> 0..1] /\ running'["tone"] = 0
        /\ running'["tx"] = running["tx"] /\ running'["rx"] = running["rx"]
    BY <1>4 DEF TestTypes, Tests
  <2>2. /\ "tx" \in lost' <=> "tx" \in lost
        /\ "rx" \in lost' <=> "rx" \in lost
        /\ "tone" \notin lost'
    BY <1>4
  <2>3. TestTypes'
    BY <1>1, <1>2, <2>1 DEF TestTypes
  <2>4. FlagsInv'
    BY <1>1, <2>1, <2>2 DEF FlagsInv
  <2>5. RfInv'
    BY <1>2, <1>4, <2>1, <2>2 DEF RfInv
  <2>6. ShownInv'
    BY <1>1, <2>2 DEF ShownInv
  <2> QED BY <2>3, <2>4, <2>5, <2>6
<1> QED BY <1>3, <1>4 DEF InitStopTone

\* The other steps leave the tests alone.
LEMMA RestKeeps ==
  ASSUME HostInv, UNCHANGED <<conf, rf_test_run, rf_test, running, sent, lost>>,
         arg' \in Nat, Waiting' <=> Waiting
  PROVE  HostInv'
BY DEF HostInv, TestTypes, FlagsInv, RfInv, ShownInv

\* No step of the driver or of a reader of the statistics breaks what the driver
\* knows.
LEMMA HostStep ==
  ASSUME HostInv, [Next]_vars
  PROVE  HostInv'
<1>0. arg \in Nat
  BY DEF HostInv, TestTypes
<1>1. ASSUME NEW p \in Params, NEW v \in Inputs[p], SetParam(p, v) PROVE HostInv'
  BY <1>1, SetParamKeeps
<1>2. CASE SetDefaults
  BY <1>2, SetDefaultsKeeps
<1>3. ASSUME NEW v \in 0..1, SetTx(v) \/ SetRx(v) \/ TxTone(v) PROVE HostInv'
  BY <1>3, SetTxKeeps, SetRxKeeps, TxToneKeeps
<1>4. ASSUME NEW k \in RfTests, NEW v \in {0, 1, 127}, RfTest(k, v) PROVE HostInv'
  <2>1. MarkRfTest(k) /\ pc' = k /\ arg' \in Nat
    BY <1>4 DEF RfTest
  <2>2. UNCHANGED <<conf, running, sent>>
    BY <1>4 DEF RfTest, fwVars
  <2> QED BY <2>1, <2>2, MarkKeeps
<1>5. CASE RfTestEnd
  <2>1. PICK ok \in BOOLEAN :
          /\ UnmarkRfTest(ok)
          /\ conf' = IF ok /\ pc = "xo" THEN [conf EXCEPT !["xo"] = arg] ELSE conf
    BY <1>5 DEF RfTestEnd
  <2>2. /\ Waiting /\ pc' = "idle" /\ arg' \in Nat
        /\ UNCHANGED <<running, sent>>
    BY <1>5 DEF RfTestEnd, Waiting, fwVars
  <2>3. "xo" \in Fields /\ \A p \in Held : p \in Fields /\ p # "xo"
    BY DEF Held, Fields, Params, Checked, PhyCalib
  <2>4. /\ conf' \in [Fields -> Int] /\ conf'["tx"] = conf["tx"]
        /\ conf'["rx"] = conf["rx"] /\ \A p \in Held : conf'[p] = conf[p]
    BY <1>0, <2>1, <2>3 DEF HostInv, TestTypes, Fields
  <2> QED BY <2>1, <2>2, <2>4, UnmarkKeeps
<1>6. ASSUME NEW ch \in Channels, InitStart(ch) PROVE HostInv'
  <2>1. /\ pc = "idle" /\ pc' = "init_rx" /\ arg' = ch
        /\ UNCHANGED <<conf, rf_test_run, rf_test, running, sent, lost>>
    BY <1>6 DEF InitStart, Begin, rfVars, fwVars
  <2>2. (Waiting' <=> Waiting) /\ arg' \in Nat
    BY <2>1, RadioTestAssumption DEF Waiting, RfTests
  <2> QED BY <2>1, <2>2, RestKeeps
<1>7. CASE InitStop("rx", "init_rx", "init_tx")
  BY <1>7, InitStopKeeps
<1>8. CASE InitStop("tx", "init_tx", "init_tone")
  BY <1>8, InitStopKeeps
<1>9. CASE InitStopTone \/ InitConf
  BY <1>9, InitStopToneKeeps, InitConfKeeps
<1>10. CASE RxCap \/ RxCapNoMemory \/ Read \/ \E valid \in BOOLEAN : RxCapRefused(valid)
  <2>1. /\ UNCHANGED <<conf, rf_test_run, rf_test, running, sent, lost, arg>>
        /\ UNCHANGED pc \/ {pc, pc'} = {"idle", "rx_cap_alloc"}
    BY <1>10, ReadLeaves DEF RxCap, RxCapNoMemory, RxCapRefused, Begin, rfVars, fwVars
  <2>2. (Waiting' <=> Waiting) /\ arg' \in Nat
    BY <1>0, <2>1 DEF Waiting, RfTests
  <2> QED BY <2>1, <2>2, RestKeeps
<1>11. CASE RxCapAlloc
  <2>1. MarkRfTest("rx_cap") /\ pc' = "rx_cap" /\ arg' = arg
    BY <1>11 DEF RxCapAlloc
  <2>2. UNCHANGED <<conf, running, sent>>
    BY <1>11 DEF RxCapAlloc, fwVars
  <2> QED BY <1>0, <2>1, <2>2, MarkKeeps
<1>12. CASE RxCapEnd
  <2>1. PICK ok \in BOOLEAN : UnmarkRfTest(ok)
    BY <1>12 DEF RxCapEnd
  <2>2. Waiting /\ pc' = "idle" /\ UNCHANGED <<conf, arg, running, sent>>
    BY <1>12 DEF RxCapEnd, Waiting, fwVars
  <2>3. conf' \in [Fields -> Int]
    BY <2>2 DEF HostInv, TestTypes
  <2> QED BY <1>0, <2>1, <2>2, <2>3, UnmarkKeeps
<1>13. CASE UNCHANGED vars
  <2>1. UNCHANGED <<conf, rf_test_run, rf_test, running, sent, lost, pc, arg>>
    BY <1>13 DEF vars
  <2>2. (Waiting' <=> Waiting) /\ arg' \in Nat
    BY <1>0, <2>1 DEF Waiting
  <2> QED BY <2>1, <2>2, RestKeeps
<1> QED BY <1>1, <1>2, <1>3, <1>4, <1>5, <1>6, <1>7, <1>8, <1>9, <1>10, <1>11,
           <1>12, <1>13 DEF Next, Write

\* Nothing runs at first, and the driver thinks so.
LEMMA HostStart == Init => HostInv
<1> SUFFICES ASSUME Init PROVE HostInv
  OBVIOUS
<1>1. /\ Zeroed \in [Fields -> Int] /\ Zeroed["tx"] = 0 /\ Zeroed["rx"] = 0
  BY ResetConf, 0 \in Int, 0 \in Nat
<1>2. /\ running \in [Tests -> 0..1]
      /\ running["tx"] = 0 /\ running["rx"] = 0 /\ running["tone"] = 0
  BY DEF Init, Tests
<1>3. /\ conf = Zeroed /\ sent = Zeroed /\ arg = 0 /\ pc = "idle" /\ lost = {}
      /\ ~rf_test_run /\ rf_test = None
  BY DEF Init
<1>4. TestTypes /\ FlagsInv /\ ShownInv
  BY <1>1, <1>2, <1>3 DEF TestTypes, FlagsInv, ShownInv
<1>5. RfInv
  BY <1>2, <1>3 DEF RfInv, Waiting, RfTests
<1> QED BY <1>4, <1>5 DEF HostInv

\* HostKnowsTests: whatever is written to the radio test files and whichever
\* commands fail, the driver knows which tests the firmware runs, and the
\* parameters it shows are those of the transmission, with the exceptions the
\* property names.
THEOREM TestsAreKnown == Spec => []HostKnowsTests
<1>1. HostInv => HostKnowsTests
  <2> SUFFICES ASSUME HostInv PROVE HostKnowsTests
    OBVIOUS
  <2> USE DEF HostInv
  <2>1. \A t \in {"tx", "rx"} : conf[t] = running[t] \/ t \in lost
    BY DEF FlagsInv
  <2>2. running["tx"] = 1 /\ running["rx"] = 1 => lost \intersect {"tx", "rx"} # {}
    BY DEF FlagsInv
  <2>3. (running["tone"] = 1) = (rf_test_run /\ rf_test = "tone") \/ "tone" \in lost
    BY DEF RfInv
  <2>4. pc = "idle" /\ rf_test_run => rf_test = "tone" \/ "rf" \in lost
    BY DEF RfInv, Waiting, RfTests
  <2>5. conf["tx"] = 1 /\ "tx" \notin lost =>
          \A p \in Checked \union {"tx", "channel", "pwr_ceil"} : sent[p] = conf[p]
    BY DEF ShownInv, Held
  <2> QED BY <2>1, <2>2, <2>3, <2>4, <2>5 DEF HostKnowsTests
<1> QED BY <1>1, HostStart, HostStep, PTL DEF Spec
-----------------------------------------------------------------------------
(* The capture buffer *)

\* Steps that leave the buffer alone do not raise the capture length.
LEMMA BufferRest ==
  ASSUME BufferInv,
         UNCHANGED <<buf, buf_len, cap_live, rd, ri, fault, misused>>,
         conf'["capture_length"] = conf["capture_length"]
           \/ conf'["capture_length"] = 0,
         pc' = pc \/ pc' \notin {"rx_cap_alloc", "rx_cap"},
         pc = "rx_cap_alloc" => pc' = pc
  PROVE  BufferInv'
BY DEF BufferInv, BufferSafe

\* Nor do the commands that write another member of the configuration.
LEMMA CaptureLengthStays ==
  ASSUME TestTypes
  PROVE  /\ \A n \in {"tx", "rx", "xo"} : \A v :
              [conf EXCEPT ![n] = v]["capture_length"] = conf["capture_length"]
         /\ conf["capture_length"] \in Int
<1>1. "capture_length" \in Fields
  BY DEF Fields, Params, Checked
<1> QED BY <1>1 DEF TestTypes

\* A capture length that is accepted is not negative.
LEMMA CaptureLengthNatural ==
  ASSUME NEW v, CaptureLengthOk(v)
  PROVE  v \in Nat
BY DEF CaptureLengthOk

\* The way out on an error: the pointer to the freed buffer stays. If it was freed
\* before, an error has left it, or the reader is about to clear it.
LEMMA FreeOnErrorKeeps ==
  ASSUME BufferInv, fault = {}, FreeOnError, UNCHANGED conf,
         pc \in {"idle", "rx_cap"}, pc' = "idle"
  PROVE  BufferInv'
<1>1. /\ fault' = IF buf = "freed" THEN {"freed_use"} ELSE {}
      /\ buf' = IF buf = "null" THEN "null" ELSE "freed"
      /\ UNCHANGED <<buf_len, rd, ri>>
  BY DEF FreeOnError, Free, readVars
<1>2. /\ \A m \in misused : m \in misused'
      /\ buf = "alloc" => "error" \in misused'
      /\ rd # "idle" => "overlap" \in misused'
  BY DEF FreeOnError, Overlap
<1>3. buf # "null" => "error" \in misused' \/ "overlap" \in misused'
  BY <1>2 DEF BufferInv
<1>4. BufferSafe'
  BY <1>1, <1>3 DEF BufferSafe
<1> QED BY <1>1, <1>2, <1>3, <1>4 DEF BufferInv

\* The reader's steps.
LEMMA ReadKeeps ==
  ASSUME BufferInv, fault = {}, Read
  PROVE  BufferInv'
<1>0. UNCHANGED <<conf, pc>>
  BY ReadLeaves
<1>1. CASE StatsOpen
  <2>1. /\ rd' = "test" /\ ri' = 0 /\ buf # "null"
        /\ UNCHANGED <<buf, buf_len, cap_live, fault>>
        /\ \A m \in misused : m \in misused'
        /\ pc = "rx_cap_alloc" => "overlap" \in misused'
        /\ rd = "idle"
    BY <1>1 DEF StatsOpen
  <2>2. BufferSafe'
    BY <2>1 DEF BufferSafe
  <2> QED BY <1>0, <2>1, <2>2 DEF BufferInv
<1>2. CASE StatsTest
  <2>1. /\ rd = "test" /\ rd' = IF ri < conf["capture_length"] THEN "print" ELSE "free"
        /\ UNCHANGED <<buf, buf_len, cap_live, ri, fault, misused>>
    BY <1>2 DEF StatsTest
  <2>2. BufferSafe'
    BY <2>1 DEF BufferSafe, BufferInv
  <2> QED BY <1>0, <2>1, <2>2 DEF BufferInv
<1>3. CASE StatsPrint
  <2>1. /\ rd = "print" /\ rd' = "test" /\ ri' = ri + 1
        /\ UNCHANGED <<buf, buf_len, cap_live, misused>>
        /\ buf = "freed" => fault' = {"freed_use"}
        /\ buf = "null" => fault' = {"null_use"}
        /\ buf = "alloc" => fault' = IF ri < buf_len THEN {} ELSE {"over_read"}
    BY <1>3 DEF StatsPrint
  <2>2. BufferSafe'
    BY <2>1 DEF BufferSafe, BufferInv
  <2> QED BY <1>0, <2>1, <2>2 DEF BufferInv
<1>4. CASE StatsFree
  <2>1. /\ rd = "free" /\ rd' = "clear" /\ ri' = 0 /\ UNCHANGED buf_len
        /\ fault' = IF buf = "freed" THEN {"freed_use"} ELSE {}
        /\ buf' = IF buf = "null" THEN "null" ELSE "freed"
        /\ \A m \in misused : m \in misused'
        /\ UNCHANGED cap_live \/ "early_read" \in misused'
    BY <1>4 DEF StatsFree, Free
  <2>2. BufferSafe'
    BY <2>1 DEF BufferSafe, BufferInv
  <2> QED BY <1>0, <2>1, <2>2 DEF BufferInv
<1>5. CASE StatsClear
  <2>1. /\ rd' = "idle" /\ buf' = "null" /\ buf_len' = 0
        /\ UNCHANGED <<cap_live, ri, fault, misused>>
    BY <1>5 DEF StatsClear
  <2>2. BufferSafe'
    BY <2>1 DEF BufferSafe, BufferInv
  <2> QED BY <1>0, <2>1, <2>2 DEF BufferInv
<1> QED BY <1>1, <1>2, <1>3, <1>4, <1>5 DEF Read

\* No step uses the buffer wrongly without a cause on record.
LEMMA BufferStep ==
  ASSUME HostInv, BufferInv, [Next]_vars
  PROVE  BufferInv'
<1>0. TestTypes /\ conf["country"] \in Int /\ arg \in Nat
      /\ conf["capture_length"] \in Int
  BY CaptureLengthStays DEF HostInv, TestTypes, Fields, Params, Unchecked
<1>1. ASSUME fault = {}, NEW p \in Params, NEW v \in Inputs[p], SetParam(p, v)
      PROVE  BufferInv'
  <2>1. /\ conf' = [conf EXCEPT ![p] = v]
        /\ misused' = IF p = "capture_length" /\ buf # "null" /\ v > buf_len
                      THEN misused \union {"longer"} ELSE misused
        /\ UNCHANGED <<buf, buf_len, cap_live, rd, ri, fault, pc>> /\ pc = "idle"
    BY <1>1 DEF SetParam, Begin, readVars
  <2>2. "capture_length" \in Fields
    BY DEF Fields, Params, Checked
  <2>3. CASE p = "capture_length"
    <3>1. conf'["capture_length"] = v
      BY <2>1, <2>2, <2>3, <1>0 DEF TestTypes
    <3>2. v \in Nat
      <4>1. Accepts("capture_length", v)
        BY <1>1, <2>3 DEF SetParam
      <4>2. CaptureLengthOk(v)
        BY <4>1 DEF Accepts, PhyCalib
      <4> QED BY <4>2, CaptureLengthNatural
    <3>3. BufferSafe'
      BY <1>1, <2>1 DEF BufferSafe
    <3> QED BY <2>1, <2>3, <3>1, <3>2, <3>3 DEF BufferInv
  <2>4. CASE p # "capture_length"
    <3>1. conf'["capture_length"] = conf["capture_length"] /\ misused' = misused
      BY <2>1, <2>2, <2>4, <1>0 DEF TestTypes
    <3> QED BY <2>1, <3>1, BufferRest
  <2> QED BY <2>3, <2>4
<1>2. CASE SetDefaults
  <2>1. UNCHANGED <<buf, buf_len, cap_live, rd, ri, fault, misused, pc>>
    BY <1>2 DEF SetDefaults, bufVars, readVars, Begin, RfTests
  <2>2. conf' = Defaults(conf["country"]) \/ conf' = Zeroed
    BY <1>2 DEF SetDefaults, ConfInit
  <2>3. conf'["capture_length"] = 0
    BY <1>0, <2>2, ResetConf
  <2> QED BY <2>1, <2>3, BufferRest
<1>3. ASSUME NEW v \in 0..1, SetTx(v) \/ SetRx(v) \/ TxTone(v) PROVE BufferInv'
  <2>1. UNCHANGED <<buf, buf_len, cap_live, rd, ri, fault, misused, pc>>
    BY <1>3 DEF SetTx, SetRx, TxTone, bufVars, readVars, Begin, RfTests
  <2>2. CASE SetTx(v)
    <3>1. conf'["capture_length"] = conf["capture_length"]
      <4>1. "capture_length" \in Fields
        BY DEF Fields, Params, Checked
      <4>2. \A n \in Fields : n \notin {"tx", "pwr_ceil"} => conf'[n] = conf[n]
        BY <1>0, <2>2 DEF SetTx, TestTypes
      <4> QED BY <4>1, <4>2
    <3> QED BY <2>1, <3>1, BufferRest
  <2>3. CASE SetRx(v)
    <3>1. conf'["capture_length"] = conf["capture_length"]
      BY <1>0, <2>3, CaptureLengthStays DEF SetRx
    <3> QED BY <2>1, <3>1, BufferRest
  <2>4. CASE TxTone(v)
    <3>1. conf' = conf
      BY <2>4 DEF TxTone
    <3> QED BY <2>1, <3>1, BufferRest
  <2> QED BY <1>3, <2>2, <2>3, <2>4
<1>4. ASSUME NEW k \in RfTests, NEW v \in {0, 1, 127}, RfTest(k, v) PROVE BufferInv'
  <2>1. /\ UNCHANGED <<buf, buf_len, cap_live, rd, ri, fault, misused, conf>>
        /\ pc # "rx_cap_alloc" /\ pc' \notin {"rx_cap_alloc", "rx_cap"}
    BY <1>4 DEF RfTest, bufVars, readVars, Begin, RfTests
  <2> QED BY <2>1, BufferRest
<1>5. CASE RfTestEnd
  <2>1. /\ UNCHANGED <<buf, buf_len, cap_live, rd, ri, fault, misused>>
        /\ pc # "rx_cap_alloc" /\ pc' \notin {"rx_cap_alloc", "rx_cap"}
    BY <1>5 DEF RfTestEnd, bufVars, readVars, Begin, RfTests
  <2>2. conf'["capture_length"] = conf["capture_length"]
    BY <1>0, <1>5, CaptureLengthStays DEF RfTestEnd
  <2> QED BY <2>1, <2>2, BufferRest
<1>6. ASSUME NEW ch \in Channels, InitStart(ch) PROVE BufferInv'
  <2>1. /\ UNCHANGED <<buf, buf_len, cap_live, rd, ri, fault, misused, conf>>
        /\ pc # "rx_cap_alloc" /\ pc' \notin {"rx_cap_alloc", "rx_cap"}
    BY <1>6 DEF InitStart, bufVars, readVars, Begin, RfTests
  <2> QED BY <2>1, BufferRest
<1>7. ASSUME NEW t \in {"tx", "rx"}, NEW here \in {"init_rx", "init_tx"}, NEW next \in {"init_tx", "init_tone"},
             InitStop(t, here, next)
      PROVE  BufferInv'
  <2>1. /\ UNCHANGED <<buf, buf_len, cap_live, rd, ri, fault, misused>>
        /\ pc # "rx_cap_alloc" /\ pc' \notin {"rx_cap_alloc", "rx_cap"}
    BY <1>7 DEF InitStop, bufVars, readVars, Begin, RfTests
  <2>2. conf'["capture_length"] = conf["capture_length"]
    <3>1. conf' = conf \/ conf' = [conf EXCEPT ![t] = 0]
      BY <1>7 DEF InitStop
    <3>2. "capture_length" \in Fields
      BY DEF Fields, Params, Checked
    <3> QED BY <1>0, <3>1, <3>2 DEF TestTypes
  <2> QED BY <2>1, <2>2, BufferRest
<1>8. CASE InitStopTone
  <2>1. /\ UNCHANGED <<buf, buf_len, cap_live, rd, ri, fault, misused, conf>>
        /\ pc # "rx_cap_alloc" /\ pc' \notin {"rx_cap_alloc", "rx_cap"}
    BY <1>8 DEF InitStopTone, bufVars, readVars, Begin, RfTests
  <2> QED BY <2>1, BufferRest
<1>9. CASE InitConf
  <2>1. /\ UNCHANGED <<buf, buf_len, cap_live, rd, ri, fault, misused>>
        /\ pc # "rx_cap_alloc" /\ pc' \notin {"rx_cap_alloc", "rx_cap"}
    BY <1>9 DEF InitConf, bufVars, readVars, Begin, RfTests
  <2>2. \/ conf' = [Defaults(conf["country"]) EXCEPT !["channel"] = arg]
        \/ conf' = Zeroed
    BY <1>9 DEF InitConf, ConfInit
  <2>3. conf'["capture_length"] = 0
    BY <1>0, <2>2, ResetConf
  <2> QED BY <2>1, <2>3, BufferRest
<1>10. ASSUME fault = {}, NEW valid \in BOOLEAN, RxCapRefused(valid) PROVE BufferInv'
  <2>1. FreeOnError /\ UNCHANGED conf /\ pc = "idle" /\ pc' = "idle"
    BY <1>10 DEF RxCapRefused, Begin
  <2> QED BY <1>10, <2>1, FreeOnErrorKeeps
<1>11. ASSUME fault = {}, RxCap PROVE BufferInv'
  <2>1. /\ pc = "idle" /\ pc' = "rx_cap_alloc"
        /\ fault' = IF buf = "freed" THEN {"freed_use"} ELSE {}
        /\ buf' = IF buf = "null" THEN "null" ELSE "freed"
        /\ \A m \in misused : m \in misused'
        /\ rd # "idle" => "overlap" \in misused'
        /\ UNCHANGED <<conf, buf_len, cap_live, rd, ri>>
    BY <1>11 DEF RxCap, Begin, Free, Overlap, readVars
  <2>2. BufferSafe'
    BY <2>1 DEF BufferSafe, BufferInv
  <2> QED BY <2>1, <2>2 DEF BufferInv
<1>12. ASSUME fault = {}, RxCapAlloc \/ RxCapNoMemory PROVE BufferInv'
  <2>1. /\ pc = "rx_cap_alloc" /\ UNCHANGED <<conf, rd, ri>> /\ fault' = {}
        /\ rd # "idle" => "overlap" \in misused'
    BY <1>12 DEF RxCapAlloc, RxCapNoMemory, NewBuffer, Overlap, readVars, BufferInv
  <2>2. \/ buf' = "alloc" /\ buf_len' = conf["capture_length"] /\ cap_live' = TRUE
             /\ pc' = "rx_cap"
        \/ buf' = "null" /\ buf_len' = 0 /\ pc' = "idle"
    BY <1>12 DEF RxCapAlloc, RxCapNoMemory
  <2>3. BufferSafe'
    BY <2>1 DEF BufferSafe
  <2> QED BY <2>1, <2>2, <2>3 DEF BufferInv
<1>13. ASSUME fault = {}, RxCapEnd PROVE BufferInv'
  <2>1. UNCHANGED conf /\ pc = "rx_cap" /\ pc' = "idle"
    BY <1>13 DEF RxCapEnd
  <2>2. CASE FreeOnError
    BY <1>13, <2>1, <2>2, FreeOnErrorKeeps
  <2>3. CASE /\ fault' = IF cap_live THEN fault ELSE fault \union {"late_write"}
             /\ UNCHANGED <<buf, buf_len, readVars, misused>>
    <3>1. BufferSafe'
      BY <1>13, <2>1, <2>3 DEF BufferSafe, BufferInv
    <3> QED BY <2>1, <2>3, <3>1 DEF BufferInv, readVars
  <2> QED BY <1>13, <2>2, <2>3 DEF RxCapEnd
<1>14. CASE UNCHANGED vars
  <2>1. UNCHANGED <<buf, buf_len, cap_live, rd, ri, fault, misused, conf, pc>>
    BY <1>14 DEF vars
  <2> QED BY <2>1, BufferRest
<1> QED BY <1>1, <1>2, <1>3, <1>4, <1>5, <1>6, <1>7, <1>8, <1>9, <1>10, <1>11,
           <1>12, <1>13, <1>14, ReadKeeps DEF Next, Write

\* There is no buffer at first.
LEMMA BufferStart == Init => BufferInv
<1> SUFFICES ASSUME Init PROVE BufferInv
  OBVIOUS
<1>1. conf["capture_length"] = 0
  BY ResetConf, 0 \in Int, 0 \in Nat DEF Init
<1> QED BY <1>1 DEF Init, BufferInv, BufferSafe

\* BufferSafe: however captures are taken, refused, failed and read, and at every
\* interleaving of the writer's and the reader's steps, the capture buffer is used
\* after it was freed, through NULL, beyond its end or after a reader took it only
\* for the causes the property names.
THEOREM CaptureBufferIsSafe == Spec => []BufferSafe
<1>1. BufferInv => BufferSafe
  BY DEF BufferInv
<1> QED BY <1>1, BufferStart, HostStart, HostStep, BufferStep, PTL DEF Spec
-----------------------------------------------------------------------------
(* Types: the parameters stay in the ranges their handlers accept *)

Flag == PhyCalib \union {"tx", "rx", "nss", "pwr_ceil", "sgi", "bypass"}

\* What TypeOK says of the configuration.
ConfOk(c) ==
  /\ c \in [Fields -> Int]
  /\ \A f \in Flag : c[f] \in 0..1
  /\ c["tput_mode"] \in 0..(TPUT_MAX - 1) /\ c["preamble"] \in 0..2
  /\ c["ru_index"] \in 0..9 /\ c["xo"] \in 0..127

\* What it says of the driver's marks, of the writer and of the histories.
MarkTypes ==
  /\ rf_test_run \in BOOLEAN
  /\ rf_test \in RfTests \union {None, "tone", "rx_cap"}
  /\ pc \in RfTests \union {"idle", "rx_cap_alloc", "rx_cap", "init_rx", "init_tx",
                            "init_tone", "init_conf"}
  /\ lost \subseteq Tests \union {"rf"}

BufTypes ==
  /\ buf \in {"null", "alloc", "freed"} /\ cap_live \in BOOLEAN
  /\ rd \in {"idle", "test", "print", "free", "clear"}
  /\ fault \subseteq {"freed_use", "null_use", "over_read", "late_write"}
  /\ misused \subseteq {"error", "longer", "early_read", "overlap"}

TestCountTypes == writes \in 0..MaxWrites /\ fails \in 0..MaxFail

\* An XO value waited for is in its range.
XoInv == pc = "xo" => arg \in 0..127

\* The ranges, by field.
LEMMA FieldNames ==
  /\ Flag \subseteq Fields
  /\ "tput_mode" \in Fields /\ "preamble" \in Fields /\ "ru_index" \in Fields
  /\ "xo" \in Fields /\ "channel" \in Fields /\ "country" \in Fields
  /\ "tx" \in Flag /\ "rx" \in Flag /\ "pwr_ceil" \in Flag
  /\ {"tput_mode", "preamble", "ru_index", "xo", "channel"} \intersect Flag = {}
  /\ Params \subseteq Fields
  /\ "xo" \notin Params
BY DEF Flag, Fields, Params, Checked, Unchecked, PhyCalib

\* A reset configuration is in range.
LEMMA ResetOk ==
  ASSUME NEW n \in Int, NEW ch \in Nat
  PROVE  /\ ConfOk(Zeroed) /\ ConfOk(Defaults(n))
         /\ ConfOk([Defaults(n) EXCEPT !["channel"] = ch])
<1>1. ConfOk(Zeroed)
  <2>1. Zeroed \in [Fields -> Int] /\ \A f \in Fields : Zeroed[f] = 0
    BY DEF Zeroed
  <2> QED BY <2>1, FieldNames DEF ConfOk, TPUT_MAX
<1>2. ConfOk(Defaults(n))
  <2>1. Defaults(n) \in [Fields -> Int]
    BY ResetConf, 0 \in Nat
  <2>2. \A f \in Flag : Defaults(n)[f] \in 0..1
    BY FieldNames DEF Defaults, Flag, PhyCalib
  <2>3. /\ Defaults(n)["tput_mode"] = 0 /\ Defaults(n)["preamble"] = 1
        /\ Defaults(n)["ru_index"] = 1 /\ Defaults(n)["xo"] = 0
    BY FieldNames DEF Defaults, PhyCalib
  <2> QED BY <2>1, <2>2, <2>3 DEF ConfOk, TPUT_MAX
<1> DEFINE c == Defaults(n)
<1>3. ConfOk(c)
  BY <1>2
<1> HIDE DEF c
<1>4. ConfOk([c EXCEPT !["channel"] = ch])
  BY <1>3, FieldNames DEF ConfOk
<1> QED BY <1>1, <1>2, <1>4 DEF c

\* A parameter the handlers accept is in range.
LEMMA AcceptedInRange ==
  ASSUME NEW q \in Params, NEW v \in Int, Accepts(q, v)
  PROVE  /\ q \in Flag => v \in 0..1
         /\ q = "tput_mode" => v \in 0..(TPUT_MAX - 1)
         /\ q = "preamble" => v \in 0..2
         /\ q = "ru_index" => v \in 0..9
<1>1. CASE q \in PhyCalib
  BY <1>1 DEF Accepts, PhyCalibOk, PhyCalib
<1>2. CASE q = "sgi"
  BY <1>2 DEF Accepts, SgiOk, PhyCalib
<1>3. CASE q = "bypass"
  BY <1>3 DEF Accepts, BypassOk, PhyCalib
<1>4. CASE q = "tput_mode"
  BY <1>4, FieldNames DEF Accepts, TputModeOk, PhyCalib
<1>5. CASE q = "preamble"
  <2>1. PreambleOk(v)
    BY <1>5 DEF Accepts, PhyCalib
  <2> QED BY <1>5, <2>1, FieldNames
          DEF PreambleOk, PREAMBLE_SHORT, PREAMBLE_LONG, PREAMBLE_MIXED
<1>6. CASE q = "ru_index"
  <2>1. RuIndexOk(v)
    BY <1>6 DEF Accepts, PhyCalib
  <2>2. v \in 1..9
    BY <2>1 DEF RuIndexOk
  <2> QED BY <1>6, <2>2, FieldNames
<1>7. q \in Flag => q \in PhyCalib \/ q = "sgi" \/ q = "bypass"
  BY DEF Flag, Params, Checked, Unchecked, PhyCalib
<1> QED BY <1>1, <1>2, <1>3, <1>4, <1>5, <1>6, <1>7

\* No write takes a parameter out of its range.
LEMMA ConfOkStep ==
  ASSUME ConfOk(conf), XoInv, arg \in Nat, [Next]_vars
  PROVE  ConfOk(conf')
<1>0. conf["country"] \in Int
  BY FieldNames DEF ConfOk
<1>1. ASSUME NEW q \in Params, NEW v \in Inputs[q], SetParam(q, v) PROVE ConfOk(conf')
  <2>1. conf' = [conf EXCEPT ![q] = v] /\ Accepts(q, v) /\ v \in Int /\ q \in Fields
    BY <1>1, RadioTestAssumption, FieldNames DEF SetParam
  <2>2. /\ q \in Flag => v \in 0..1
        /\ q = "tput_mode" => v \in 0..(TPUT_MAX - 1)
        /\ q = "preamble" => v \in 0..2
        /\ q = "ru_index" => v \in 0..9
        /\ q # "xo"
    BY <2>1, AcceptedInRange, FieldNames
  <2> QED BY <2>1, <2>2, FieldNames DEF ConfOk
<1>2. ASSUME NEW c, NEW ok, ConfInit(ok, c), ConfOk(c) PROVE ConfOk(conf')
  BY <1>2, ResetOk, 0 \in Int, 0 \in Nat DEF ConfInit
<1>3. CASE SetDefaults
  <2>1. PICK ok \in BOOLEAN : ConfInit(ok, Defaults(conf["country"]))
    BY <1>3 DEF SetDefaults
  <2> QED BY <1>0, <1>2, <2>1, ResetOk, 0 \in Nat
<1>4. CASE InitConf
  <2>1. PICK ok \in BOOLEAN :
           ConfInit(ok, [Defaults(conf["country"]) EXCEPT !["channel"] = arg])
    BY <1>4 DEF InitConf
  <2> QED BY <1>0, <1>2, <2>1, ResetOk
<1>5. ASSUME NEW v \in 0..1, SetTx(v) PROVE ConfOk(conf')
  <2>1. \E w \in 0..1 : conf' = [conf EXCEPT !["tx"] = v, !["pwr_ceil"] = w]
    <3>1. conf["pwr_ceil"] \in 0..1 /\ 1 \in 0..1
      BY FieldNames DEF ConfOk
    <3> QED BY <1>5, <3>1, FieldNames DEF SetTx, ConfOk
  <2> QED BY <2>1, FieldNames DEF ConfOk
<1>6. ASSUME NEW v \in 0..1, SetRx(v) PROVE ConfOk(conf')
  BY <1>6, FieldNames DEF SetRx, ConfOk
<1>7. ASSUME NEW v \in 0..1, TxTone(v) PROVE ConfOk(conf')
  BY <1>7 DEF TxTone
<1>8. CASE RfTestEnd
  <2>1. conf' = conf \/ (arg \in 0..127 /\ conf' = [conf EXCEPT !["xo"] = arg])
    BY <1>8 DEF RfTestEnd, XoInv
  <2> QED BY <2>1, FieldNames DEF ConfOk
<1>9. ASSUME NEW t \in {"tx", "rx"}, NEW here, NEW next, InitStop(t, here, next)
      PROVE  ConfOk(conf')
  <2>1. conf' = conf \/ conf' = [conf EXCEPT ![t] = 0]
    BY <1>9 DEF InitStop
  <2>2. t \in Flag
    BY FieldNames
  <2> QED BY <2>1, <2>2, FieldNames DEF ConfOk
<1>10. CASE \/ \E k \in RfTests, v \in {0, 1, 127} : RfTest(k, v)
            \/ \E ch \in Channels : InitStart(ch)
            \/ \E valid \in BOOLEAN : RxCapRefused(valid)
            \/ InitStopTone \/ RxCap \/ RxCapAlloc \/ RxCapNoMemory \/ RxCapEnd \/ Read
            \/ UNCHANGED vars
  <2>1. conf' = conf
    BY <1>10, ReadLeaves
       DEF RfTest, InitStart, RxCapRefused, InitStopTone, RxCap, RxCapAlloc,
           RxCapNoMemory, RxCapEnd, vars
  <2> QED BY <2>1
<1> QED BY <1>1, <1>3, <1>4, <1>5, <1>6, <1>7, <1>8, <1>9, <1>10 DEF Next, Write

\* The marks and the histories.
LEMMA MarkTypeStep ==
  ASSUME MarkTypes, [Next]_vars
  PROVE  MarkTypes'
<1> USE DEF MarkTypes, rfVars, fwVars
<1>0. /\ {"tx", "rx", "tone", "rf"} = Tests \union {"rf"}
      /\ None \notin RfTests
  BY DEF Tests, None, RfTests
<1>1. ASSUME NEW q \in Params, NEW v \in Inputs[q], SetParam(q, v) PROVE MarkTypes'
  BY <1>1 DEF SetParam
<1>2. ASSUME NEW c, NEW ok, ConfInit(ok, c) PROVE lost' \subseteq Tests \union {"rf"}
  BY <1>0, <1>2 DEF ConfInit
<1>3. CASE SetDefaults
  BY <1>2, <1>3 DEF SetDefaults
<1>4. CASE InitConf
  BY <1>2, <1>4 DEF InitConf
<1>5. ASSUME NEW t \in Tests, NEW c, NEW ok, Program(t, c, ok)
      PROVE  lost' \subseteq Tests \union {"rf"}
  BY <1>5 DEF Program
<1>6. ASSUME NEW v \in 0..1, SetTx(v) \/ SetRx(v) PROVE MarkTypes'
  BY <1>5, <1>6 DEF SetTx, SetRx, Tests
<1>7. ASSUME NEW k, MarkRfTest(k)
      PROVE  rf_test_run' \in BOOLEAN /\ rf_test' = k /\ lost' \subseteq Tests \union {"rf"}
  BY <1>0, <1>7 DEF MarkRfTest
<1>8. ASSUME NEW k \in RfTests, NEW v \in {0, 1, 127}, RfTest(k, v) PROVE MarkTypes'
  BY <1>7, <1>8 DEF RfTest
<1>9. ASSUME NEW ok \in BOOLEAN, UnmarkRfTest(ok)
      PROVE  /\ rf_test_run' \in BOOLEAN /\ lost' \subseteq Tests \union {"rf"}
             /\ rf_test' \in RfTests \union {None, "tone", "rx_cap"}
  BY <1>9 DEF UnmarkRfTest
<1>10. CASE RfTestEnd
  BY <1>9, <1>10 DEF RfTestEnd
<1>11. CASE RxCapEnd
  BY <1>9, <1>11 DEF RxCapEnd
<1>12. CASE RxCapAlloc
  BY <1>7, <1>12 DEF RxCapAlloc
<1>13. ASSUME NEW v \in 0..1, TxTone(v) PROVE MarkTypes'
  <2>1. /\ rf_test_run' \in BOOLEAN /\ lost' \subseteq Tests \union {"rf"}
        /\ rf_test' \in RfTests \union {None, "tone", "rx_cap"}
    BY <1>13 DEF TxTone
  <2> QED BY <1>13, <2>1 DEF TxTone
<1>14. ASSUME NEW t \in {"tx", "rx"}, NEW here, NEW next \in {"init_tx", "init_tone"},
              InitStop(t, here, next)
       PROVE  MarkTypes'
  <2>1. t \in Tests
    BY DEF Tests
  <2>2. lost' = lost \/ \E ok \in BOOLEAN : Program(t, conf', ok)
    BY <1>14 DEF InitStop
  <2>3. lost' \subseteq Tests \union {"rf"}
    BY <1>5, <2>1, <2>2
  <2>4. pc' \in {next, "idle"}
    BY <1>14 DEF InitStop
  <2>5. UNCHANGED <<rf_test_run, rf_test>>
    BY <1>14 DEF InitStop
  <2> QED BY <2>3, <2>4, <2>5
<1>15. CASE InitStopTone
  BY <1>15 DEF InitStopTone
<1>16. ASSUME NEW ch \in Channels, InitStart(ch) PROVE MarkTypes'
  BY <1>16 DEF InitStart
<1>17. CASE \/ \E valid \in BOOLEAN : RxCapRefused(valid)
            \/ RxCap \/ RxCapNoMemory \/ Read \/ UNCHANGED vars
  BY <1>17, ReadLeaves DEF RxCapRefused, RxCap, RxCapNoMemory, vars
<1> QED BY <1>1, <1>3, <1>4, <1>6, <1>8, <1>10, <1>11, <1>12, <1>13, <1>14, <1>15,
           <1>16, <1>17 DEF Next, Write

\* The buffer and its history.
LEMMA BufTypeStep ==
  ASSUME BufTypes, [Next]_vars
  PROVE  BufTypes'
<1> USE DEF BufTypes, bufVars, readVars
<1>1. ASSUME FreeOnError, cap_live' \in BOOLEAN PROVE BufTypes'
  BY <1>1 DEF FreeOnError, Free, Overlap
<1>2. ASSUME NEW q \in Params, NEW v \in Inputs[q], SetParam(q, v) PROVE BufTypes'
  BY <1>2 DEF SetParam
<1>3. CASE RxCap \/ RxCapAlloc \/ RxCapNoMemory
  BY <1>3 DEF RxCap, RxCapAlloc, RxCapNoMemory, Free, NewBuffer, Overlap
<1>4. ASSUME NEW valid \in BOOLEAN, RxCapRefused(valid) PROVE BufTypes'
  BY <1>1, <1>4 DEF RxCapRefused
<1>5. CASE RxCapEnd
  BY <1>1, <1>5 DEF RxCapEnd
<1>6. CASE Read
  <2>1. CASE StatsOpen \/ StatsTest \/ StatsClear
    BY <2>1 DEF StatsOpen, StatsTest, StatsClear
  <2>2. CASE StatsPrint
    <3>1. fault' \subseteq fault \union {"freed_use", "null_use", "over_read"}
      BY <2>2 DEF StatsPrint
    <3> QED BY <2>2, <3>1 DEF StatsPrint
  <2>3. CASE StatsFree
    BY <2>3 DEF StatsFree, Free
  <2> QED BY <1>6, <2>1, <2>2, <2>3 DEF Read
<1>7. CASE \/ SetDefaults \/ RfTestEnd \/ InitStopTone \/ InitConf
           \/ \E v \in 0..1 : SetTx(v) \/ SetRx(v) \/ TxTone(v)
           \/ \E k \in RfTests, v \in {0, 1, 127} : RfTest(k, v)
           \/ \E ch \in Channels : InitStart(ch)
           \/ InitStop("rx", "init_rx", "init_tx") \/ InitStop("tx", "init_tx", "init_tone")
           \/ UNCHANGED vars
  <2>1. UNCHANGED <<buf, cap_live, rd, fault, misused>>
    BY <1>7 DEF SetDefaults, RfTestEnd, InitStopTone, InitConf, SetTx, SetRx, TxTone,
                RfTest, InitStart, InitStop, vars
  <2> QED BY <2>1
<1> QED BY <1>2, <1>3, <1>4, <1>5, <1>6, <1>7 DEF Next, Write

\* The bounds.
LEMMA TestCountStep ==
  ASSUME TestCountTypes, [Next]_vars
  PROVE  TestCountTypes'
<1> USE RadioTestAssumption DEF TestCountTypes
<1>1. ASSUME Begin PROVE writes' \in 0..MaxWrites
  BY <1>1 DEF Begin
<1>2. ASSUME NEW ok, Command(ok) PROVE fails' \in 0..MaxFail
  BY <1>2 DEF Command
<1>3. ASSUME NEW t, NEW c, NEW ok, Program(t, c, ok) PROVE fails' \in 0..MaxFail
  BY <1>2, <1>3 DEF Program
<1>4. writes' \in 0..MaxWrites
  BY <1>1, ReadLeaves
     DEF Next, Write, SetParam, SetDefaults, SetTx, SetRx, TxTone, RfTest, RfTestEnd,
         InitStart, InitStop, InitStopTone, InitConf, RxCapRefused, RxCap,
         RxCapAlloc, RxCapNoMemory, RxCapEnd, vars
<1>5. fails' \in 0..MaxFail
  BY <1>2, <1>3, ReadLeaves
     DEF Next, Write, SetParam, SetDefaults, SetTx, SetRx, TxTone, RfTest, RfTestEnd,
         InitStart, InitStop, InitStopTone, InitConf, RxCapRefused, RxCap,
         RxCapAlloc, RxCapNoMemory, RxCapEnd, vars
<1> QED BY <1>4, <1>5

\* The value that is waited for.
LEMMA XoStep ==
  ASSUME XoInv, [Next]_vars
  PROVE  XoInv'
<1> USE DEF XoInv
<1>1. ASSUME NEW k \in RfTests, NEW v \in {0, 1, 127}, RfTest(k, v) PROVE XoInv'
  <2>1. pc' = k /\ arg' = v
    BY <1>1 DEF RfTest
  <2> QED BY <2>1
<1>2. CASE \/ \E q \in Params : \E v \in Inputs[q] : SetParam(q, v)
           \/ SetDefaults \/ \E v \in 0..1 : SetTx(v) \/ SetRx(v) \/ TxTone(v)
           \/ \E valid \in BOOLEAN : RxCapRefused(valid)
           \/ Read \/ UNCHANGED vars
  <2>1. UNCHANGED <<pc, arg>>
    BY <1>2, ReadLeaves DEF SetParam, SetDefaults, SetTx, SetRx, TxTone, RxCapRefused,
                            vars
  <2> QED BY <2>1
<1>3. CASE \/ RfTestEnd \/ InitStopTone \/ InitConf
           \/ RxCap \/ RxCapAlloc \/ RxCapNoMemory \/ RxCapEnd
           \/ \E ch \in Channels : InitStart(ch)
           \/ InitStop("rx", "init_rx", "init_tx") \/ InitStop("tx", "init_tx", "init_tone")
  <2>1. pc' # "xo"
    BY <1>3 DEF RfTestEnd, InitStopTone, InitConf, RxCap, RxCapAlloc, RxCapNoMemory,
                RxCapEnd, InitStart, InitStop
  <2> QED BY <2>1
<1> QED BY <1>1, <1>2, <1>3 DEF Next, Write

\* TypeOK: whatever is written, the parameters with a fixed range keep it, the XO
\* value stored after the firmware's answer included, and so does the rest of the
\* state.
THEOREM ParametersStayInRange == Spec => []TypeOK
<1> DEFINE I == /\ HostInv /\ BufferInv /\ ConfOk(conf) /\ MarkTypes /\ BufTypes
                /\ TestCountTypes /\ XoInv
<1>1. Init => I
  <2> SUFFICES ASSUME Init PROVE I
    OBVIOUS
  <2>1. HostInv /\ BufferInv
    BY HostStart, BufferStart
  <2>2. ConfOk(conf)
    BY ResetOk, 0 \in Int, 0 \in Nat DEF Init
  <2>3. MarkTypes /\ BufTypes /\ XoInv
    BY DEF Init, MarkTypes, BufTypes, XoInv
  <2>4. TestCountTypes
    BY RadioTestAssumption DEF Init, TestCountTypes
  <2> QED BY <2>1, <2>2, <2>3, <2>4
<1>2. I /\ [Next]_vars => I'
  <2> SUFFICES ASSUME I, [Next]_vars PROVE I'
    OBVIOUS
  <2>1. arg \in Nat
    BY DEF HostInv, TestTypes
  <2>2. ConfOk(conf)'
    BY <2>1, ConfOkStep DEF ConfOk
  <2> QED BY <2>2, HostStep, BufferStep, MarkTypeStep, BufTypeStep, TestCountStep, XoStep
<1>3. I => TypeOK
  BY DEF HostInv, TestTypes, BufferInv, ConfOk, Flag, MarkTypes, BufTypes,
         TestCountTypes, TypeOK
<1> HIDE DEF I
<1> QED BY <1>1, <1>2, <1>3, PTL DEF Spec
==============================================================================
