---------------------------- MODULE RpuPowerProofs ----------------------------
(***************************************************************************)
(* Proofs about RpuPower, RpuBus and DeferredWork, for every number of     *)
(* polls, every device tree speed, every block size and every bound.       *)
(***************************************************************************)
EXTENDS RpuBus, DeferredWork, SequenceTheorems, TLAPS

-----------------------------------------------------------------------------
(* RpuPower *)

AllOk == handle["bucken"] = "ok" /\ handle["iovdd"] = "ok"
Powered == level["bucken"] = 1 /\ level["iovdd"] = 1

\* The part of TypeOK the arguments below need.
LineTypes ==
  /\ handle \in [Lines -> {"null", "err", "asis", "ok"}]
  /\ level \in [Lines -> {0, 1}]
  /\ rpu \in {"off", "asleep", "awake"}
  /\ wakeup_now \in BOOLEAN /\ clocks \in BOOLEAN /\ enabled \in BOOLEAN
  /\ confirmed \in BOOLEAN

\* The RPU is off while a line is low. (rpu_gpio_config drives the lines low
\* without looking; rpu_pwron does so once more.)
OffInv ==
  /\ rpu = "off" => ~wakeup_now /\ ~clocks
  /\ pc # "low" /\ ~Powered => rpu = "off"

\* The operation in progress, by its next step.
OpInv ==
  /\ pc \in {"low", "bucken", "iovdd", "init", "clks"} => op = "enable"
  /\ pc \in {"speed", "write", "rdsr2", "rdsr1"} => op \in {"enable", "wake"}
  /\ pc = "idle" => op = "none"
  /\ pc = "off" => ~enabled
  /\ pc \notin {"idle", "off"} => enabled

\* What is known at each step when nothing has gone wrong.
CalmInv ==
  trouble = {} =>
    /\ enabled => AllOk
    /\ ~enabled => ~wakeup_now
    /\ pc \in {"bucken", "iovdd"} => rpu = "off" /\ level["iovdd"] = 0
    /\ pc = "iovdd" => level["bucken"] = 1
    /\ enabled /\ pc \notin {"low", "bucken", "iovdd"} => Powered /\ rpu # "off"
    /\ enabled /\ pc # "low" /\ op # "enable" => clocks
    /\ pc \in {"rdsr2", "rdsr1", "clks"} => wakeup_now
    /\ pc = "clks" => rpu = "awake"
    /\ pc = "idle" /\ wakeup_now => rpu = "awake"

PowerInv == LineTypes /\ OffInv /\ OpInv /\ CalmInv

\* What gpiod_set_value does to one line, and to the RPU.
LEMMA SetLineEffect ==
  ASSUME LineTypes, NEW l \in Lines, NEW v \in {0, 1}, SetLine(l, v)
  PROVE  /\ level' \in [Lines -> {0, 1}]
         /\ level'[l] = IF handle[l] = "ok" THEN v ELSE level[l]
         /\ \A k \in Lines : k # l => level'[k] = level[k]
BY DEF SetLine, SetLines, LineTypes

\* ... and what the lines do to the RPU, whatever sets them.
LEMMA SetLinesRpu ==
  ASSUME LineTypes, OffInv, NEW v, SetLines(v), level' \in [Lines -> {0, 1}]
  PROVE  /\ rpu' \in {"off", "asleep", "awake"}
         /\ wakeup_now' \in BOOLEAN /\ clocks' \in BOOLEAN
         /\ Powered' /\ rpu = "off" => rpu' = "asleep"
         /\ Powered' /\ rpu # "off" => rpu' = rpu
         /\ ~Powered' => rpu' = "off"
         /\ rpu' = "off" => ~wakeup_now' /\ ~clocks'
         /\ wakeup_now' => wakeup_now
         /\ rpu' # "off" => clocks' = clocks
<1>1. ~Powered' <=> \E k \in Lines : level'[k] = 0
  BY DEF Powered, Lines
<1>2. rpu' = IF ~Powered' THEN "off" ELSE IF rpu = "off" THEN "asleep" ELSE rpu
  BY <1>1 DEF SetLines
<1>3. wakeup_now' = (wakeup_now /\ rpu' # "off") /\ clocks' = (clocks /\ rpu' # "off")
  BY DEF SetLines
<1>4. /\ wakeup_now' \in BOOLEAN /\ clocks' \in BOOLEAN
      /\ rpu' = "off" => ~wakeup_now' /\ ~clocks'
      /\ wakeup_now' => wakeup_now
      /\ rpu' # "off" => clocks' = clocks
  BY <1>3 DEF LineTypes
<1> QED BY <1>2, <1>4 DEF LineTypes

\* The first step of rpu_pwron drives every line it can low.
LEMMA PwrOnLowEffect ==
  ASSUME LineTypes, PwrOnLow
  PROVE  /\ level' \in [Lines -> {0, 1}]
         /\ AllOk => \A l \in Lines : level'[l] = 0
<1> DEFINE S == IF handle["bucken"] = "null" THEN {} ELSE Lines
           v == [l \in S |-> 0]
<1>1. SetLines(v)
  BY DEF PwrOnLow
<1>2. level' = [l \in Lines |-> IF l \in S /\ handle[l] = "ok" THEN 0 ELSE level[l]]
  <2>1. DOMAIN v = S /\ \A l \in S : v[l] = 0
    OBVIOUS
  <2> HIDE DEF v, S
  <2> QED BY <1>1, <2>1 DEF SetLines
<1> QED BY <1>2 DEF LineTypes, AllOk, Lines

\* It holds of the RPU before anything was enabled, ...
LEMMA PowerInit == Init => PowerInv
BY DEF Init, PowerInv, LineTypes, OffInv, OpInv, CalmInv, Powered, AllOk, Lines

\* ... and every step of every operation keeps it.
LEMMA PowerStep == PowerInv /\ [Next]_vars => PowerInv'
<1> SUFFICES ASSUME PowerInv, [Next]_vars PROVE PowerInv'
  OBVIOUS
<1> USE DEF PowerInv, LineTypes, OffInv, OpInv, CalmInv, AllOk, Powered, Lines,
            opVars, gpio, rpuVars, Note
<1>1. CASE GpioConfig
  <2>1. handle' \in [Lines -> {"null", "err", "asis", "ok"}]
    BY <1>1 DEF GpioConfig, Configured
  <2> QED BY <1>1, <2>1 DEF GpioConfig
<1>2. CASE PwrOnLow
  <2>1. PICK v : SetLines(v)
    BY <1>2 DEF PwrOnLow
  <2> QED BY <1>2, <2>1, PwrOnLowEffect, SetLinesRpu DEF PwrOnLow
<1>3. CASE PwrOnBucken
  <2>1. SetLine("bucken", 1)
    BY <1>3 DEF PwrOnBucken, PwrOnFirst
  <2>2. PICK v : SetLines(v)
    BY <2>1 DEF SetLine
  <2>3. ~Powered' => rpu' = "off" /\ ~wakeup_now' /\ ~clocks'
    BY <2>1, <2>2, SetLineEffect, SetLinesRpu
  <2>4. LineTypes' /\ OffInv'
    BY <1>3, <2>1, <2>2, SetLineEffect, SetLinesRpu DEF PwrOnBucken
  <2>5. OpInv'
    BY <1>3 DEF PwrOnBucken
  <2>6. CalmInv'
    BY <1>3, <2>1, <2>3, SetLineEffect DEF PwrOnBucken
  <2> QED BY <2>4, <2>5, <2>6
<1>4. CASE PwrOnIovdd
  <2>1. SetLine("iovdd", 1)
    BY <1>4 DEF PwrOnIovdd, PwrOnFirst
  <2> QED BY <1>4, <2>1, SetLineEffect, SetLinesRpu DEF PwrOnIovdd, SetLine
<1>5. CASE DisableBucken
  <2>1. SetLine("bucken", 0)
    BY <1>5 DEF DisableBucken
  <2>2. PICK v : SetLines(v)
    BY <2>1 DEF SetLine
  <2>3. LineTypes' /\ OffInv'
    BY <1>5, <2>1, <2>2, SetLineEffect, SetLinesRpu DEF DisableBucken
  <2>4. OpInv'
    BY <1>5 DEF DisableBucken
  <2>5. CalmInv'
    <3>1. trouble' = {} => handle["bucken"] = "ok"
      BY <1>5 DEF DisableBucken
    <3>2. trouble' = {} => ~Powered'
      BY <2>1, <3>1, SetLineEffect
    <3>3. trouble' = {} => ~wakeup_now'
      BY <2>2, <2>3, <3>2, SetLinesRpu
    <3>4. ~enabled' /\ pc' \in {"idle", "off"}
      BY <1>5 DEF DisableBucken
    <3> QED BY <3>3, <3>4
  <2> QED BY <2>3, <2>4, <2>5
<1>6. CASE DisableIovdd
  <2>1. SetLine("iovdd", 0)
    BY <1>6 DEF DisableIovdd
  <2> QED BY <1>6, <2>1, SetLineEffect, SetLinesRpu DEF DisableIovdd, SetLine
<1>7. CASE SpiInit \/ WakeStart \/ WakeSpeed \/ WakeWrite
  <2>1. CASE SpiInit
    BY <2>1 DEF SpiInit
  <2>2. CASE WakeStart
    BY <2>2 DEF WakeStart
  <2>3. CASE WakeSpeed
    BY <2>3 DEF WakeSpeed
  <2>4. CASE WakeWrite
    <3>1. wakeup_now' \in BOOLEAN
      BY <2>4 DEF WakeWrite
    <3>2. CASE wakeup_now' = (rpu # "off") /\ UNCHANGED trouble
      BY <2>4, <3>1, <3>2 DEF WakeWrite
    <3>3. CASE UNCHANGED wakeup_now /\ Note("spi")
      BY <2>4, <3>1, <3>3 DEF WakeWrite
    <3> QED BY <2>4, <3>2, <3>3 DEF WakeWrite
  <2> QED BY <1>7, <2>1, <2>2, <2>3, <2>4
<1>8. CASE PollConfirmed \/ PollNotConfirmed
  <2>1. CASE PollConfirmed
    BY <2>1 DEF PollConfirmed
  <2>2. CASE PollNotConfirmed
    BY <2>2 DEF PollNotConfirmed, PollAgain
  <2> QED BY <1>8, <2>1, <2>2
<1>9. CASE PollAwake \/ PollNotAwake
  BY <1>9 DEF PollAwake, PollNotAwake, PollAgain, AfterWake, AwakeSeen
<1>10. CASE ClksOn \/ Sleep
  <2>1. CASE ClksOn
    <3>1. clocks' \in BOOLEAN
      BY <2>1 DEF ClksOn
    <3>2. CASE clocks' = (clocks \/ rpu = "awake") /\ UNCHANGED trouble
      BY <2>1, <3>1, <3>2 DEF ClksOn
    <3>3. CASE UNCHANGED clocks /\ Note("spi")
      BY <2>1, <3>1, <3>3 DEF ClksOn
    <3> QED BY <2>1, <3>2, <3>3 DEF ClksOn
  <2>2. CASE Sleep
    <3>1. CASE wakeup_now' = FALSE /\ UNCHANGED trouble
      BY <2>2, <3>1 DEF Sleep
    <3>2. CASE UNCHANGED wakeup_now /\ Note("spi")
      BY <2>2, <3>2 DEF Sleep
    <3> QED BY <2>2, <3>1, <3>2 DEF Sleep
  <2> QED BY <1>10, <2>1, <2>2
<1>11. CASE RpuWakes \/ RpuFallsAsleep
  BY <1>11 DEF RpuWakes, RpuFallsAsleep
<1>12. CASE UNCHANGED vars
  BY <1>12 DEF vars
<1> QED BY <1>1, <1>2, <1>3, <1>4, <1>5, <1>6, <1>7, <1>8, <1>9, <1>10, <1>11,
           <1>12 DEF Next, Step

\* rpu_enable looks at no result, but if every step of it worked the RPU is
\* awake and clocked when it returns, and so it stays, through sleep and wake-up
\* in any order, while RPU_WAKEUP_NOW is set: for every number of polls.
THEOREM EnabledIsAwake == Spec => []EnabledMeansAwake
<1>1. PowerInv => EnabledMeansAwake
  BY DEF PowerInv, LineTypes, OffInv, OpInv, CalmInv, EnabledMeansAwake
<1> QED BY <1>1, PowerInit, PowerStep, PTL DEF Spec

\* IOVDD goes high only when BUCKEN is high already or cannot be driven: for
\* every way rpu_gpio_config can fail.
THEOREM LinesGoUpInOrder == Spec => PowerOrder
<1> DEFINE First == pc = "iovdd" => level["bucken"] = 1 \/ handle["bucken"] # "ok"
<1> USE DEF PowerInv, LineTypes, OffInv, OpInv, Lines, opVars, gpio, rpuVars
<1>1. Init => First
  BY DEF Init
<1>2. PowerInv /\ First /\ [Next]_vars => First'
  <2> SUFFICES ASSUME PowerInv, First, [Next]_vars, pc' = "iovdd"
               PROVE  level'["bucken"] = 1 \/ handle'["bucken"] # "ok"
    OBVIOUS
  <2>1. CASE PwrOnBucken
    BY <2>1, SetLineEffect DEF PwrOnBucken, PwrOnFirst
  <2>2. CASE UNCHANGED <<pc, level, handle>>
    BY <2>2
  <2>3. PwrOnBucken \/ UNCHANGED <<pc, level, handle>>
    BY DEF Next, Step, GpioConfig, PwrOnLow, PwrOnBucken, PwrOnIovdd, SpiInit,
           WakeStart, WakeSpeed, WakeWrite, PollConfirmed, PollNotConfirmed,
           PollAwake, PollNotAwake, PollAgain, AfterWake, ClksOn, Sleep,
           DisableBucken, DisableIovdd, RpuWakes, RpuFallsAsleep, vars
  <2> QED BY <2>1, <2>2, <2>3
<1>3. PowerInv /\ First /\ [Next]_vars =>
        [(level["iovdd"] = 0 /\ level'["iovdd"] = 1) =>
           level["bucken"] = 1 \/ handle["bucken"] # "ok"]_vars
  <2> SUFFICES ASSUME PowerInv, First, Next, level["iovdd"] = 0, level'["iovdd"] = 1
               PROVE  pc = "iovdd"
    BY DEF First
  <2>1. ~GpioConfig
    BY DEF GpioConfig
  <2>2. ~PwrOnBucken
    BY SetLineEffect DEF PwrOnBucken, PwrOnFirst
  <2>3. ~DisableBucken
    BY SetLineEffect DEF DisableBucken
  <2>4. ~DisableIovdd
    BY SetLineEffect DEF DisableIovdd
  <2>5. ~PwrOnLow
    <3>1. SUFFICES ASSUME PwrOnLow PROVE FALSE
      OBVIOUS
    <3>2. level'["iovdd"] \in {0, level["iovdd"]}
      BY <3>1 DEF PwrOnLow, SetLines
    <3> QED BY <3>2
  <2>6. level' # level
    OBVIOUS
  <2> QED
    BY <2>1, <2>2, <2>3, <2>4, <2>5, <2>6
    DEF Next, Step, PwrOnIovdd, SpiInit, WakeStart, WakeSpeed, WakeWrite,
        PollConfirmed, PollNotConfirmed, PollAwake, PollNotAwake, PollAgain,
        ClksOn, Sleep, RpuWakes, RpuFallsAsleep
<1> QED BY <1>1, <1>2, <1>3, PowerInit, PowerStep, PTL DEF Spec, PowerOrder

\* A bus that is still slow between operations tells of a wake-up that was not
\* confirmed, for every device tree speed other than the wake-up speed itself,
\* as it is stored and as a little-endian host reads it.
THEOREM SlowIsUnconfirmed ==
  ASSUME DtsSpeed # <<>>, HostValue(DtsSpeed) # WakeupHz,
         CellValue(DtsSpeed) # WakeupHz
  PROVE  Spec => []SlowOnlyIfUnconfirmed
<1> DEFINE Before == {"low", "bucken", "iovdd", "init"}
           SpeedInv ==
             /\ confirmed => speed # WakeupHz
             /\ speed = WakeupHz => pc \in Before \union {"write", "rdsr2"}
                                      \/ trouble # {}
             /\ pc \in Before \union {"speed", "write", "rdsr2"} => ~confirmed
<1>1. Init => SpeedInv
  BY DEF Init
<1>2. SpeedInv /\ [Next]_vars => SpeedInv'
  <2> SUFFICES ASSUME SpeedInv, [Next]_vars PROVE SpeedInv'
    OBVIOUS
  <2> USE DEF opVars, gpio, rpuVars, Note
  <2>1. CASE GpioConfig
    BY <2>1 DEF GpioConfig
  <2>2. CASE PwrOnLow \/ PwrOnBucken \/ PwrOnIovdd
    BY <2>2 DEF PwrOnLow, PwrOnBucken, PwrOnIovdd
  <2>3. CASE DisableBucken \/ DisableIovdd
    BY <2>3 DEF DisableBucken, DisableIovdd
  <2>4. CASE SpiInit \/ WakeStart \/ WakeSpeed \/ WakeWrite
    BY <2>4 DEF SpiInit, WakeStart, WakeSpeed, WakeWrite, SpeedFromDts
  <2>5. CASE PollConfirmed \/ PollNotConfirmed
    BY <2>5 DEF PollConfirmed, PollNotConfirmed, PollAgain, SpeedFromDts
  <2>6. CASE PollAwake \/ PollNotAwake
    BY <2>6 DEF PollAwake, PollNotAwake, PollAgain, AfterWake
  <2>7. CASE ClksOn \/ Sleep \/ RpuWakes \/ RpuFallsAsleep
    BY <2>7 DEF ClksOn, Sleep, RpuWakes, RpuFallsAsleep
  <2>8. CASE UNCHANGED vars
    BY <2>8 DEF vars
  <2> QED BY <2>1, <2>2, <2>3, <2>4, <2>5, <2>6, <2>7, <2>8 DEF Next, Step
<1>3. SpeedInv => SlowOnlyIfUnconfirmed
  BY DEF SlowOnlyIfUnconfirmed
<1> QED BY <1>1, <1>2, <1>3, PTL DEF Spec

\* Four bytes make a number, in either byte order.
LEMMA BytesMakeNumber ==
  ASSUME NEW b \in Seq(0..255), Len(b) = 4
  PROVE  HostValue(b) \in Nat /\ CellValue(b) \in Nat
<1>1. \A x \in 0..255 : x \in Nat
  OBVIOUS
<1>2. ASSUME NEW i \in 1..4 PROVE b[i] \in Nat
  <2>1. b[i] \in 0..255
    BY ElementOfSeq
  <2> QED BY <1>1, <2>1, Zenon
<1>3. b[1] \in Nat /\ b[2] \in Nat /\ b[3] \in Nat /\ b[4] \in Nat
  BY <1>2
<1>4. \A x, y \in Nat : x * 256 + y \in Nat
  OBVIOUS
<1>5. b[1] * 256 + b[2] \in Nat /\ b[4] * 256 + b[3] \in Nat
  BY <1>3, <1>4, Zenon
<1>6. (b[1] * 256 + b[2]) * 256 + b[3] \in Nat /\ (b[4] * 256 + b[3]) * 256 + b[2] \in Nat
  BY <1>3, <1>4, <1>5, Zenon
<1> QED BY <1>3, <1>4, <1>6, Zenon DEF HostValue, CellValue

\* So a device tree speed is a number.
LEMMA SpeedIsNumber ==
  DtsSpeed # <<>> => HostValue(DtsSpeed) \in Nat /\ CellValue(DtsSpeed) \in Nat
<1>1. DtsSpeed # <<>> => Len(DtsSpeed) = 4
  BY PowerAssumption
<1> QED BY <1>1, BytesMakeNumber, PowerAssumption, Zenon

\* The rest of TypeOK: the steps, the poll counter and the bus speed.
LoopInv ==
  /\ pc \in {"idle", "low", "bucken", "iovdd", "init", "speed", "write", "rdsr2",
             "rdsr1", "clks", "wrsr2", "off"}
  /\ op \in {"none", "enable", "wake", "sleep", "disable"}
  /\ trouble \subseteq {"gpio", "spi", "slow"}
  /\ ii \in 0..(Polls - 1) /\ nops \in 0..MaxOps /\ speed \in Nat

\* The names of steps, operations and troubles.
LEMMA StepNamesStep ==
  ASSUME LoopInv, [Next]_vars
  PROVE  /\ pc' \in {"idle", "low", "bucken", "iovdd", "init", "speed", "write", "rdsr2",
                     "rdsr1", "clks", "wrsr2", "off"}
         /\ op' \in {"none", "enable", "wake", "sleep", "disable"}
         /\ trouble' \subseteq {"gpio", "spi", "slow"}
<1> USE DEF LoopInv, opVars, Note
<1>1. CASE GpioConfig \/ PwrOnLow \/ PwrOnBucken \/ PwrOnIovdd \/ SpiInit
  BY <1>1 DEF GpioConfig, PwrOnLow, PwrOnBucken, PwrOnIovdd, SpiInit
<1>2. CASE WakeStart \/ WakeSpeed \/ WakeWrite \/ PollConfirmed \/ PollNotConfirmed
  BY <1>2 DEF WakeStart, WakeSpeed, WakeWrite, PollConfirmed, PollNotConfirmed, PollAgain
<1>3. CASE PollAwake \/ PollNotAwake \/ ClksOn
  BY <1>3 DEF PollAwake, PollNotAwake, PollAgain, AfterWake, ClksOn
<1>4. CASE Sleep \/ DisableBucken \/ DisableIovdd \/ RpuWakes \/ RpuFallsAsleep
  BY <1>4 DEF Sleep, DisableBucken, DisableIovdd, RpuWakes, RpuFallsAsleep
<1>5. CASE UNCHANGED vars
  BY <1>5 DEF vars
<1> QED BY <1>1, <1>2, <1>3, <1>4, <1>5 DEF Next, Step

\* Every poll is one of the Polls turns of its loop.
LEMMA PollBoundStep ==
  ASSUME LoopInv, [Next]_vars
  PROVE  ii' \in 0..(Polls - 1)
<1>1. CASE UNCHANGED ii
  BY <1>1 DEF LoopInv
<1>2. CASE ii' = 0
  BY <1>2, PowerAssumption
<1>3. CASE PollNotConfirmed \/ PollNotAwake
  BY <1>3, PowerAssumption DEF PollNotConfirmed, PollNotAwake, PollAgain, LoopInv
<1>4. UNCHANGED ii \/ ii' = 0 \/ PollNotConfirmed \/ PollNotAwake
  BY DEF Next, Step, GpioConfig, PwrOnLow, PwrOnBucken, PwrOnIovdd, SpiInit, WakeStart,
         WakeSpeed, WakeWrite, PollConfirmed, PollAwake, ClksOn, Sleep, DisableBucken,
         DisableIovdd, RpuWakes, RpuFallsAsleep, vars
<1> QED BY <1>1, <1>2, <1>3, <1>4

\* The operations are counted, and the speed is a number the device tree gives
\* or the wake-up speed.
LEMMA SpeedStep ==
  ASSUME LoopInv, [Next]_vars
  PROVE  nops' \in 0..MaxOps /\ speed' \in Nat
<1>1. nops' \in {nops, nops + 1} /\ (nops' = nops \/ nops < MaxOps)
  BY DEF Next, Step, GpioConfig, PwrOnLow, PwrOnBucken, PwrOnIovdd, SpiInit, WakeStart,
         WakeSpeed, WakeWrite, PollConfirmed, PollNotConfirmed, PollAwake, PollNotAwake,
         ClksOn, Sleep, DisableBucken, DisableIovdd, RpuWakes, RpuFallsAsleep, opVars, vars
<1>2. speed' \in {speed, WakeupHz, SpeedFromDts}
  BY DEF Next, Step, GpioConfig, PwrOnLow, PwrOnBucken, PwrOnIovdd, SpiInit, WakeStart,
         WakeSpeed, WakeWrite, PollConfirmed, PollNotConfirmed, PollAwake, PollNotAwake,
         ClksOn, Sleep, DisableBucken, DisableIovdd, RpuWakes, RpuFallsAsleep, vars
<1>3. SpeedFromDts \in Nat
  BY SpeedIsNumber DEF SpeedFromDts, LoopInv
<1> QED BY <1>1, <1>2, <1>3, PowerAssumption DEF LoopInv

\* The power sequence stays in its range: no polling loop takes a turn more than
\* Polls, and the bus always has a speed.
THEOREM PowerTypeCorrect == Spec => []TypeOK
<1>1. Init => LoopInv
  <2> SUFFICES ASSUME Init PROVE LoopInv
    OBVIOUS
  <2>1. ii \in 0..(Polls - 1) /\ nops \in 0..MaxOps
    BY PowerAssumption DEF Init
  <2>2. speed \in Nat
    BY SpeedIsNumber DEF Init
  <2> QED BY <2>1, <2>2 DEF Init, LoopInv
<1>2. LoopInv /\ [Next]_vars => LoopInv'
  BY StepNamesStep, PollBoundStep, SpeedStep DEF LoopInv
<1>3. PowerInv /\ LoopInv => TypeOK
  <2>1. {0, 1} = 0..1
    OBVIOUS
  <2> QED BY <2>1 DEF PowerInv, LineTypes, LoopInv, TypeOK
<1> QED BY <1>1, <1>2, <1>3, PowerInit, PowerStep, PTL DEF Spec
-----------------------------------------------------------------------------
(* RpuBus *)

BusTypes ==
  /\ mem \in [Regions -> [Block -> Int]] /\ updates \in Nat
  /\ xfer \in [r : Regions, count : Nat, n : Nat, off : Nat, began : Nat]
  /\ buf \in [Dest -> Int] /\ calm \in BOOLEAN

\* The read in progress moves whole words, all of them within the block; no
\* power operation gets in between.
XferInv ==
  /\ xfer.n % 4 = 0 /\ xfer.off % 4 = 0
  /\ xfer.off <= xfer.n /\ xfer.n <= BlockBytes
  /\ xfer.count > 0 => xfer.n = Rounded(xfer.count)
  /\ xfer.began <= updates
  /\ Reading => pc = "idle" /\ xfer.count > 0 /\ (xfer.r = "low" \/ xfer.off = 0)

\* A block the RPU has rewritten during the read is of one version.
MemInv ==
  /\ \A r \in Regions, i \in Block : Behind <= mem[r][i] /\ mem[r][i] <= updates
  /\ Reading => \A i, j \in Block : mem[xfer.r][i] > xfer.began =>
                                       mem[xfer.r][j] = mem[xfer.r][i]

\* What the words read so far hold, and what lies behind them.
BufInv ==
  /\ xfer.count > 0 => \A i \in Dest : i >= xfer.off => buf[i] = Stale
  /\ calm /\ xfer.count > 0 => \A i \in 0..(xfer.off - 1) :
       /\ Behind <= buf[i]
       /\ updates = xfer.began => buf[i] = mem[xfer.r][i]
       /\ Reading => buf[i] <= mem[xfer.r][i]
       /\ \A j \in 0..(xfer.off - 1) : buf[i] > xfer.began =>
            \/ xfer.r = "high" /\ buf[j] = buf[i]
            \/ xfer.r = "low" /\ (i < j => buf[j] >= buf[i])

BusInv == BusTypes /\ XferInv /\ MemInv /\ BufInv

\* (count + 4) & 0xFFFFFFFC of a count that is no multiple of four: whole words,
\* the last of them begun, and never more than the block.
LEMMA RoundedCovers ==
  ASSUME NEW count \in 1..BlockBytes
  PROVE  /\ Rounded(count) \in Nat /\ Rounded(count) % 4 = 0
         /\ count <= Rounded(count) /\ Rounded(count) <= BlockBytes
         /\ count % 4 = 0 => Rounded(count) = count
         /\ count % 4 # 0 => Rounded(count) = count + 4 - (count % 4)
BY BusAssumption DEF Rounded

\* The host's bus operations leave the power states alone, ...
LEMMA BusKeepsPower == BusNext \/ UNCHANGED hostVars => [Next]_vars
BY DEF BusNext, ReadReg32, CpyFrom, ReadBegins, ReadWord, ReadBlock, WriteReg32,
       CpyTo, WriteBlock, RpuUpdates, Next, hostVars

\* ... and find a buffer nobody reads into at first.
LEMMA BusStart == BusInit => BusInv
BY BusAssumption DEF BusInit, BusInv, BusTypes, XferInv, MemInv, BufInv, Reading, Regions,
          Block, Dest, Stale, Behind, Rounded

\* A message of a read that finds nothing amiss finds the RPU awake and clocked.
LEMMA CalmMessage ==
  ASSUME PowerInv, BusInv, Reading, NEW ok \in BOOLEAN, Message(ok), calm'
  PROVE  calm /\ ok /\ rpu = "awake" /\ clocks
BY DEF PowerInv, LineTypes, OffInv, OpInv, CalmInv, BusInv, BusTypes, XferInv, Message

\* A read begins with nothing read.
LEMMA BeginKeepsBus ==
  ASSUME BusInv, NEW r \in Regions, NEW count \in 1..BlockBytes,
         ReadBegins(r, count, Rounded(count))
  PROVE  BusInv'
<1>1. /\ Rounded(count) \in Nat /\ Rounded(count) % 4 = 0
      /\ Rounded(count) <= BlockBytes
  BY RoundedCovers
<1>2. xfer' = [r |-> r, count |-> count, n |-> Rounded(count), off |-> 0,
               began |-> updates]
  BY DEF ReadBegins
<1>3. buf' = [i \in Dest |-> Stale] /\ calm' = TRUE /\ UNCHANGED <<mem, updates, pc>>
  BY DEF ReadBegins, vars
<1>4. pc = "idle"
  BY DEF ReadBegins, BusFree
<1>5. BusTypes'
  BY <1>1, <1>2, <1>3 DEF BusInv, BusTypes, Stale
<1>6. XferInv'
  BY <1>1, <1>2, <1>3, <1>4 DEF BusInv, BusTypes, XferInv, Reading
<1>7. MemInv'
  BY <1>2, <1>3 DEF BusInv, BusTypes, MemInv, Reading
<1>8. BufInv'
  BY <1>2, <1>3 DEF BusInv, BusTypes, BufInv, Reading
<1> QED BY <1>5, <1>6, <1>7, <1>8 DEF BusInv

\* What one message brings: n bytes from off on, or none.
LEMMA ReceivedBytes ==
  ASSUME PowerInv, BusInv, Reading, NEW n \in Nat, xfer.off + n <= BlockBytes,
         NEW ok \in BOOLEAN, Message(ok),
         buf' = IF ok THEN Received(xfer.off, n) ELSE buf
  PROVE  /\ buf' \in [Dest -> Int] /\ calm' \in BOOLEAN
         /\ \A i \in Dest : i \notin xfer.off..(xfer.off + n - 1) => buf'[i] = buf[i]
         /\ calm' => calm /\ \A i \in xfer.off..(xfer.off + n - 1) :
                              buf'[i] = mem[xfer.r][i]
<1>1. buf' \in [Dest -> Int]
  BY BusAssumption DEF BusInv, BusTypes, Received, Junk, Behind
<1>2. calm' \in BOOLEAN
  BY DEF Message
<1>3. \A i \in Dest : i \notin xfer.off..(xfer.off + n - 1) => buf'[i] = buf[i]
  BY DEF BusInv, BusTypes, Received
<1>4. ASSUME calm', NEW i \in xfer.off..(xfer.off + n - 1)
      PROVE  buf'[i] = mem[xfer.r][i]
  <2>1. ok /\ rpu = "awake" /\ clocks
    BY <1>4, CalmMessage
  <2>2. i \in Block /\ i \in Dest
    BY BusAssumption DEF BusInv, BusTypes, Block, Dest
  <2> QED BY <2>1, <2>2 DEF Received
<1> QED BY <1>1, <1>2, <1>3, <1>4, CalmMessage

\* Reading n bytes more, one message, keeps the invariant: a word of low memory,
\* or all of high memory at once.
LEMMA MessageKeepsBus ==
  ASSUME PowerInv, BusInv, Reading, NEW n \in Nat \ {0}, n % 4 = 0,
         xfer.off + n <= xfer.n, xfer.r = "low" \/ xfer.off + n = xfer.n,
         NEW ok \in BOOLEAN, Message(ok),
         buf' = IF ok THEN Received(xfer.off, n) ELSE buf,
         xfer' = [xfer EXCEPT !.off = xfer.off + n],
         UNCHANGED <<pc, mem, updates>>
  PROVE  BusInv'
<1>1. xfer.off + n <= BlockBytes
  BY BusAssumption DEF BusInv, BusTypes, XferInv
<1>2. /\ xfer' \in [r : Regions, count : Nat, n : Nat, off : Nat, began : Nat]
      /\ xfer'.off = xfer.off + n /\ xfer'.r = xfer.r /\ xfer'.count = xfer.count
      /\ xfer'.n = xfer.n /\ xfer'.began = xfer.began
  BY DEF BusInv, BusTypes
<1>3. BusTypes'
  BY <1>1, <1>2, ReceivedBytes DEF BusInv, BusTypes
<1>4. XferInv'
  BY <1>2 DEF BusInv, BusTypes, XferInv, Reading
<1>5. MemInv'
  BY <1>2 DEF BusInv, BusTypes, MemInv, Reading
<1>6. BufInv'
  <2>1. ASSUME NEW i \in Dest, i >= xfer'.off, xfer'.count > 0 PROVE buf'[i] = Stale
    <3>1. i \notin xfer.off..(xfer.off + n - 1) /\ i >= xfer.off
      BY <1>2, <2>1 DEF BusInv, BusTypes, Dest
    <3> QED BY <1>1, <1>2, <2>1, <3>1, ReceivedBytes DEF BusInv, BufInv
  <2> DEFINE Old == 0..(xfer.off - 1)
             New == xfer.off..(xfer.off + n - 1)
             All == 0..(xfer'.off - 1)
  <2>2. ASSUME calm', xfer'.count > 0, NEW i \in All
        PROVE  /\ Behind <= buf'[i]
               /\ updates' = xfer'.began => buf'[i] = mem'[xfer'.r][i]
               /\ buf'[i] <= mem'[xfer'.r][i]
               /\ \A j \in All : buf'[i] > xfer'.began =>
                    \/ xfer'.r = "high" /\ buf'[j] = buf'[i]
                    \/ xfer'.r = "low" /\ (i < j => buf'[j] >= buf'[i])
    <3>1. All = Old \union New /\ All \subseteq Dest /\ All \subseteq Block
      <4>1. xfer.off \in Nat /\ n \in Nat /\ BlockBytes \in Nat
        BY BusAssumption DEF BusInv, BusTypes
      <4> QED BY <1>1, <1>2, <4>1 DEF Block, Dest
    <3>2. calm /\ \A k \in New : buf'[k] = mem[xfer.r][k]
      BY <1>1, <2>2, ReceivedBytes
    <3>3. \A k \in Old : buf'[k] = buf[k]
      BY <1>1, <3>1, ReceivedBytes DEF BusInv, BusTypes
    <3>4. xfer.r = "high" => Old = {}
      BY DEF BusInv, BusTypes, XferInv
    <3>5. \A k \in Block : /\ mem[xfer.r][k] \in Int /\ Behind <= mem[xfer.r][k]
                           /\ \A j \in Block : mem[xfer.r][k] > xfer.began =>
                                mem[xfer.r][j] = mem[xfer.r][k]
      BY DEF BusInv, BusTypes, MemInv
    <3>6. \A k \in Old : /\ buf[k] \in Int /\ Behind <= buf[k]
                         /\ updates = xfer.began => buf[k] = mem[xfer.r][k]
                         /\ buf[k] <= mem[xfer.r][k]
                         /\ \A j \in Old : buf[k] > xfer.began =>
                              \/ xfer.r = "high" /\ buf[j] = buf[k]
                              \/ xfer.r = "low" /\ (k < j => buf[j] >= buf[k])
      BY <1>2, <2>2, <3>1, <3>2 DEF BusInv, BusTypes, BufInv
    <3>7. xfer.r \in {"low", "high"} /\ xfer.began \in Nat
      BY DEF BusInv, BusTypes, Regions
    <3>8. /\ Behind <= buf'[i]
          /\ updates' = xfer'.began => buf'[i] = mem'[xfer'.r][i]
          /\ buf'[i] <= mem'[xfer'.r][i]
      BY <1>2, <3>1, <3>2, <3>3, <3>5, <3>6
    <3>9. ASSUME NEW j \in All, buf'[i] > xfer.began
          PROVE  \/ xfer.r = "high" /\ buf'[j] = buf'[i]
                 \/ xfer.r = "low" /\ (i < j => buf'[j] >= buf'[i])
      <4>1. CASE j \in New
        <5>1. mem[xfer.r][i] > xfer.began /\ buf'[i] <= mem[xfer.r][i]
          BY <1>2, <3>1, <3>5, <3>7, <3>8, <3>9, <3>2, <3>3, <3>6
        <5>2. buf'[j] = mem[xfer.r][i]
          BY <3>1, <3>2, <3>5, <4>1, <5>1
        <5>3. xfer.r = "high" => buf'[i] = mem[xfer.r][i]
          BY <3>1, <3>2, <3>4
        <5> QED BY <3>7, <5>1, <5>2, <5>3
      <4>2. CASE j \in Old /\ i \in Old
        BY <3>3, <3>6, <3>9, <4>2
      <4>3. CASE j \in Old /\ i \in New
        BY <3>4, <3>7, <4>3 DEF BusInv, BusTypes
      <4> QED BY <3>1, <4>1, <4>2, <4>3
    <3> QED BY <1>2, <3>8, <3>9
  <2> QED BY <2>1, <2>2 DEF BufInv
<1> QED BY <1>3, <1>4, <1>5, <1>6 DEF BusInv

\* Every step of host and RPU keeps the invariant of the bus.
LEMMA BusStep == PowerInv /\ BusInv /\ [BusNext]_hostVars => BusInv'
<1> SUFFICES ASSUME PowerInv, BusInv, [BusNext]_hostVars PROVE BusInv'
  OBVIOUS
<1>1. CASE UNCHANGED <<busVars, pc>> \/ (~Reading /\ UNCHANGED busVars)
  BY <1>1 DEF busVars, BusInv, BusTypes, XferInv, MemInv, BufInv, Reading
<1>2. CASE ReadReg32
  <2>1. PICK r \in Regions : ReadBegins(r, 4, 4)
    BY <1>2 DEF ReadReg32
  <2>2. 4 \in 1..BlockBytes /\ Rounded(4) = 4
    BY BusAssumption DEF Rounded
  <2> QED BY <2>1, <2>2, BeginKeepsBus
<1>3. CASE CpyFrom
  BY <1>3, BeginKeepsBus, BusAssumption DEF CpyFrom
<1>4. CASE ReadWord
  <2>1. xfer.off + 4 <= xfer.n
    BY <1>4 DEF ReadWord, Reading, BusInv, BusTypes, XferInv
  <2>2. PICK ok \in BOOLEAN : /\ buf' = IF ok THEN Received(xfer.off, 4) ELSE buf
                              /\ Message(ok)
    BY <1>4 DEF ReadWord
  <2>3. /\ xfer' = [xfer EXCEPT !.off = xfer.off + 4]
        /\ Reading /\ xfer.r = "low" /\ UNCHANGED <<pc, mem, updates>>
    BY <1>4 DEF ReadWord, vars
  <2>4. 4 \in Nat \ {0} /\ 4 % 4 = 0
    OBVIOUS
  <2> QED BY <2>1, <2>2, <2>3, <2>4, MessageKeepsBus, Zenon
<1>5. CASE ReadBlock
  <2>1. xfer.off = 0 /\ xfer.n \in Nat \ {0} /\ xfer.n % 4 = 0
    BY <1>5 DEF ReadBlock, BusInv, BusTypes, XferInv, Reading, Regions
  <2>2. xfer' = [xfer EXCEPT !.off = xfer.off + xfer.n] /\ UNCHANGED <<pc, mem, updates>>
    BY <1>5, <2>1 DEF ReadBlock, vars, BusInv, BusTypes
  <2>3. PICK ok \in BOOLEAN :
          buf' = (IF ok THEN Received(xfer.off, xfer.n) ELSE buf) /\ Message(ok)
    BY <1>5, <2>1 DEF ReadBlock
  <2>4. Reading /\ xfer.off + xfer.n = xfer.n /\ xfer.off + xfer.n <= xfer.n
    BY <1>5, <2>1 DEF ReadBlock
  <2> QED BY <2>1, <2>2, <2>3, <2>4, MessageKeepsBus, Zenon
<1>6. CASE WriteReg32 \/ CpyTo
  <2>1. PICK r \in Regions, count \in 1..BlockBytes, n \in Nat : WriteBlock(r, count, n)
    BY <1>6, BusAssumption, RoundedCovers DEF WriteReg32, CpyTo
  <2>2. ~Reading /\ UNCHANGED <<updates, buf, calm>> /\ xfer' = [xfer EXCEPT !.count = 0]
    BY <2>1 DEF WriteBlock, BusFree
  <2>3. /\ mem' \in [Regions -> [Block -> Int]]
        /\ \A q \in Regions, i \in Block : Behind <= mem'[q][i] /\ mem'[q][i] <= updates
    <3>1. CASE UNCHANGED mem
      BY <3>1 DEF BusInv, BusTypes, MemInv
    <3>2. CASE mem' = [mem EXCEPT ![r] = [i \in Block |->
                 IF i < count THEN Source ELSE IF i < n THEN Behind ELSE mem[r][i]]]
      BY <3>2 DEF BusInv, BusTypes, MemInv, Source, Behind
    <3> QED BY <2>1, <3>1, <3>2 DEF WriteBlock
  <2> QED BY <2>2, <2>3 DEF BusInv, BusTypes, XferInv, MemInv, BufInv, Reading
<1>7. CASE RpuUpdates
  <2>1. PICK r \in Regions : mem' = [mem EXCEPT ![r] = [i \in Block |-> updates']]
    BY <1>7 DEF RpuUpdates
  <2>2. updates' = updates + 1 /\ UNCHANGED <<pc, xfer, buf, calm>>
    BY <1>7 DEF RpuUpdates, vars
  <2>3. BusTypes'
    BY <2>1, <2>2 DEF BusInv, BusTypes
  <2>4. XferInv'
    BY <2>2 DEF BusInv, BusTypes, XferInv, Reading
  <2>5. \A q \in Regions, i \in Block : mem'[q][i] \in {mem[q][i], updates'}
                                          /\ mem'[q][i] >= mem[q][i]
    BY <2>1, <2>2 DEF BusInv, BusTypes, MemInv
  <2>6. MemInv'
    BY <2>1, <2>2 DEF BusInv, BusTypes, MemInv, Reading, Behind
  <2>7. BufInv'
    <3>1. updates' # xfer'.began
      BY <2>2 DEF BusInv, BusTypes, XferInv
    <3>2. 0..(xfer.off - 1) \subseteq Block /\ 0..(xfer.off - 1) \subseteq Dest
      <4>1. xfer.off \in Nat /\ BlockBytes \in Nat /\ xfer.off <= BlockBytes
        BY BusAssumption DEF BusInv, BusTypes, XferInv
      <4> QED BY <4>1 DEF Block, Dest
    <3>3. ASSUME NEW i \in 0..(xfer.off - 1), buf[i] <= mem[xfer.r][i]
          PROVE  buf[i] <= mem'[xfer.r][i]
      BY <2>3, <2>2, <2>5, <3>2, <3>3 DEF BusInv, BusTypes
    <3> QED BY <2>2, <3>1, <3>3 DEF BusInv, BufInv, Reading
  <2> QED BY <2>3, <2>4, <2>6, <2>7 DEF BusInv
<1> QED BY <1>1, <1>2, <1>3, <1>4, <1>5, <1>6, <1>7
        DEF BusNext, hostVars, vars, RpuWakes, RpuFallsAsleep

\* When nothing goes wrong a read of the RPU's memory hands over what the memory
\* held, whole or torn in the order of its words, and it never spoils more of
\* what lies behind the caller's buffer than the rest of the last word: for every
\* size of block and every count, however host, RPU and power states interleave.
THEOREM ReadsAreSound == BusSpec => []ReadIsSound
<1>1. BusInit => PowerInv /\ BusInv
  BY PowerInit, BusStart DEF BusInit
<1>2. PowerInv /\ BusInv /\ [BusNext]_hostVars => PowerInv' /\ BusInv'
  BY PowerStep, BusStep, BusKeepsPower
<1>3. BusInv => ReadIsSound
  <2> SUFFICES ASSUME BusInv, xfer.count > 0 PROVE ReadIsSound
    BY DEF ReadIsSound, ReadIsMemory, OverrunIsShort, BusInv, BusTypes
  <2>1. xfer.count \in 1..BlockBytes
    BY BusAssumption DEF BusInv, BusTypes, XferInv, Rounded
  <2>2. xfer.count <= xfer.n
    BY <2>1, RoundedCovers DEF BusInv, XferInv
  <2>3. ReadIsMemory
    <3> SUFFICES ASSUME ~Reading, calm PROVE ReadIsMemory
      BY DEF ReadIsMemory
    <3>1. 0..(xfer.count - 1) \subseteq 0..(xfer.off - 1)
      BY <2>1, <2>2 DEF BusInv, BusTypes, XferInv, Reading
    <3>2. \A i \in 0..(xfer.count - 1) : buf[i] \notin {Stale, Junk}
      BY <3>1 DEF BusInv, BusTypes, BufInv, Behind, Stale, Junk
    <3> QED BY <3>1, <3>2 DEF ReadIsMemory, BusInv, BufInv
  <2>4. OverrunIsShort
    <3> SUFFICES ASSUME NEW i \in Dest, i >= xfer.count, buf[i] # Stale
                 PROVE  /\ xfer.count % 4 # 0
                        /\ i < xfer.count + 4 - (xfer.count % 4)
      BY DEF OverrunIsShort
    <3>1. i < xfer.off /\ i < xfer.n
      BY DEF BusInv, BusTypes, XferInv, BufInv, Dest
    <3> QED BY <2>1, <3>1, RoundedCovers DEF BusInv, BusTypes, XferInv, Dest
  <2> QED BY <2>3, <2>4 DEF ReadIsSound
<1> QED BY <1>1, <1>2, <1>3, PTL DEF BusSpec

\* The rest of BusTypeOK: the bounds, and what a buffer can hold.
BusRanges ==
  /\ updates <= MaxUpdates /\ naccess \in 0..MaxAccess /\ xfer.count <= BlockBytes
  /\ buf \in [Dest -> Junk..MaxUpdates]

\* A message fills the buffer with memory, with what lies behind it or with junk.
LEMMA ReceivedInRange ==
  ASSUME BusInv, BusRanges, NEW off, NEW n
  PROVE  Received(off, n) \in [Dest -> Junk..MaxUpdates]
<1>1. ASSUME NEW i \in Dest, i \in Block PROVE mem[xfer.r][i] \in Junk..MaxUpdates
  <2>1. mem[xfer.r][i] \in Int /\ Behind <= mem[xfer.r][i] /\ mem[xfer.r][i] <= updates
    BY <1>1 DEF BusInv, BusTypes, MemInv
  <2> QED BY <2>1, BusAssumption DEF BusInv, BusTypes, BusRanges, Behind, Junk
<1>2. Junk \in Junk..MaxUpdates /\ Behind \in Junk..MaxUpdates
  BY BusAssumption DEF Junk, Behind
<1> QED BY <1>1, <1>2 DEF Received, BusRanges

\* The bounds are kept.
LEMMA BusRangeStep ==
  BusInv /\ BusRanges /\ [BusNext]_hostVars => BusRanges'
<1> SUFFICES ASSUME BusInv, BusRanges, [BusNext]_hostVars PROVE BusRanges'
  OBVIOUS
<1>0. /\ updates \in Nat /\ BlockBytes \in Nat /\ MaxAccess \in Nat /\ MaxUpdates \in Nat
      /\ xfer \in [r : Regions, count : Nat, n : Nat, off : Nat, began : Nat]
  BY BusAssumption DEF BusInv, BusTypes
<1>1. CASE UNCHANGED busVars
  BY <1>1 DEF busVars, BusRanges
<1>2. CASE ReadReg32 \/ CpyFrom
  <2>1. PICK r \in Regions, count \in 1..BlockBytes, n \in Nat : ReadBegins(r, count, n)
    <3>1. 4 \in 1..BlockBytes
      BY BusAssumption
    <3> QED BY <1>2, <3>1, BusAssumption, RoundedCovers DEF ReadReg32, CpyFrom
  <2>2. Stale \in Junk..MaxUpdates
    BY <1>0 DEF Stale, Junk
  <2>3. buf' \in [Dest -> Junk..MaxUpdates]
    BY <2>1, <2>2 DEF ReadBegins
  <2>4. xfer'.count <= BlockBytes
    BY <1>0, <2>1 DEF ReadBegins
  <2> QED BY <1>0, <2>1, <2>3, <2>4 DEF ReadBegins, BusFree, BusRanges
<1>3. CASE ReadWord \/ ReadBlock
  <2>1. buf' \in [Dest -> Junk..MaxUpdates]
    BY <1>3, ReceivedInRange DEF ReadWord, ReadBlock, BusRanges
  <2>2. xfer'.count = xfer.count /\ UNCHANGED <<updates, naccess>>
    BY <1>0, <1>3 DEF ReadWord, ReadBlock
  <2> QED BY <2>1, <2>2 DEF BusRanges
<1>4. CASE WriteReg32 \/ CpyTo
  <2>1. PICK r, count, n : WriteBlock(r, count, n)
    BY <1>4 DEF WriteReg32, CpyTo
  <2>2. xfer'.count = 0 /\ UNCHANGED <<updates, buf>>
    BY <1>0, <2>1 DEF WriteBlock
  <2>3. naccess' = naccess + 1 /\ naccess < MaxAccess
    BY <2>1 DEF WriteBlock, BusFree
  <2> QED BY <1>0, <2>2, <2>3 DEF BusRanges
<1>5. CASE RpuUpdates
  BY <1>0, <1>5 DEF RpuUpdates, BusRanges
<1> QED BY <1>1, <1>2, <1>3, <1>4, <1>5 DEF BusNext, hostVars

\* No transfer reaches past the block and the word behind the largest buffer,
\* and the memory holds what the RPU or the host has put there.
THEOREM BusTypeCorrect == BusSpec => []BusTypeOK
<1>1. BusInit => PowerInv /\ BusInv
  BY PowerInit, BusStart DEF BusInit
<1>2. BusInit => BusRanges
  <2> SUFFICES ASSUME BusInit PROVE BusRanges
    OBVIOUS
  <2>1. Stale \in Junk..MaxUpdates
    BY BusAssumption DEF Stale, Junk
  <2>2. buf \in [Dest -> Junk..MaxUpdates]
    BY <2>1 DEF BusInit
  <2> QED BY <2>2, BusAssumption DEF BusInit, BusRanges
<1>3. PowerInv /\ BusInv /\ [BusNext]_hostVars => PowerInv' /\ BusInv'
  BY PowerStep, BusStep, BusKeepsPower
<1>4. BusInv /\ BusRanges => BusTypeOK
  <2> SUFFICES ASSUME BusInv, BusRanges PROVE BusTypeOK
    OBVIOUS
  <2>1. \A r \in Regions, i \in Block : mem[r][i] \in Behind..MaxUpdates
    BY BusAssumption DEF BusInv, BusTypes, MemInv, BusRanges, Behind
  <2>2. mem \in [Regions -> [Block -> Behind..MaxUpdates]]
    BY <2>1 DEF BusInv, BusTypes
  <2>3. updates \in 0..MaxUpdates /\ xfer.began \in 0..MaxUpdates
    BY BusAssumption DEF BusInv, BusTypes, XferInv, BusRanges
  <2>4. /\ xfer.n \in 0..(BlockBytes + 4) /\ xfer.off \in 0..(BlockBytes + 4)
        /\ xfer.count \in 0..BlockBytes
    BY BusAssumption DEF BusInv, BusTypes, XferInv, BusRanges
  <2>5. xfer \in [r : Regions, count : 0..BlockBytes, n : 0..(BlockBytes + 4),
                  off : 0..(BlockBytes + 4), began : 0..MaxUpdates]
    BY <2>3, <2>4 DEF BusInv, BusTypes
  <2> QED BY <2>2, <2>3, <2>5 DEF BusTypeOK, BusInv, BusTypes, BusRanges
<1> QED BY <1>1, <1>2, <1>3, <1>4, BusRangeStep, PTL DEF BusSpec
-----------------------------------------------------------------------------
(* DeferredWork *)

\* A tasklet being killed is off the queue, and nothing puts it back.
WorkInv ==
  /\ WorkTypeOK
  /\ item["tasklet"] = "killing" => ~queued["tasklet"]
  /\ KillIsFinal

\* Scheduling, firing, running and killing keep it, in any order.
LEMMA WorkStays == WorkSpec => []WorkInv
<1>1. WorkInit => WorkInv
  <2> SUFFICES ASSUME WorkInit PROVE WorkInv
    OBVIOUS
  <2>1. WorkTypeOK
    <3>1. nsched \in [Kinds -> 0..MaxSched]
      BY SchedAssumption DEF WorkInit
    <3> QED BY <3>1, Zenon DEF WorkInit, WorkTypeOK
  <2>2. \A k \in Kinds : item[k] = "none"
    BY DEF WorkInit
  <2>3. item["tasklet"] = "none"
    BY <2>2 DEF Kinds
  <2> QED BY <2>1, <2>2, <2>3 DEF WorkInv, KillIsFinal
<1>2. WorkInv /\ [WorkNext]_workVars => WorkInv'
  <2> SUFFICES ASSUME WorkInv, [WorkNext]_workVars PROVE WorkInv'
    OBVIOUS
  <2> USE SchedAssumption DEF WorkInv, WorkTypeOK, KillIsFinal, Kinds, ItemBecomes
  <2>1. ASSUME NEW k \in Kinds, ItemAlloc(k) \/ ItemSetup(k) \/ ItemFree(k)
        PROVE  WorkInv'
    BY <2>1 DEF ItemAlloc, ItemSetup, ItemFree
  <2>2. ASSUME NEW k \in Kinds, ItemSchedule(k) PROVE WorkInv'
    BY <2>2 DEF ItemSchedule
  <2>3. ASSUME NEW k \in Kinds, CallbackStart(k) \/ CallbackEnd(k) PROVE WorkInv'
    BY <2>3 DEF CallbackStart, CallbackEnd
  <2>4. CASE TimerAllocFail \/ TimerFires
    BY <2>4 DEF TimerAllocFail, TimerFires
  <2>5. CASE TaskletKill
    BY <2>5 DEF TaskletKill
  <2>6. CASE TimerKill
    BY <2>6 DEF TimerKill
  <2>7. CASE UNCHANGED workVars
    BY <2>7 DEF workVars
  <2> QED BY <2>1, <2>2, <2>3, <2>4, <2>5, <2>6, <2>7 DEF WorkNext
<1> QED BY <1>1, <1>2, PTL DEF WorkSpec

\* When the library frees an item it has killed nothing of it is left to run,
\* for every interleaving of scheduling, firing, running and killing, except the
\* work of a timer that had already been queued or begun.
THEOREM KilledWorkStaysDead == WorkSpec => []KillIsFinal
<1>1. WorkInv => KillIsFinal
  BY DEF WorkInv
<1> QED BY <1>1, WorkStays, PTL

\* The items stay in their ranges.
THEOREM WorkTypeCorrect == WorkSpec => []WorkTypeOK
<1>1. WorkInv => WorkTypeOK
  BY DEF WorkInv
<1> QED BY <1>1, WorkStays, PTL
=============================================================================
