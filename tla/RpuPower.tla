-------------------------------- MODULE RpuPower --------------------------------
(***************************************************************************)
(* Powering, waking and putting to sleep the RPU: src/src/spi/src/         *)
(* rpu_hw_if.c and the register part of spi_if.c, called by                *)
(* shim_bus_spi_dev_add and _dev_rem (rpu_enable, rpu_disable) and, in a   *)
(* LOW_POWER build, by the power-save operations of shim.c. The callers    *)
(* serialise these operations.                                             *)
(*                                                                         *)
(* None of the operations looks at the result of the steps it is made of,  *)
(* and every wait is a bounded poll: what they promise rests on nothing    *)
(* having gone wrong, which the history variable trouble records.          *)
(***************************************************************************)
EXTENDS Integers, Sequences

CONSTANTS
  Polls,     \* turns of the two polling loops (10)
  WakeupHz,  \* RPU_SPI_WAKEUP_FREQ_MHZ, 8 MHz
  DtsSpeed,  \* the bytes of the spi-max-frequency property, <<>> if it is missing
  MaxOps     \* bound: enable, sleep and wake-up operations

ASSUME PowerAssumption ==
  /\ Polls \in Nat \ {0} /\ MaxOps \in Nat /\ WakeupHz \in Nat
  /\ DtsSpeed \in Seq(0..255) /\ Len(DtsSpeed) \in {0, 4}

Lines == {"bucken", "iovdd"}

\* A device tree cell is stored with its most significant byte first.
CellValue(b) == ((b[1] * 256 + b[2]) * 256 + b[3]) * 256 + b[4]

\* of_get_property hands out the stored bytes, which a little-endian host (the
\* Raspberry Pi) takes for an unsigned int of its own.
HostValue(b) == ((b[4] * 256 + b[3]) * 256 + b[2]) * 256 + b[1]

VARIABLES
  pc,        \* the step of the operation in progress
  op,        \* the operation: "enable", "wake", "sleep" or "disable"
  ii,        \* the counter of the polling loop
  nops,      \* operations so far
  enabled,   \* shim_bus_spi_dev_add has called rpu_enable, _dev_rem not rpu_disable
  handle,    \* the GPIO handles: "null", "err" (an error pointer), "asis" (the
             \* direction was not set) or "ok"
  level,     \* what the two lines are driven to
  speed,     \* spi_dev->max_speed_hz
  confirmed, \* the last wake-up has read RPU_WAKEUP_NOW back
  rpu,       \* the RPU: "off", "asleep" or "awake"
  wakeup_now,\* RPU_WAKEUP_NOW, the bit RDSR2 reads back
  clocks,    \* the RPU's clocks are on
  trouble    \* history: what went wrong since the last enable

opVars  == <<op, nops, enabled>>
gpio    == <<handle, level>>
rpuVars == <<rpu, wakeup_now, clocks>>
vars == <<pc, op, ii, nops, enabled, handle, level, speed, confirmed, rpu, 
          wakeup_now, clocks, trouble>>

TypeOK ==
  /\ pc \in {"idle", "low", "bucken", "iovdd", "init", "speed", "write", "rdsr2",
             "rdsr1", "clks", "wrsr2", "off"}
  /\ op \in {"none", "enable", "wake", "sleep", "disable"}
  /\ ii \in 0..(Polls - 1) /\ nops \in 0..MaxOps
  /\ handle \in [Lines -> {"null", "err", "asis", "ok"}]
  /\ level \in [Lines -> 0..1]
  /\ speed \in Nat /\ confirmed \in BOOLEAN /\ enabled \in BOOLEAN
  /\ rpu \in {"off", "asleep", "awake"}
  /\ wakeup_now \in BOOLEAN /\ clocks \in BOOLEAN
  /\ trouble \subseteq {"gpio", "spi", "slow"}

Init ==
  /\ pc = "idle" /\ op = "none" /\ ii = 0 /\ nops = 0
  /\ handle = [l \in Lines |-> "null"] /\ level = [l \in Lines |-> 0]
  /\ speed = IF DtsSpeed = <<>> THEN 0 ELSE CellValue(DtsSpeed)
  /\ confirmed = FALSE /\ enabled = FALSE
  /\ rpu = "off" /\ wakeup_now = FALSE /\ clocks = FALSE
  /\ trouble = {}

Note(w) == trouble' = trouble \union {w}
-----------------------------------------------------------------------------
(* rpu_enable: rpu_gpio_config, rpu_pwron, rpu_spi_init, rpu_wakeup,        *)
(* rpu_clks_on, each called whatever became of the one before               *)

\* The handles rpu_gpio_config leaves: iovdd, then bucken. It stops at a line
\* the device tree does not have, which keeps the handle it had, that it cannot
\* obtain, or whose direction it cannot set.
Configured ==
  LET failed(h, l) == {h} \union {[h EXCEPT ![l] = v] : v \in {"err", "asis"}}
      first == [handle EXCEPT !["iovdd"] = "ok"]
  IN failed(handle, "iovdd") \union failed(first, "bucken")
       \union {[first EXCEPT !["bucken"] = "ok"]}

\* rpu_gpio_config: a line that has been made an output is driven low.
GpioConfig ==
  /\ pc = "idle" /\ ~enabled /\ nops < MaxOps
  /\ enabled' = TRUE /\ op' = "enable" /\ nops' = nops + 1
  /\ handle' \in Configured
  /\ level' = [l \in Lines |-> IF handle'[l] = "ok" THEN 0 ELSE level[l]]
  /\ trouble' = IF \A l \in Lines : handle'[l] = "ok" THEN {} ELSE {"gpio"}
  /\ confirmed' = FALSE
  /\ pc' = "low"
  /\ UNCHANGED <<ii, speed, rpuVars>>

\* gpiod_set_value (external) does nothing with an error pointer, and does not
\* drive a line that is no output. The RPU has power while both lines are high.
SetLines(v) ==
  /\ level' = [l \in Lines |-> IF l \in DOMAIN v /\ handle[l] = "ok" THEN v[l]
                               ELSE level[l]]
  /\ rpu' = IF \E k \in Lines : level'[k] = 0 THEN "off"
            ELSE IF rpu = "off" THEN "asleep" ELSE rpu
  /\ wakeup_now' = (wakeup_now /\ rpu' # "off")
  /\ clocks' = (clocks /\ rpu' # "off")

SetLine(l, v) == SetLines([k \in {l} |-> v])

\* rpu_pwron: bucken low, iovdd low; then bucken high, then iovdd. It returns
\* at the first NULL handle.
PwrOnLow ==
  /\ pc = "low"
  /\ SetLines([l \in IF handle["bucken"] = "null" THEN {} ELSE Lines |-> 0])
  /\ pc' = IF \E l \in Lines : handle[l] = "null" THEN "init" ELSE "bucken"
  /\ UNCHANGED <<opVars, ii, handle, speed, confirmed, trouble>>

\* Faulty variant of PwrOnFirst: the other line first.
PwrOnFirst_Iovdd == "iovdd"

\* The line that goes high first.
PwrOnFirst == "bucken"

PwrOnBucken ==
  /\ pc = "bucken"
  /\ SetLine(PwrOnFirst, 1)
  /\ pc' = "iovdd"
  /\ UNCHANGED <<opVars, ii, handle, speed, confirmed, trouble>>

PwrOnIovdd ==
  /\ pc = "iovdd"
  /\ \E l \in Lines \ {PwrOnFirst} : SetLine(l, 1)
  /\ pc' = "init"
  /\ UNCHANGED <<opVars, ii, handle, speed, confirmed, trouble>>

\* Faulty variant of SpeedFromDts: the wake-up speed is kept.
SpeedFromDts_Keeps == speed

\* set_spi_speed(SPI_SPEED_FROM_DTS), which keeps the speed if the property is
\* missing.
SpeedFromDts == IF DtsSpeed = <<>> THEN speed ELSE HostValue(DtsSpeed)

\* spdev_init
SpiInit ==
  /\ pc = "init"
  /\ speed' = SpeedFromDts
  /\ pc' = "speed"
  /\ UNCHANGED <<opVars, ii, gpio, confirmed, rpuVars, trouble>>
-----------------------------------------------------------------------------
(* rpu_wakeup *)

\* shim_bus_qspi_ps_wake
WakeStart ==
  /\ pc = "idle" /\ enabled /\ nops < MaxOps
  /\ op' = "wake" /\ nops' = nops + 1
  /\ confirmed' = FALSE
  /\ pc' = "speed"
  /\ UNCHANGED <<ii, enabled, gpio, speed, rpuVars, trouble>>

\* _spdev_cmd_wakeup_rpu: the bus is slowed down for the wake-up ...
WakeSpeed ==
  /\ pc = "speed"
  /\ speed' = WakeupHz
  /\ pc' = "write"
  /\ UNCHANGED <<opVars, ii, gpio, confirmed, rpuVars, trouble>>

\* ... and RPU_WAKEUP_NOW written; the result is ignored.
WakeWrite ==
  /\ pc = "write"
  /\ \/ wakeup_now' = (rpu # "off") /\ UNCHANGED trouble
     \/ UNCHANGED wakeup_now /\ Note("spi")
  /\ ii' = 0
  /\ pc' = "rdsr2"
  /\ UNCHANGED <<opVars, gpio, speed, confirmed, rpu, clocks>>

\* A turn of a polling loop in which the register cannot be read or does not
\* show the bit. The loop ends after its last turn, and the operation goes on.
PollAgain(next) ==
  \/ ii < Polls - 1 /\ ii' = ii + 1 /\ UNCHANGED pc
        /\ trouble' \in {trouble, trouble \union {"spi"}}
  \/ ii = Polls - 1 /\ ii' = 0 /\ pc' = next /\ Note("slow")

\* spdev_wait_while_rpu_wake_write: RDSR2 shows the bit, the bus gets its speed
\* back.
PollConfirmed ==
  /\ pc = "rdsr2" /\ wakeup_now
  /\ speed' = SpeedFromDts
  /\ confirmed' = TRUE
  /\ ii' = 0 /\ pc' = "rdsr1"
  /\ UNCHANGED <<opVars, gpio, rpuVars, trouble>>

PollNotConfirmed ==
  /\ pc = "rdsr2"
  /\ PollAgain("rdsr1")
  /\ UNCHANGED <<opVars, gpio, speed, confirmed, rpuVars>>

\* Faulty variant of AwakeSeen: RPU_WAKEUP_NOW is taken for RPU_AWAKE_BIT.
AwakeSeen_WrongBit == wakeup_now

\* RDSR1 shows RPU_AWAKE_BIT.
AwakeSeen == rpu = "awake"

AfterWake == IF op = "enable" THEN "clks" ELSE "idle"

\* _spdev_wait_while_rpu_awake
PollAwake ==
  /\ pc = "rdsr1" /\ AwakeSeen
  /\ ii' = 0 /\ pc' = AfterWake
  /\ op' = IF op = "enable" THEN op ELSE "none"
  /\ UNCHANGED <<nops, enabled, gpio, speed, confirmed, rpuVars, trouble>>

PollNotAwake ==
  /\ pc = "rdsr1"
  /\ PollAgain(AfterWake)
  /\ op' = IF pc' = "idle" THEN "none" ELSE op
  /\ UNCHANGED <<nops, enabled, gpio, speed, confirmed, rpuVars>>

\* rpu_clks_on: the write reaches an RPU that is awake.
ClksOn ==
  /\ pc = "clks"
  /\ \/ clocks' = (clocks \/ rpu = "awake") /\ UNCHANGED trouble
     \/ UNCHANGED clocks /\ Note("spi")
  /\ pc' = "idle" /\ op' = "none"
  /\ UNCHANGED <<ii, nops, enabled, gpio, speed, confirmed, rpu, wakeup_now>>
-----------------------------------------------------------------------------
(* Sleep, disable, and the RPU itself *)

\* shim_bus_qspi_ps_sleep: the wake-up bit is cleared, or the write fails.
Sleep ==
  /\ pc = "idle" /\ enabled /\ nops < MaxOps
  /\ nops' = nops + 1
  /\ \/ wakeup_now' = FALSE /\ UNCHANGED trouble
     \/ UNCHANGED wakeup_now /\ Note("spi")
  /\ UNCHANGED <<pc, op, ii, enabled, gpio, speed, confirmed, rpu, clocks>>

\* rpu_disable: bucken, then iovdd; a NULL handle ends it.
DisableBucken ==
  /\ pc = "idle" /\ enabled /\ nops < MaxOps
  /\ enabled' = FALSE /\ nops' = nops + 1
  /\ SetLine("bucken", 0)
  /\ op' = IF handle["bucken"] = "null" THEN op ELSE "disable"
  /\ pc' = IF handle["bucken"] = "null" THEN pc ELSE "off"
  /\ UNCHANGED <<ii, handle, speed, confirmed, trouble>>

DisableIovdd ==
  /\ pc = "off"
  /\ SetLine("iovdd", 0)
  /\ op' = "none" /\ pc' = "idle"
  /\ UNCHANGED <<ii, nops, enabled, handle, speed, confirmed, trouble>>

\* The RPU (external) wakes up while RPU_WAKEUP_NOW is set and may fall asleep
\* when it is not.
RpuWakes ==
  /\ rpu = "asleep" /\ wakeup_now
  /\ rpu' = "awake"
  /\ UNCHANGED <<pc, opVars, ii, gpio, speed, confirmed, wakeup_now, clocks, trouble>>

RpuFallsAsleep ==
  /\ rpu = "awake" /\ ~wakeup_now
  /\ rpu' = "asleep"
  /\ UNCHANGED <<pc, opVars, ii, gpio, speed, confirmed, wakeup_now, clocks, trouble>>
-----------------------------------------------------------------------------
Step == PwrOnLow \/ PwrOnBucken \/ PwrOnIovdd \/ SpiInit
          \/ WakeSpeed \/ WakeWrite \/ PollConfirmed \/ PollNotConfirmed
          \/ PollAwake \/ PollNotAwake \/ ClksOn \/ DisableIovdd

Next == GpioConfig \/ Step \/ WakeStart \/ Sleep \/ DisableBucken
          \/ RpuWakes \/ RpuFallsAsleep

Spec == Init /\ [][Next]_vars
-----------------------------------------------------------------------------
(* Properties *)

\* rpu_enable ignores every result, so all that tells the caller of an enabled
\* RPU is that nothing went wrong on the way: then the RPU is awake and its
\* clocks are on when it returns, and stay so until it is put to sleep.
EnabledMeansAwake ==
  (pc = "idle" /\ trouble = {} /\ wakeup_now) => rpu = "awake" /\ clocks

\* The bus is slow only from the start of a wake-up to its confirmation: between
\* operations it has the speed read from the device tree (byte-swapped: HostValue)
\* again, unless the last wake-up was not confirmed. No later operation but a
\* confirmed wake-up restores it.
SlowOnlyIfUnconfirmed ==
  (pc = "idle" /\ speed = WakeupHz) => ~confirmed /\ trouble # {}

\* IOVDD never goes high while BUCKEN is low, however rpu_gpio_config fails and
\* in whatever order enable and disable follow each other: unless the handle of
\* BUCKEN is an error pointer or no output, which rpu_pwron takes for a line.
PowerOrder ==
  [][(level["iovdd"] = 0 /\ level'["iovdd"] = 1) =>
        level["bucken"] = 1 \/ handle["bucken"] # "ok"]_vars
===============================================================================
