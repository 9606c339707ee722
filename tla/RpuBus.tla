--------------------------------- MODULE RpuBus ---------------------------------
(***************************************************************************)
(* Reading and writing the memory of the RPU over SPI: the register and    *)
(* block operations of src/src/shim.c and src/src/spi/src/spi_if.c on top  *)
(* of the power states of RpuPower.                                        *)
(*                                                                         *)
(* One block stands for each of the two kinds of memory: "low" (addresses  *)
(* below 0x0C0000) is read one word per SPI message, "high" in a single    *)
(* message. Memory is a byte array; the RPU rewrites a block whenever it   *)
(* likes. The host's operations are serialised (the library holds a lock), *)
(* and nobody learns of a message that failed: reads return nothing but    *)
(* the buffer, and the loops over words ignore the result of every word.   *)
(***************************************************************************)
EXTENDS RpuPower

CONSTANTS
  BlockBytes,  \* the size of a block
  Counts,      \* the byte counts the callers ask for
  MaxAccess,   \* bound: bus operations of the host
  MaxUpdates   \* bound: rewrites by the RPU

ASSUME BusAssumption ==
  /\ BlockBytes \in Nat \ {0} /\ BlockBytes % 4 = 0
  /\ Counts \subseteq 1..BlockBytes
  /\ MaxAccess \in Nat /\ MaxUpdates \in Nat

Regions == {"low", "high"}

\* What a byte holds: the number of the RPU's rewrite it stems from, a byte of
\* the caller's source, a byte behind it, or, in a buffer, what was there before
\* (Stale) and what a sleeping RPU answers (Junk).
Source == -1
Behind == -2
Stale  == -3
Junk   == -4

VARIABLES
  mem,      \* the RPU's memory, a block of bytes per region
  updates,  \* rewrites by the RPU so far
  xfer,     \* the read in progress or last ended: region, caller's count,
            \* bytes to move, next offset, rewrites when it began
  buf,      \* its destination and what lies behind it
  calm,     \* no message of it failed, and the RPU was meant to be awake
  naccess   \* bus operations so far

busVars == <<mem, updates, xfer, buf, calm, naccess>>
hostVars == <<vars, busVars>>

Block == 0..(BlockBytes - 1)
\* The destination buffer and the word behind the largest one.
Dest  == 0..(BlockBytes + 3)

BusTypeOK ==
  /\ mem \in [Regions -> [Block -> Behind..MaxUpdates]]
  /\ updates \in 0..MaxUpdates /\ naccess \in 0..MaxAccess
  /\ xfer \in [r : Regions, count : 0..BlockBytes, n : 0..(BlockBytes + 4),
               off : 0..(BlockBytes + 4), began : 0..MaxUpdates]
  /\ buf \in [Dest -> Junk..MaxUpdates] /\ calm \in BOOLEAN

BusInit ==
  /\ Init
  /\ mem = [r \in Regions |-> [i \in Block |-> 0]]
  /\ updates = 0 /\ naccess = 0
  /\ xfer = [r |-> "low", count |-> 0, n |-> 0, off |-> 0, began |-> 0]
  /\ buf = [i \in Dest |-> Stale] /\ calm = TRUE

\* Faulty variant of Rounded: the last, incomplete word is left out.
Rounded_Down(count) == (count \div 4) * 4

\* Faulty variant of Rounded: whole words are rounded up, too.
Rounded_Always(count) == ((count + 4) \div 4) * 4

\* A count that is no multiple of four becomes (count + 4) & 0xFFFFFFFC.
Rounded(count) == IF count % 4 # 0 THEN ((count + 4) \div 4) * 4 ELSE count

Reading == xfer.off < xfer.n
\* The next host operation may begin.
BusFree == pc = "idle" /\ enabled /\ ~Reading /\ naccess < MaxAccess
-----------------------------------------------------------------------------
(* Reads: shim_spi_read_reg32 and shim_spi_cpy_from *)

ReadBegins(r, count, n) ==
  /\ BusFree
  /\ xfer' = [r |-> r, count |-> count, n |-> n, off |-> 0, began |-> updates]
  /\ buf' = [i \in Dest |-> Stale]
  /\ calm' = TRUE
  /\ naccess' = naccess + 1
  /\ UNCHANGED <<vars, mem, updates>>

\* shim_spi_read_reg32: val is not initialised.
ReadReg32 == \E r \in Regions : ReadBegins(r, 4, 4)

\* shim_spi_cpy_from: the count is rounded up, the caller's buffer is not.
CpyFrom == \E r \in Regions, count \in Counts : ReadBegins(r, count, Rounded(count))

\* What SPI messages read for the n bytes from off on: the memory of an RPU that
\* is awake and clocked, anything of another.
Received(off, n) ==
  [i \in Dest |->
     IF i \notin off..(off + n - 1) THEN buf[i]
     ELSE IF rpu # "awake" \/ ~clocks THEN Junk
     ELSE IF i \in Block THEN mem[xfer.r][i] ELSE Behind]

\* The outcome of one spi_sync: calm notes an error and a message to an RPU
\* that is not known to be awake.
Message(ok) == calm' = (calm /\ ok /\ trouble = {} /\ wakeup_now)

\* spdev_read_reg32_hl, called in a loop by spdev_hl_read and spdev_cp_from for
\* low memory, error or not.
ReadWord ==
  /\ Reading /\ xfer.r = "low"
  /\ \E ok \in BOOLEAN :
       /\ buf' = IF ok THEN Received(xfer.off, 4) ELSE buf
       /\ Message(ok)
  /\ xfer' = [xfer EXCEPT !.off = @ + 4]
  /\ UNCHANGED <<vars, mem, updates, naccess>>

\* _spdev_read and spdev_cp_from for high memory: one message.
ReadBlock ==
  /\ Reading /\ xfer.r = "high"
  /\ \E ok \in BOOLEAN :
       /\ buf' = IF ok THEN Received(0, xfer.n) ELSE buf
       /\ Message(ok)
  /\ xfer' = [xfer EXCEPT !.off = xfer.n]
  /\ UNCHANGED <<vars, mem, updates, naccess>>
-----------------------------------------------------------------------------
(* Writes: shim_spi_write_reg32 and shim_spi_cpy_to, one message each *)

\* n bytes are sent, the last n - count of them from behind the caller's source.
WriteBlock(r, count, n) ==
  /\ BusFree
  /\ \/ rpu = "awake" /\ clocks
          /\ mem' = [mem EXCEPT ![r] = [i \in Block |->
                       IF i < count THEN Source ELSE IF i < n THEN Behind ELSE @[i]]]
     \/ UNCHANGED mem
  /\ naccess' = naccess + 1
  /\ xfer' = [xfer EXCEPT !.count = 0]
  /\ UNCHANGED <<vars, updates, buf, calm>>

\* _spdev_write, spdev_write
WriteReg32 == \E r \in Regions : WriteBlock(r, 4, 4)

\* spdev_cp_to
CpyTo == \E r \in Regions, count \in Counts : WriteBlock(r, count, Rounded(count))

\* The RPU (external) rewrites a block.
RpuUpdates ==
  /\ rpu = "awake" /\ updates < MaxUpdates
  /\ updates' = updates + 1
  /\ \E r \in Regions : mem' = [mem EXCEPT ![r] = [i \in Block |-> updates']]
  /\ UNCHANGED <<vars, xfer, buf, calm, naccess>>
-----------------------------------------------------------------------------
\* The operations of RpuPower and those of the bus exclude each other; the RPU
\* excludes nobody.
BusNext ==
  \/ Next /\ ~Reading /\ UNCHANGED busVars
  \/ (RpuWakes \/ RpuFallsAsleep) /\ Reading /\ UNCHANGED busVars
  \/ ReadReg32 \/ CpyFrom \/ ReadWord \/ ReadBlock
  \/ WriteReg32 \/ CpyTo
  \/ RpuUpdates

BusSpec == BusInit /\ [][BusNext]_hostVars
-----------------------------------------------------------------------------
(* Properties *)

\* What a read hands to its caller, when nothing has gone wrong since the RPU
\* was enabled and it is not asleep: the whole range asked for, as the memory
\* had it, if the RPU did not rewrite it meanwhile. If it did, a read of high
\* memory is one of the two versions and a read of low memory may be torn, but
\* then later words are the newer ones.
ReadIsMemory ==
  (~Reading /\ calm /\ xfer.count > 0) =>
    LET asked == 0..(xfer.count - 1) IN
    /\ updates = xfer.began => \A i \in asked : buf[i] = mem[xfer.r][i]
    /\ \A i \in asked : buf[i] \notin {Stale, Junk}
    /\ \A i, j \in asked : buf[i] > xfer.began =>
         \/ xfer.r = "high" /\ buf[j] = buf[i]
         \/ xfer.r = "low" /\ (i < j => buf[j] >= buf[i])

\* Rounding up makes a copy write behind the caller's buffer: fewer than four
\* bytes, and none if the count is a multiple of four. Nothing else is touched.
OverrunIsShort ==
  \A i \in Dest : (xfer.count > 0 /\ i >= xfer.count /\ buf[i] # Stale) =>
     xfer.count % 4 # 0 /\ i < xfer.count + 4 - (xfer.count % 4)

\* Both: a read returns what was asked for and spoils no more than the rest of
\* its last word.
ReadIsSound == ReadIsMemory /\ OverrunIsShort
===============================================================================
