----------------------------- MODULE DmgDevices -----------------------------
(***************************************************************************)
(* The DMG devices that share IF: timer, serial port, PPU, joypad and OAM  *)
(* DMA.  A device state is a record; every operation of DmgDeviceState is  *)
(* an operator on it.  Register bits are sets and Booleans; the registers  *)
(* nothing depends on (palettes, scroll, window, serial data) are left out. *)
(***************************************************************************)
EXTENDS DmgTimer, DmgApu, Sequences, FiniteSets, FiniteSetsExt

CONSTANTS
    LineDots,       \* 456 T-cycles of a scanline
    OamDots,        \* 80: mode 2 before this dot
    TransferDots,   \* 252: mode 3 before this dot
    Lines,          \* 154
    VBlankLine,     \* 144
    SerialTCycles,  \* 4096 T-cycles of an internally clocked transfer
    DmaLength,      \* 160 bytes of OAM
    ChunkMCycles,   \* 63: longest advance_m_cycles call of a long HALT skip
    ByteMax         \* 255: advance_m_cycles counts T-cycles in a byte

ASSUME PpuAssumption ==
    /\ {LineDots, OamDots, TransferDots, Lines, VBlankLine} \subseteq Nat
    /\ 0 < OamDots /\ OamDots < TransferDots /\ TransferDots < LineDots
    /\ 0 < VBlankLine /\ VBlankLine < Lines /\ LineDots % 4 = 0
ASSUME SerialAssumption == SerialTCycles \in Nat \ {0} /\ SerialTCycles % 4 = 0
ASSUME DmaAssumption == DmaLength \in Nat \ {0}
ASSUME ChunkAssumption ==    \* no step takes more than six M-cycles
    ChunkMCycles \in Nat /\ 6 <= ChunkMCycles /\ ByteMax \in Nat /\ ChunkMCycles * 4 <= ByteMax

Interrupts == {"VBlank", "LcdStat", "Timer", "Serial", "Joypad"}
StatSources == {"Mode0", "Mode1", "Mode2", "Lyc"}
ButtonGroups == {"directions", "actions"}   \* one line, wired to both groups

Devices ==
    [request : SUBSET Interrupts, enable : SUBSET Interrupts,
     timer : Timers,
     serial : [start : BOOLEAN, internal : BOOLEAN, left : 0..SerialTCycles],
     lcd : [on : BOOLEAN, stat : SUBSET StatSources, lyc : 0..Lines,
            line : 0..(Lines - 1), dot : 0..(LineDots - 1)],
     joypad : [select : SUBSET ButtonGroups, pressed : SUBSET ButtonGroups],
     apu : Apus,
     dma : [readable : BOOLEAN, index : 0..DmaLength, active : BOOLEAN, owed : 0..6]]

\* Op applied n times to x, four at a time where possible: the singletons make
\* each value concrete before the next application, and evaluation stays shallow.
FourTimes(Op(_), x) ==
    CHOOSE z \in {Op(w) : w \in {Op(v) : v \in {Op(u) : u \in {Op(x)}}}} : TRUE
Iterate(Op(_), x, n) ==
    LET after[k \in 0..n] ==
            IF k = 0 THEN x
            ELSE IF k % 4 = 0 THEN CHOOSE y \in {FourTimes(Op, v) : v \in {after[k - 4]}} : TRUE
            ELSE CHOOSE y \in {Op(v) : v \in {after[k - 1]}} : TRUE
    IN  after[n]

----------------------------------------------------------------------------
(* Interrupts.                                                             *)

Priority == [i \in Interrupts |->
    CASE i = "VBlank" -> 0 [] i = "LcdStat" -> 1 [] i = "Timer" -> 2
      [] i = "Serial" -> 3 [] i = "Joypad" -> 4]

Pending(d) == d.request \cap d.enable

\* pending_interrupt, when there is one.
PendingInterrupt(d) ==
    CHOOSE i \in Pending(d) : \A j \in Pending(d) : Priority[i] <= Priority[j]

Acknowledge(d, i) == [d EXCEPT !.request = @ \ {i}]

Request(d, i) == [d EXCEPT !.request = @ \cup {i}]

----------------------------------------------------------------------------
(* The PPU.                                                                *)

PpuMode(d) ==
    CASE ~d.lcd.on -> 0
      [] d.lcd.on /\ d.lcd.line >= VBlankLine -> 1
      [] d.lcd.on /\ d.lcd.line < VBlankLine /\ d.lcd.dot < OamDots -> 2
      [] d.lcd.on /\ d.lcd.line < VBlankLine /\ d.lcd.dot \in OamDots..(TransferDots - 1) -> 3
      [] OTHER -> 0

StatSignal(d) ==
    /\ d.lcd.on
    /\ \/ "Mode0" \in d.lcd.stat /\ PpuMode(d) = 0
       \/ "Mode1" \in d.lcd.stat /\ PpuMode(d) = 1
       \/ "Mode2" \in d.lcd.stat /\ PpuMode(d) = 2
       \/ "Lyc" \in d.lcd.stat /\ d.lcd.line = d.lcd.lyc

\* request_stat_rising_edge: STAT is requested when the OR of its sources rises.
RequestStatRisingEdge(before, d) ==
    IF ~StatSignal(before) /\ StatSignal(d) THEN Request(d, "LcdStat") ELSE d

NextDot(d) ==
    IF d.lcd.dot + 1 < LineDots
    THEN [d EXCEPT !.lcd.dot = @ + 1]
    ELSE LET line  == IF d.lcd.line = Lines - 1 THEN 0 ELSE d.lcd.line + 1
             moved == [d EXCEPT !.lcd.dot = 0, !.lcd.line = line]
         IN  IF line = VBlankLine THEN Request(moved, "VBlank") ELSE moved

AdvancePpuTCycle(d) ==
    IF d.lcd.on
    THEN RequestStatRisingEdge(d, NextDot(d))
    ELSE [d EXCEPT !.lcd.line = 0, !.lcd.dot = 0]

----------------------------------------------------------------------------
(* Time.  advance_m_cycles runs the timer through the whole interval, then *)
(* the serial port, then the PPU.                                          *)

AdvanceTimerTCycle(d) ==
    LET ticked == [d EXCEPT !.timer = Tick(@)]
    IN  IF ReloadFires(d.timer) THEN Request(ticked, "Timer") ELSE ticked

\* Mutant: the transfer ends silently.
AdvanceSerialSilent(d, ticks) ==
    LET left == Max({0, d.serial.left - ticks})
    IN  [d EXCEPT !.serial.left = left, !.serial.start = @ /\ left > 0]

AdvanceSerial(d, ticks) ==
    LET left == Max({0, d.serial.left - ticks})
    IN  IF d.serial.left = 0 THEN d
        ELSE IF left > 0 THEN [d EXCEPT !.serial.left = left]
        ELSE Request([d EXCEPT !.serial.left = 0, !.serial.start = FALSE], "Serial")

AdvanceMCycles(d, m) ==
    LET ticks == Min({4 * m, ByteMax})    \* saturating_mul
        timed == Iterate(AdvanceTimerTCycle, d, ticks)
    IN  Iterate(AdvancePpuTCycle, AdvanceSerial(timed, ticks), ticks)

\* advance_quiet_long: whole chunks, then the rest.
AdvanceChunk(d) == AdvanceMCycles(d, ChunkMCycles)
AdvanceQuietLong(d, m) ==
    AdvanceMCycles(Iterate(AdvanceChunk, d, m \div ChunkMCycles), m % ChunkMCycles)

----------------------------------------------------------------------------
(* HALT.  Each HaltUntil operator is the skip length, or 0 for None.       *)

\* m calls of advance_m_cycles(1), the clock a sleeping CPU is compared with.
AdvanceMCycle(d) == AdvanceMCycles(d, 1)
StepMCycles(d, m) == Iterate(AdvanceMCycle, d, m)

HaltIdleMCycles(d) ==
    LET wakes == {m \in 1..6 : Pending(StepMCycles(d, m)) # {}}
    IN  IF wakes = {} THEN 6 ELSE Min(wakes)

TimerQuiet(d) == ~d.timer.enable /\ d.timer.phase = 0 /\ ~d.timer.latch
SerialQuiet(d) == d.serial.left = 0 /\ ~d.serial.start
DmaQuiet(d) == ~d.dma.active /\ d.dma.owed = 0

HaltUntilVBlankMCycles(d) ==
    LET position  == d.lcd.line * LineDots + d.lcd.dot
        vblank    == VBlankLine * LineDots
        remaining == IF position < vblank THEN vblank - position
                     ELSE Lines * LineDots - position + vblank
    IN  IF /\ Pending(d) = {} /\ d.lcd.on
           /\ "VBlank" \in d.enable /\ "Joypad" \notin d.enable /\ d.lcd.stat = {}
           /\ TimerQuiet(d) /\ SerialQuiet(d) /\ DmaQuiet(d)
           /\ remaining % 4 = 0
        THEN remaining \div 4 ELSE 0
HaltUntilSerialMCycles(d) ==
    IF /\ Pending(d) = {} /\ "Serial" \in d.enable /\ ~d.lcd.on
       /\ TimerQuiet(d) /\ DmaQuiet(d)
       /\ d.serial.start /\ d.serial.internal
       /\ d.serial.left \in 1..SerialTCycles /\ d.serial.left % 4 = 0
    THEN d.serial.left \div 4 ELSE 0

HaltUntilTimerMCycles(d) ==
    IF /\ Pending(d) = {} /\ "Timer" \in d.enable /\ ~d.lcd.on
       /\ SerialQuiet(d) /\ DmaQuiet(d)
       /\ InterruptForeseen(d.timer)
    THEN (TCyclesUntilInterrupt(d.timer) + 3) \div 4 ELSE 0

----------------------------------------------------------------------------
(* OAM DMA.                                                                *)

\* schedule_dma_bytes: the bytes a step of m M-cycles leaves to be copied.
ScheduleDmaBytes(d, m, activeAtStart) ==
    [d EXCEPT !.dma.owed = IF activeAtStart THEN Min({m, DmaLength - d.dma.index}) ELSE 0]

CompleteDmaByte(d) ==
    [d EXCEPT !.dma.owed = Max({0, @ - 1}),
              !.dma.index = IF @ = DmaLength - 1 THEN DmaLength ELSE @ + 1,
              !.dma.active = d.dma.index # DmaLength - 1]

----------------------------------------------------------------------------
(* Register accesses.  An access is [reg, val]; reading P1 consumes one    *)
(* byte of the input log, so it is an access too.                          *)

LineLow(d) == d.joypad.select \cap d.joypad.pressed # {}

RequestJoypadFallingEdge(before, d) ==
    IF ~LineLow(before) /\ LineLow(d) THEN Request(d, "Joypad") ELSE d

WriteLcdControl(d, on) ==
    IF on THEN [d EXCEPT !.lcd.on = TRUE]
    ELSE [d EXCEPT !.lcd.on = FALSE, !.lcd.line = 0, !.lcd.dot = 0]

StartDma(d, readable) ==
    [d EXCEPT !.dma = [readable |-> readable, index |-> 0, active |-> TRUE, owed |-> 0]]

WriteSerialControl(d, sc) ==
    [d EXCEPT !.serial =
        [start |-> sc.start, internal |-> sc.internal,
         left |-> IF sc.start /\ sc.internal THEN SerialTCycles ELSE 0]]

Access(d, a) ==
    CASE a.reg = "P1"     -> RequestJoypadFallingEdge(d, [d EXCEPT !.joypad.select = a.val])
      [] a.reg = "ReadP1" -> RequestJoypadFallingEdge(d, [d EXCEPT !.joypad.pressed = a.val])
      [] a.reg = "SC"     -> WriteSerialControl(d, a.val)
      [] a.reg = "DIV"    -> [d EXCEPT !.timer = WriteDiv(@)]
      [] a.reg = "TIMA"   -> [d EXCEPT !.timer = WriteCounter(@, a.val)]
      [] a.reg = "TMA"    -> [d EXCEPT !.timer = WriteModulo(@, a.val)]
      [] a.reg = "TAC"    -> [d EXCEPT !.timer = WriteControl(@, a.val)]
      [] a.reg = "IF"     -> [d EXCEPT !.request = a.val]
      [] a.reg = "IE"     -> [d EXCEPT !.enable = a.val]
      [] a.reg = "LCDC"   -> RequestStatRisingEdge(d, WriteLcdControl(d, a.val))
      [] a.reg = "STAT"   -> RequestStatRisingEdge(d, [d EXCEPT !.lcd.stat = a.val])
      [] a.reg = "LYC"    -> RequestStatRisingEdge(d, [d EXCEPT !.lcd.lyc = a.val])
      [] a.reg = "DMA"    -> StartDma(d, a.val)
      [] a.reg \in ApuRegisters -> [d EXCEPT !.apu = WriteApu(@, a.reg, a.val)]

\* The accesses there are, with the values each register tells apart.
RegisterAccesses ==
    [reg : {"P1", "ReadP1"}, val : SUBSET ButtonGroups]
    \cup [reg : {"SC"}, val : [start : BOOLEAN, internal : BOOLEAN]]
    \cup [reg : {"DIV"}, val : {0}] \cup [reg : {"TIMA", "TMA"}, val : 0..CounterMax]
    \cup [reg : {"TAC"}, val : [enable : BOOLEAN, select : Selects]]
    \cup [reg : {"IF", "IE"}, val : SUBSET Interrupts]
    \cup [reg : {"LCDC", "DMA"}, val : BOOLEAN]
    \cup [reg : {"STAT"}, val : SUBSET StatSources] \cup [reg : {"LYC"}, val : 0..Lines]
    \cup [reg : ApuRegisters \ {"NR52"}, val : SUBSET Bits]
    \cup [reg : {"NR52"}, val : [power : BOOLEAN, active : SUBSET Channels]]

\* The accesses of one step, in order.
AccessAll(d, accesses) ==
    LET after[n \in 0..Len(accesses)] ==
            IF n = 0 THEN d ELSE Access(after[n - 1], accesses[n])
    IN  after[Len(accesses)]

\* require_cpu_dma_access: while a transfer runs, a device register cannot be
\* accessed and the step fails.
AccessesAllowed(d, accesses) ==
    \A n \in 1..Len(accesses) : ~AccessAll(d, SubSeq(accesses, 1, n - 1)).dma.active

\* The state the boot ROM leaves behind.
DmgPostBoot ==
    [request |-> {"VBlank"}, enable |-> {},
     timer |-> [div |-> 43980 % DivModulus, counter |-> 0, modulo |-> 0, enable |-> FALSE,
                select |-> CHOOSE s \in Selects : \A r \in Selects : Period[r] <= Period[s],
                latch |-> FALSE, phase |-> 0],
     serial |-> [start |-> FALSE, internal |-> FALSE, left |-> 0],
     lcd |-> [on |-> TRUE, stat |-> {}, lyc |-> 0, line |-> 0, dot |-> 0],
     joypad |-> [select |-> ButtonGroups, pressed |-> {}],
     apu |-> ApuPostBoot,
     dma |-> [readable |-> TRUE, index |-> 0, active |-> FALSE, owed |-> 0]]
=============================================================================
