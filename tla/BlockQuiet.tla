----------------------------- MODULE BlockQuiet -----------------------------
(***************************************************************************)
(* The device clock of the packed relation in blocks without a device      *)
(* access: PPU position, serial countdown, divider, TIMA pipeline, PPU     *)
(* interrupts and DMA.  Each Constrain operator is the conjunction its     *)
(* namesake pushes; each Refused operator is the error its witness         *)
(* construction returns.                                                   *)
(***************************************************************************)
EXTENDS BlockMachine

CONSTANTS
    QuotientMax,      \* 31: five columns count divider wraps of a block
    StatGapMax,       \* 511: nine columns
    VBlankGapMax,     \* 131071: seventeen columns
    SerialGapMax      \* 31: five columns

\* A block of at most six M-cycles meets one LCD mode boundary, and its T-cycles
\* never span two edges of the fastest timer.
TickBound == 24
ASSUME SegmentAssumption ==
    /\ OamDots >= TickBound /\ TransferDots - OamDots >= TickBound
    /\ LineDots - TransferDots >= TickBound
Fastest == CHOOSE s \in Selects : \A r \in Selects : Period[s] <= Period[r]
ASSUME FastestAssumption ==
    Period[Fastest] = 16 /\ \A s \in Selects : Period[s] \in {16} \/ Period[s] >= 32

Ticks(b) == 4 * b.cycles

----------------------------------------------------------------------------
(* block_device_ppu.rs.                                                    *)

FrameTCycles == Lines * LineDots
Position(d) == d.lcd.line * LineDots + d.lcd.dot

ConstrainLongModePreconditions(b) ==
    /\ b.mode = "HaltUntilVBlank" => b.before.lcd.on /\ b.before.lcd.stat = {}
    /\ b.mode \in {"HaltUntilSerial", "HaltUntilTimer"} => ~b.before.lcd.on

ConstrainPositionAdvance(b) ==
    IF b.before.lcd.on
    THEN \E wrap \in 0..1 :
            Position(b.after) = Position(b.before) + Ticks(b) - FrameTCycles * wrap
    ELSE Position(b.before) = 0 /\ Position(b.after) = 0

\* Lines and dots are in range in every block; a quiet one keeps TMA, TAC, LCDC
\* and STAT and moves the position.
ConstrainPpuTransition(b) ==
    /\ \A d \in {b.before, b.after} :
          d.lcd.line \in 0..(Lines - 1) /\ d.lcd.dot \in 0..(LineDots - 1)
    /\ Quiet(b) =>
          /\ b.after.timer.modulo = b.before.timer.modulo
          /\ b.after.timer.enable = b.before.timer.enable
          /\ b.after.timer.select = b.before.timer.select
          /\ b.after.lcd.on = b.before.lcd.on /\ b.after.lcd.stat = b.before.lcd.stat
          /\ ConstrainPositionAdvance(b)

ConstrainPpu(b) == ConstrainPpuTransition(b) /\ ConstrainLongModePreconditions(b)

PpuRowRefused(b) ==
    /\ Quiet(b)
    /\ Position(b.after) #
          (IF b.before.lcd.on THEN (Position(b.before) + Ticks(b)) % FrameTCycles ELSE 0)

----------------------------------------------------------------------------
(* block_device_serial.rs.  The data register, filled with ones when a     *)
(* transfer completes, is left out.                                        *)

SerialCompleted(b) == b.before.serial.left # 0 /\ b.after.serial.left = 0

ConstrainCountdownRange(d) == d.serial.left \in 0..SerialTCycles

\* Mutant: a transfer may complete early.
ConstrainCompletionGapEither(b) == TRUE

\* The gap has five columns, so it is not negative: the transfer's T-cycles
\* have passed.
ConstrainCompletionGap(b) ==
    SerialCompleted(b) => Ticks(b) - b.before.serial.left \in 0..SerialGapMax

ConstrainCountdown(b) ==
    LET active == b.before.serial.left # 0
    IN  /\ b.after.serial.left =
              IF SerialCompleted(b) THEN 0
              ELSE b.before.serial.left - (IF active THEN Ticks(b) ELSE 0)
        /\ ConstrainCompletionGap(b)
        /\ active => b.before.serial.start /\ b.before.serial.internal

ConstrainSerialRegisters(b) ==
    /\ b.after.serial.internal = b.before.serial.internal
    /\ b.after.serial.start = (b.before.serial.start /\ ~SerialCompleted(b))

ConstrainSerialInterrupt(b) ==
    "Serial" \in b.after.request <=> "Serial" \in Acknowledged(b) \/ SerialCompleted(b)

ConstrainSerialLongModes(b) ==
    /\ b.mode = "HaltUntilSerial" => SerialCompleted(b) /\ Ticks(b) = b.before.serial.left
    /\ b.mode \in {"HaltUntilVBlank", "HaltUntilTimer"} =>
          b.before.serial.left = 0 /\ ~b.before.serial.start

ConstrainSerial(b) ==
    /\ ConstrainCountdownRange(b.before) /\ ConstrainCountdownRange(b.after)
    /\ Quiet(b) =>
          /\ b.after.lcd.lyc = b.before.lcd.lyc
          /\ ConstrainCountdown(b) /\ ConstrainSerialRegisters(b)
          /\ ConstrainSerialInterrupt(b)
    /\ ConstrainSerialLongModes(b)

\* validate_serial_transition.
SerialRowRefused(b) ==
    LET left      == Max({0, b.before.serial.left - Ticks(b)})
        completed == b.before.serial.left # 0 /\ left = 0
    IN  /\ Quiet(b)
        /\ \/ b.after.serial #
                 [b.before.serial EXCEPT !.left = left, !.start = @ /\ ~completed]
           \/ b.after.lcd.lyc # b.before.lcd.lyc
           \/ ("Serial" \in b.after.request) # ("Serial" \in Acknowledged(b) \/ completed)
           \/ b.before.serial.left # 0 /\ ~(b.before.serial.start /\ b.before.serial.internal)
----------------------------------------------------------------------------
(* block_device_timer.rs: the divider, with five columns of wraps.         *)

ConstrainDivider(b) ==
    Quiet(b) => \E passed \in {b.before.timer.div + Ticks(b) - b.after.timer.div} :
        passed % DivModulus = 0 /\ passed \div DivModulus \in 0..QuotientMax

DividerRowRefused(b) ==
    /\ Quiet(b)
    /\ \/ b.after.timer.div # (b.before.timer.div + Ticks(b)) % DivModulus
       \/ (b.before.timer.div + Ticks(b)) \div DivModulus > QuotientMax

----------------------------------------------------------------------------
(* block_device_timer_core.rs: one stage per T-cycle of a short block.  A  *)
(* stage is [div, counter, phase, latch, irq]; t holds TMA and TAC.        *)

Detector(t, div) == t.enable /\ div % Period[t.select] >= Period[t.select] \div 2

TickTransition(t, s) ==
    LET reloaded == IF s.phase = 5 THEN t.modulo ELSE s.counter
        div      == (s.div + 1) % DivModulus
        falling  == s.latch /\ ~Detector(t, div)
        overflow == falling /\ reloaded = CounterMax
    IN  [div |-> div,
         counter |-> IF falling THEN (reloaded + 1) % (CounterMax + 1) ELSE reloaded,
         phase |-> IF overflow THEN 1 ELSE IF s.phase \in {0, 5} THEN 0 ELSE s.phase + 1,
         latch |-> Detector(t, div),
         irq |-> s.irq \/ s.phase = 5]

Stage(t, irq) ==
    [div |-> t.div, counter |-> t.counter, phase |-> t.phase, latch |-> t.latch, irq |-> irq]

\* The stage after n T-cycles of registers t, started in stage s.
StageAfter(t, s, n) == LET Step(x) == TickTransition(t, x) IN Iterate(Step, s, n)

InitialStage(b) == Stage(b.before.timer, "Timer" \in Acknowledged(b))

ConstrainFinalState(b) ==
    Stage(b.after.timer, "Timer" \in b.after.request)
        = StageAfter(b.before.timer, InitialStage(b), Ticks(b))

\* timer_core/long.rs: closed forms for the long sleeps.
ConstrainLongQuietTimer(b) ==
    b.mode \in {"HaltUntilVBlank", "HaltUntilSerial"} =>
        /\ ~b.before.timer.enable
        /\ \A t \in {b.before.timer, b.after.timer} : t.phase = 0 /\ ~t.latch
        /\ b.after.timer.counter = b.before.timer.counter
        /\ "Timer" \in b.after.request <=> "Timer" \in b.before.request

ConstrainLongTimer(b) ==
    b.mode = "HaltUntilTimer" =>
        LET t == b.before.timer IN
        /\ t.enable /\ t.phase = 0 /\ t.latch = Detector(t, t.div)
        /\ \E gap \in 0..3 :
              /\ Ticks(b) = Period[t.select] - (t.div % Period[t.select])
                            + (CounterMax - t.counter) * Period[t.select] + 5 + gap
              /\ b.after.timer.latch = (t.select = Fastest /\ gap = 3)
        /\ b.after.timer.counter = t.modulo /\ b.after.timer.phase = 0
        /\ "Timer" \in b.after.request

ConstrainTimerCore(b) ==
    /\ Quiet(b) /\ ShortDeviceClocked(b) => ConstrainFinalState(b)
    /\ ConstrainLongQuietTimer(b) /\ ConstrainLongTimer(b)

\* append_quiet_timer_core replays the executor's own timer.
TimerCoreRowRefused(b) ==
    /\ Quiet(b) /\ ShortDeviceClocked(b)
    /\ LET acked == [b.before EXCEPT !.request = Acknowledged(b)]
           timed == Iterate(AdvanceTimerTCycle, acked, Ticks(b))
       IN  \/ Ticks(b) > TickBound
           \/ b.after.timer # timed.timer
           \/ ("Timer" \in b.after.request) # ("Timer" \in timed.request)
LongTimerRowRefused(b) ==
    /\ b.mode = "HaltUntilTimer"
    /\ \/ ~InterruptForeseen(b.before.timer)
       \/ Ticks(b) - TCyclesUntilInterrupt(b.before.timer) \notin 0..3
----------------------------------------------------------------------------
(* block_device_ppu_interrupt.rs.                                          *)

InVBlank(d) == d.lcd.on /\ d.lcd.line >= VBlankLine
Below(d, dots) == d.lcd.on /\ d.lcd.dot < dots

\* Coincidence is computed with the LCD off as well.
Coincidence(d) == d.lcd.line = d.lcd.lyc

ConstrainStatSignal(d) ==
    /\ d.lcd.on
    /\ \/ "Mode0" \in d.lcd.stat /\ ~InVBlank(d) /\ ~Below(d, TransferDots)
       \/ "Mode1" \in d.lcd.stat /\ InVBlank(d)
       \/ "Mode2" \in d.lcd.stat /\ ~InVBlank(d) /\ Below(d, OamDots)
       \/ "Lyc" \in d.lcd.stat /\ Coincidence(d)

\* The bit columns of the comparison of LY with LYC: column k says that the
\* lowest k bits agree.  append_interrupt_state derives them only for an LCD
\* that is on; the relation demands them of every active block.
DerivedPrefix(d, k) == d.lcd.on /\ d.lcd.line % 2^k = d.lcd.lyc % 2^k
ConstrainCoincidence(d) ==
    \A k \in 1..8 : DerivedPrefix(d, k) = (d.lcd.line % 2^k = d.lcd.lyc % 2^k)

\* The gap column of a comparison: elapsed past the distance, or short of it.
ComparisonGap(elapsed, distance) ==
    IF elapsed >= distance THEN elapsed - distance ELSE distance - elapsed - 1

NextBoundary(d) ==
    IF Below(d, OamDots) THEN OamDots ELSE IF Below(d, TransferDots) THEN TransferDots
    ELSE LineDots
StatDistance(d) == NextBoundary(d) - d.lcd.dot
VBlankDistance(d) ==
    VBlankLine * LineDots + (IF InVBlank(d) THEN FrameTCycles ELSE 0) - Position(d)

StatWatched(b) == b.before.lcd.on /\ b.mode # "HaltUntilVBlank"


\* A rise of the STAT signal across the mode boundary the block meets.
StatEvent(b) ==
    /\ StatWatched(b) /\ Ticks(b) >= StatDistance(b.before)
    /\ ~ConstrainStatSignal(b.before) /\ ConstrainStatSignal(b.after)
VBlankEvent(b) == b.before.lcd.on /\ Ticks(b) >= VBlankDistance(b.before)

ConstrainStatInterval(b) ==
    StatWatched(b) => ComparisonGap(Ticks(b), StatDistance(b.before)) \in 0..StatGapMax
ConstrainVBlankInterval(b) ==
    b.before.lcd.on => ComparisonGap(Ticks(b), VBlankDistance(b.before)) \in 0..VBlankGapMax

ConstrainInterruptBits(b) ==
    /\ "VBlank" \in b.after.request <=> "VBlank" \in Acknowledged(b) \/ VBlankEvent(b)
    /\ "LcdStat" \in b.after.request <=> "LcdStat" \in Acknowledged(b) \/ StatEvent(b)
    /\ "Joypad" \in b.after.request <=> "Joypad" \in Acknowledged(b)

\* An enabled event of a HaltIdle block falls into its last M-cycle.
ConstrainHaltIdleEventGaps(b) ==
    LET timerAt(m) == StageAfter(b.before.timer, InitialStage(b), 4 * m).irq
    IN  /\ "VBlank" \in b.before.enable /\ VBlankEvent(b) =>
              Ticks(b) - VBlankDistance(b.before) < 4
        /\ "LcdStat" \in b.before.enable /\ StatEvent(b) =>
              Ticks(b) - StatDistance(b.before) < 4
        /\ "Serial" \in b.before.enable /\ SerialCompleted(b) =>
              Ticks(b) - b.before.serial.left < 4
        /\ "Timer" \in b.before.enable => \A m \in 1..(b.cycles - 1) : ~timerAt(m)

ConstrainHaltIdleMinimality(b) ==
    b.mode = "HaltIdle" =>
        /\ b.cycles < 6 => b.after.request \cap b.before.enable # {}
        /\ ConstrainHaltIdleEventGaps(b)

ConstrainPpuInterrupt(b) ==
    /\ Quiet(b) =>
          /\ ConstrainStatInterval(b) /\ ConstrainVBlankInterval(b)
          /\ ConstrainInterruptBits(b) /\ ConstrainHaltIdleMinimality(b)
    /\ b.mode = "HaltUntilVBlank" => VBlankEvent(b) /\ Ticks(b) = VBlankDistance(b.before)

\* validate_interrupts.
PpuInterruptRowRefused(b) == Quiet(b) /\ ~ConstrainInterruptBits(b)

----------------------------------------------------------------------------
(* block_device_dma.rs.                                                    *)

ConstrainDmaState(d) ==
    /\ d.dma.index \in 0..DmaLength /\ d.dma.owed \in 0..6
    /\ d.dma.active => d.dma.index # DmaLength

ConstrainDmaSelector(b) ==
    /\ SlotKind(b, 1) \in DmaSources <=> SlotKind(b, 2) = "DmaWrite"
    /\ SlotKind(b, 1) \in DmaSources => Len(b.slots) = 2 /\ b.mode # "Instruction"

ConstrainQuietSchedule(b) ==
    /\ b.before.dma.owed = 0
    /\ b.after.dma = [b.before.dma EXCEPT !.owed =
          IF b.before.dma.active THEN Min({b.cycles, DmaLength - b.before.dma.index}) ELSE 0]

\* The byte goes from the page's source address to the same index of OAM.
ConstrainDmaByte(b) ==
    /\ b.before.dma.active /\ b.before.dma.owed # 0
    /\ b.after.dma = [b.before.dma EXCEPT !.index = @ + 1, !.owed = @ - 1,
                                          !.active = b.before.dma.index + 1 # DmaLength]
    /\ b.slots[1].address = <<b.before.dma.readable, b.before.dma.index>>
    /\ b.slots[2].address = <<"OAM", b.before.dma.index>>
    /\ b.slots[2].value = b.slots[1].value

ConstrainDma(b) ==
    /\ ConstrainDmaState(b.before) /\ ConstrainDmaState(b.after)
    /\ ConstrainDmaSelector(b)
    /\ b.mode \in LongModes => ~b.before.dma.active
    /\ Quiet(b) => ConstrainQuietSchedule(b)
    /\ SlotKind(b, 1) \in DmaSources => ConstrainDmaByte(b)

DmaRowRefused(b) ==
    \/ Quiet(b) /\ ~ConstrainQuietSchedule(b)
    \/ /\ b.mode = "DmaByte"
       /\ \/ ~b.before.dma.active \/ b.before.dma.owed = 0
          \/ b.after.dma # [b.before.dma EXCEPT !.index = @ + 1, !.owed = @ - 1,
                               !.active = b.before.dma.index + 1 < DmaLength]

----------------------------------------------------------------------------
(* Each relation evaluates the one before it on a prefix of its row, and   *)
(* each witness is built from the one before it.                           *)

PpuRelation(b) == ConstrainPpu(b) /\ EnvelopeRelation(b)
SerialRelation(b) == ConstrainSerial(b) /\ PpuRelation(b)
TimerRelation(b) == ConstrainDivider(b) /\ SerialRelation(b)
TimerCoreRelation(b) == TimerRelation(b) /\ ConstrainTimerCore(b)
PpuInterruptRelation(b) == ConstrainPpuInterrupt(b) /\ TimerCoreRelation(b)
DmaRelation(b) == ConstrainDma(b) /\ PpuInterruptRelation(b)

PpuRefused(b) == EnvelopeRefused(b) \/ PpuRowRefused(b)
SerialRefused(b) == PpuRefused(b) \/ SerialRowRefused(b)
TimerRefused(b) == SerialRefused(b) \/ DividerRowRefused(b)
TimerCoreRefused(b) == TimerRefused(b) \/ TimerCoreRowRefused(b) \/ LongTimerRowRefused(b)
PpuInterruptRefused(b) == TimerCoreRefused(b) \/ PpuInterruptRowRefused(b)
DmaRefused(b) == PpuInterruptRefused(b) \/ DmaRowRefused(b)
=============================================================================
