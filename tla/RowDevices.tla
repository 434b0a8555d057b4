----------------------------- MODULE RowDevices -----------------------------
(***************************************************************************)
(* The device half of the row-wise relation, which proves one step per row *)
(* where the packed relation proves a block.  A row is a block of one step *)
(* with three more fields:                                                 *)
(*   first   a read that precedes io at the same register (INC (HL)), or   *)
(*           NoIo                                                          *)
(*   halt    the instruction is HALT                                       *)
(*   reach   the memory regions its CPU accesses touch                     *)
(* Unlike a block, a row is constrained in every mode.                     *)
(***************************************************************************)
EXTENDS BlockMmio

CONSTANTS FrameQuotientMax, RowGapMax   \* 31 and 2^21 - 1: columns of cpu/ppu.rs

Regions == {"Vram", "Oam", "Hram", "Other"}

RegularModes == ShortModes
RowIos(r) == (IF r.first = NoIo THEN <<>> ELSE <<r.first>>)
             \o (IF r.io = NoIo THEN <<>> ELSE <<r.io>>)

\* What an interrupt bit holds once the row's IF write is made.
WrittenRequest(r, i) ==
    IF Writes(r, "IF") THEN i \in r.io.val ELSE i \in r.before.request \ {r.source}

----------------------------------------------------------------------------
(* cpu/devices.rs.                                                         *)

RowDmaSnapshot(d) ==
    /\ d.dma.index + d.dma.owed <= DmaLength
    /\ d.dma.active => d.dma.index # DmaLength
    /\ d.dma.owed # 0 => d.dma.active
    /\ ~d.dma.active => d.dma.index \in {0, DmaLength}

RowDmaGeneralTransition(r) ==
    r.mode # "DmaByte" =>
        LET start == Writes(r, "DMA")
        IN  /\ r.after.dma.readable = IF start THEN r.io.val ELSE r.before.dma.readable
            /\ r.after.dma.index = IF start THEN 0 ELSE r.before.dma.index
            /\ r.after.dma.active = (r.before.dma.active \/ start)

\* Each M-cycle owes a byte unless the index is within that many of the end.
RowDmaScheduling(r) ==
    /\ r.mode \in RegularModes =>
          r.after.dma.owed =
             IF r.before.dma.active
             THEN Cardinality({c \in 0..(r.cycles - 1) : r.before.dma.index < DmaLength - c})
             ELSE 0
    /\ r.mode \notin RegularModes \cup {"DmaByte"} => r.after.dma.owed = r.before.dma.owed
    /\ r.mode \in LongModes => ~r.before.dma.active

\* A byte owed is copied before anything else happens, and nothing else changes.
RowDmaPriorityAndCopy(r) ==
    /\ r.before.dma.owed # 0 => r.mode = "DmaByte"
    /\ r.mode = "DmaByte" =>
          /\ r.before.dma.owed # 0 /\ r.before.dma.active
          /\ r.after = [r.before EXCEPT
                !.dma = [@ EXCEPT !.index = @ + 1, !.owed = @ - 1,
                                  !.active = r.before.dma.index # DmaLength - 1]]

RowDmaCopyBus(r) ==
    r.mode = "DmaByte" =>
        /\ Len(r.slots) = 2 /\ r.before.dma.readable
        /\ r.slots[1].kind \in DmaSources /\ r.slots[2].kind = "DmaWrite"
        /\ r.slots[1].address = <<r.before.dma.readable, r.before.dma.index>>
        /\ r.slots[2].address = <<"OAM", r.before.dma.index>>
        /\ r.slots[2].value = r.slots[1].value

\* While OAM DMA runs the CPU reaches high RAM only; video memory is closed in
\* LCD mode 3, and OAM in modes 2 and 3.
RowDeviceBusAccess(r) ==
    LET d          == r.before
        modeThree  == d.lcd.on /\ ~InVBlank(d) /\ ~Below(d, OamDots) /\ Below(d, TransferDots)
        twoOrThree == d.lcd.on /\ ~InVBlank(d) /\ Below(d, TransferDots)
    IN  /\ d.dma.active => r.reach \subseteq {"Hram"} /\ RowIos(r) = <<>>
        /\ modeThree => "Vram" \notin r.reach
        /\ twoOrThree => "Oam" \notin r.reach

RowPriority(r) ==
    IF r.mode = "Interrupt"
    THEN r.source \in Pending(r.before)
         /\ \A i \in Pending(r.before) : InterruptBit(r.source) <= InterruptBit(i)
    ELSE r.source = NoInterrupt

\* Mutant: an instruction may run although an enabled interrupt is pending.
RowModeSelectionLax(r) ==
    LET pending == Pending(r.before) # {}
    IN  /\ r.mode = "HaltWake" => pending /\ r.cpu.ime # "Enabled"
        /\ r.mode \in SleepingModes => ~pending
        /\ r.halt => r.cpu2.run =
              IF pending /\ r.cpu.ime # "Enabled" THEN "HaltBug" ELSE "Halted"

RowModeSelection(r) ==
    LET pending == Pending(r.before) # {}
    IN  /\ r.mode = "Instruction" => ~(r.cpu.ime = "Enabled" /\ pending)
        /\ r.mode = "HaltWake" => pending /\ r.cpu.ime # "Enabled"
        /\ r.mode \in SleepingModes => ~pending
        /\ r.halt => r.cpu2.run =
              IF pending /\ r.cpu.ime # "Enabled" THEN "HaltBug" ELSE "Halted"

RowInterruptControl(r) ==
    /\ RowDmaSnapshot(r.before) /\ RowDmaSnapshot(r.after)
    /\ RowDmaGeneralTransition(r) /\ RowDmaScheduling(r)
    /\ RowDmaPriorityAndCopy(r) /\ RowDmaCopyBus(r)
    /\ RowDeviceBusAccess(r) /\ RowPriority(r) /\ RowModeSelection(r)

----------------------------------------------------------------------------
(* cpu.rs: the M-cycles of a machine row.                                  *)

RowCycles(r) ==
    /\ r.mode \in {"HaltWake", "DmaByte"} => r.cycles = 0
    /\ r.mode = "Interrupt" => r.cycles = 5
    /\ r.mode = "HaltIdle" => r.cycles \in 1..6

----------------------------------------------------------------------------
(* cpu/machine.rs.                                                         *)

RowPassiveModes(r) ==
    r.mode \in SleepingModes \cup {"DmaByte"} =>
        /\ r.cpu2 = r.cpu
        /\ r.mode \in SleepingModes => r.cpu.run = "Halted"

RowHaltWake(r) ==
    r.mode = "HaltWake" => r.cpu.run = "Halted" /\ r.cpu2 = [r.cpu EXCEPT !.run = "Running"]

RowInterrupt(r) ==
    r.mode = "Interrupt" =>
        /\ r.cpu.run \in {"Running", "Halted", "HaltBug"} /\ r.cpu2.run = "Running"
        /\ r.cpu.ime = "Enabled" /\ r.cpu2.ime = "Disabled" /\ r.cpu2.regs = r.cpu.regs
        /\ r.cpu2.pc = Vector(r.source)
        /\ r.cpu2.sp = (r.cpu.sp + WordModulus - 2) % WordModulus
        /\ Len(r.slots) = 2
        /\ r.slots[1].address = (r.cpu.sp + WordModulus - 1) % WordModulus
        /\ r.slots[2].address = r.cpu2.sp
        /\ r.slots[1].value = r.cpu.pc \div ByteBase
        /\ r.slots[2].value = r.cpu.pc % ByteBase

----------------------------------------------------------------------------
(* cpu/mmio.rs and cpu/registers.rs: every access sees the registers of    *)
(* the row's start, and a register changes by its own write.               *)

RowInterruptRegisters(r) ==
    r.after.enable = IF Writes(r, "IE") THEN r.io.val ELSE r.before.enable

RowStaticRegisterWrites(r) ==
    /\ Stable(r, "TMA", r.before.timer.modulo, r.after.timer.modulo)
    /\ Stable(r, "TAC", [enable |-> r.before.timer.enable, select |-> r.before.timer.select],
                        [enable |-> r.after.timer.enable, select |-> r.after.timer.select])
    /\ Stable(r, "LCDC", r.before.lcd.on, r.after.lcd.on)
    /\ Stable(r, "STAT", r.before.lcd.stat, r.after.lcd.stat)
    /\ Stable(r, "LYC", r.before.lcd.lyc, r.after.lcd.lyc)

RowPpuMode(d) ==
    IF ~d.lcd.on THEN 0
    ELSE IF InVBlank(d) THEN 1
    ELSE IF Below(d, OamDots) THEN 2 ELSE IF Below(d, TransferDots) THEN 3 ELSE 0

RowVisible(d, reg) ==
    CASE reg = "SC"   -> [start |-> d.serial.start, internal |-> d.serial.internal]
      [] reg = "DIV"  -> d.timer.div \div DivLow
      [] reg = "TIMA" -> IF d.timer.phase = 5 THEN d.timer.modulo ELSE d.timer.counter
      [] reg = "TMA"  -> d.timer.modulo
      [] reg = "TAC"  -> [enable |-> d.timer.enable, select |-> d.timer.select]
      [] reg = "IF"   -> d.request
      [] reg = "IE"   -> d.enable
      [] reg = "LCDC" -> d.lcd.on
      [] reg = "STAT" -> [stat |-> d.lcd.stat, lyc |-> Coincidence(d), mode |-> RowPpuMode(d)]
      [] reg = "LY"   -> d.lcd.line
      [] reg = "LYC"  -> d.lcd.lyc
      [] reg = "DMA"  -> d.dma.readable

RowMmioValues(r) ==
    \A n \in 1..Len(RowIos(r)) :
        LET a == RowIos(r)[n]
        IN  a.reg \notin ApuRegisters \cup {"P1"} =>
               (IF a.op = "read" THEN a.val ELSE a.seen) = RowVisible(r.before, a.reg)

----------------------------------------------------------------------------
(* cpu/serial.rs.                                                          *)

RowPostWriteState(r) ==
    IF Writes(r, "SC")
    THEN [start |-> r.io.val.start, internal |-> r.io.val.internal,
          left |-> IF r.io.val.start /\ r.io.val.internal THEN SerialTCycles ELSE 0]
    ELSE r.before.serial

RowCompleted(r) == RowPostWriteState(r).left # 0 /\ r.after.serial.left = 0

RowCountdown(r) ==
    LET post == RowPostWriteState(r).left
    IN  r.after.serial.left =
            IF RowCompleted(r) THEN 0 ELSE post - (IF post # 0 THEN Ticks(r) ELSE 0)

\* The gap between completion and the end of the row fits its five columns.
RowCompletionBoundary(r) ==
    /\ r.mode \in RegularModes \cup {"HaltUntilSerial"} /\ RowCompleted(r) =>
          Ticks(r) - RowPostWriteState(r).left \in 0..SerialGapMax
    /\ r.mode \in {"HaltUntilVBlank", "HaltUntilTimer"} =>
          RowPostWriteState(r).left = 0 /\ ~RowPostWriteState(r).start

RowHaltSerialGuard(r) ==
    r.mode = "HaltUntilSerial" =>
        /\ RowCompleted(r) /\ Ticks(r) = RowPostWriteState(r).left
        /\ RowPostWriteState(r).start /\ RowPostWriteState(r).internal
        /\ "Serial" \in r.before.enable /\ ~r.before.lcd.on

RowCompletionOutputs(r) ==
    /\ r.after.serial.internal = RowPostWriteState(r).internal
    /\ r.after.serial.start = (RowPostWriteState(r).start /\ ~RowCompleted(r))

RowSerialInterrupt(r) ==
    "Serial" \in r.after.request <=> WrittenRequest(r, "Serial") \/ RowCompleted(r)

RowSerial(r) ==
    /\ ConstrainCountdownRange(r.before) /\ ConstrainCountdownRange(r.after)
    /\ RowCountdown(r) /\ RowCompletionBoundary(r) /\ RowHaltSerialGuard(r)
    /\ RowCompletionOutputs(r) /\ RowSerialInterrupt(r)

----------------------------------------------------------------------------
(* cpu/timer.rs.                                                           *)

\* Only regular rows tick, at most six M-cycles.
RowCycleSelectors(r) == r.mode \in RegularModes => r.cycles \in 0..6

RowPostDivider(r) == IF Writes(r, "DIV") THEN 0 ELSE r.before.timer.div

\* The TIMA write first, then the TMA write that reaches a reloading TIMA.
RowPostCounter(r) ==
    LET t     == r.before.timer
        after == IF Writes(r, "TIMA") THEN (IF t.phase = 5 THEN t.modulo ELSE r.io.val) ELSE t.counter
    IN  IF Writes(r, "TMA") /\ t.phase = 5 THEN r.io.val ELSE after

RowPostPhase(r) ==
    IF Writes(r, "TIMA") /\ r.before.timer.phase # 5 THEN 0 ELSE r.before.timer.phase

RowPostStage(r) ==
    [div |-> RowPostDivider(r), counter |-> RowPostCounter(r), phase |-> RowPostPhase(r),
     latch |-> r.before.timer.latch, irq |-> WrittenRequest(r, "Timer")]

RowReload(t, s) ==
    [counter |-> IF s.phase = 5 THEN t.modulo ELSE s.counter,
     phase |-> IF s.phase \in {0, 5} THEN 0 ELSE s.phase + 1]

RowCounterTick(s, reloaded, falling) ==
    LET overflow == falling /\ reloaded.counter = CounterMax
    IN  [counter |-> IF falling THEN (reloaded.counter + 1) % (CounterMax + 1)
                     ELSE reloaded.counter,
         phase |-> IF overflow THEN 1 ELSE reloaded.phase]

RowDetectorInput(t, div) == t.enable /\ div % Period[t.select] >= Period[t.select] \div 2

\* One T-cycle, under TMA and TAC of the row's end.
RowTick(t, s) ==
    LET div     == (s.div + 1) % DivModulus
        falling == s.latch /\ ~RowDetectorInput(t, div)
        ticked  == RowCounterTick(s, RowReload(t, s), falling)
    IN  [div |-> div, counter |-> ticked.counter, phase |-> ticked.phase,
         latch |-> RowDetectorInput(t, div), irq |-> s.irq \/ s.phase = 5]

\* A row that is no long sleep ends in the stage its T-cycles lead to; a
\* HaltWake or DmaByte row has none.
RowFinalState(r) ==
    r.mode \notin LongModes =>
        LET Step(s) == RowTick(r.after.timer, s)
            ticks   == IF r.mode \in RegularModes THEN Ticks(r) ELSE 0
        IN  Stage(r.after.timer, "Timer" \in r.after.request)
                = Iterate(Step, RowPostStage(r), ticks)

RowLongTransition(r) ==
    r.mode \in LongModes =>
        /\ \E passed \in {r.before.timer.div + Ticks(r) - r.after.timer.div} :
              passed % DivModulus = 0 /\ passed \div DivModulus \in 0..QuotientMax
        /\ r.before.timer.phase = 0 /\ r.after.timer.phase = 0

RowQuietLong(r) ==
    r.mode \in {"HaltUntilVBlank", "HaltUntilSerial"} =>
        /\ ~r.before.timer.enable /\ ~r.before.timer.latch /\ ~r.after.timer.latch
        /\ r.after.timer.counter = r.before.timer.counter
        /\ "Timer" \in r.after.request <=> "Timer" \in r.before.request

RowPeriodAndRemainder(t) == Period[t.select] - (t.div % Period[t.select])

RowTimerInterruptTransition(r) ==
    r.mode = "HaltUntilTimer" =>
        LET t == r.before.timer
        IN  /\ t.enable /\ "Timer" \in r.before.enable /\ ~r.before.lcd.on
            /\ t.latch = RowDetectorInput(t, t.div)
            /\ \E gap \in 0..3 :
                  /\ Ticks(r) = RowPeriodAndRemainder(t)
                                + (CounterMax - t.counter) * Period[t.select] + 5 + gap
                  /\ r.after.timer.latch = (t.select = Fastest /\ gap = 3)
            /\ r.after.timer.counter = t.modulo /\ "Timer" \in r.after.request

RowTimer(r) ==
    /\ RowCycleSelectors(r) /\ RowFinalState(r)
    /\ RowLongTransition(r) /\ RowQuietLong(r) /\ RowTimerInterruptTransition(r)

----------------------------------------------------------------------------
(* cpu/ppu.rs.                                                             *)

RowDisabledState(r) == ~r.before.lcd.on => Position(r.before) = 0

\* The LCD between the row's write and its clock.
RowPost(r) ==
    [r.after EXCEPT !.lcd.line = IF LcdDisableWrite(r) THEN 0 ELSE r.before.lcd.line,
                    !.lcd.dot  = IF LcdDisableWrite(r) THEN 0 ELSE r.before.lcd.dot]

RowPosition(r) ==
    IF r.after.lcd.on
    THEN \E passed \in {Position(RowPost(r)) + Ticks(r) - Position(r.after)} :
            passed % FrameTCycles = 0 /\ passed \div FrameTCycles \in 0..FrameQuotientMax
    ELSE Position(r.after) = 0

\* The next vertical blank is this frame's, or the next one's from within it.
RowVBlankDistance(r) ==
    VBlankLine * LineDots
    + (IF RowPost(r).lcd.line >= VBlankLine THEN FrameTCycles ELSE 0) - Position(RowPost(r))

RowVBlankEvent(r) == r.after.lcd.on /\ Ticks(r) >= RowVBlankDistance(r)

RowVBlankInterval(r) ==
    /\ r.after.lcd.on => ComparisonGap(Ticks(r), RowVBlankDistance(r)) \in 0..RowGapMax
    /\ r.mode = "HaltUntilVBlank" => Ticks(r) = RowVBlankDistance(r)

RowHaltVBlankGuard(r) ==
    r.mode = "HaltUntilVBlank" =>
        r.before.lcd.on /\ "VBlank" \in r.before.enable /\ "Joypad" \notin r.before.enable

RowVBlankInterrupt(r) ==
    "VBlank" \in r.after.request <=> WrittenRequest(r, "VBlank") \/ RowVBlankEvent(r)

RowStatSignal(d) ==
    /\ d.lcd.on
    /\ \/ "Mode0" \in d.lcd.stat /\ RowPpuMode(d) = 0
       \/ "Mode1" \in d.lcd.stat /\ RowPpuMode(d) = 1
       \/ "Mode2" \in d.lcd.stat /\ RowPpuMode(d) = 2
       \/ "Lyc" \in d.lcd.stat /\ Coincidence(d)

RowStatRelevantWrite(r) == Writes(r, "LCDC") \/ Writes(r, "STAT") \/ Writes(r, "LYC")

RowBoundaryCrossed(r) ==
    /\ r.mode \in RegularModes /\ r.after.lcd.on
    /\ Ticks(r) >= StatDistance(RowPost(r))

\* STAT rises by a write, or at the LCD mode boundary that the row crosses.
RowStatEvent(r) ==
    \/ RowStatRelevantWrite(r) /\ ~RowStatSignal(r.before) /\ RowStatSignal(RowPost(r))
    \/ RowBoundaryCrossed(r) /\ ~RowStatSignal(RowPost(r)) /\ RowStatSignal(r.after)

RowStatInterval(r) ==
    r.mode \in RegularModes /\ r.after.lcd.on =>
        ComparisonGap(Ticks(r), StatDistance(RowPost(r))) \in 0..StatGapMax

RowLongStatQuiet(r) == r.mode = "HaltUntilVBlank" /\ r.after.lcd.on => r.after.lcd.stat = {}

RowStatInterrupt(r) ==
    "LcdStat" \in r.after.request <=> WrittenRequest(r, "LcdStat") \/ RowStatEvent(r)

RowPpu(r) ==
    /\ \A d \in {r.before, r.after} :
          d.lcd.line \in 0..(Lines - 1) /\ d.lcd.dot \in 0..(LineDots - 1)
    /\ RowDisabledState(r) /\ RowPosition(r)
    /\ RowVBlankInterval(r) /\ RowHaltVBlankGuard(r) /\ RowVBlankInterrupt(r)
    /\ RowStatInterval(r) /\ RowLongStatQuiet(r) /\ RowStatInterrupt(r)

----------------------------------------------------------------------------
(* cpu/joypad.rs: one stage per bus slot, from the state of the slot       *)
(* before it.  A stage is [select, pressed, irq].                          *)

RowLow(s) == s.select \cap s.pressed # {}

RowJoypadSlot(s, a) ==
    LET next == [s EXCEPT !.pressed = IF a.op = "joypad" THEN a.input ELSE @,
                          !.select = IF a.op = "write" /\ a.reg = "P1" THEN a.val.select ELSE @]
        written == IF a.op = "write" /\ a.reg = "IF" THEN "Joypad" \in a.val ELSE s.irq
    IN  [next EXCEPT !.irq = written \/ (~RowLow(s) /\ RowLow(next))]

RowJoypadStages(r) ==
    LET ios == RowIos(r)
        start == [select |-> r.before.joypad.select, pressed |-> r.before.joypad.pressed,
                  irq |-> "Joypad" \in r.before.request \ {r.source}]
        stage[n \in 0..Len(ios)] == IF n = 0 THEN start ELSE RowJoypadSlot(stage[n - 1], ios[n])
    IN  stage

\* A read shows the lines as its own sample leaves them.
RowJoypadBusValues(s, next, a) ==
    /\ a.op = "joypad" => /\ a.seen = s.pressed
                          /\ a.val = [select |-> next.select, low |-> RowLow(next)]
    /\ a.op = "write" /\ a.reg = "P1" => a.seen = [select |-> s.select, low |-> RowLow(s)]

RowJoypad(r) ==
    LET stage == RowJoypadStages(r)
        last  == stage[Len(RowIos(r))]
    IN  /\ \A n \in 1..Len(RowIos(r)) :
              RowJoypadBusValues(stage[n - 1], stage[n], RowIos(r)[n])
        /\ r.after.joypad = [select |-> last.select, pressed |-> last.pressed]
        /\ "Joypad" \in r.after.request <=> last.irq

----------------------------------------------------------------------------
(* cpu/apu.rs.                                                             *)

RowPoweredOffState(a) ==
    ~a.power => /\ \A reg \in ControlRegisters \ LengthRegisters : a.registers[reg] = {}
                /\ a.active = {}

RowApuBusValues(r) ==
    \A n \in 1..Len(RowIos(r)) :
        LET a == RowIos(r)[n]
        IN  a.reg \in ApuRegisters =>
               (IF a.op = "read" THEN a.val ELSE a.seen) = VisibleByte(r.before.apu, a.reg)

\* The DAC of a channel after the row, from its write if the unit has power.
RowDacState(r, c) ==
    /\ ~PowerOff(r)
    /\ IF ApuWrites(r, DacRegister[c]) /\ r.before.apu.power
       THEN "top" \in r.io.val ELSE Dac(r.before.apu, c)

RowApuControlUpdates(r) ==
    r.after.apu.registers =
        IF PowerOff(r) THEN [reg \in ControlRegisters |-> {}]
        ELSE [reg \in ControlRegisters |->
                IF ApuWrites(r, reg) /\ (reg \in LengthRegisters \/ r.before.apu.power)
                THEN r.io.val \ ReadMask[reg] ELSE r.before.apu.registers[reg]]

RowApuWaveUpdates(r) ==
    r.after.apu.wave = IF ApuWrites(r, "Wave") THEN r.io.val ELSE r.before.apu.wave

RowApuMasterStatus(r) ==
    /\ r.after.apu.power = (~PowerOff(r) /\ (r.before.apu.power \/ PowerOn(r)))
    /\ \A c \in Channels :
          LET disabled == ApuWrites(r, DacRegister[c]) /\ "top" \notin r.io.val
              trigger  == ApuWrites(r, TriggerRegister[c]) /\ "top" \in r.io.val
          IN  c \in r.after.apu.active <=>
                 /\ ~PowerOff(r)
                 /\ (c \in r.before.apu.active /\ ~disabled) \/ (trigger /\ RowDacState(r, c))

RowApu(r) ==
    /\ ConstrainStorageMasks(r.before.apu) /\ ConstrainStorageMasks(r.after.apu)
    /\ RowPoweredOffState(r.before.apu) /\ RowApuBusValues(r)
    /\ \A c \in Channels : RowDacState(r, c) = Dac(r.after.apu, c)
    /\ RowApuControlUpdates(r) /\ RowApuWaveUpdates(r) /\ RowApuMasterStatus(r)

----------------------------------------------------------------------------
(* The conjunction evaluate_constraints_for_view pushes for the devices.   *)

RowDeviceRelation(r) ==
    /\ RowInterruptControl(r) /\ RowCycles(r) /\ RowPassiveModes(r)
    /\ RowHaltWake(r) /\ RowInterrupt(r)
    /\ RowInterruptRegisters(r) /\ RowStaticRegisterWrites(r) /\ RowMmioValues(r)
    /\ RowSerial(r) /\ RowPpu(r) /\ RowJoypad(r) /\ RowTimer(r) /\ RowApu(r)
=============================================================================
