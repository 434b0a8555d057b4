----------------------------- MODULE BlockMmio ------------------------------
(***************************************************************************)
(* The packed relation of a block with a device register access: one       *)
(* instruction that reads or writes one register, then the device clock.   *)
(* The access is [op, reg, val, seen, input]: op is "read", "write" or     *)
(* "joypad" (a read of P1, which takes a byte of the input log); seen is   *)
(* the value a write replaces, as the program would have read it; input is *)
(* what the log said was pressed.                                          *)
(***************************************************************************)
EXTENDS BlockQuiet, BlockApu

CONSTANTS DivLow      \* 256: DIV shows the divider above its low byte

ASSUME DivLowAssumption == DivLow \in Nat \ {0} /\ DivModulus % DivLow = 0

Writes(b, reg) == b.io.reg = reg /\ b.io.op = "write"
ReadsJoypad(b) == b.io.op = "joypad"

\* The access a write makes; of STAT and P1 only some bits are written.
Written(b) ==
    [reg |-> b.io.reg,
     val |-> CASE b.io.reg = "STAT" -> b.io.val.stat
               [] b.io.reg = "P1" -> b.io.val.select
               [] OTHER -> b.io.val]

----------------------------------------------------------------------------
(* dmg.rs, read_mmio: what the executor lets the program see.              *)

VisibleJoypad(d) == [select |-> d.joypad.select, low |-> LineLow(d)]

ReadMmio(d, reg) ==
    CASE reg = "P1"   -> VisibleJoypad(d)
      [] reg = "SC"   -> [start |-> d.serial.start, internal |-> d.serial.internal]
      [] reg = "DIV"  -> d.timer.div \div DivLow
      [] reg = "TIMA" -> IF d.timer.phase = LastPhase THEN d.timer.modulo ELSE d.timer.counter
      [] reg = "TMA"  -> d.timer.modulo
      [] reg = "TAC"  -> [enable |-> d.timer.enable, select |-> d.timer.select]
      [] reg = "IF"   -> d.request
      [] reg = "IE"   -> d.enable
      [] reg = "LCDC" -> d.lcd.on
      [] reg = "STAT" -> [stat |-> d.lcd.stat, lyc |-> d.lcd.line = d.lcd.lyc, mode |-> PpuMode(d)]
      [] reg = "LY"   -> d.lcd.line
      [] reg = "LYC"  -> d.lcd.lyc
      [] reg = "DMA"  -> d.dma.readable
      [] reg \in ApuRegisters -> ReadApu(d.apu, reg)

----------------------------------------------------------------------------
(* block_device_mmio.rs.                                                   *)

\* A value is bound as read, or as replaced by a write.
Bound(b, reg, visible) ==
    b.io.reg = reg => /\ b.io.op = "read" => b.io.val = visible
                      /\ b.io.op = "write" => b.io.seen = visible

\* No device register is accessed while OAM DMA runs; FF46 starts it.
ConstrainDmaStart(b) ==
    b.io # NoIo =>
        /\ ~b.before.dma.active
        /\ Bound(b, "DMA", b.before.dma.readable)
        /\ b.after.dma = IF Writes(b, "DMA")
                         THEN [readable |-> b.io.val, index |-> 0, active |-> TRUE, owed |-> 0]
                         ELSE b.before.dma

ConstrainInterruptEnable(b) ==
    b.io # NoIo =>
        /\ Bound(b, "IE", b.before.enable)
        /\ b.after.enable = IF Writes(b, "IE") THEN b.io.val ELSE b.before.enable

ConstrainDirectRegisterTuples(b) ==
    /\ Bound(b, "IF", b.before.request)
    /\ Bound(b, "LY", b.before.lcd.line)
    /\ Bound(b, "DIV", b.before.timer.div \div DivLow)

\* Mutant: what a TMA access saw is not bound.
ConstrainPackedRegisterTuplesPartly(b) ==
    /\ Bound(b, "SC", [start |-> b.before.serial.start, internal |-> b.before.serial.internal])
    /\ Bound(b, "TAC", [enable |-> b.before.timer.enable, select |-> b.before.timer.select])
    /\ Bound(b, "LCDC", b.before.lcd.on)
    /\ Bound(b, "LYC", b.before.lcd.lyc)

ConstrainPackedRegisterTuples(b) ==
    /\ Bound(b, "SC", [start |-> b.before.serial.start, internal |-> b.before.serial.internal])
    /\ Bound(b, "TMA", b.before.timer.modulo)
    /\ Bound(b, "TAC", [enable |-> b.before.timer.enable, select |-> b.before.timer.select])
    /\ Bound(b, "LCDC", b.before.lcd.on)
    /\ Bound(b, "LYC", b.before.lcd.lyc)

\* A register changes by its own write and in no other way; SC is among them.
Stable(b, reg, before, after) == after = IF Writes(b, reg) THEN Written(b).val ELSE before
ConstrainSerialControlStable(b) ==
    b.io # NoIo =>
        Stable(b, "SC", [start |-> b.before.serial.start, internal |-> b.before.serial.internal],
                        [start |-> b.after.serial.start, internal |-> b.after.serial.internal])
ConstrainStablePackedRegisters(b) ==
    b.io # NoIo =>
        /\ Stable(b, "TMA", b.before.timer.modulo, b.after.timer.modulo)
        /\ Stable(b, "TAC", [enable |-> b.before.timer.enable, select |-> b.before.timer.select],
                            [enable |-> b.after.timer.enable, select |-> b.after.timer.select])
        /\ Stable(b, "LCDC", b.before.lcd.on, b.after.lcd.on)
        /\ Stable(b, "STAT", b.before.lcd.stat, b.after.lcd.stat)
        /\ Stable(b, "LYC", b.before.lcd.lyc, b.after.lcd.lyc)

ConstrainMmio(b) ==
    /\ b.io # NoIo => (b.io.reg = "P1" => b.io.op # "read") /\ (ReadsJoypad(b) => b.io.reg = "P1")
    /\ ConstrainDmaStart(b) /\ ConstrainInterruptEnable(b)
    /\ ConstrainDirectRegisterTuples(b) /\ ConstrainPackedRegisterTuples(b)
    /\ ConstrainStablePackedRegisters(b)

----------------------------------------------------------------------------
(* block_device_joypad.rs.                                                 *)

ConstrainJoypadTransition(b) ==
    /\ b.after.joypad.pressed = IF ReadsJoypad(b) THEN b.io.input ELSE b.before.joypad.pressed
    /\ b.after.joypad.select = IF Writes(b, "P1") THEN b.io.val.select ELSE b.before.joypad.select

ConstrainJoypadTuple(b) ==
    /\ ReadsJoypad(b) => /\ b.io.seen = b.before.joypad.pressed
                         /\ b.io.val = VisibleJoypad(b.after)
    /\ Writes(b, "P1") => b.io.seen = VisibleJoypad(b.before)

JoypadFalls(b) == ~LineLow(b.before) /\ LineLow(b.after)

ConstrainJoypadInterrupt(b) ==
    b.io # NoIo =>
        ("Joypad" \in b.after.request <=>
            IF Writes(b, "IF") THEN "Joypad" \in b.io.val
            ELSE \/ "Joypad" \in b.before.request
                 \/ (ReadsJoypad(b) \/ Writes(b, "P1")) /\ JoypadFalls(b))

ConstrainJoypad(b) ==
    ConstrainJoypadTransition(b) /\ ConstrainJoypadTuple(b) /\ ConstrainJoypadInterrupt(b)

JoypadRowRefused(b) ==
    \/ b.after.joypad # [select  |-> IF Writes(b, "P1") THEN b.io.val.select ELSE b.before.joypad.select,
                         pressed |-> IF ReadsJoypad(b) THEN b.io.input ELSE b.before.joypad.pressed]
    \/ ~ConstrainJoypadInterrupt(b)

----------------------------------------------------------------------------
(* block_device_serial_mmio.rs: the write, then the clock.                 *)

PostSerial(b) ==
    IF Writes(b, "SC")
    THEN [start |-> b.io.val.start, internal |-> b.io.val.internal,
          left |-> IF b.io.val.start /\ b.io.val.internal THEN SerialTCycles ELSE 0]
    ELSE b.before.serial
PostRequested(b, i) == IF Writes(b, "IF") THEN i \in b.io.val ELSE i \in b.before.request
PostCompleted(b) == PostSerial(b).left # 0 /\ b.after.serial.left = 0

ConstrainCountdownTransition(b) ==
    LET post == PostSerial(b)
    IN  /\ b.after.serial.left = IF PostCompleted(b) THEN 0
                                 ELSE post.left - (IF post.left # 0 THEN Ticks(b) ELSE 0)
        /\ PostCompleted(b) => Ticks(b) - post.left \in 0..SerialGapMax
        /\ post.left # 0 => post.start /\ post.internal

ConstrainRegisterCompletion(b) ==
    /\ b.after.serial.internal = PostSerial(b).internal
    /\ b.after.serial.start = (PostSerial(b).start /\ ~PostCompleted(b))

ConstrainSerialMmioInterrupt(b) ==
    "Serial" \in b.after.request <=> PostRequested(b, "Serial") \/ PostCompleted(b)

ConstrainSerialMmio(b) ==
    b.io # NoIo => /\ ConstrainCountdownTransition(b) /\ ConstrainRegisterCompletion(b)
                   /\ ConstrainSerialMmioInterrupt(b)

SerialMmioRowRefused(b) ==
    LET post      == PostSerial(b)
        left      == Max({0, post.left - Ticks(b)})
        completed == post.left # 0 /\ left = 0
    IN  /\ b.io # NoIo
        /\ \/ b.after.serial # [post EXCEPT !.left = left, !.start = @ /\ ~completed]
           \/ ("Serial" \in b.after.request) # (PostRequested(b, "Serial") \/ completed)

----------------------------------------------------------------------------
(* block_device_timer_mmio.rs.                                             *)

\* constrain_post_state: the timer's columns between the write and the clock.
PostTimer(b) ==
    LET t == b.before.timer
    IN  [t EXCEPT
          !.div     = IF Writes(b, "DIV") THEN 0 ELSE @,
          !.counter = IF Writes(b, "TIMA") THEN (IF t.phase = 5 THEN t.modulo ELSE b.io.val)
                      ELSE IF Writes(b, "TMA") /\ t.phase = 5 THEN b.io.val ELSE @,
          !.phase   = IF Writes(b, "TIMA") /\ t.phase # 5 THEN 0 ELSE @,
          !.modulo  = IF Writes(b, "TMA") THEN b.io.val ELSE @,
          !.enable  = IF Writes(b, "TAC") THEN b.io.val.enable ELSE @,
          !.select  = IF Writes(b, "TAC") THEN b.io.val.select ELSE @]

ConstrainFf05Tuple(b) ==
    LET t == b.before.timer IN Bound(b, "TIMA", IF t.phase = 5 THEN t.modulo ELSE t.counter)

\* The stages of timer_core, started after the write.
ConstrainTimerMmioFinal(b) ==
    LET post == PostTimer(b)
    IN  /\ b.after.timer.modulo = post.modulo
        /\ b.after.timer.enable = post.enable /\ b.after.timer.select = post.select
        /\ Stage(b.after.timer, "Timer" \in b.after.request)
               = StageAfter(post, Stage(post, PostRequested(b, "Timer")), Ticks(b))

ConstrainTimerMmio(b) == b.io # NoIo => ConstrainFf05Tuple(b) /\ ConstrainTimerMmioFinal(b)

\* append_timer_mmio_row replays the executor's own timer.
TimerMmioRowRefused(b) ==
    /\ b.io # NoIo
    /\ LET write   == b.io.op = "write" /\ b.io.reg \in {"DIV", "TIMA", "TMA", "TAC", "IF"}
           written == IF write THEN Access(b.before, Written(b))
                      ELSE b.before
           clocked == Iterate(AdvanceTimerTCycle, written, Ticks(b))
       IN  \/ \E reg \in {"DIV", "TIMA", "TMA", "TAC"} : ~Bound(b, reg, ReadMmio(b.before, reg))
           \/ Ticks(b) > TickBound
           \/ b.after.timer # clocked.timer
           \/ ("Timer" \in b.after.request) # ("Timer" \in clocked.request)

----------------------------------------------------------------------------
(* block_device_ppu_mmio.rs.                                               *)

LcdDisableWrite(b) == Writes(b, "LCDC") /\ ~b.io.val

\* The LCD between the write and the clock: the position of the block's start,
\* the registers of its end.
PostLcd(b) ==
    [b.after EXCEPT !.lcd.line = IF LcdDisableWrite(b) THEN 0 ELSE b.before.lcd.line,
                    !.lcd.dot  = IF LcdDisableWrite(b) THEN 0 ELSE b.before.lcd.dot]

ConstrainPostPosition(b) == ~b.before.lcd.on => Position(b.before) = 0

ConstrainLcdStatusTuple(b) ==
    LET d    == b.before
        mode == IF InVBlank(d) THEN 1
                ELSE IF ~Below(d, TransferDots) THEN 0 ELSE IF Below(d, OamDots) THEN 2 ELSE 3
    IN  Bound(b, "STAT", [stat |-> d.lcd.stat, lyc |-> Coincidence(d), mode |-> mode])

ImmediateStat(b) ==
    /\ Writes(b, "LCDC") \/ Writes(b, "STAT") \/ Writes(b, "LYC")
    /\ ~ConstrainStatSignal(b.before) /\ ConstrainStatSignal(PostLcd(b))

PostStatEvent(b) ==
    /\ b.after.lcd.on /\ Ticks(b) >= StatDistance(PostLcd(b))
    /\ ~ConstrainStatSignal(PostLcd(b)) /\ ConstrainStatSignal(b.after)
PostVBlankEvent(b) == b.after.lcd.on /\ Ticks(b) >= VBlankDistance(PostLcd(b))

ConstrainPpuMmioInterrupts(b) ==
    /\ "VBlank" \in b.after.request <=> PostRequested(b, "VBlank") \/ PostVBlankEvent(b)
    /\ "LcdStat" \in b.after.request <=>
          PostRequested(b, "LcdStat") \/ ImmediateStat(b) \/ PostStatEvent(b)

ConstrainClockedPosition(b) ==
    IF b.after.lcd.on
    THEN \E wrap \in 0..1 :
            Position(b.after) = Position(PostLcd(b)) + Ticks(b) - FrameTCycles * wrap
    ELSE Position(PostLcd(b)) = 0 /\ Position(b.after) = 0

ConstrainPostIntervals(b) ==
    b.after.lcd.on =>
        /\ ComparisonGap(Ticks(b), StatDistance(PostLcd(b))) \in 0..StatGapMax
        /\ ComparisonGap(Ticks(b), VBlankDistance(PostLcd(b))) \in 0..VBlankGapMax

ConstrainPpuMmio(b) ==
    b.io # NoIo =>
        /\ ConstrainPostPosition(b) /\ ConstrainLcdStatusTuple(b)
        /\ ConstrainPpuMmioInterrupts(b) /\ ConstrainClockedPosition(b)
        /\ ConstrainPostIntervals(b)

\* append_ppu_mmio_row replays the access and the executor's own clock.
PpuMmioRowRefused(b) ==
    /\ b.io # NoIo
    /\ LET written == IF b.io.op = "write" /\ b.io.reg # "LY"
                      THEN Access(b.before, Written(b)) ELSE b.before
           clocked == AdvanceMCycles(written, b.cycles)
       IN  \/ ~ReadsJoypad(b) /\ ~Bound(b, b.io.reg, ReadMmio(b.before, b.io.reg))
           \/ b.after.lcd # clocked.lcd
           \/ b.after.request \cap {"VBlank", "LcdStat"} # clocked.request \cap {"VBlank", "LcdStat"}

----------------------------------------------------------------------------
(* The chain of relations, continued; the coincidence columns and the      *)
(* stability of SC are stated apart.                                       *)

MmioRelation(b) == ConstrainMmio(b) /\ DmaRelation(b)
JoypadRelation(b) == ConstrainJoypad(b) /\ MmioRelation(b)
ApuRelation(b) == ConstrainApu(b) /\ JoypadRelation(b)
SerialMmioRelation(b) == ConstrainSerialMmio(b) /\ ApuRelation(b)
TimerMmioRelation(b) == SerialMmioRelation(b) /\ ConstrainTimerMmio(b)
DeviceRelation(b) == ConstrainPpuMmio(b) /\ TimerMmioRelation(b)

JoypadRefused(b) == DmaRefused(b) \/ JoypadRowRefused(b)
ApuRefused(b) == JoypadRefused(b) \/ ApuRowRefused(b)
SerialMmioRefused(b) == ApuRefused(b) \/ SerialMmioRowRefused(b)
TimerMmioRefused(b) == SerialMmioRefused(b) \/ TimerMmioRowRefused(b)
DeviceRefused(b) == TimerMmioRefused(b) \/ PpuMmioRowRefused(b)
=============================================================================
