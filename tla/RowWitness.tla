----------------------------- MODULE RowWitness -----------------------------
(***************************************************************************)
(* The witness of a row's devices (trace/device.rs): the columns between   *)
(* the row's write and its clock are replayed from the bus events with the *)
(* executor's own operations.  A row is refused when a column cannot be    *)
(* written, and lost when a column differs from what the relation demands. *)
(***************************************************************************)
EXTENDS RowDevices

RowWrite(r) == r.io # NoIo /\ r.io.op = "write" /\ r.io.reg # "LY"

\* append_dma_remaining.
DmaRemainingRefused(r) ==
    \E d \in {r.before, r.after} : DmaLength - d.dma.index - d.dma.owed < 0

\* append_serial_witness.
WitnessSerial(r) ==
    IF Writes(r, "SC")
    THEN [start |-> r.io.val.start, internal |-> r.io.val.internal,
          left |-> IF r.io.val.start /\ r.io.val.internal THEN SerialTCycles ELSE 0]
    ELSE r.before.serial
SerialWitnessRefused(r) ==
    LET left == WitnessSerial(r).left
    IN  /\ r.mode \in RegularModes \cup {"HaltUntilSerial"} /\ left # 0 /\ r.after.serial.left = 0
        /\ Ticks(r) - left \notin 0..SerialGapMax

\* timer_post_write, with the executor's timer.
TimerPostWrite(r) ==
    LET timer == IF RowWrite(r) /\ r.io.reg \in {"DIV", "TIMA", "TMA", "TAC"}
                 THEN Access(r.before, Written(r)).timer ELSE r.before.timer
        irq   == IF Writes(r, "IF") THEN "Timer" \in r.io.val
                 ELSE "Timer" \in r.before.request /\ r.source # "Timer"
    IN  Stage(timer, irq)
TimerWitnessRefused(r) ==
    \/ r.mode \in RegularModes /\ r.cycles > 6
    \/ TimerPostWrite(r) # RowPostStage(r)

\* append_timer_long_quotient and append_interrupt_gap.
TimerLongRefused(r) ==
    \/ r.mode \in LongModes /\ (r.before.timer.div + Ticks(r)) \div DivModulus > QuotientMax
    \/ /\ r.mode = "HaltUntilTimer"
       /\ \/ ~InterruptForeseen(r.before.timer)
          \/ Ticks(r) - TCyclesUntilInterrupt(r.before.timer) \notin 0..3

\* append_ppu_transition_witness.
WitnessPosition(r) == IF LcdDisableWrite(r) THEN 0 ELSE Position(r.before)
PpuTransitionRefused(r) ==
    LET total == WitnessPosition(r) + Ticks(r)
        inside == ~LcdDisableWrite(r) /\ r.before.lcd.line >= VBlankLine
        next  == VBlankLine * LineDots + (IF inside THEN FrameTCycles ELSE 0)
    IN  /\ r.after.lcd.on
        /\ \/ total \div FrameTCycles > FrameQuotientMax
           \/ ComparisonGap(total, next) > RowGapMax

\* stat_post_write: the rise of the STAT signal at each relevant write.
StatPostWrite(r) == IF RowWrite(r) THEN Access(r.before, Written(r)) ELSE r.before
StatWriteEvent(r) ==
    /\ RowWrite(r) /\ r.io.reg \in {"LCDC", "STAT", "LYC"}
    /\ ~StatSignal(r.before) /\ StatSignal(StatPostWrite(r))

StatBoundary(r) ==
    LET d    == StatPostWrite(r)
        next == IF d.lcd.dot < OamDots THEN OamDots
                ELSE IF d.lcd.dot < TransferDots THEN TransferDots ELSE LineDots
    IN  r.mode \in RegularModes /\ d.lcd.on /\ Ticks(r) >= next - d.lcd.dot

StatWitnessLost(r) ==
    \/ StatPostWrite(r).lcd.line # RowPost(r).lcd.line
    \/ StatPostWrite(r).lcd.dot # RowPost(r).lcd.dot
    \/ StatBoundary(r) # RowBoundaryCrossed(r)
    \/ RowStatEvent(r) #
          (StatWriteEvent(r)
           \/ (StatBoundary(r) /\ ~StatSignal(StatPostWrite(r)) /\ StatSignal(r.after)))

\* append_apu_witness: the DAC columns are read back from the row's end.
ApuWitnessLost(r) == \E c \in Channels : RowDacState(r, c) # Dac(r.after.apu, c)

\* append_joypad_witness: a stage per bus slot.
WitnessJoypad(r) ==
    LET ios == RowIos(r)
        Slot(d, a) == IF a.op = "joypad" THEN Access(d, [reg |-> "ReadP1", val |-> a.input])
                      ELSE IF a.op = "write" /\ a.reg \in {"P1", "IF"} THEN Access(d, Written(r))
                      ELSE d
        stage[n \in 0..Len(ios)] ==
            IF n = 0 THEN Acknowledge(r.before, r.source) ELSE Slot(stage[n - 1], ios[n])
    IN  stage
JoypadWitnessLost(r) ==
    \E n \in 0..Len(RowIos(r)) :
        LET d == WitnessJoypad(r)[n]
        IN  RowJoypadStages(r)[n] #
               [select |-> d.joypad.select, pressed |-> d.joypad.pressed,
                irq |-> "Joypad" \in d.request]

RowRefused(r) ==
    \/ DmaRemainingRefused(r) \/ SerialWitnessRefused(r) \/ TimerWitnessRefused(r)
    \/ TimerLongRefused(r) \/ PpuTransitionRefused(r)
RowLost(r) ==
    \/ WitnessSerial(r) # RowPostWriteState(r)
    \/ StatWitnessLost(r) \/ ApuWitnessLost(r) \/ JoypadWitnessLost(r)
=============================================================================
