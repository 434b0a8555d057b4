---------------------------- MODULE BlockDevices ----------------------------
(***************************************************************************)
(* The device relation of the packed proof against the machine it proves.  *)
(* Blocks is the set of rows the executor and the block builder can make   *)
(* in the present state; the properties say that the relation accepts each *)
(* of them and nothing like them that the machine did not do.              *)
(***************************************************************************)
EXTENDS StepRelation, RowWitness, Functions

CONSTANTS
    Lanes,     \* M-cycles of the instructions of the packed quiet blocks tried
    Readable,  \* registers the program reads
    Words      \* program counters and stack pointers at an interrupt

----------------------------------------------------------------------------
(* The rows.                                                               *)

Cpu(pc, sp, i, r) == [regs |-> "regs", pc |-> pc, sp |-> sp, ime |-> i, run |-> r]

Row(mode, m, after) ==
    [mode |-> mode, before |-> dev, after |-> after, cycles |-> m,
     io |-> NoIo, source |-> NoInterrupt, slots |-> <<>>,
     cpu |-> Cpu(0, 0, ime, run), cpu2 |-> Cpu(0, 0, ime, run)]

\* An access as its bus event records it.
Io(a) ==
    IF a.reg = "ReadP1"
    THEN [op |-> "joypad", reg |-> "P1", val |-> VisibleJoypad(Access(dev, a)),
          seen |-> dev.joypad.pressed, input |-> a.val]
    ELSE [op |-> "write", reg |-> a.reg, seen |-> ReadMmio(dev, a.reg), input |-> {},
          val |-> CASE a.reg = "STAT" -> [stat |-> a.val]
                    [] a.reg = "P1" -> [select |-> a.val]
                    [] OTHER -> a.val]
ReadIo(reg) == [op |-> "read", reg |-> reg, val |-> ReadMmio(dev, reg), seen |-> 0, input |-> {}]

AccessBlocks ==
    {[Row("Instruction", m, Timed(Access(dev, a[1]), m, dev.dma.active)) EXCEPT !.io = Io(a[1])] :
        m \in Cycles, a \in {x \in Accesses[program] : Len(x) = 1}}
    \cup {[Row("Instruction", m, Timed(dev, m, dev.dma.active)) EXCEPT !.io = ReadIo(reg)] :
        m \in Cycles, reg \in Readable[program]}

\* Instructions without an access share a block while no interrupt is due
\* between them; a block of several takes no DMA byte.
AfterLanes(ms) ==
    LET after[n \in 0..Len(ms)] ==
            IF n = 0 THEN dev ELSE Timed(after[n - 1], ms[n], after[n - 1].dma.active)
    IN  after
QuietBlocks ==
    {Row("Instruction", SumFunction(ms), AfterLanes(ms)[Len(ms)]) :
        ms \in {x \in Lanes : Len(x) > 1 =>
                    /\ ~dev.dma.active
                    /\ ime = "Enabled" => \A n \in 1..(Len(x) - 1) : Pending(AfterLanes(x)[n]) = {}}}

InstructionBlocks ==
    IF CanExecute THEN QuietBlocks \cup (IF dev.dma.active THEN {} ELSE AccessBlocks) ELSE {}

\* The dispatch pushes the program counter, high byte first.
InterruptBlocks ==
    IF Settled /\ run # "Stopped" /\ ime = "Enabled" /\ Pending(dev) # {}
    THEN LET i == PendingInterrupt(dev)
         IN  {[Row("Interrupt", 5, Timed(Acknowledge(dev, i), 5, dev.dma.active)) EXCEPT
                  !.source = i,
                  !.cpu = Cpu(pc, sp, ime, run),
                  !.cpu2 = Cpu(Vector(i), (sp + WordModulus - 2) % WordModulus,
                               "Disabled", "Running"),
                  !.slots = <<[kind |-> "MemoryWrite", value |-> pc \div ByteBase,
                               address |-> (sp + WordModulus - 1) % WordModulus],
                              [kind |-> "MemoryWrite", value |-> pc % ByteBase,
                               address |-> (sp + WordModulus - 2) % WordModulus]>>] :
                 pc \in Words, sp \in Words}
    ELSE {}

HaltWakeBlocks ==
    IF Settled /\ run = "Halted" /\ ime # "Enabled" /\ Pending(dev) # {}
    THEN {[Row("HaltWake", 0, dev) EXCEPT !.cpu2 = Cpu(0, 0, ime, "Running")]}
    ELSE {}

DmaByteBlocks ==
    IF dev.dma.owed # 0 /\ dev.dma.readable
    THEN {[Row("DmaByte", 0, CompleteDmaByte(dev)) EXCEPT
              !.slots = <<[kind |-> kind, address |-> <<dev.dma.readable, dev.dma.index>>, value |-> 1],
                          [kind |-> "DmaWrite", address |-> <<"OAM", dev.dma.index>>, value |-> 1]>>] :
             kind \in DmaSources}
    ELSE {}

\* The step of a sleeping CPU: the first long skip that applies, or HaltIdle.
SleepMode ==
    IF HaltUntilVBlankMCycles(dev) # 0 THEN <<"HaltUntilVBlank", HaltUntilVBlankMCycles(dev)>>
    ELSE IF HaltUntilSerialMCycles(dev) # 0 THEN <<"HaltUntilSerial", HaltUntilSerialMCycles(dev)>>
    ELSE IF HaltUntilTimerMCycles(dev) # 0 THEN <<"HaltUntilTimer", HaltUntilTimerMCycles(dev)>>
    ELSE <<"HaltIdle", HaltIdleMCycles(dev)>>
Slept(mode, m) ==
    IF mode = "HaltIdle" THEN Timed(dev, m, dev.dma.active) ELSE AdvanceQuietLong(dev, m)
SleepBlocks ==
    IF Asleep THEN {Row(SleepMode[1], SleepMode[2], Slept(SleepMode[1], SleepMode[2]))} ELSE {}

Blocks ==
    InstructionBlocks \cup InterruptBlocks \cup HaltWakeBlocks \cup DmaByteBlocks \cup SleepBlocks

----------------------------------------------------------------------------
(* The rows of the row-wise relation: one step each.                       *)

\* Memory the executor lets an instruction touch in the present state.
Reachable ==
    IF dev.dma.active THEN {"Hram"}
    ELSE Regions \ ((IF PpuMode(dev) = 3 THEN {"Vram"} ELSE {})
                    \cup (IF PpuMode(dev) \in {2, 3} THEN {"Oam"} ELSE {}))

AsRow(b) ==
    [mode |-> b.mode, before |-> b.before, after |-> b.after, cycles |-> b.cycles,
     io |-> b.io, source |-> b.source, slots |-> b.slots, cpu |-> b.cpu, cpu2 |-> b.cpu2,
     first |-> NoIo, halt |-> FALSE,
     reach |-> IF b.mode = "Instruction" /\ b.io = NoIo THEN Reachable ELSE {}]

\* A read and a write of one register in one instruction.
ReadModifyWriteRows ==
    {LET read == [reg |-> "ReadP1", val |-> {"actions"}]
         both == IF w.reg = "P1" THEN <<read, w>> ELSE <<w>>
         seen == IF w.reg = "P1" THEN VisibleJoypad(Access(dev, read)) ELSE Io(w).seen
     IN  [AsRow(Row("Instruction", m, Timed(AccessAll(dev, both), m, dev.dma.active))) EXCEPT
             !.first = IF w.reg = "P1" THEN Io(read) ELSE ReadIo(w.reg),
             !.io = [Io(w) EXCEPT !.seen = seen],
             !.reach = {}] :
        m \in Cycles, w \in {a[1] : a \in {x \in Accesses[program] : Len(x) = 1 /\ x[1].reg # "ReadP1"}}}

HaltRows ==
    IF "HALT" \in Controls[program]
    THEN {[AsRow(Row("Instruction", 1, Timed(dev, 1, dev.dma.active))) EXCEPT
              !.halt = TRUE,
              !.cpu2.run = IF ime # "Enabled" /\ Pending(dev) # {} THEN "HaltBug" ELSE "Halted"]}
    ELSE {}

Rows ==
    {AsRow(b) : b \in InterruptBlocks \cup HaltWakeBlocks \cup DmaByteBlocks \cup SleepBlocks}
    \cup (IF CanExecute
          THEN {AsRow(Row("Instruction", m, Timed(dev, m, dev.dma.active))) : m \in Cycles}
               \cup HaltRows
               \cup (IF dev.dma.active THEN {} ELSE {AsRow(b) : b \in AccessBlocks} \cup ReadModifyWriteRows)
          ELSE {})

----------------------------------------------------------------------------
(* Properties.                                                             *)

\* Whatever the machine does can be proved: the witness of every block is built
\* without an error and satisfies every constraint of the device relation.
BlocksProvable == \A b \in Blocks : ~DeviceRefused(b) /\ DeviceRelation(b)

\* What a wrong machine could do to d: lose or make up a request, or leave one
\* register, counter or position elsewhere.
Faults == Interrupts \cup Selects \cup
    {"IE", "DIV", "TIMA", "TMA", "TAC", "latch", "phase", "left", "start", "internal", "LCDC",
     "STAT", "LYC", "line", "dot", "select", "pressed", "power", "active", "NR11", "NR12",
     "Wave", "dma", "index", "owed"}

Faulty(d, f) ==
    CASE f \in Interrupts -> [d EXCEPT !.request = (@ \ {f}) \cup ({f} \ @)]
      [] f \in Selects    -> [d EXCEPT !.timer.select = f]
      [] f = "IE"    -> [d EXCEPT !.enable = Interrupts \ @]
      [] f = "DIV"   -> [d EXCEPT !.timer.div = (@ + 4) % DivModulus]
      [] f = "TIMA"  -> [d EXCEPT !.timer.counter = (@ + 1) % (CounterMax + 1)]
      [] f = "TMA"   -> [d EXCEPT !.timer.modulo = (@ + 1) % (CounterMax + 1)]
      [] f = "TAC"   -> [d EXCEPT !.timer.enable = ~@]
      [] f = "latch" -> [d EXCEPT !.timer.latch = ~@]
      [] f = "phase" -> [d EXCEPT !.timer.phase = (@ + 1) % (LastPhase + 1)]
      [] f = "left"  -> [d EXCEPT !.serial.left = IF @ = 0 THEN 4 ELSE @ - 4]
      [] f = "start" -> [d EXCEPT !.serial.start = ~@]
      [] f = "internal" -> [d EXCEPT !.serial.internal = ~@]
      [] f = "LCDC"  -> [d EXCEPT !.lcd.on = ~@]
      [] f = "STAT"  -> [d EXCEPT !.lcd.stat = StatSources \ @]
      [] f = "LYC"   -> [d EXCEPT !.lcd.lyc = (@ + 1) % Lines]
      [] f = "line"  -> [d EXCEPT !.lcd.line = (@ + 1) % Lines]
      [] f = "dot"   -> [d EXCEPT !.lcd.dot = (@ + 4) % LineDots]
      [] f = "select"  -> [d EXCEPT !.joypad.select = ButtonGroups \ @]
      [] f = "pressed" -> [d EXCEPT !.joypad.pressed = ButtonGroups \ @]
      [] f = "power"   -> [d EXCEPT !.apu.power = ~@]
      [] f = "active"  -> [d EXCEPT !.apu.active = Channels \ @]
      [] f \in {"NR11", "NR12"} -> [d EXCEPT !.apu.registers[f] = Bits \ @]
      [] f = "Wave"  -> [d EXCEPT !.apu.wave = Bits \ @]
      [] f = "dma"   -> [d EXCEPT !.dma.active = ~@]
      [] f = "index" -> [d EXCEPT !.dma.index = IF @ = 0 THEN 1 ELSE @ - 1]
      [] f = "owed"  -> [d EXCEPT !.dma.owed = (@ + 1) % 7]

\* The clock runs an M-cycle too long, a serial transfer completes early, the
\* access is lost, or made after the clock.
Mistimed(b) ==
    LET m == b.cycles
        acked == [b.before EXCEPT !.request = Acknowledged(b)]
        write == b.io # NoIo /\ b.io.op = "write" /\ b.io.reg # "LY"
        access == Written(b)
    IN  {Timed(IF write THEN Access(acked, access) ELSE acked, m + 1, b.before.dma.active),
         Request([b.after EXCEPT !.serial.left = 0, !.serial.start = FALSE], "Serial")}
        \cup (IF write
              THEN {Timed(acked, m, b.before.dma.active),
                    Access(Timed(acked, m, b.before.dma.active), access)}
              ELSE {})

\* A clocked block has one outcome: the packed relation rejects every other.
BlocksDetermined ==
    \A b \in {x \in Blocks : DeviceClocked(x)} :
        /\ \A f \in Faults \ {b.after.timer.select} :
              \A wrong \in {[b EXCEPT !.after = Faulty(b.after, f)]} : ~DeviceRelation(wrong)
        /\ b.mode \in ShortModes => \A d \in Mistimed(b) \ {b.after} :
              \A wrong \in {[b EXCEPT !.after = d]} : ~DeviceRelation(wrong)

\* A register read returns what the register holds: a read of any other value,
\* or a write that claims to have replaced one, is rejected.
ReadsBound ==
    \A b \in {x \in Blocks : x.io # NoIo} :
        LET claimed == {ReadMmio(Faulty(dev, f), b.io.reg) : f \in Faults}
        IN  IF b.io.op = "write"
            THEN \A v \in claimed \ {b.io.seen} : ~DeviceRelation([b EXCEPT !.io.seen = v])
            ELSE \A v \in claimed \ {b.io.val} : ~DeviceRelation([b EXCEPT !.io.val = v])

\* A sleeping CPU sleeps exactly as long as the executor says: a longer or a
\* shorter sleep, with the devices where it would leave them, is rejected.
SleepDetermined ==
    \A b \in SleepBlocks :
        \A m \in (IF b.mode = "HaltIdle" THEN 1..7 ELSE {b.cycles - 1, b.cycles + 1}) \ {b.cycles} :
            ~DeviceRelation([b EXCEPT !.cycles = m, !.after = Slept(b.mode, m)])

\* Row-wise as well, whatever the machine does can be proved: no column of the
\* witness is refused, the replayed columns are those the relation demands, and
\* the row satisfies every device constraint.
RowsProvable == \A r \in Rows : ~RowRefused(r) /\ ~RowLost(r) /\ RowDeviceRelation(r)

\* So has a row, and the copy of a DMA byte: the row-wise relation rejects every
\* other outcome.  Of the rows that read the register before they write it those
\* of P1 are tried, the one read that changes a device.
RowsDetermined ==
    \A r \in {x \in Rows : x.mode # "HaltWake" /\ (x.first # NoIo => x.io.reg = "P1")} :
        /\ \A f \in Faults \ {r.after.timer.select} :
              \A wrong \in {[r EXCEPT !.after = Faulty(r.after, f)]} : ~RowDeviceRelation(wrong)
        /\ r.mode \in ShortModes => \A d \in Mistimed(r) \ {r.after} :
              \A wrong \in {[r EXCEPT !.after = d]} : ~RowDeviceRelation(wrong)


\* No step proves another outcome than the executor's: the devices after it,
\* and how long the CPU slept.
StepsDetermined == BlocksDetermined /\ RowsDetermined /\ SleepDetermined

\* No instruction overtakes a machine event that is due: with a DMA byte owed,
\* or an enabled interrupt pending and IME set, an instruction row is rejected,
\* and a closed memory region is never reached.
MachineEventsFirst ==
    LET claimed(reach) ==
            [AsRow(Row("Instruction", 1, Timed(dev, 1, dev.dma.active))) EXCEPT !.reach = reach]
    IN  /\ ~Settled \/ (ime = "Enabled" /\ Pending(dev) # {}) => ~RowDeviceRelation(claimed({}))
        /\ \A region \in Regions \ Reachable : ~RowDeviceRelation(claimed({region}))

\* The witness of every active block satisfies the comparison of LY with LYC.
CoincidenceProvable ==
    \A b \in Blocks : ConstrainCoincidence(b.before) /\ ConstrainCoincidence(b.after)

\* A serial transfer that completes in a block with a device access clears the
\* start bit of SC as it does in any other block.
SerialControlProvable == \A b \in Blocks : ConstrainSerialControlStable(b)
=============================================================================
