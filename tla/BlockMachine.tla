---------------------------- MODULE BlockMachine ----------------------------
(***************************************************************************)
(* The machine rows of the packed relation: which machine event a block    *)
(* claims, and what it does to the CPU.  A block is what the relation sees *)
(* of one row of the proof:                                                *)
(*   mode           "Instruction" or the machine event                     *)
(*   before, after  device states                                          *)
(*   cycles         M-cycles between the first and the last CPU state      *)
(*   io             its device register access, or NoIo                    *)
(*   source         the interrupt acknowledged, or NoInterrupt             *)
(*   cpu, cpu2      CPU states [regs, pc, sp, ime, run] around the block   *)
(*   slots          its other bus events [kind, address, value], in order  *)
(* Constraints over the field are predicates over these values; columns    *)
(* that only spell a value in bits are left out, their widths are not.     *)
(***************************************************************************)
EXTENDS DmgDevices

CONSTANTS ByteBase   \* 256: a word is two digits of this base

ASSUME ByteBaseAssumption == ByteBase \in Nat /\ ByteBase > 1

WordModulus == ByteBase * ByteBase

NoIo == [op |-> "None", reg |-> "None"]
NoInterrupt == "None"

SleepingModes == {"HaltIdle", "HaltUntilVBlank", "HaltUntilSerial", "HaltUntilTimer"}
LongModes == SleepingModes \ {"HaltIdle"}
MachineModes == SleepingModes \cup {"HaltWake", "Interrupt", "DmaByte"}
ShortModes == {"Instruction", "HaltIdle", "Interrupt"}

DeviceClocked(b) == b.mode \in ShortModes \cup LongModes
ShortDeviceClocked(b) == b.mode \in ShortModes
Quiet(b) == DeviceClocked(b) /\ b.io = NoIo

DmaSources == {"DmaRomRead", "DmaMemoryRead"}
SlotKind(b, n) == IF n <= Len(b.slots) THEN b.slots[n].kind ELSE "Inactive"

InterruptBit(i) == Priority[i]      \* the IF and IE bit of an interrupt
Vector(i) == 64 + 8 * InterruptBit(i)

----------------------------------------------------------------------------
(* block_machine.rs.                                                       *)

ConstrainModePartition(b) ==
    /\ b.mode = "Instruction" \/ b.mode \in MachineModes
    /\ b.mode = "DmaByte" <=> SlotKind(b, 1) \in DmaSources

\* The source is the pending interrupt with none pending below its bit.
ConstrainInterruptPriority(b) ==
    IF b.mode = "Interrupt"
    THEN /\ b.source \in Pending(b.before)
         /\ \A i \in Pending(b.before) : InterruptBit(b.source) <= InterruptBit(i)
    ELSE b.source = NoInterrupt

ConstrainMachineCycles(b) ==
    /\ b.mode \in {"HaltWake", "DmaByte"} => b.cycles = 0
    /\ b.mode = "Interrupt" => b.cycles = 5
    /\ b.mode = "HaltIdle" => b.cycles \in 1..6

ConstrainModeSelection(b) ==
    /\ b.mode = "Interrupt" =>
          /\ b.cpu.run \in {"Running", "Halted", "HaltBug"} /\ b.cpu.ime = "Enabled"
          /\ b.cpu2.ime = "Disabled" /\ b.cpu2.run = "Running"
    /\ b.mode = "HaltWake" =>
          /\ b.cpu.run = "Halted" /\ b.cpu2.run = "Running"
          /\ b.cpu.ime \in {"Disabled", "EnablePending"} /\ Pending(b.before) # {}
    /\ b.mode \in SleepingModes => b.cpu.run = "Halted" /\ Pending(b.before) = {}
    /\ b.mode = "HaltUntilVBlank" => "VBlank" \in b.before.enable /\ "Joypad" \notin b.before.enable
    /\ b.mode = "HaltUntilSerial" => "Serial" \in b.before.enable
    /\ b.mode = "HaltUntilTimer" => "Timer" \in b.before.enable
    /\ ConstrainMachineCycles(b)

\* The unary short-cycle columns of HaltIdle and Interrupt count to six.
ConstrainShortCycles(b) == b.mode \in {"HaltIdle", "Interrupt"} => b.cycles \in 0..6

\* PC is pushed high byte first; the stack pointer wraps with a free bit each,
\* which the ranges of SP and of the two addresses decide.
ConstrainInterruptCpu(b) ==
    /\ b.mode = "Interrupt" =>
          /\ b.cpu2.pc = Vector(b.source)
          /\ Len(b.slots) = 2
          /\ \E wrap, firstWrap \in 0..1 :
                /\ b.cpu2.sp = b.cpu.sp - 2 + WordModulus * wrap
                /\ b.slots[1].address = b.cpu.sp - 1 + WordModulus * firstWrap
                /\ b.slots[2].address = b.cpu.sp - 2 + WordModulus * wrap
          /\ b.slots[1].value = b.cpu.pc \div ByteBase
          /\ b.slots[2].value = b.cpu.pc % ByteBase
    /\ b.mode # "Instruction" =>
          \A n \in 1..2 : SlotKind(b, n) = "MemoryWrite" <=> b.mode = "Interrupt"

ConstrainMachineCpu(b) ==
    /\ b.mode \in SleepingModes \cup {"DmaByte"} => b.cpu2 = b.cpu
    /\ b.mode = "HaltWake" => [b.cpu2 EXCEPT !.run = b.cpu.run] = b.cpu
    /\ b.mode = "Interrupt" => b.cpu2.regs = b.cpu.regs
    /\ ConstrainInterruptCpu(b)

\* Sleeping and waking touch no bus.
ConstrainNonCpuFlow(b) == b.mode \in SleepingModes \cup {"HaltWake"} => b.slots = <<>>

ConstrainMachine(b) ==
    /\ ConstrainModePartition(b) /\ ConstrainInterruptPriority(b)
    /\ ConstrainModeSelection(b) /\ ConstrainShortCycles(b)
    /\ ConstrainMachineCpu(b) /\ ConstrainNonCpuFlow(b)

\* append_machine_row refuses a short machine event of more than six M-cycles.
MachineRowRefused(b) == b.mode \in {"HaltIdle", "Interrupt"} /\ b.cycles > 6

MachineRelation(b) == ConstrainMachine(b)
MachineRefused(b) == MachineRowRefused(b)

----------------------------------------------------------------------------
(* block_device.rs: every block but an access keeps IE and the joypad.     *)

ConstrainDeviceEnvelope(b) ==
    b.io = NoIo => b.after.enable = b.before.enable /\ b.after.joypad = b.before.joypad

EnvelopeRelation(b) == MachineRelation(b) /\ ConstrainDeviceEnvelope(b)
EnvelopeRefused(b) == MachineRefused(b)

\* The requests of a block before its clock runs.
Acknowledged(b) == b.before.request \ {b.source}
=============================================================================
