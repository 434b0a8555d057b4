---------------------------- MODULE StepRelation ----------------------------
(***************************************************************************)
(* One transition of the DMG machine (transition.rs, apply): a DMA byte, a *)
(* machine event of the CPU that sleeps or takes an interrupt, or one      *)
(* instruction.  Of an instruction the model keeps what reaches the        *)
(* devices and the interrupt logic: its M-cycles, its device accesses and  *)
(* its effect on IME and on the run state.  Registers, memory and the      *)
(* program counter are left out, so any instruction may come next.  A step *)
(* that fails leaves the state alone and ends the trace: it is no action.  *)
(***************************************************************************)
EXTENDS DmgDevices

CONSTANTS
    Cycles,        \* M-cycle counts of the plain instructions tried
    Accesses,      \* Accesses[p]: sequences of device accesses of program p's instructions
    PushAccesses,  \* device accesses of an interrupt dispatch whose stack is in I/O space
    Controls       \* Controls[p]: which of EI, DI, RETI, HALT and STOP program p executes

Programs == DOMAIN Accesses

ASSUME CyclesAssumption == Cycles \subseteq 1..6
ASSUME ProgramsAssumption == DOMAIN PushAccesses = Programs /\ DOMAIN Controls = Programs
ASSUME AccessesAssumption ==
    \A p \in Programs : Accesses[p] \cup PushAccesses[p] \subseteq Seq(RegisterAccesses)

VARIABLES
    program,   \* which kind of program runs: the accesses it makes
    run,       \* RunState
    ime,       \* ImeState
    dev,       \* DmgDeviceState
    clock,     \* history: M-cycles since the transfer in progress began to copy
    shadow     \* history: an EI took IME out of Disabled and no instruction followed

vars == <<program, run, ime, dev, clock, shadow>>

RunStates == {"Running", "Halted", "Stopped", "HaltBug"}
ImeStates == {"Disabled", "EnablePending", "Enabled"}

Init ==
    /\ program \in Programs
    /\ run = "Running" /\ ime = "Disabled"
    /\ dev = DmgPostBoot
    /\ clock = 0 /\ shadow = FALSE

----------------------------------------------------------------------------
(* Timing (add_timing, add_machine_timing).                                *)

\* Devices advance, then the bytes the DMA copies meanwhile become owed.
Timed(d, m, activeAtStart) == ScheduleDmaBytes(AdvanceMCycles(d, m), m, activeAtStart)

\* The history of a step of m M-cycles.
DmaClock(m, activeAtStart) ==
    clock' = IF activeAtStart THEN (IF dev.dma.active THEN clock ELSE 0) + m ELSE 0

----------------------------------------------------------------------------
(* Machine events.                                                         *)

\* dma_byte: owed copies come before everything else, even for a stopped CPU.
DmaByte ==
    /\ dev.dma.owed # 0
    /\ dev.dma.readable
    /\ dev' = CompleteDmaByte(dev)
    /\ UNCHANGED <<run, ime, clock, shadow>>

\* apply gets past the DMA check.
Settled == dev.dma.owed = 0

InterruptDispatch ==
    /\ Settled
    /\ run # "Stopped" /\ ime = "Enabled" /\ Pending(dev) # {}
    /\ \E push \in PushAccesses[program] \cup {<<>>} :
          LET acked  == Acknowledge(dev, PendingInterrupt(dev))
              pushed == AccessAll(acked, push)
          IN  /\ AccessesAllowed(acked, push)
              /\ dev' = Timed(pushed, 5, pushed.dma.active)
              /\ DmaClock(5, pushed.dma.active)
    /\ run' = "Running" /\ ime' = "Disabled" /\ shadow' = FALSE

HaltWake ==
    /\ Settled
    /\ run = "Halted" /\ ime # "Enabled" /\ Pending(dev) # {}
    /\ run' = "Running"
    /\ UNCHANGED <<ime, dev, clock, shadow>>

Asleep == Settled /\ run = "Halted" /\ Pending(dev) = {}

\* A long skip advances the clock and the devices and schedules no DMA byte.
Skip(lengths) ==
    /\ Asleep
    /\ \E m \in lengths \ {0} : dev' = AdvanceQuietLong(dev, m)
    /\ UNCHANGED <<run, ime, clock, shadow>>

HaltUntilVBlank == Skip({HaltUntilVBlankMCycles(dev)})

HaltUntilSerial ==
    /\ HaltUntilVBlankMCycles(dev) = 0
    /\ Skip({HaltUntilSerialMCycles(dev)})

HaltUntilTimer ==
    /\ HaltUntilVBlankMCycles(dev) = 0 /\ HaltUntilSerialMCycles(dev) = 0
    /\ Skip({HaltUntilTimerMCycles(dev)})

HaltIdle ==
    /\ Asleep
    /\ HaltUntilVBlankMCycles(dev) = 0
    /\ HaltUntilSerialMCycles(dev) = 0
    /\ HaltUntilTimerMCycles(dev) = 0
    /\ \E m \in {HaltIdleMCycles(dev)} :
          /\ dev' = Timed(dev, m, dev.dma.active)
          /\ DmaClock(m, dev.dma.active)
    /\ UNCHANGED <<run, ime, shadow>>

----------------------------------------------------------------------------
(* Instructions.                                                           *)

\* The classification finds no machine event and the CPU may execute.
CanExecute ==
    /\ Settled
    /\ run \in {"Running", "HaltBug"}
    /\ ime = "Enabled" => Pending(dev) = {}

\* apply_delayed_ime, given the IME the operation itself leaves.
DelayedIme(operationIme) == IF ime = "EnablePending" THEN "Enabled" ELSE operationIme

\* Mutant: the DMA is sampled after the instruction's accesses.
ExecuteSamplingDmaLate(m, accesses) ==
    /\ CanExecute
    /\ AccessesAllowed(dev, accesses)
    /\ LET accessed == AccessAll(dev, accesses)
       IN  dev' = Timed(accessed, m, accessed.dma.active)
    /\ DmaClock(m, dev.dma.active)

\* An instruction of m M-cycles that accesses the devices as given.
Execute(m, accesses) ==
    /\ CanExecute
    /\ AccessesAllowed(dev, accesses)
    /\ dev' = Timed(AccessAll(dev, accesses), m, dev.dma.active)
    /\ DmaClock(m, dev.dma.active)

Plain ==
    /\ \E m \in Cycles, accesses \in Accesses[program] \cup {<<>>} : Execute(m, accesses)
    /\ run' = "Running" /\ ime' = DelayedIme(ime) /\ shadow' = FALSE

\* Mutant: EI takes effect at once.
EnableInterruptsAtOnce ==
    /\ "EI" \in Controls[program]
    /\ Execute(1, <<>>)
    /\ run' = "Running" /\ ime' = "Enabled"
    /\ shadow' = (ime = "Disabled")

EnableInterrupts ==
    /\ "EI" \in Controls[program]
    /\ Execute(1, <<>>)
    /\ run' = "Running" /\ ime' = DelayedIme("EnablePending")
    /\ shadow' = (ime = "Disabled")

DisableInterrupts ==
    /\ "DI" \in Controls[program]
    /\ Execute(1, <<>>)
    /\ run' = "Running" /\ ime' = "Disabled" /\ shadow' = FALSE

ReturnFromInterrupt ==
    /\ "RETI" \in Controls[program]
    /\ Execute(4, <<>>)
    /\ run' = "Running" /\ ime' = "Enabled" /\ shadow' = FALSE

\* HALT with an interrupt pending and IME not enabled does not sleep.
Halt ==
    /\ "HALT" \in Controls[program]
    /\ Execute(1, <<>>)
    /\ run' = IF ime # "Enabled" /\ Pending(dev) # {} THEN "HaltBug" ELSE "Halted"
    /\ ime' = DelayedIme(ime) /\ shadow' = FALSE

Stop ==
    /\ "STOP" \in Controls[program]
    /\ Execute(1, <<>>)
    /\ run' = "Stopped" /\ ime' = DelayedIme(ime) /\ shadow' = FALSE

Instruction ==
    \/ Plain \/ EnableInterrupts \/ DisableInterrupts \/ ReturnFromInterrupt
    \/ Halt \/ Stop

MachineEvent ==
    \/ DmaByte \/ InterruptDispatch \/ HaltWake
    \/ HaltUntilVBlank \/ HaltUntilSerial \/ HaltUntilTimer \/ HaltIdle

Next == (Instruction \/ MachineEvent) /\ UNCHANGED program

Spec == Init /\ [][Next]_vars

\* The trace builder applies one transition after another; where a machine
\* event is enabled no instruction is.
FairSpec == Spec /\ WF_vars(MachineEvent /\ UNCHANGED program)

----------------------------------------------------------------------------
(* Properties.                                                             *)

\* Between transitions the dot, the divider and the serial countdown are
\* multiples of four; a reload is idle, just overflowed, about to fire, or one
\* T-cycle short of it (after a DIV or TAC write made the falling edge at the
\* start of an M-cycle).
MCycleAligned ==
    /\ dev.lcd.dot % 4 = 0 /\ dev.timer.div % 4 = 0 /\ dev.serial.left % 4 = 0
    /\ dev.timer.phase \in {0, 1, LastPhase - 1, LastPhase}

\* Every component of the machine stays in its range, no step owes more than
\* six DMA bytes, and the machine is aligned to M-cycles, so halt_until_vblank
\* never meets a remainder it has to refuse.
TypeOK ==
    /\ program \in Programs
    /\ run \in RunStates /\ ime \in ImeStates
    /\ dev \in Devices /\ MCycleAligned
    /\ clock \in Nat /\ shadow \in BOOLEAN

Oversleeps(m) == \E n \in 1..(m - 1) : Pending(StepMCycles(dev, n)) # {}
SkipsTo(interrupt, m) ==
    ~Oversleeps(m) /\ interrupt \in Pending(dev') /\ dev' = StepMCycles(dev, m)


\* A TIMA overflow that has reached its reload cycle is never lost: the next
\* step that takes time requests the timer interrupt, whatever it writes.  (A
\* TIMA write one M-cycle earlier cancels the reload.)
ReloadIsRequested ==
    [][dev.timer.phase = LastPhase /\ dev'.timer.div # dev.timer.div
          => "Timer" \in dev'.request]_vars

\* OAM DMA keeps pace with the CPU: bytes copied and owed are the M-cycles
\* since the transfer began, up to its length; nothing is owed by an idle DMA.
DmaKeepsPace ==
    /\ dev.dma.active => dev.dma.index + dev.dma.owed = Min({clock, DmaLength})
    /\ ~dev.dma.active => dev.dma.owed = 0
    /\ dev.dma.active => dev.dma.index < DmaLength

HaltStatesSettled ==
    /\ run = "HaltBug" => Pending(dev) # {}
    /\ run = "Halted" => ime # "EnablePending"

\* "EI was executed and enablement is delayed through the next instruction"
\* (ImeState): no interrupt is dispatched right after the EI that starts the
\* delay, whatever DMA bytes come between.  A sleeping CPU is never inside the
\* delay, which HaltWake would not resolve, and the HALT bug state is only
\* entered with an interrupt to skip, which persists until the next instruction
\* or dispatch.
EiDelaysDispatch == [][(InterruptDispatch => ~shadow) /\ HaltStatesSettled']_vars

\* What will make an enabled interrupt pending without the CPU's help.
WakeSource ==
    \/ Pending(dev) # {}
    \/ "VBlank" \in dev.enable /\ dev.lcd.on
    \/ "Serial" \in dev.enable /\ dev.serial.left # 0
    \/ "Timer" \in dev.enable /\ dev.timer.enable

\* A sleeping CPU with a live wake source wakes up.
SleepEnds == (run = "Halted" /\ WakeSource) ~> (run # "Halted")
=============================================================================
