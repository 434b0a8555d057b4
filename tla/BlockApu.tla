------------------------------ MODULE BlockApu ------------------------------
(***************************************************************************)
(* The sound unit in the packed relation (block_device_apu.rs).            *)
(***************************************************************************)
EXTENDS BlockMachine

ApuAccess(b) == b.io.op \in {"read", "write"} /\ b.io.reg \in ApuRegisters
ApuWrite(b) == ApuAccess(b) /\ b.io.op = "write"
ApuWrites(b, reg) == b.io.reg = reg /\ b.io.op = "write"
PowerOff(b) == ApuWrites(b, "NR52") /\ ~b.io.val.power
PowerOn(b) == ApuWrites(b, "NR52") /\ b.io.val.power

ConstrainStorageMasks(a) ==
    \A reg \in ControlRegisters : a.registers[reg] \cap ReadMask[reg] = {}

\* Powered off, everything but the length counters and the wave reads zero.
ConstrainPoweredOffStates(a) ==
    ~a.power => /\ \A reg \in ControlRegisters \ LengthRegisters : a.registers[reg] = {}
                /\ a.active = {}

VisibleByte(a, reg) ==
    CASE reg = "Unused" -> Bits
      [] reg = "Wave"   -> a.wave
      [] reg = "NR52"   -> [power |-> a.power, active |-> a.active]
      [] OTHER          -> a.registers[reg] \cup ReadMask[reg]

ConstrainApuBusValues(b) ==
    /\ ApuAccess(b) /\ b.io.op = "read" => b.io.val = VisibleByte(b.before.apu, b.io.reg)
    /\ ApuWrite(b) => b.io.seen = VisibleByte(b.before.apu, b.io.reg)

ConstrainControlUpdates(b) ==
    b.after.apu.registers =
        IF PowerOff(b) THEN [reg \in ControlRegisters |-> {}]
        ELSE [reg \in ControlRegisters |->
                IF ApuWrites(b, reg) /\ (b.before.apu.power \/ reg \in LengthRegisters)
                THEN b.io.val \ ReadMask[reg] ELSE b.before.apu.registers[reg]]

ConstrainWaveUpdates(b) ==
    b.after.apu.wave = IF ApuWrites(b, "Wave") THEN b.io.val ELSE b.before.apu.wave

\* A channel is active when it was and its DAC is not switched off, or when it
\* is triggered with the DAC on after the write.
ConstrainMasterStatus(b) ==
    LET before == b.before.apu
        after  == b.after.apu
    IN  /\ after.power = (~PowerOff(b) /\ (before.power \/ PowerOn(b)))
        /\ \A c \in Channels :
              LET disabled == ApuWrites(b, DacRegister[c]) /\ "top" \notin b.io.val
                  trigger  == ApuWrites(b, TriggerRegister[c]) /\ "top" \in b.io.val
              IN  c \in after.active <=>
                     ~PowerOff(b) /\ ((c \in before.active /\ ~disabled) \/ (trigger /\ Dac(after, c)))

ConstrainApu(b) ==
    /\ \A a \in {b.before.apu, b.after.apu} : ConstrainStorageMasks(a) /\ ConstrainPoweredOffStates(a)
    /\ ConstrainApuBusValues(b) /\ ConstrainControlUpdates(b)
    /\ ConstrainWaveUpdates(b) /\ ConstrainMasterStatus(b)

\* validate_apu_transition replays the access.
ApuRowRefused(b) ==
    LET expected == IF ApuWrite(b) THEN WriteApu(b.before.apu, b.io.reg, b.io.val) ELSE b.before.apu
        visible  == ReadApu(b.before.apu, b.io.reg)
    IN  \/ ApuAccess(b) /\ (IF b.io.op = "read" THEN b.io.val ELSE b.io.seen) # visible
        \/ b.after.apu # expected
=============================================================================
