------------------------------- MODULE DmgApu -------------------------------
(***************************************************************************)
(* The sound unit as a program sees it: registers, wave memory, and the    *)
(* master status with one activity bit per channel.  It is not clocked.    *)
(* A byte is the set of its bits, here the top bit and one of the others;  *)
(* two of the four channels, and one register of every kind, stand for     *)
(* all.                                                                    *)
(***************************************************************************)
EXTENDS Integers

Bits == {"top", "low"}
Channels == {"pulse", "wave"}

ControlRegisters == {"NR11", "NR12", "NR14", "NR30", "NR34"}
ApuRegisters == ControlRegisters \cup {"NR52", "Wave", "Unused"}
LengthRegisters == {"NR11"}

\* The register whose top bit powers a channel's DAC, and the one whose top bit
\* triggers the channel.
DacRegister == [c \in Channels |-> IF c = "pulse" THEN "NR12" ELSE "NR30"]
TriggerRegister == [c \in Channels |-> IF c = "pulse" THEN "NR14" ELSE "NR34"]

\* Bits that are not stored and read as one.
ReadMask ==
    [reg \in ControlRegisters |->
        CASE reg \in {"NR11", "NR30"} -> {"low"}
          [] reg \in {"NR14", "NR34"} -> {"top"}
          [] OTHER -> {}]

Apus == [power : BOOLEAN, active : SUBSET Channels,
         registers : [ControlRegisters -> SUBSET Bits], wave : SUBSET Bits]

Dac(a, c) == "top" \in a.registers[DacRegister[c]]

ReadApu(a, reg) ==
    CASE reg = "Unused" -> Bits
      [] reg = "Wave"   -> a.wave
      [] reg = "NR52"   -> [power |-> a.power, active |-> a.active]
      [] OTHER          -> a.registers[reg] \cup ReadMask[reg]

WritePower(a, on) ==
    IF on THEN [a EXCEPT !.power = TRUE]
    ELSE [a EXCEPT !.power = FALSE, !.active = {},
                   !.registers = [reg \in ControlRegisters |-> {}]]

\* A DAC switched off silences its channel; a trigger starts a channel whose
\* DAC is on.
ApplyDacAndTrigger(a, reg, v) ==
    LET silenced == {c \in Channels : reg = DacRegister[c] /\ "top" \notin v}
        started  == {c \in Channels : reg = TriggerRegister[c] /\ "top" \in v /\ Dac(a, c)}
    IN  [a EXCEPT !.active = (@ \ silenced) \cup started]

WriteApu(a, reg, v) ==
    CASE reg = "Unused" -> a
      [] reg = "Wave"   -> [a EXCEPT !.wave = v]
      [] reg = "NR52"   -> WritePower(a, v.power)
      [] OTHER ->
            IF ~a.power /\ reg \notin LengthRegisters THEN a
            ELSE ApplyDacAndTrigger([a EXCEPT !.registers[reg] = v \ ReadMask[reg]], reg, v)

\* The state the boot ROM leaves behind.
ApuPostBoot ==
    [power |-> TRUE, active |-> {"pulse"}, wave |-> {},
     registers |-> [reg \in ControlRegisters |->
        IF reg = "NR12" THEN Bits ELSE IF reg = "NR11" THEN {"top"} ELSE {}]]
=============================================================================
