------------------------------ MODULE Sm83Cpu ------------------------------
(***************************************************************************)
(* One instruction of the SM83 as zksm83-core executes it: the arithmetic  *)
(* (alu.rs), the executor's dispatch (execute.rs), the bus it drives       *)
(* (bus.rs, zksm83-memory's address.rs) and the MBC3 mapper (mbc3.rs).     *)
(*                                                                         *)
(* The registers are a record with the component names of Sm83Isa. An      *)
(* executor is a record: cpu, mapper, profile, the bus events so far, the  *)
(* bytes the witnesses of the remaining data reads carry, the byte read    *)
(* last, the branch decision, and ok, FALSE once a step error occurred.    *)
(*                                                                         *)
(* The DMA and LCD interlocks of the bus and the effect of a device        *)
(* register are the matter of StepRelation and the device modules: here    *)
(* the bus is free and a device register returns any byte.                 *)
(***************************************************************************)
EXTENDS Sm83Isa

Bit(condition) == IF condition THEN 1 ELSE 0
Power2 == [ i \in 0 .. 16 |-> 2 ^ i ]
BitAt(value, i) == (value \div Power2[i]) % 2

\* The byte whose bit i is bits[i]
ByteOf(bits) ==
    bits[0] + 2 * bits[1] + 4 * bits[2] + 8 * bits[3] + 16 * bits[4] + 32 * bits[5] + 64 * bits[6]
        + 128 * bits[7]

AndByte(a, b) == ByteOf([ i \in 0 .. 7 |-> BitAt(a, i) * BitAt(b, i) ])
XorByte(a, b) == ByteOf([ i \in 0 .. 7 |-> (BitAt(a, i) + BitAt(b, i)) % 2 ])
OrByte(a, b) == a + b - AndByte(a, b)

Low(word) == word % 256
High(word) == word \div 256
WordOf(high, low) == 256 * high + low
Signed(byte) == IF byte < 128 THEN byte ELSE byte - 256

-----------------------------------------------------------------------------
(***************************************************************************)
(* alu.rs. The flag register holds Z, N, H, C in bits 7 to 4.              *)
(***************************************************************************)
Flags(zero, subtract, half, carry) ==
    128 * Bit(zero) + 64 * Bit(subtract) + 32 * Bit(half) + 16 * Bit(carry)

ZeroFlag(f) == BitAt(f, 7) = 1
SubtractFlag(f) == BitAt(f, 6) = 1
HalfFlag(f) == BitAt(f, 5) = 1
CarryFlag(f) == BitAt(f, 4) = 1

ByteResult(value, flags) == [ value |-> value, flags |-> flags ]

Increment(value, f) ==
    LET result == (value + 1) % 256
    IN  ByteResult(result, Flags(result = 0, FALSE, value % 16 = 15, CarryFlag(f)))

Decrement(value, f) ==
    LET result == (value + 255) % 256
    IN  ByteResult(result, Flags(result = 0, TRUE, value % 16 = 0, CarryFlag(f)))

AddHl(left, right, f) ==
    ByteResult((left + right) % 65536,
               Flags(ZeroFlag(f), FALSE, (left % 4096) + (right % 4096) > 4095, left + right > 65535))

AddSignedToSp(sp, offset) ==
    ByteResult((sp + 65536 + Signed(offset)) % 65536,
               Flags(FALSE, FALSE, (sp % 16) + (offset % 16) > 15, (sp % 256) + offset > 255))

Add(left, right, carryIn) ==
    LET sum == left + right + carryIn
    IN  ByteResult(sum % 256, Flags(sum % 256 = 0, FALSE, (left % 16) + (right % 16) + carryIn > 15, sum > 255))

Subtract(left, right, carryIn) ==
    LET result == (left - right - carryIn + 512) % 256
    IN  ByteResult(result, Flags(result = 0, TRUE, left % 16 < (right % 16) + carryIn, left < right + carryIn))

Logical(value, half) == ByteResult(value, Flags(value = 0, FALSE, half, FALSE))

ApplyAlu(alu, accumulator, operand, f) ==
    LET carry == BitAt(f, 4)
    IN  CASE alu = "ADD" -> Add(accumulator, operand, 0)
          [] alu = "ADC" -> Add(accumulator, operand, carry)
          [] alu \in { "SUB", "CP" } -> Subtract(accumulator, operand, 0)
          [] alu = "SBC" -> Subtract(accumulator, operand, carry)
          [] alu = "AND" -> Logical(AndByte(accumulator, operand), TRUE)
          [] alu = "XOR" -> Logical(XorByte(accumulator, operand), FALSE)
          [] alu = "OR" -> Logical(OrByte(accumulator, operand), FALSE)

RotateShift(operation, value, carryIn, zeroFromResult) ==
    LET left == (2 * value) % 256
        right == value \div 2
        top == BitAt(value, 7)
        bottom == value % 2
        result == CASE operation = "RLC" -> left + top
                    [] operation = "RRC" -> right + 128 * bottom
                    [] operation = "RL" -> left + carryIn
                    [] operation = "RR" -> right + 128 * carryIn
                    [] operation = "SLA" -> left
                    [] operation = "SRA" -> right + 128 * top
                    [] operation = "SWAP" -> 16 * (value % 16) + (value \div 16)
                    [] operation = "SRL" -> right
        carry == CASE operation \in { "RLC", "RL", "SLA" } -> top = 1
                   [] operation \in { "RRC", "RR", "SRA", "SRL" } -> bottom = 1
                   [] operation = "SWAP" -> FALSE
    IN  ByteResult(result, Flags(zeroFromResult /\ result = 0, FALSE, FALSE, carry))

DecimalAdjust(accumulator, f) ==
    LET subtract == SubtractFlag(f)
        carry == CarryFlag(f) \/ (~subtract /\ accumulator > 153)
        low == HalfFlag(f) \/ (~subtract /\ accumulator % 16 > 9)
        correction == 96 * Bit(carry) + 6 * Bit(low)
        value == (accumulator + 256 + (IF subtract THEN -correction ELSE correction)) % 256
    IN  ByteResult(value, Flags(value = 0, subtract, FALSE, carry))

-----------------------------------------------------------------------------
(***************************************************************************)
(* mbc3.rs: the mapper [ram, bank, select] of a cartridge profile.         *)
(***************************************************************************)
\* A machine profile: dmg tells the DMG machine from the minimal core
Profile(dmg, large, rtc) == [ dmg |-> dmg, large |-> large, rtc |-> rtc ]
BankMask(profile) == IF profile.large THEN 64 ELSE 16

MapRomFor(mapper, address) ==
    IF address < 16384 THEN address ELSE mapper.bank * 16384 + (address - 16384)

InWindow(address) == address \in 40960 .. 49151

\* Ram(physical), RtcRegister or Unavailable
ExternalWindowFor(mapper, profile, address) ==
    CASE ~mapper.ram \/ ~InWindow(address) -> [ kind |-> "Unavailable", physical |-> 0 ]
      [] mapper.ram /\ InWindow(address) /\ mapper.select <= 3 ->
             [ kind |-> "Ram", physical |-> 65536 + mapper.select * 8192 + (address - 40960) ]
      [] OTHER -> [ kind |-> IF profile.rtc /\ mapper.select \in 8 .. 12 THEN "RtcRegister" ELSE "Unavailable",
                    physical |-> 0 ]

ApplyControlWriteFor(mapper, profile, address, value) ==
    CASE address < 8192 -> [ mapper EXCEPT !.ram = (value % 16 = 10) ]
      [] address \in 8192 .. 16383 ->
             LET selected == value % BankMask(profile)
             IN  [ mapper EXCEPT !.bank = IF selected = 0 THEN 1 ELSE selected ]
      [] address \in 16384 .. 24575 -> [ mapper EXCEPT !.select = value % 16 ]
      [] address >= 24576 -> mapper

-----------------------------------------------------------------------------
(***************************************************************************)
(* address.rs and bus.rs: the owner of an address and the bus events.      *)
(***************************************************************************)
Owner(address) ==
    CASE address < 32768 -> "Rom"
      [] address \in 32768 .. 65519 -> "Memory"
      [] address = 65520 -> "Input"
      [] address = 65521 -> "Output"
      [] address > 65521 -> "Unowned"

DmgOwner(address) ==
    CASE address < 32768 -> "Rom"
      [] address \in 32768 .. 57343 \/ address \in 65024 .. 65183 \/ address \in 65408 .. 65534 -> "Memory"
      [] address \in 57344 .. 65023 -> "DmgEcho"
      [] address \in 65280 .. 65407 \/ address = 65535 -> "DmgMmio"
      [] address \in 65184 .. 65279 -> "Unowned"

StateOwner(profile, address) == IF profile.dmg THEN DmgOwner(address) ELSE Owner(address)

\* The kind codes of BusEventKind
Unused == 0
OpcodeFetch == 1
ImmediateRead == 2
RomRead == 3
MemoryRead == 4
MemoryWrite == 5
InputRead == 6
OutputWrite == 7
Mbc3ControlWrite == 8
Mbc3OpenBusRead == 9
Mbc3IgnoredWrite == 10
DmgMmioRead == 11
DmgMmioWrite == 12
DmgJoypadRead == 13
MemoryOpcodeFetch == 14
MemoryImmediateRead == 15

Event(kind, address, physical, value) ==
    [ kind |-> kind, address |-> address, physical |-> physical, value |-> value ]

Refuse(e) == [ e EXCEPT !.ok = FALSE ]
Emit(e, event) == [ e EXCEPT !.events = Append(@, event), !.value = event.value ]

\* take_memory_read and its like: the next byte of the witnesses
Take(e, kind, address, physical) ==
    [ Emit(e, Event(kind, address, physical, Head(e.data))) EXCEPT !.data = Tail(@) ]

FetchInstruction(e, address, value, role) ==
    CASE StateOwner(e.profile, address) = "Rom" ->
             Emit(e, Event(role, address, MapRomFor(e.mapper, address), value))
      [] StateOwner(e.profile, address) = "Memory" ->
             Emit(e, Event(IF role = OpcodeFetch THEN MemoryOpcodeFetch ELSE MemoryImmediateRead,
                           address, address, value))
      [] StateOwner(e.profile, address) \notin { "Rom", "Memory" } -> Refuse(e)

ReadData(e, address) ==
    LET owner == StateOwner(e.profile, address)
        window == ExternalWindowFor(e.mapper, e.profile, address)
    IN  CASE ~e.ok -> e
          [] e.ok /\ e.profile.dmg /\ address = 65280 -> Take(e, DmgJoypadRead, address, 0)
          [] e.ok /\ InWindow(address) ->
                 (CASE window.kind = "Ram" -> Take(e, MemoryRead, address, window.physical)
                    [] window.kind = "RtcRegister" -> Refuse(e)
                    [] window.kind = "Unavailable" -> Emit(e, Event(Mbc3OpenBusRead, address, 0, 255)))
          [] OTHER ->
                 CASE owner = "Rom" -> Take(e, RomRead, address, MapRomFor(e.mapper, address))
                   [] owner = "Memory" -> Take(e, MemoryRead, address, address)
                   [] owner = "Input" -> Take(e, InputRead, address, 0)
                   [] owner = "DmgMmio" -> Take(e, DmgMmioRead, address, 0)
                   [] owner \in { "Output", "DmgEcho", "Unowned" } -> Refuse(e)

WriteData(e, address, value) ==
    LET owner == StateOwner(e.profile, address)
        window == ExternalWindowFor(e.mapper, e.profile, address)
    IN  CASE ~e.ok -> e
          [] e.ok /\ address < 32768 ->
                 Emit([ e EXCEPT !.mapper = ApplyControlWriteFor(@, e.profile, address, value) ],
                      Event(Mbc3ControlWrite, address, 0, value))
          [] e.ok /\ InWindow(address) ->
                 (CASE window.kind = "Ram" -> Emit(e, Event(MemoryWrite, address, window.physical, value))
                    [] window.kind = "RtcRegister" -> Refuse(e)
                    [] window.kind = "Unavailable" -> Emit(e, Event(Mbc3IgnoredWrite, address, 0, value)))
          [] OTHER ->
                 CASE owner = "Memory" -> Emit(e, Event(MemoryWrite, address, address, value))
                   [] owner = "Output" -> Emit(e, Event(OutputWrite, address, 0, value))
                   [] owner = "DmgMmio" -> Emit(e, Event(DmgMmioWrite, address, 0, value))
                   [] owner \in { "Rom", "Input", "DmgEcho", "Unowned" } -> Refuse(e)

-----------------------------------------------------------------------------
(***************************************************************************)
(* execute.rs: the helpers of the executor.                                *)
(***************************************************************************)
Hl(cpu) == WordOf(cpu.H, cpu.L)

Register16(cpu, register) ==
    CASE register = "BC" -> WordOf(cpu.B, cpu.C)
      [] register = "DE" -> WordOf(cpu.D, cpu.E)
      [] register = "HL" -> Hl(cpu)
      [] register = "SP" -> cpu.sp
      [] register = "AF" -> WordOf(cpu.A, cpu.F)

\* set_register16 and set_stack_register
SetRegister16(cpu, register, word) ==
    CASE register = "BC" -> [ cpu EXCEPT !.B = High(word), !.C = Low(word) ]
      [] register = "DE" -> [ cpu EXCEPT !.D = High(word), !.E = Low(word) ]
      [] register = "HL" -> [ cpu EXCEPT !.H = High(word), !.L = Low(word) ]
      [] register = "SP" -> [ cpu EXCEPT !.sp = word ]
      [] register = "AF" -> [ cpu EXCEPT !.A = High(word), !.F = 16 * (Low(word) \div 16) ]

WithCpu(e, cpu) == IF e.ok THEN [ e EXCEPT !.cpu = cpu ] ELSE e
WithFlags(e, flags) == WithCpu(e, [ e.cpu EXCEPT !.F = flags ])

\* read_operand leaves the byte in e.value
ReadOperand(e, operand, imm) ==
    CASE operand \in Registers8 -> [ e EXCEPT !.value = e.cpu[operand] ]
      [] operand = "n" -> [ e EXCEPT !.value = imm[1] ]
      [] operand = "(HL)" -> ReadData(e, Hl(e.cpu))

WriteOperand(e, operand, value) ==
    IF operand = "(HL)" THEN WriteData(e, Hl(e.cpu), value)
    ELSE WithCpu(e, [ e.cpu EXCEPT ![operand] = value ])

IntoAccumulator(e) == WithCpu(e, [ e.cpu EXCEPT !.A = e.value ])

TransferAccumulator(e, address, direction) ==
    IF direction = "FromA" THEN WriteData(e, address, e.cpu.A)
    ELSE IntoAccumulator(ReadData(e, address))

StoreSpAbsolute(e, address) ==
    WriteData(WriteData(e, address, Low(e.cpu.sp)), (address + 1) % 65536, High(e.cpu.sp))

WithSp(e, sp) == WithCpu(e, [ e.cpu EXCEPT !.sp = sp ])
WithPc(e, pc) == WithCpu(e, [ e.cpu EXCEPT !.pc = pc ])
WithIme(e, ime) == WithCpu(e, [ e.cpu EXCEPT !.ime = ime ])
WithRun(e, run) == WithCpu(e, [ e.cpu EXCEPT !.run = run ])

PushWord(e, word) ==
    LET high == (e.cpu.sp + 65535) % 65536
        low == (e.cpu.sp + 65534) % 65536
    IN  WithSp(WriteData(WriteData(e, high, High(word)), low, Low(word)), low)

\* The popped word is left in e.value
Popped(second, low) ==
    [ WithSp(second, (second.cpu.sp + 2) % 65536) EXCEPT !.value = WordOf(second.value, low) ]
PopHigh(first) == Popped(ReadData(first, (first.cpu.sp + 1) % 65536), first.value)
PopWord(e) == PopHigh(ReadData(e, e.cpu.sp))

IndirectAddress(cpu, address) ==
    Register16(cpu, IF address \in { "HL+", "HL-" } THEN "HL" ELSE address)

UpdateHlAfterIndirect(e, address) ==
    CASE address = "HL+" -> WithCpu(e, SetRegister16(e.cpu, "HL", (Hl(e.cpu) + 1) % 65536))
      [] address = "HL-" -> WithCpu(e, SetRegister16(e.cpu, "HL", (Hl(e.cpu) + 65535) % 65536))
      [] address \in { "BC", "DE" } -> e

ConditionHolds(f, condition) ==
    CASE condition = "none" -> TRUE
      [] condition = "NZ" -> ~ZeroFlag(f)
      [] condition = "Z" -> ZeroFlag(f)
      [] condition = "NC" -> ~CarryFlag(f)
      [] condition = "C" -> CarryFlag(f)

-----------------------------------------------------------------------------
(***************************************************************************)
(* execute.rs: one operator per instruction class.                         *)
(***************************************************************************)
ExecuteControl(e, operation) ==
    LET f == e.cpu.F
        adjusted == DecimalAdjust(e.cpu.A, f)
    IN  CASE operation.op = "Nop" -> e
          [] operation.op = "DecimalAdjust" ->
                 WithCpu(e, [ e.cpu EXCEPT !.A = adjusted.value, !.F = adjusted.flags ])
          [] operation.op = "ComplementAccumulator" ->
                 WithCpu(e, [ e.cpu EXCEPT !.A = 255 - @, !.F = Flags(ZeroFlag(f), TRUE, TRUE, CarryFlag(f)) ])
          [] operation.op = "SetCarry" -> WithFlags(e, Flags(ZeroFlag(f), FALSE, FALSE, TRUE))
          [] operation.op = "ComplementCarry" -> WithFlags(e, Flags(ZeroFlag(f), FALSE, FALSE, ~CarryFlag(f)))

StoreValue(e, operand) == WriteOperand(e, operand, e.value)

ExecuteLoad(e, operation, imm) ==
    LET op == operation.op
        word == WordOf(imm[2], imm[1])
        offset == AddSignedToSp(e.cpu.sp, imm[1])
    IN  CASE op = "StoreSpAbsolute" -> StoreSpAbsolute(e, word)
          [] op = "Load16Immediate" -> WithCpu(e, SetRegister16(e.cpu, operation.a, word))
          [] op = "LoadAccumulatorIndirect" ->
                 UpdateHlAfterIndirect(
                     TransferAccumulator(e, IndirectAddress(e.cpu, operation.a), operation.b), operation.a)
          [] op = "Load8Immediate" -> WriteOperand(e, operation.a, imm[1])
          [] op = "Load8" -> StoreValue(ReadOperand(e, operation.b, imm), operation.a)
          [] op = "HighImmediateLoad" -> TransferAccumulator(e, 65280 + imm[1], operation.a)
          [] op = "LoadHlSpOffset" -> WithFlags(WithCpu(e, SetRegister16(e.cpu, "HL", offset.value)), offset.flags)
          [] op = "LoadSpHl" -> WithCpu(e, [ e.cpu EXCEPT !.sp = Hl(e.cpu) ])
          [] op = "HighCLoad" -> TransferAccumulator(e, 65280 + e.cpu.C, operation.a)
          [] op = "AbsoluteAccumulatorLoad" -> TransferAccumulator(e, word, operation.a)

\* The byte in e.value is combined with A, or counted up or down
Combine(e, alu) ==
    LET result == ApplyAlu(alu, e.cpu.A, e.value, e.cpu.F)
    IN  WithCpu(e, [ e.cpu EXCEPT !.A = IF alu = "CP" THEN @ ELSE result.value, !.F = result.flags ])

WriteResult(e, operand, result) == WithFlags(WriteOperand(e, operand, result.value), result.flags)

CountOperand(e, op, operand) ==
    WriteResult(e, operand,
                IF op = "Increment8" THEN Increment(e.value, e.cpu.F) ELSE Decrement(e.value, e.cpu.F))

ExecuteAlu8(e, operation, imm) ==
    IF operation.op = "Alu8" THEN Combine(ReadOperand(e, operation.b, imm), operation.a)
    ELSE CountOperand(ReadOperand(e, operation.a, imm), operation.op, operation.a)

ExecuteAlu16(e, operation, imm) ==
    LET op == operation.op
        sum == AddHl(Hl(e.cpu), Register16(e.cpu, operation.a), e.cpu.F)
        offset == AddSignedToSp(e.cpu.sp, imm[1])
    IN  CASE op = "AddHl" -> WithFlags(WithCpu(e, SetRegister16(e.cpu, "HL", sum.value)), sum.flags)
          [] op = "Increment16" ->
                 WithCpu(e, SetRegister16(e.cpu, operation.a, (Register16(e.cpu, operation.a) + 1) % 65536))
          [] op = "Decrement16" ->
                 WithCpu(e, SetRegister16(e.cpu, operation.a, (Register16(e.cpu, operation.a) + 65535) % 65536))
          [] op = "AddSpOffset" -> WithCpu(e, [ e.cpu EXCEPT !.sp = offset.value, !.F = offset.flags ])

Rotate(e, operation, operand) ==
    WriteResult(e, operand, RotateShift(operation, e.value, BitAt(e.cpu.F, 4), TRUE))

ExecuteRotate(e, operation, imm) ==
    IF operation.op = "RotateAccumulator"
    THEN LET result == RotateShift(operation.a, e.cpu.A, BitAt(e.cpu.F, 4), FALSE)
         IN  WithCpu(e, [ e.cpu EXCEPT !.A = result.value, !.F = result.flags ])
    ELSE Rotate(ReadOperand(e, operation.b, imm), operation.a, operation.b)

OnBit(e, op, bit, operand) ==
    LET set == BitAt(e.value, bit)
    IN  CASE op = "TestBit" -> WithFlags(e, Flags(set = 0, FALSE, TRUE, CarryFlag(e.cpu.F)))
          [] op = "ResetBit" -> WriteOperand(e, operand, e.value - set * Power2[bit])
          [] op = "SetBit" -> WriteOperand(e, operand, e.value + (1 - set) * Power2[bit])

ExecuteBit(e, operation, imm) ==
    OnBit(ReadOperand(e, operation.b, imm), operation.op, operation.a, operation.b)

\* The decision is returned with the executor, in e.branch
Taken(e, taken) == [ e EXCEPT !.branch = taken ]

ExecuteJump(e, operation, imm) ==
    LET taken == operation.op = "JumpHl" \/ ConditionHolds(e.cpu.F, operation.a)
        target == CASE operation.op = "RelativeJump" -> (e.cpu.pc + 65536 + Signed(imm[1])) % 65536
                    [] operation.op = "JumpHl" -> Hl(e.cpu)
                    [] operation.op = "Jump" -> WordOf(imm[2], imm[1])
    IN  Taken(IF taken THEN WithCpu(e, [ e.cpu EXCEPT !.pc = target ]) ELSE e, taken)

ReturnTo(e) == WithPc(e, e.value)

ExecuteCallReturn(e, operation, imm) ==
    LET op == operation.op
        taken == op \in { "ReturnFromInterrupt", "Restart" } \/ ConditionHolds(e.cpu.F, operation.a)
        target == IF op = "Call" THEN WordOf(imm[2], imm[1]) ELSE operation.a
    IN  Taken(CASE ~taken -> e
                [] taken /\ op = "Return" -> ReturnTo(PopWord(e))
                [] op = "ReturnFromInterrupt" -> WithIme(ReturnTo(PopWord(e)), 2)
                [] taken /\ op \in { "Call", "Restart" } -> WithPc(PushWord(e, e.cpu.pc), target),
              taken)

PopInto(e, register) == WithCpu(e, SetRegister16(e.cpu, register, e.value))

ExecuteStack(e, operation) ==
    IF operation.op = "Push" THEN PushWord(e, Register16(e.cpu, operation.a))
    ELSE PopInto(PopWord(e), operation.a)

ExecuteInterrupt(e, operation) ==
    WithIme(e, IF operation.op = "EnableInterrupts" THEN 1 ELSE 0)

ExecuteLowPower(e, operation, imm) ==
    CASE operation.op = "Halt" -> WithRun(e, 1)
      [] operation.op = "Stop" /\ imm[1] = 0 -> WithRun(e, 2)
      [] operation.op = "Stop" /\ imm[1] # 0 -> Refuse(e)

ExecuteOperation(e, class, operation, imm) ==
    CASE class = "Control" -> ExecuteControl(e, operation)
      [] class = "Load" -> ExecuteLoad(e, operation, imm)
      [] class = "Alu8" -> ExecuteAlu8(e, operation, imm)
      [] class = "Alu16" -> ExecuteAlu16(e, operation, imm)
      [] class = "RotateShift" -> ExecuteRotate(e, operation, imm)
      [] class = "Bit" -> ExecuteBit(e, operation, imm)
      [] class = "Jump" -> ExecuteJump(e, operation, imm)
      [] class = "CallReturn" -> ExecuteCallReturn(e, operation, imm)
      [] class = "Stack" -> ExecuteStack(e, operation)
      [] class = "Interrupt" -> ExecuteInterrupt(e, operation)
      [] class = "LowPower" -> ExecuteLowPower(e, operation, imm)
      [] class = "Prefix" -> Refuse(e)

-----------------------------------------------------------------------------
(***************************************************************************)
(* transition.rs: one instruction. The fetched bytes are the encoding of   *)
(* the key and the immediates imm; data are the bytes of the data reads.   *)
(***************************************************************************)
StartExecutor(cpu, mapper, profile, data) ==
    [ cpu |-> cpu, mapper |-> mapper, profile |-> profile, events |-> << >>, data |-> data, value |-> 0,
      branch |-> FALSE, ok |-> TRUE ]

FetchAndAdvance(e, role, value) ==
    IF ~e.ok THEN e
    ELSE LET fetched == FetchInstruction(e, e.cpu.pc, value, role)
         IN  WithCpu(fetched, [ e.cpu EXCEPT !.pc = (@ + 1) % 65536 ])

\* HALT with an interrupt pending repeats the byte after it: pc stays
FetchFirstOpcode(e, value) ==
    IF e.cpu.run # 3 THEN FetchAndAdvance(e, OpcodeFetch, value)
    ELSE LET fetched == FetchInstruction(e, e.cpu.pc, value, OpcodeFetch)
         IN  WithCpu(fetched, [ e.cpu EXCEPT !.run = 0 ])

ApplyDelayedIme(e, operation, pending) ==
    IF pending /\ operation.op # "DisableInterrupts" THEN WithIme(e, 2) ELSE e

\* The bytes that follow the first opcode byte: the CB opcode or immediates
Following(key, imm) ==
    IF key > 255 THEN << key - 256 >> ELSE SubSeq(imm, 1, IsaTable[key].immediates)

FirstByte(key) == IF key > 255 THEN 203 ELSE key

FetchAt(e, role, bytes, i) == IF Len(bytes) >= i THEN FetchAndAdvance(e, role, bytes[i]) ELSE e
FetchFollowing(e, role, bytes) == FetchAt(FetchAt(e, role, bytes, 1), role, bytes, 2)

Operate(e, isa, imm) == IF e.ok THEN ExecuteOperation(e, isa.class, isa.op, imm) ELSE e

HaltBug(e, operation, ime, pending) ==
    IF operation.op = "Halt" /\ ime # 2 /\ pending THEN WithRun(e, 3) ELSE e

Finish(e, isa, imm, ime, pending) ==
    HaltBug(ApplyDelayedIme(Operate(e, isa, imm), isa.op, ime = 1), isa.op, ime, pending)

\* A step of one instruction; pending: an enabled interrupt is requested
Execute1(cpu, mapper, profile, key, imm, data, pending) ==
    LET start == FetchFirstOpcode(StartExecutor(cpu, mapper, profile, data), FirstByte(key))
        role == IF key > 255 THEN OpcodeFetch ELSE ImmediateRead
    IN  Finish(FetchFollowing(start, role, Following(key, imm)), IsaTable[key], imm, cpu.ime, pending)

\* add_timing: the M-cycles of the step
Timing(isa, branch) == IF branch /\ isa.taken # 0 THEN isa.taken ELSE isa.base

=============================================================================
