------------------------------ MODULE Sm83Isa ------------------------------
(***************************************************************************)
(* The SM83 instruction set of zksm83-isa: the decoder of the 256 primary  *)
(* and the 256 CB-prefixed encodings (decode.rs), the metadata derived     *)
(* from the decoded operation (metadata.rs) and the numeric descriptor     *)
(* the proof ISA is addressed with (types.rs, alignment.rs).               *)
(*                                                                         *)
(* An operation is a record [op, a, b]: op its name, a and b the typed     *)
(* operands of the variant, named as an assembler would name them.         *)
(***************************************************************************)
EXTENDS Integers, Sequences, FiniteSets

LOCAL INSTANCE SequencesExt

Byte == 0 .. 255
Word == 0 .. 65535

\* operand8, register16, stack_register16, condition, alu_operation, cb_rotate
Operand8s == << "B", "C", "D", "E", "H", "L", "(HL)", "A" >>
Register16s == << "BC", "DE", "HL", "SP" >>
StackRegister16s == << "BC", "DE", "HL", "AF" >>
Conditions == << "NZ", "Z", "NC", "C" >>
AluOperations == << "ADD", "ADC", "SUB", "SBC", "AND", "XOR", "OR", "CP" >>
CbRotates == << "RLC", "RRC", "RL", "RR", "SLA", "SRA", "SWAP", "SRL" >>
IndirectAddresses == << "BC", "DE", "HL+", "HL-" >>
Directions == << "IntoA", "FromA" >>

Registers8 == { "A", "B", "C", "D", "E", "H", "L" }

-----------------------------------------------------------------------------
(***************************************************************************)
(* decode.rs                                                               *)
(***************************************************************************)
Operation(op, a, b) == [ op |-> op, a |-> a, b |-> b ]

\* tuple and conditional: the operation, its length and its timing; the
\* taken timing of an unconditional operation is 0 (None)
Tuple(operation, len, cycles) ==
    [ operation |-> operation, len |-> len, base |-> cycles, taken |-> 0 ]

Conditional(operation, len, base, taken) ==
    [ operation |-> operation, len |-> len, base |-> base, taken |-> taken ]

IsUndefined(byte) ==
    byte \in { 211, 219, 221, 227, 228, 235, 236, 237, 244, 252, 253 }

Plain(op) == Operation(op, "-", "-")

\* Encoding fields y and z of a byte, and the halves p and q of y
FieldY(byte) == (byte \div 8) % 8
FieldZ(byte) == byte % 8

IndirectAccumulator(y) ==
    Operation("LoadAccumulatorIndirect", IndirectAddresses[(y \div 2) + 1],
              IF y % 2 = 0 THEN "FromA" ELSE "IntoA")

BlockZeroMisc(y) ==
    IF y < 4 THEN Operation("RotateAccumulator", CbRotates[y + 1], "-")
    ELSE Plain(<< "DecimalAdjust", "ComplementAccumulator", "SetCarry", "ComplementCarry" >>[y - 3])

DecodeBlockZero(y, z) ==
    LET p == y \div 2
        even == y % 2 = 0
    IN  CASE z = 0 /\ y = 0 -> Tuple(Plain("Nop"), 1, 1)
          [] z = 0 /\ y = 1 -> Tuple(Plain("StoreSpAbsolute"), 3, 5)
          [] z = 0 /\ y = 2 -> Tuple(Plain("Stop"), 2, 1)
          [] z = 0 /\ y = 3 -> Tuple(Operation("RelativeJump", "none", "-"), 2, 3)
          [] z = 0 /\ y > 3 -> Conditional(Operation("RelativeJump", Conditions[y - 3], "-"), 2, 2, 3)
          [] z = 1 -> IF even THEN Tuple(Operation("Load16Immediate", Register16s[p + 1], "-"), 3, 3)
                      ELSE Tuple(Operation("AddHl", Register16s[p + 1], "-"), 1, 2)
          [] z = 2 -> Tuple(IndirectAccumulator(y), 1, 2)
          [] z = 3 -> Tuple(Operation(IF even THEN "Increment16" ELSE "Decrement16",
                                      Register16s[p + 1], "-"), 1, 2)
          [] z \in { 4, 5 } -> Tuple(Operation(IF z = 4 THEN "Increment8" ELSE "Decrement8",
                                               Operand8s[y + 1], "-"), 1, IF y = 6 THEN 3 ELSE 1)
          [] z = 6 -> Tuple(Operation("Load8Immediate", Operand8s[y + 1], "-"), 2,
                            IF y = 6 THEN 3 ELSE 2)
          [] z = 7 -> Tuple(BlockZeroMisc(y), 1, 1)

DecodeBlockOne(y, z) ==
    IF y = 6 /\ z = 6 THEN Tuple(Plain("Halt"), 1, 1)
    ELSE Tuple(Operation("Load8", Operand8s[y + 1], Operand8s[z + 1]), 1, IF 6 \in { y, z } THEN 2 ELSE 1)

DecodeBlockTwo(y, z) ==
    Tuple(Operation("Alu8", AluOperations[y + 1], Operand8s[z + 1]), 1, IF z = 6 THEN 2 ELSE 1)

DecodeBlockThreeZOne(p, even) ==
    CASE even -> Tuple(Operation("Pop", StackRegister16s[p + 1], "-"), 1, 3)
      [] ~even /\ p = 0 -> Tuple(Operation("Return", "none", "-"), 1, 4)
      [] ~even /\ p = 1 -> Tuple(Plain("ReturnFromInterrupt"), 1, 4)
      [] ~even /\ p = 2 -> Tuple(Plain("JumpHl"), 1, 1)
      [] ~even /\ p = 3 -> Tuple(Plain("LoadSpHl"), 1, 2)

DecodeBlockThree(y, z) ==
    LET p == y \div 2
        even == y % 2 = 0
    IN  CASE z = 0 /\ y < 4 -> Conditional(Operation("Return", Conditions[y + 1], "-"), 1, 2, 5)
          [] z = 0 /\ y = 4 -> Tuple(Operation("HighImmediateLoad", "FromA", "-"), 2, 3)
          [] z = 0 /\ y = 5 -> Tuple(Plain("AddSpOffset"), 2, 4)
          [] z = 0 /\ y = 6 -> Tuple(Operation("HighImmediateLoad", "IntoA", "-"), 2, 3)
          [] z = 0 /\ y = 7 -> Tuple(Plain("LoadHlSpOffset"), 2, 3)
          [] z = 1 -> DecodeBlockThreeZOne(p, even)
          [] z = 2 /\ y < 4 -> Conditional(Operation("Jump", Conditions[y + 1], "-"), 3, 3, 4)
          [] z = 2 /\ y = 4 -> Tuple(Operation("HighCLoad", "FromA", "-"), 1, 2)
          [] z = 2 /\ y = 5 -> Tuple(Operation("AbsoluteAccumulatorLoad", "FromA", "-"), 3, 4)
          [] z = 2 /\ y = 6 -> Tuple(Operation("HighCLoad", "IntoA", "-"), 1, 2)
          [] z = 2 /\ y = 7 -> Tuple(Operation("AbsoluteAccumulatorLoad", "IntoA", "-"), 3, 4)
          [] z = 3 /\ y = 0 -> Tuple(Operation("Jump", "none", "-"), 3, 4)
          [] z = 3 /\ y = 1 -> Tuple(Plain("PrefixCb"), 1, 1)
          [] z = 3 /\ y = 6 -> Tuple(Plain("DisableInterrupts"), 1, 1)
          [] z = 3 /\ y = 7 -> Tuple(Plain("EnableInterrupts"), 1, 1)
          [] z = 4 -> Conditional(Operation("Call", Conditions[y + 1], "-"), 3, 3, 6)
          [] z = 5 -> IF even THEN Tuple(Operation("Push", StackRegister16s[p + 1], "-"), 1, 4)
                      ELSE Tuple(Operation("Call", "none", "-"), 3, 6)
          [] z = 6 -> Tuple(Operation("Alu8", AluOperations[y + 1], "n"), 2, 2)
          [] z = 7 -> Tuple(Operation("Restart", y * 8, "-"), 1, 4)

DecodePrimary(byte) ==
    CASE byte < 64 -> DecodeBlockZero(FieldY(byte), FieldZ(byte))
      [] byte \in 64 .. 127 -> DecodeBlockOne(FieldY(byte), FieldZ(byte))
      [] byte \in 128 .. 191 -> DecodeBlockTwo(FieldY(byte), FieldZ(byte))
      [] byte \in 192 .. 255 -> DecodeBlockThree(FieldY(byte), FieldZ(byte))

DecodeCb(byte) ==
    LET y == FieldY(byte)
        target == Operand8s[FieldZ(byte) + 1]
        operation == CASE byte < 64 -> Operation("CbRotate", CbRotates[y + 1], target)
                       [] byte \in 64 .. 127 -> Operation("TestBit", y, target)
                       [] byte \in 128 .. 191 -> Operation("ResetBit", y, target)
                       [] byte \in 192 .. 255 -> Operation("SetBit", y, target)
    IN  Tuple(operation, 2, CASE target # "(HL)" -> 2
                              [] target = "(HL)" /\ operation.op = "TestBit" -> 3
                              [] target = "(HL)" /\ operation.op # "TestBit" -> 4)

-----------------------------------------------------------------------------
(***************************************************************************)
(* metadata.rs                                                             *)
(***************************************************************************)
CbOperations == { "CbRotate", "TestBit", "ResetBit", "SetBit" }

Class(operation) ==
    LET op == operation.op
    IN  CASE op \in { "Nop", "DecimalAdjust", "ComplementAccumulator", "SetCarry", "ComplementCarry" }
               -> "Control"
          [] op \in { "StoreSpAbsolute", "Load16Immediate", "LoadAccumulatorIndirect", "Load8Immediate",
                      "Load8", "HighImmediateLoad", "LoadHlSpOffset", "LoadSpHl", "HighCLoad",
                      "AbsoluteAccumulatorLoad" } -> "Load"
          [] op \in { "Increment8", "Decrement8", "Alu8" } -> "Alu8"
          [] op \in { "AddHl", "Increment16", "Decrement16", "AddSpOffset" } -> "Alu16"
          [] op \in { "RotateAccumulator", "CbRotate" } -> "RotateShift"
          [] op \in { "TestBit", "ResetBit", "SetBit" } -> "Bit"
          [] op \in { "RelativeJump", "JumpHl", "Jump" } -> "Jump"
          [] op \in { "Return", "ReturnFromInterrupt", "Call", "Restart" } -> "CallReturn"
          [] op \in { "Pop", "Push" } -> "Stack"
          [] op \in { "DisableInterrupts", "EnableInterrupts" } -> "Interrupt"
          [] op \in { "Stop", "Halt" } -> "LowPower"
          [] op = "PrefixCb" -> "Prefix"

\* What an operation does to each flag: "P"reserve, "C"lear, "S"et, "D"erived
Effect(zero, subtract, half, carry) == [ Z |-> zero, N |-> subtract, H |-> half, C |-> carry ]
PreserveFlags == Effect("P", "P", "P", "P")

\* AND is declared like the other logical operations
AluFlagsLogical(alu) ==
    CASE alu \in { "ADD", "ADC" } -> Effect("D", "C", "D", "D")
      [] alu \in { "SUB", "SBC", "CP" } -> Effect("D", "S", "D", "D")
      [] alu \in { "AND", "XOR", "OR" } -> Effect("D", "C", "C", "C")

AluFlags(alu) ==
    CASE alu \in { "ADD", "ADC" } -> Effect("D", "C", "D", "D")
      [] alu \in { "SUB", "SBC", "CP" } -> Effect("D", "S", "D", "D")
      [] alu = "AND" -> Effect("D", "C", "S", "C")
      [] alu \in { "XOR", "OR" } -> Effect("D", "C", "C", "C")

FlagEffect(operation) ==
    LET op == operation.op
    IN  CASE op = "Increment8" -> Effect("D", "C", "D", "P")
          [] op = "Decrement8" -> Effect("D", "S", "D", "P")
          [] op = "AddHl" -> Effect("P", "C", "D", "D")
          [] op \in { "AddSpOffset", "LoadHlSpOffset" } -> Effect("C", "C", "D", "D")
          [] op = "RotateAccumulator" -> Effect("C", "C", "C", "D")
          [] op = "DecimalAdjust" -> Effect("D", "P", "C", "D")
          [] op = "ComplementAccumulator" -> Effect("P", "S", "S", "P")
          [] op = "SetCarry" -> Effect("P", "C", "C", "S")
          [] op = "ComplementCarry" -> Effect("P", "C", "C", "D")
          [] op = "Alu8" -> AluFlags(operation.a)
          [] op = "CbRotate" -> Effect("D", "C", "C", "D")
          [] op = "TestBit" -> Effect("D", "C", "S", "P")
          [] op = "Pop" /\ operation.a = "AF" -> Effect("D", "D", "D", "D")
          [] OTHER -> PreserveFlags

\* Data reads and writes on the base path, and those a taken branch adds
Bus(reads, writes, takenReads, takenWrites) ==
    [ reads |-> reads, writes |-> writes, takenReads |-> takenReads, takenWrites |-> takenWrites ]

DirectionBus(direction) == IF direction = "IntoA" THEN Bus(1, 0, 0, 0) ELSE Bus(0, 1, 0, 0)

OperandTransferBus(destination, source) ==
    CASE destination = "(HL)" -> Bus(0, 1, 0, 0)
      [] destination # "(HL)" /\ source = "(HL)" -> Bus(1, 0, 0, 0)
      [] "(HL)" \notin { destination, source } -> Bus(0, 0, 0, 0)

BusPattern(operation) ==
    LET op == operation.op
    IN  CASE op = "StoreSpAbsolute" -> Bus(0, 2, 0, 0)
          [] op = "LoadAccumulatorIndirect" -> DirectionBus(operation.b)
          [] op \in { "HighImmediateLoad", "HighCLoad", "AbsoluteAccumulatorLoad" } -> DirectionBus(operation.a)
          [] op \in { "Increment8", "Decrement8" } /\ operation.a = "(HL)" -> Bus(1, 1, 0, 0)
          [] op = "Load8Immediate" /\ operation.a = "(HL)" -> Bus(0, 1, 0, 0)
          [] op = "Load8" -> OperandTransferBus(operation.a, operation.b)
          [] op = "Alu8" /\ operation.b = "(HL)" -> Bus(1, 0, 0, 0)
          [] op = "Return" /\ operation.a # "none" -> Bus(0, 0, 2, 0)
          [] (op = "Return" /\ operation.a = "none") \/ op \in { "ReturnFromInterrupt", "Pop" } -> Bus(2, 0, 0, 0)
          [] op = "Call" /\ operation.a # "none" -> Bus(0, 0, 0, 2)
          [] (op = "Call" /\ operation.a = "none") \/ op \in { "Push", "Restart" } -> Bus(0, 2, 0, 0)
          [] op \in CbOperations /\ operation.b = "(HL)" ->
                 IF op = "TestBit" THEN Bus(1, 0, 0, 0) ELSE Bus(1, 1, 0, 0)
          [] OTHER -> Bus(0, 0, 0, 0)

OpcodeFetches(operation) == IF operation.op \in CbOperations THEN 2 ELSE 1
ImmediateReads(operation, len) == IF operation.op \in CbOperations THEN 0 ELSE len - 1

\* register_mask, stack_register_mask: the components of a register pair
PairOf(register) ==
    CASE register = "BC" -> { "B", "C" }
      [] register = "DE" -> { "D", "E" }
      [] register \in { "HL", "HL+", "HL-" } -> { "H", "L" }
      [] register = "SP" -> { "sp" }
      [] register = "AF" -> { "A", "F" }

\* add_operand_read, add_operand_write and add_destination_access
OperandRead(operand) ==
    CASE operand \in Registers8 -> { operand }
      [] operand = "n" -> {}
      [] operand = "(HL)" -> { "H", "L" }

OperandWrite(operand) == { operand } \cap Registers8

DestinationRead(operand) == IF operand = "(HL)" THEN { "H", "L" } ELSE {}

TransferRead(direction) == IF direction = "FromA" THEN { "A" } ELSE {}
TransferWrite(direction) == IF direction = "IntoA" THEN { "A" } ELSE {}

\* add_operation_access: what the operation itself reads and writes
OperationReads(operation) ==
    LET op == operation.op
        a == operation.a
        b == operation.b
    IN  CASE op \in { "StoreSpAbsolute", "AddSpOffset", "LoadHlSpOffset", "Pop", "ReturnFromInterrupt",
                      "Return", "Call", "Restart" } -> { "sp" }
          [] op \in { "Increment16", "Decrement16" } -> PairOf(a)
          [] op = "AddHl" -> { "H", "L" } \cup PairOf(a)
          [] op = "LoadAccumulatorIndirect" -> PairOf(a) \cup TransferRead(b)
          [] op \in { "Increment8", "Decrement8" } -> OperandRead(a)
          [] op = "Load8Immediate" -> DestinationRead(a)
          [] op \in { "RotateAccumulator", "DecimalAdjust", "ComplementAccumulator" } -> { "A" }
          [] op = "Load8" -> OperandRead(b) \cup DestinationRead(a)
          [] op = "Alu8" -> { "A" } \cup OperandRead(b)
          [] op \in { "HighImmediateLoad", "AbsoluteAccumulatorLoad" } -> TransferRead(a)
          [] op = "HighCLoad" -> { "C" } \cup TransferRead(a)
          [] op \in { "JumpHl", "LoadSpHl" } -> { "H", "L" }
          [] op = "Push" -> { "sp" } \cup PairOf(a)
          [] op \in CbOperations -> OperandRead(b)
          [] OTHER -> {}

OperationWrites(operation) ==
    LET op == operation.op
        a == operation.a
        b == operation.b
    IN  CASE op \in { "Stop", "Halt" } -> { "run" }
          [] op \in { "Load16Immediate", "Increment16", "Decrement16" } -> PairOf(a)
          [] op \in { "AddHl", "LoadHlSpOffset" } -> { "H", "L" }
          [] op = "LoadAccumulatorIndirect" ->
                 TransferWrite(b) \cup (IF a \in { "HL+", "HL-" } THEN { "H", "L" } ELSE {})
          [] op \in { "Increment8", "Decrement8", "Load8Immediate", "Load8" } -> OperandWrite(a)
          [] op \in { "RotateAccumulator", "DecimalAdjust", "ComplementAccumulator" } -> { "A" }
          [] op = "Alu8" -> IF a = "CP" THEN {} ELSE { "A" }
          [] op \in { "HighImmediateLoad", "HighCLoad", "AbsoluteAccumulatorLoad" } -> TransferWrite(a)
          [] op \in { "AddSpOffset", "LoadSpHl", "ReturnFromInterrupt", "Return", "Call", "Push", "Restart" }
               -> { "sp" }
          [] op = "Pop" -> { "sp" } \cup PairOf(a)
          [] op \in CbOperations \ { "TestBit" } -> OperandWrite(b)
          [] OTHER -> {}

StateReads(operation) == { "pc", "ime", "run", "F" } \cup OperationReads(operation)

StateWrites(operation) ==
    { "pc", "ime" } \cup OperationWrites(operation)
        \cup (IF FlagEffect(operation) # PreserveFlags THEN { "F" } ELSE {})

-----------------------------------------------------------------------------
(***************************************************************************)
(* The numeric descriptor (types.rs) and the routing of an operation to a  *)
(* fixed execution table (execution_lookup.rs).                            *)
(***************************************************************************)
OperationNames ==
    << "Nop", "StoreSpAbsolute", "Stop", "RelativeJump", "Load16Immediate", "AddHl",
       "LoadAccumulatorIndirect", "Increment16", "Decrement16", "Increment8", "Decrement8",
       "Load8Immediate", "RotateAccumulator", "DecimalAdjust", "ComplementAccumulator", "SetCarry",
       "ComplementCarry", "Load8", "Halt", "Alu8", "Return", "HighImmediateLoad", "AddSpOffset",
       "LoadHlSpOffset", "Pop", "ReturnFromInterrupt", "JumpHl", "LoadSpHl", "Jump", "HighCLoad",
       "AbsoluteAccumulatorLoad", "PrefixCb", "DisableInterrupts", "EnableInterrupts", "Call", "Push",
       "Restart", "CbRotate", "TestBit", "ResetBit", "SetBit" >>

\* The stable code of a name is its position in the enumeration
CodeIn(names, name) == SelectInSeq(names, LAMBDA n : n = name) - 1

OperandCode(operand) == IF operand = "n" THEN 8 ELSE CodeIn(Operand8s, operand)
ConditionCode(condition) == IF condition = "none" THEN 0 ELSE CodeIn(Conditions, condition) + 1

ArgumentZero(operation) ==
    LET op == operation.op
        a == operation.a
    IN  CASE op \in { "RelativeJump", "Return", "Jump", "Call" } -> ConditionCode(a)
          [] op \in { "Load16Immediate", "AddHl", "Increment16", "Decrement16" } -> CodeIn(Register16s, a)
          [] op = "LoadAccumulatorIndirect" -> CodeIn(IndirectAddresses, a)
          [] op \in { "Increment8", "Decrement8", "Load8Immediate", "Load8" } -> OperandCode(a)
          [] op \in { "RotateAccumulator", "CbRotate" } -> CodeIn(CbRotates, a)
          [] op = "Alu8" -> CodeIn(AluOperations, a)
          [] op \in { "HighImmediateLoad", "HighCLoad", "AbsoluteAccumulatorLoad" } -> CodeIn(Directions, a)
          [] op \in { "Pop", "Push" } -> CodeIn(StackRegister16s, a)
          [] op = "Restart" -> a \div 8
          [] op \in { "TestBit", "ResetBit", "SetBit" } -> a
          [] OTHER -> 0

ArgumentOne(operation) ==
    LET op == operation.op
    IN  CASE op = "LoadAccumulatorIndirect" -> CodeIn(Directions, operation.b)
          [] op \in { "Load8", "Alu8" } \cup CbOperations -> OperandCode(operation.b)
          [] OTHER -> 0

Descriptor(operation) ==
    [ operation |-> CodeIn(OperationNames, operation.op),
      zero |-> ArgumentZero(operation), one |-> ArgumentOne(operation) ]

AluLookupTable(alu) ==
    CASE alu \in { "ADD", "ADC" } -> "Add8"
      [] alu \in { "SUB", "SBC", "CP" } -> "Subtract8"
      [] alu = "AND" -> "And8"
      [] alu = "XOR" -> "Xor8"
      [] alu = "OR" -> "Or8"

\* execution_proof_plan: the tables queried, in order; none for glue
LookupPlan(operation) ==
    LET op == operation.op
    IN  CASE op \in { "AddHl", "AddSpOffset", "LoadHlSpOffset" } -> << "Add8", "Add8" >>
          [] op = "Increment8" -> << "Increment8" >>
          [] op = "Decrement8" -> << "Decrement8" >>
          [] op \in { "RotateAccumulator", "CbRotate" } -> << "RotateShift8" >>
          [] op = "DecimalAdjust" -> << "DecimalAdjust8" >>
          [] op = "Alu8" -> << AluLookupTable(operation.a) >>
          [] op \in { "RelativeJump", "Return", "Jump", "Call" } /\ operation.a # "none" -> << "Condition" >>
          [] op = "TestBit" -> << "TestBit8" >>
          [] op = "ResetBit" -> << "ResetBit8" >>
          [] op = "SetBit" -> << "SetBit8" >>
          [] OTHER -> << >>

-----------------------------------------------------------------------------
(***************************************************************************)
(* AlignedInstruction::from_decoded and the fixed table of isa.rs: the row *)
(* of every defined encoding. Key = prefix * 256 + opcode.                 *)
(***************************************************************************)
AlignedRow(decoded, operation, bus, code) ==
    [ op |-> operation, class |-> Class(operation), operation |-> code.operation,
      zero |-> code.zero, one |-> code.one, len |-> decoded.len, base |-> decoded.base,
      taken |-> decoded.taken, flags |-> FlagEffect(operation), reads |-> StateReads(operation),
      writes |-> StateWrites(operation), fetches |-> OpcodeFetches(operation),
      immediates |-> ImmediateReads(operation, decoded.len), dataReads |-> bus.reads,
      dataWrites |-> bus.writes, takenReads |-> bus.takenReads, takenWrites |-> bus.takenWrites,
      plan |-> LookupPlan(operation) ]

Aligned(decoded) ==
    AlignedRow(decoded, decoded.operation, BusPattern(decoded.operation), Descriptor(decoded.operation))

DefinedKeys == { key \in 0 .. 511 : key > 255 \/ ~IsUndefined(key) }

IsaTable ==
    [ key \in DefinedKeys |-> Aligned(IF key < 256 THEN DecodePrimary(key) ELSE DecodeCb(key - 256)) ]

=============================================================================
