----------------------------- MODULE CpuLookup -----------------------------
(***************************************************************************)
(* The fixed execution tables of the packed proof: their place in the      *)
(* compact 19-bit domain (isa's execution_lookup.rs), the query an         *)
(* instruction's trace row builds (trace's execution_lookup.rs), the value *)
(* of a table at an index (core's execution_lookup.rs), and the table and  *)
(* the bits the relation demands of a lane's lookup slots (jolt's          *)
(* execution_lookup.rs and cpu/execution.rs).                              *)
(*                                                                         *)
(* A row is a record: before and after (registers), mapper and mapperAfter,*)
(* profile, isa (the row of the fixed ISA table), key, bus (the events),   *)
(* branch (0 or 1).                                                        *)
(***************************************************************************)
EXTENDS Sm83Cpu

Tables ==
    << "Add8", "Subtract8", "And8", "Xor8", "Or8", "Increment8", "Decrement8", "RotateShift8",
       "DecimalAdjust8", "TestBit8", "ResetBit8", "SetBit8", "Condition" >>

InputBitCount(table) ==
    CASE table \in { "Add8", "Subtract8" } -> 17
      [] table \in { "And8", "Xor8", "Or8" } -> 16
      [] table \in { "Increment8", "Decrement8" } -> 9
      [] table = "RotateShift8" -> 13
      [] table \in { "DecimalAdjust8", "TestBit8" } -> 12
      [] table \in { "ResetBit8", "SetBit8" } -> 11
      [] table = "Condition" -> 6

PackedOffset(table) ==
    CASE table = "Add8" -> 0
      [] table = "Subtract8" -> 131072
      [] table = "And8" -> 262144
      [] table = "Xor8" -> 327680
      [] table = "Or8" -> 393216
      [] table = "Increment8" -> 479232
      [] table = "Decrement8" -> 480256
      [] table = "RotateShift8" -> 458752
      [] table = "DecimalAdjust8" -> 466944
      [] table = "TestBit8" -> 471040
      [] table = "ResetBit8" -> 475136
      [] table = "SetBit8" -> 477184
      [] table = "Condition" -> 481280

-----------------------------------------------------------------------------
(***************************************************************************)
(* The value of a table at an index: from_index, then evaluate. A byte     *)
(* without flags and a predicate leave the flag bits of the output clear.  *)
(***************************************************************************)
EvaluateBinary8(table, index) ==
    LET left == index % 256
        right == (index \div 256) % 256
        carry == (index \div 65536) % 2
    IN  CASE table = "Add8" -> ApplyAlu("ADC", left, right, 16 * carry)
          [] table = "Subtract8" -> ApplyAlu("SBC", left, right, 16 * carry)
          [] table = "And8" -> ApplyAlu("AND", left, right, 0)
          [] table = "Xor8" -> ApplyAlu("XOR", left, right, 0)
          [] table = "Or8" -> ApplyAlu("OR", left, right, 0)

EvaluateUnary8(table, index) ==
    LET flags == 16 * ((index \div 256) % 2)
    IN  IF table = "Increment8" THEN Increment(index % 256, flags) ELSE Decrement(index % 256, flags)

EvaluateBit8(table, index) ==
    LET value == index % 256
        bit == (index \div 256) % 8
        set == BitAt(value, bit)
        carry == (index \div 2048) % 2
    IN  CASE table = "TestBit8" -> ByteResult(value, Flags(set = 0, FALSE, TRUE, carry = 1))
          [] table = "ResetBit8" -> ByteResult(value - set * Power2[bit], 0)
          [] table = "SetBit8" -> ByteResult(value + (1 - set) * Power2[bit], 0)

EvaluateExecutionTableEntry(table, index) ==
    CASE table \in { "Add8", "Subtract8", "And8", "Xor8", "Or8" } -> EvaluateBinary8(table, index)
      [] table \in { "Increment8", "Decrement8" } -> EvaluateUnary8(table, index)
      [] table = "RotateShift8" ->
             RotateShift(CbRotates[1 + ((index \div 256) % 8)], index % 256, (index \div 2048) % 2,
                         index \div 4096 = 1)
      [] table = "DecimalAdjust8" -> DecimalAdjust(index % 256, 16 * (index \div 256))
      [] table \in { "TestBit8", "ResetBit8", "SetBit8" } -> EvaluateBit8(table, index)
      [] table = "Condition" ->
             ByteResult(Bit(ConditionHolds(16 * (index % 16), Conditions[1 + ((index \div 16) % 4)])), 0)

\* The compact union of the tables; the aligned gaps map to zero
EvaluatePackedExecutionTableEntry(address) ==
    LET holding == { i \in 1 .. Len(Tables) :
                        /\ address >= PackedOffset(Tables[i])
                        /\ address < PackedOffset(Tables[i]) + 2 ^ InputBitCount(Tables[i]) }
    IN  IF holding = {} THEN ByteResult(0, 0)
        ELSE LET table == Tables[CHOOSE i \in holding : \A j \in holding : i <= j]
             IN  EvaluateExecutionTableEntry(table, address - PackedOffset(table))

-----------------------------------------------------------------------------
(***************************************************************************)
(* The queries of a trace row.                                             *)
(***************************************************************************)
DataReadKinds == { RomRead, MemoryRead, InputRead, Mbc3OpenBusRead, DmgMmioRead, DmgJoypadRead }
DataWriteKinds == { MemoryWrite, OutputWrite, Mbc3ControlWrite, Mbc3IgnoredWrite, DmgMmioWrite }
ImmediateKinds == { ImmediateRead, MemoryImmediateRead }
OpcodeKinds == { OpcodeFetch, MemoryOpcodeFetch }

\* The values of the events of some kinds, in bus order
ValuesOf(r, kinds) ==
    LET Chosen(event) == event.kind \in kinds
        events == SelectSeq(r.bus, Chosen)
    IN  [ i \in 1 .. Len(events) |-> events[i].value ]

FirstOr0(values) == IF values = << >> THEN 0 ELSE values[1]

OperandValue(r, operand) ==
    CASE operand \in Registers8 -> r.before[operand]
      [] operand = "n" -> FirstOr0(ValuesOf(r, ImmediateKinds))
      [] operand = "(HL)" -> FirstOr0(ValuesOf(r, DataReadKinds))

\* lookup_index of the query shapes
Binary8(table, left, right, carry) == [ table |-> table, index |-> left + 256 * right + 65536 * carry ]
Unary8(table, value, carry) == [ table |-> table, index |-> value + 256 * carry ]
Bit8(table, value, bit, carry) == [ table |-> table, index |-> value + 256 * bit + 2048 * carry ]

RotateShift8(value, rotate, carry, zeroFromResult) ==
    [ table |-> "RotateShift8",
      index |-> value + 256 * CodeIn(CbRotates, rotate) + 2048 * carry + 4096 * zeroFromResult ]

DecimalAdjust8(accumulator, f) ==
    [ table |-> "DecimalAdjust8", index |-> accumulator + 256 * (f \div 16) ]

ConditionQuery(condition, f) ==
    [ table |-> "Condition", index |-> (f \div 16) + 16 * CodeIn(Conditions, condition) ]

ByteAddQueries(left, right) ==
    << Binary8("Add8", Low(left), Low(right), 0),
       Binary8("Add8", High(left), High(right), Bit(Low(left) + Low(right) > 255)) >>

\* Mutant: the sign extension is forgotten in the high byte of SP + offset.
SignedByteAddQueriesUnsigned(sp, offset) ==
    << Binary8("Add8", Low(sp), offset, 0),
       Binary8("Add8", High(sp), 0, Bit(Low(sp) + offset > 255)) >>

SignedByteAddQueries(sp, offset) ==
    << Binary8("Add8", Low(sp), offset, 0),
       Binary8("Add8", High(sp), IF offset < 128 THEN 0 ELSE 255, Bit(Low(sp) + offset > 255)) >>

AluQuery(alu, left, right, carry) ==
    Binary8(AluLookupTable(alu), left, right, IF alu \in { "ADC", "SBC" } THEN carry ELSE 0)

BuildQueries(r) ==
    LET operation == r.isa.op
        op == operation.op
        f == r.before.F
        carry == BitAt(f, 4)
    IN  CASE op = "AddHl" -> ByteAddQueries(Hl(r.before), Register16(r.before, operation.a))
          [] op = "Increment8" -> << Unary8("Increment8", OperandValue(r, operation.a), carry) >>
          [] op = "Decrement8" -> << Unary8("Decrement8", OperandValue(r, operation.a), carry) >>
          [] op = "RotateAccumulator" -> << RotateShift8(r.before.A, operation.a, carry, 0) >>
          [] op = "DecimalAdjust" -> << DecimalAdjust8(r.before.A, f) >>
          [] op = "Alu8" -> << AluQuery(operation.a, r.before.A, OperandValue(r, operation.b), carry) >>
          [] op \in { "AddSpOffset", "LoadHlSpOffset" } ->
                 SignedByteAddQueries(r.before.sp, OperandValue(r, "n"))
          [] op \in { "RelativeJump", "Return", "Jump", "Call" } /\ operation.a # "none" ->
                 << ConditionQuery(operation.a, f) >>
          [] op = "CbRotate" -> << RotateShift8(OperandValue(r, operation.b), operation.a, carry, 1) >>
          [] op = "TestBit" -> << Bit8("TestBit8", OperandValue(r, operation.b), operation.a, carry) >>
          [] op = "ResetBit" -> << Bit8("ResetBit8", OperandValue(r, operation.b), operation.a, 0) >>
          [] op = "SetBit" -> << Bit8("SetBit8", OperandValue(r, operation.b), operation.a, 0) >>
          [] OTHER -> << >>

\* outputs_match_transition: the outputs agree with the recorded effect
OutputOperandValue(r, operand) ==
    IF operand \in Registers8 THEN r.after[operand]
    ELSE LET written == ValuesOf(r, DataWriteKinds) IN written[Len(written)]

WordAddMatchesTransition(r, outputs, preserveZero) ==
    /\ (IF r.isa.op.op = "AddSpOffset" THEN r.after.sp ELSE Hl(r.after))
            = WordOf(outputs[2].value, outputs[1].value)
    /\ LET flags == IF preserveZero THEN outputs[2].flags ELSE outputs[1].flags
       IN  r.after.F = Flags(preserveZero /\ ZeroFlag(r.before.F), FALSE, HalfFlag(flags), CarryFlag(flags))

OutputMatchesTransition(r, output) ==
    LET operation == r.isa.op
        op == operation.op
    IN  CASE op = "TestBit" \/ (op = "Alu8" /\ operation.a = "CP") -> r.after.F = output.flags
          [] op \in { "Increment8", "Decrement8" } ->
                 r.after.F = output.flags /\ OutputOperandValue(r, operation.a) = output.value
          [] op = "CbRotate" -> r.after.F = output.flags /\ OutputOperandValue(r, operation.b) = output.value
          [] op \in { "RotateAccumulator", "DecimalAdjust" } \/ (op = "Alu8" /\ operation.a # "CP") ->
                 r.after.A = output.value /\ r.after.F = output.flags
          [] op \in { "ResetBit", "SetBit" } -> OutputOperandValue(r, operation.b) = output.value
          [] op \in { "RelativeJump", "Return", "Jump", "Call" } -> r.branch = output.value

OutputsMatchTransition(r, outputs) ==
    CASE r.isa.op.op = "AddHl" -> WordAddMatchesTransition(r, outputs, TRUE)
      [] r.isa.op.op \in { "AddSpOffset", "LoadHlSpOffset" } -> WordAddMatchesTransition(r, outputs, FALSE)
      [] OTHER -> outputs = << >> \/ OutputMatchesTransition(r, outputs[1])

\* InstructionLookupRecords::from_row and append_record: the queries follow
\* the static plan, and are committed as addresses of the compact domain
Records(queries) ==
    [ i \in 1 .. Len(queries) |->
        [ address |-> PackedOffset(queries[i].table) + queries[i].index,
          output |-> EvaluateExecutionTableEntry(queries[i].table, queries[i].index) ] ]

RecordedLookups(r) == Records(BuildQueries(r))

LookupsRefused(r) ==
    LET queries == BuildQueries(r)
        recorded == RecordedLookups(r)
    IN  \/ [ i \in 1 .. Len(queries) |-> queries[i].table ] # r.isa.plan
        \/ ~OutputsMatchTransition(r, [ i \in 1 .. Len(recorded) |-> recorded[i].output ])

-----------------------------------------------------------------------------
(***************************************************************************)
(* The relation on a lane's lookup slots. A slot that is selected has its  *)
(* address bits above the table's width fixed to the table's offset and    *)
(* the bits below equal to the operands; an unselected slot is zero.       *)
(***************************************************************************)
Is(r, code) == r.isa.operation = code
IsOneOf(r, codes) == r.isa.operation \in codes

Slot(r, i) == IF i < Len(r.bus) THEN r.bus[i + 1] ELSE Event(Unused, 0, 0, 0)

ConditionalOperations == { 3, 20, 28, 34 }
IsConditional(r) == IsOneOf(r, ConditionalOperations) /\ r.isa.zero \in 1 .. 4

\* table_selectors, from the operation and the first argument
TableSelected(r) ==
    CASE IsOneOf(r, { 5, 22, 23 }) \/ (Is(r, 19) /\ r.isa.zero \in { 0, 1 }) -> "Add8"
      [] Is(r, 19) /\ r.isa.zero \in { 2, 3, 7 } -> "Subtract8"
      [] Is(r, 19) /\ r.isa.zero = 4 -> "And8"
      [] Is(r, 19) /\ r.isa.zero = 5 -> "Xor8"
      [] Is(r, 19) /\ r.isa.zero = 6 -> "Or8"
      [] Is(r, 9) -> "Increment8"
      [] Is(r, 10) -> "Decrement8"
      [] IsOneOf(r, { 12, 37 }) -> "RotateShift8"
      [] Is(r, 13) -> "DecimalAdjust8"
      [] Is(r, 38) -> "TestBit8"
      [] Is(r, 39) -> "ResetBit8"
      [] Is(r, 40) -> "SetBit8"
      [] IsConditional(r) -> "Condition"
      [] OTHER -> "none"

SecondSelected(r) == IsOneOf(r, { 5, 22, 23 })

\* byte_register_routes, selected_primary_operand_bit and _destination_bit:
\* the byte an operand code names, 6 the bus value at a slot, 8 the immediate
PrimaryOperand(r, argument, slot) ==
    IF argument \in { 6, 8 } THEN Slot(r, slot).value ELSE r.before[Operand8s[argument + 1]]

PrimaryDestination(r, argument, slot) ==
    IF argument = 6 THEN Slot(r, slot).value ELSE r.after[Operand8s[argument + 1]]

SelectedWord(r) == Register16(r.before, Register16s[r.isa.zero + 1])

\* first_input_bit and second_byte_input_bit, byte by byte
FirstInputByte(r) ==
    CASE Is(r, 5) -> r.before.L
      [] IsOneOf(r, { 22, 23 }) -> Low(r.before.sp)
      [] IsOneOf(r, { 12, 13, 19 }) -> r.before.A
      [] IsOneOf(r, { 9, 10 }) -> PrimaryOperand(r, r.isa.zero, 1)
      [] IsOneOf(r, 37 .. 40) -> PrimaryOperand(r, r.isa.one, 2)
      [] IsConditional(r) -> (r.before.F \div 16) + 16 * (r.isa.zero - 1)

SecondInputByte(r, immediateLow) ==
    LET carry == BitAt(r.before.F, 4)
    IN  CASE Is(r, 5) -> Low(SelectedWord(r))
          [] IsOneOf(r, { 22, 23 }) -> immediateLow
          [] Is(r, 19) -> PrimaryOperand(r, r.isa.one, 1)
          [] IsOneOf(r, { 9, 10 }) -> carry
          [] IsOneOf(r, { 12, 37 }) -> r.isa.zero + 8 * carry + 16 * Bit(Is(r, 37))
          [] Is(r, 38) -> r.isa.zero + 8 * carry
          [] IsOneOf(r, { 39, 40 }) -> r.isa.zero
          [] Is(r, 13) -> r.before.F \div 16
          [] IsConditional(r) -> 0

FirstCarryIn(r) == IF Is(r, 19) /\ r.isa.zero \in { 1, 3 } THEN BitAt(r.before.F, 4) ELSE 0

FirstAddress(r, immediateLow) ==
    PackedOffset(TableSelected(r)) + FirstInputByte(r) + 256 * SecondInputByte(r, immediateLow)
        + 65536 * FirstCarryIn(r)

\* second_input_bit: the high bytes, with the first lookup's carry out
SecondAddress(r, immediateLow, first) ==
    LET left == IF Is(r, 5) THEN r.before.H ELSE High(r.before.sp)
        right == IF Is(r, 5) THEN High(SelectedWord(r)) ELSE 255 * BitAt(immediateLow, 7)
    IN  PackedOffset("Add8") + left + 256 * right + 65536 * BitAt(first.flags, 4)

\* The slots the relation accepts: address and output of each lookup
PackedLookup(address) == [ address |-> address, output |-> EvaluatePackedExecutionTableEntry(address) ]

LookupsFrom(r, immediateLow, first) ==
    << first >> \o (IF SecondSelected(r) THEN << PackedLookup(SecondAddress(r, immediateLow, first.output)) >>
                    ELSE << >>)

DemandedLookups(r, immediateLow) ==
    IF TableSelected(r) = "none" THEN << >>
    ELSE LookupsFrom(r, immediateLow, PackedLookup(FirstAddress(r, immediateLow)))

\* The carry of the table's flags is not compared
ConstrainResultFlagsLax(r, lookups) ==
    LET first == lookups[1].output.flags
    IN  /\ IsOneOf(r, { 9, 10, 12, 13, 19, 37, 38 }) => r.after.F \div 32 = first \div 32
        /\ Is(r, 5) => r.after.F \div 32 = Flags(ZeroFlag(r.before.F), FALSE,
                                                 HalfFlag(lookups[2].output.flags), FALSE) \div 32
        /\ IsOneOf(r, { 22, 23 }) => r.after.F \div 32 = Flags(FALSE, FALSE, HalfFlag(first), FALSE) \div 32

ConstrainResultFlags(r, lookups) ==
    LET first == lookups[1].output.flags
    IN  /\ IsOneOf(r, { 9, 10, 12, 13, 19, 37, 38 }) => r.after.F \div 16 = first \div 16
        /\ Is(r, 5) => r.after.F \div 16 = Flags(ZeroFlag(r.before.F), FALSE, HalfFlag(lookups[2].output.flags),
                                                  CarryFlag(lookups[2].output.flags)) \div 16
        /\ IsOneOf(r, { 22, 23 }) =>
               r.after.F \div 16 = Flags(FALSE, FALSE, HalfFlag(first), CarryFlag(first)) \div 16

ConstrainResultBytes(r, lookups) ==
    LET first == lookups[1].output.value
        destination == IF Is(r, 22) THEN r.after.sp ELSE Hl(r.after)
    IN  /\ IsOneOf(r, { 9, 10 }) => PrimaryDestination(r, r.isa.zero, 2) = first
        /\ IsOneOf(r, { 12, 13 }) \/ (Is(r, 19) /\ r.isa.zero # 7) => r.after.A = first
        /\ IsOneOf(r, { 37, 39, 40 }) => PrimaryDestination(r, r.isa.one, 3) = first
        /\ SecondSelected(r) => destination = WordOf(lookups[2].output.value, first)

\* constrain_execution_lookup_glue with the lookup argument's table values
ConstrainOutputs(r, lookups) ==
    /\ ConstrainResultBytes(r, lookups)
    /\ ConstrainResultFlags(r, lookups)
    /\ IsConditional(r) => lookups[1].output.value % 2 = r.branch

ConstrainExecutionLookupGlue(r, immediateLow) ==
    TableSelected(r) = "none" \/ ConstrainOutputs(r, DemandedLookups(r, immediateLow))

=============================================================================
