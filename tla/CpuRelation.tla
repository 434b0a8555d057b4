---------------------------- MODULE CpuRelation ----------------------------
(***************************************************************************)
(* What the proof asks of one instruction: the constraints of cpu/*.rs on  *)
(* the row-wise reference relation and on a lane of the packed relation,   *)
(* and the auxiliary columns the trace writes for them (trace.rs,          *)
(* trace/word.rs, trace/daa.rs).                                           *)
(*                                                                         *)
(* The rows are those of CpuLookup, with the M-cycles of the step. A       *)
(* witness w is a record of the auxiliary columns. A constraint is an      *)
(* equation over the integers: the columns are range checked, so no        *)
(* equation wraps around the field.                                        *)
(***************************************************************************)
EXTENDS CpuLookup

Components == { "A", "F", "B", "C", "D", "E", "H", "L", "pc", "sp", "ime", "run" }

CarryBefore(r) == BitAt(r.before.F, 4)
HalfBefore(r) == BitAt(r.before.F, 5)
SubtractBefore(r) == BitAt(r.before.F, 6)
ZeroBefore(r) == BitAt(r.before.F, 7)

ImmediateWord(w) == WordOf(w.immediateHigh, w.immediateLow)

-----------------------------------------------------------------------------
(***************************************************************************)
(* semantics.rs: byte arithmetic of the row-wise relation.                 *)
(***************************************************************************)
ArithmeticOperations == { 9, 10, 12, 13, 19, 22, 23, 37, 38, 39, 40 }

ConstrainArithmeticWitness(r, w) == w.zero = Bit(w.result = 0)

ConstrainOperandRouting(r, w) ==
    /\ IsOneOf(r, { 9, 10 }) => w.operand = PrimaryOperand(r, r.isa.zero, 1)
    /\ Is(r, 19) => w.operand = PrimaryOperand(r, r.isa.one, 1)

ConstrainIncrementDecrement(r, w) ==
    /\ Is(r, 9) =>
           /\ w.operand + 1 = w.result + 256 * w.carry
           /\ (w.operand % 16) + 1 = (w.result % 16) + 16 * w.half
           /\ r.after.F = 128 * w.zero + 32 * w.half + 16 * CarryBefore(r)
    /\ Is(r, 10) =>
           /\ w.operand + 256 * w.carry = w.result + 1
           /\ (w.operand % 16) + 16 * w.half = (w.result % 16) + 1
           /\ r.after.F = 128 * w.zero + 64 + 32 * w.half + 16 * CarryBefore(r)

ConstrainIncrementDestination(r, w) ==
    IsOneOf(r, { 9, 10 }) =>
        /\ PrimaryDestination(r, r.isa.zero, 2) = w.result
        /\ r.isa.zero = 6 =>
               /\ Slot(r, 1).address = Hl(r.before)
               /\ Slot(r, 1).value = w.operand
               /\ Slot(r, 2).address = Hl(r.before)

ConstrainLogicalAlu(r, w) ==
    /\ r.isa.zero = 4 => w.result = AndByte(r.before.A, w.operand)
    /\ r.isa.zero = 5 => w.result = XorByte(r.before.A, w.operand)
    /\ r.isa.zero = 6 => w.result = OrByte(r.before.A, w.operand)

ConstrainAluOutputs(r, w) ==
    LET derived == Bit(r.isa.zero \in { 0, 1, 2, 3, 7 })
    IN  /\ r.isa.zero # 7 => r.after.A = w.result
        /\ r.after.F = 128 * w.zero + 64 * Bit(r.isa.zero \in { 2, 3, 7 }) + 32 * w.half * derived
                          + 32 * Bit(r.isa.zero = 4) + 16 * w.carry * derived

ConstrainAlu(r, w) ==
    LET carryIn == Bit(r.isa.zero \in { 1, 3 }) * CarryBefore(r)
        a == r.before.A
    IN  Is(r, 19) =>
            /\ r.isa.zero \in { 0, 1 } =>
                   /\ a + w.operand + carryIn = w.result + 256 * w.carry
                   /\ (a % 16) + (w.operand % 16) + carryIn = (w.result % 16) + 16 * w.half
            /\ r.isa.zero \in { 2, 3, 7 } =>
                   /\ a + 256 * w.carry = w.result + w.operand + carryIn
                   /\ (a % 16) + 16 * w.half = (w.result % 16) + (w.operand % 16) + carryIn
            /\ ConstrainLogicalAlu(r, w)
            /\ ConstrainAluOutputs(r, w)

ConstrainUnusedWitness(r, w) ==
    /\ ~IsOneOf(r, ArithmeticOperations \cup { 17 }) => w.operand = 0
    /\ ~IsOneOf(r, ArithmeticOperations) => w.result = 0 /\ w.carry = 0 /\ w.half = 0 /\ w.zero = 1

ConstrainByteArithmetic(r, w) ==
    /\ ConstrainArithmeticWitness(r, w)
    /\ ConstrainOperandRouting(r, w)
    /\ ConstrainIncrementDecrement(r, w)
    /\ ConstrainIncrementDestination(r, w)
    /\ ConstrainAlu(r, w)
    /\ ConstrainUnusedWitness(r, w)

-----------------------------------------------------------------------------
(***************************************************************************)
(* data.rs: loads, transfers, simple flags, low power and IME.             *)
(***************************************************************************)
ConstrainStoreSp(r, w) ==
    IF Is(r, 1)
    THEN /\ Slot(r, 3).address = ImmediateWord(w)
         /\ Slot(r, 3).value = Low(r.before.sp)
         /\ Slot(r, 4).address = ImmediateWord(w) + 1 - 65536 * w.addressWrap
         /\ Slot(r, 4).value = High(r.before.sp)
    ELSE w.addressWrap = 0

ConstrainImmediateLoads(r, w) ==
    /\ Is(r, 4) => Register16(r.after, Register16s[r.isa.zero + 1]) = ImmediateWord(w)
    /\ Is(r, 11) =>
           /\ PrimaryDestination(r, r.isa.zero, 2) = w.immediateLow
           /\ r.isa.zero = 6 => Slot(r, 2).address = Hl(r.before)
    /\ Is(r, 2) => w.immediateLow = 0

\* The slot a load from (HL) reads has its value, not its address, bound here
ConstrainLoad8(r, w) ==
    Is(r, 17) =>
        /\ w.operand = PrimaryOperand(r, r.isa.one, 1)
        /\ PrimaryDestination(r, r.isa.zero, 1) = w.operand
        /\ r.isa.zero = 6 => Slot(r, 1).address = Hl(r.before)

ConstrainDirectionalTransfer(r, slot, address, direction) ==
    /\ Slot(r, slot).address = address
    /\ IF direction = 0 THEN r.after.A = Slot(r, slot).value ELSE Slot(r, slot).value = r.before.A

ConstrainAccumulatorTransfers(r, w) ==
    /\ Is(r, 6) => ConstrainDirectionalTransfer(r, 1,
                       CASE r.isa.zero = 0 -> Register16(r.before, "BC")
                         [] r.isa.zero = 1 -> Register16(r.before, "DE")
                         [] r.isa.zero \in { 2, 3 } -> Hl(r.before), r.isa.one)
    /\ Is(r, 21) => ConstrainDirectionalTransfer(r, 2, 65280 + w.immediateLow, r.isa.zero)
    /\ Is(r, 29) => ConstrainDirectionalTransfer(r, 1, 65280 + r.before.C, r.isa.zero)
    /\ Is(r, 30) => ConstrainDirectionalTransfer(r, 3, ImmediateWord(w), r.isa.zero)

ConstrainSimpleFlags(r) ==
    /\ Is(r, 14) =>
           /\ r.after.A + r.before.A = 255
           /\ r.after.F = 128 * ZeroBefore(r) + 96 + 16 * CarryBefore(r)
    /\ Is(r, 15) => r.after.F = 128 * ZeroBefore(r) + 16
    /\ Is(r, 16) => r.after.F = 128 * ZeroBefore(r) + 16 * (1 - CarryBefore(r))

ConstrainLowPower(r) ==
    /\ Is(r, 2) => r.after.run = 2
    /\ Is(r, 18) => r.after.run \in { 1, 3 }

ConstrainIme(r) ==
    r.after.ime = CASE Is(r, 32) -> 0
                    [] Is(r, 25) -> 2
                    [] Is(r, 33) -> IF r.before.ime = 1 THEN 2 ELSE 1
                    [] OTHER -> IF r.before.ime = 0 THEN 0 ELSE 2

ConstrainDataAndSimpleOperations(r, w) ==
    /\ ConstrainStoreSp(r, w)
    /\ ConstrainImmediateLoads(r, w)
    /\ ConstrainLoad8(r, w)
    /\ ConstrainAccumulatorTransfers(r, w)
    /\ ConstrainSimpleFlags(r)
    /\ ConstrainLowPower(r)
    /\ ConstrainIme(r)

-----------------------------------------------------------------------------
(***************************************************************************)
(* word.rs: 16-bit arithmetic. The packed lane takes the additions from    *)
(* the execution tables and keeps the increments.                          *)
(***************************************************************************)
ChangesHl(r) == Is(r, 6) /\ r.isa.zero \in { 2, 3 }

ConstrainWordIncrementDecrement(r, w) ==
    LET register == Register16s[r.isa.zero + 1]
    IN  /\ Is(r, 7) => Register16(r.after, register) = Register16(r.before, register) + 1 - 65536 * w.wordWrap
        /\ Is(r, 8) => Register16(r.after, register) = Register16(r.before, register) - 1 + 65536 * w.wordWrap
        /\ Is(r, 6) /\ r.isa.zero = 2 => Hl(r.after) = Hl(r.before) + 1 - 65536 * w.wordWrap
        /\ Is(r, 6) /\ r.isa.zero = 3 => Hl(r.after) = Hl(r.before) - 1 + 65536 * w.wordWrap
        /\ Is(r, 27) => r.after.sp = Hl(r.before)

ConstrainAddHl(r, w) ==
    Is(r, 5) =>
        /\ Hl(r.before) + SelectedWord(r) = Hl(r.after) + 65536 * w.wordCarry
        /\ (Hl(r.before) % 4096) + (SelectedWord(r) % 4096) = (Hl(r.after) % 4096) + 4096 * w.wordHalf
        /\ r.after.F = 128 * ZeroBefore(r) + 32 * w.wordHalf + 16 * w.wordCarry

ConstrainSignedSp(r, w) ==
    LET sp == r.before.sp
        imm == w.immediateLow
        target == sp + imm - 256 * BitAt(imm, 7) + 65536 * w.spUnder - 65536 * w.spOver
    IN  /\ w.spUnder * w.spOver = 0
        /\ Is(r, 22) => r.after.sp = target
        /\ Is(r, 23) => Hl(r.after) = target
        /\ IsOneOf(r, { 22, 23 }) =>
               /\ w.operand = imm
               /\ Low(sp) + imm = w.result + 256 * w.carry
               /\ (sp % 16) + (imm % 16) = (w.result % 16) + 16 * w.half
               /\ r.after.F = 32 * w.half + 16 * w.carry

ConstrainWordWrapScope(r, w) == ~IsOneOf(r, { 7, 8 }) /\ ~ChangesHl(r) => w.wordWrap = 0

ConstrainWordWitnessScope(r, w) ==
    /\ ConstrainWordWrapScope(r, w)
    /\ ~Is(r, 5) => w.wordCarry = 0 /\ w.wordHalf = 0
    /\ ~IsOneOf(r, { 22, 23 }) => w.spUnder = 0 /\ w.spOver = 0

ConstrainWordOperations(r, w) ==
    /\ ConstrainWordIncrementDecrement(r, w)
    /\ ConstrainAddHl(r, w)
    /\ ConstrainSignedSp(r, w)
    /\ ConstrainWordWitnessScope(r, w)

ConstrainWordOperationsWithLookup(r, w) ==
    /\ ConstrainWordIncrementDecrement(r, w)
    /\ ConstrainWordWrapScope(r, w)

-----------------------------------------------------------------------------
(***************************************************************************)
(* stack.rs: pushes, pops and their wraps.                                 *)
(***************************************************************************)
PushControl(r) == IsOneOf(r, { 35, 36 }) \/ (Is(r, 34) /\ r.branch = 1)
PopControl(r) == IsOneOf(r, { 24, 25 }) \/ (Is(r, 20) /\ r.branch = 1)
StackWord(r) == Register16(r.before, StackRegister16s[r.isa.zero + 1])

ConstrainPushes(r, w) ==
    LET first == IF Is(r, 34) THEN 3 ELSE 1
        high == Slot(r, first)
        low == Slot(r, first + 1)
        sp == r.before.sp
    IN  /\ IsOneOf(r, { 34, 35, 36 }) => r.after.sp = sp - 2 * Bit(PushControl(r)) + 65536 * w.stackWrap
        /\ PushControl(r) =>
               /\ high.address = sp - 1 + 65536 * w.stackFirst
               /\ low.address = sp - 2 + 65536 * w.stackWrap
               /\ WordOf(high.value, low.value) = IF Is(r, 35) THEN StackWord(r) ELSE w.sequential

ConstrainPops(r, w) ==
    LET control == Bit(PopControl(r))
        low == Slot(r, 1)
        high == Slot(r, 2)
        sp == r.before.sp
    IN  /\ IsOneOf(r, { 20, 24, 25 }) =>
               /\ r.after.sp = sp + 2 * control - 65536 * w.stackWrap
               /\ low.address = control * sp
               /\ high.address = control * (sp + 1 - 65536 * w.stackFirst)
        /\ Is(r, 24) /\ r.isa.zero # 3 =>
               Register16(r.after, StackRegister16s[r.isa.zero + 1]) = WordOf(high.value, low.value)
        /\ Is(r, 24) /\ r.isa.zero = 3 =>
               /\ r.after.A = high.value
               /\ low.value = r.after.F + w.popLow

ConstrainStackWitnessScope(r, w) ==
    /\ ~PushControl(r) /\ ~PopControl(r) => w.stackWrap = 0 /\ w.stackFirst = 0
    /\ ~(Is(r, 24) /\ r.isa.zero = 3) => w.popLow = 0

ConstrainStackOperations(r, w) ==
    /\ w.popLow \in 0 .. 15
    /\ ConstrainPushes(r, w)
    /\ ConstrainPops(r, w)
    /\ ConstrainStackWitnessScope(r, w)

-----------------------------------------------------------------------------
(***************************************************************************)
(* control.rs: fetch, branch and program counter.                          *)
(***************************************************************************)
ConstrainInstructionWitness(r, w) ==
    LET count == r.isa.immediates
    IN  /\ w.immediateLow = IF count >= 1 THEN Slot(r, 1).value ELSE 0
        /\ w.immediateHigh = IF count = 2 THEN Slot(r, 2).value ELSE 0
        /\ r.before.run \in { 0, 3 }
        /\ w.haltBug = Bit(r.before.run = 3)
        /\ w.sequential \in Word
        /\ w.sequential = r.before.pc + r.isa.fetches + count - w.haltBug - 65536 * w.pcWrap

ConstrainFetchAlignment(r, w) ==
    LET one == r.before.pc + 1 - w.haltBug - 65536 * w.fetchOneWrap
        two == r.before.pc + 2 - w.haltBug - 65536 * w.fetchTwoWrap
    IN  /\ Slot(r, 0).address = r.before.pc
        /\ Slot(r, 0).value = FirstByte(r.key)
        /\ r.key > 255 => Slot(r, 1).address = one /\ Slot(r, 1).value = r.key - 256
        /\ r.key < 256 /\ r.isa.immediates >= 1 => Slot(r, 1).address = one
        /\ r.key < 256 /\ r.isa.immediates = 2 => Slot(r, 2).address = two

ConstrainBranchDecision(r) ==
    r.branch = CASE IsOneOf(r, ConditionalOperations) ->
                        (CASE r.isa.zero = 0 -> 1
                           [] r.isa.zero = 1 -> 1 - ZeroBefore(r)
                           [] r.isa.zero = 2 -> ZeroBefore(r)
                           [] r.isa.zero = 3 -> 1 - CarryBefore(r)
                           [] r.isa.zero = 4 -> CarryBefore(r))
                 [] IsOneOf(r, { 25, 26, 36 }) -> 1
                 [] OTHER -> 0

\* A conditional branch of the packed lane is decided by its lookup alone
ConstrainBranchRoutingWithLookup(r) ==
    LET fixed == IsOneOf(r, { 25, 26, 36 }) \/ (IsOneOf(r, ConditionalOperations) /\ r.isa.zero = 0)
    IN  IsConditional(r) \/ r.branch = Bit(fixed)

ConstrainProgramCounter(r, w) ==
    LET pc == r.after.pc
        next == w.sequential
        relative == next + w.immediateLow - 256 * BitAt(w.immediateLow, 7) + 65536 * w.underflow
                        - 65536 * w.overflow
        popped == WordOf(Slot(r, 2).value, Slot(r, 1).value)
    IN  /\ w.underflow * w.overflow = 0
        /\ ~(Is(r, 3) /\ r.branch = 1) => w.underflow = 0 /\ w.overflow = 0
        /\ pc = CASE IsOneOf(r, ConditionalOperations) /\ r.branch = 0 -> next
                  [] Is(r, 3) /\ r.branch = 1 -> relative
                  [] IsOneOf(r, { 28, 34 }) /\ r.branch = 1 -> ImmediateWord(w)
                  [] Is(r, 20) /\ r.branch = 1 -> popped
                  [] Is(r, 25) -> popped
                  [] Is(r, 26) -> Hl(r.before)
                  [] Is(r, 36) -> 8 * r.isa.zero
                  [] OTHER -> next

ConstrainInstructionFlow(r, w) ==
    /\ ConstrainInstructionWitness(r, w)
    /\ ConstrainFetchAlignment(r, w)
    /\ ConstrainBranchDecision(r)
    /\ ConstrainProgramCounter(r, w)

ConstrainInstructionFlowWithLookup(r, w) ==
    /\ ConstrainInstructionWitness(r, w)
    /\ ConstrainFetchAlignment(r, w)
    /\ ConstrainBranchRoutingWithLookup(r)
    /\ ConstrainProgramCounter(r, w)

-----------------------------------------------------------------------------
(***************************************************************************)
(* bit.rs and daa.rs.                                                      *)
(***************************************************************************)
\* rotate_result_bit of every bit, and the carry out, of a rotate code
RotatedByte(code, value, carryIn) ==
    ByteOf([ i \in 0 .. 7 |->
        CASE code = 6 -> BitAt(value, (i + 4) % 8)
          [] code \in { 0, 2, 4 } /\ i > 0 -> BitAt(value, i - 1)
          [] code \in { 1, 3, 5, 7 } /\ i < 7 -> BitAt(value, i + 1)
          [] code = 0 /\ i = 0 -> BitAt(value, 7)
          [] code = 1 /\ i = 7 -> BitAt(value, 0)
          [] code \in { 2, 3 } /\ i \in { 0, 7 } -> carryIn
          [] code = 5 /\ i = 7 -> BitAt(value, 7)
          [] code \in { 4, 7 } /\ i \in { 0, 7 } -> 0 ])

ConstrainBitOperandRouting(r, w) ==
    /\ Is(r, 12) => w.operand = r.before.A
    /\ IsOneOf(r, 37 .. 40) => w.operand = PrimaryOperand(r, r.isa.one, 2)

ConstrainRotations(r, w) ==
    IsOneOf(r, { 12, 37 }) =>
        /\ w.result = RotatedByte(r.isa.zero, w.operand, CarryBefore(r))
        /\ w.carry = CASE r.isa.zero \in { 0, 2, 4 } -> BitAt(w.operand, 7)
                       [] r.isa.zero \in { 1, 3, 5, 7 } -> BitAt(w.operand, 0)
                       [] r.isa.zero = 6 -> 0
        /\ w.half = 0
        /\ Is(r, 12) => r.after.A = w.result /\ r.after.F = 16 * w.carry
        /\ Is(r, 37) => r.after.F = 128 * w.zero + 16 * w.carry

ConstrainBitOperations(r, w) ==
    LET bit == r.isa.zero
    IN  IsOneOf(r, 38 .. 40) =>
            /\ w.carry = 0 /\ w.half = 0
            /\ Is(r, 38) =>
                   /\ w.result = w.operand
                   /\ r.after.F = 128 * (1 - BitAt(w.operand, bit)) + 32 + 16 * CarryBefore(r)
            /\ Is(r, 39) => w.result = w.operand - BitAt(w.operand, bit) * Power2[bit]
            /\ Is(r, 40) => w.result = w.operand + (1 - BitAt(w.operand, bit)) * Power2[bit]

\* The addresses of a CB operation on (HL); the packed lane keeps only these
ConstrainCbBusWithLookup(r) ==
    IsOneOf(r, 37 .. 40) /\ r.isa.one = 6 =>
        /\ Slot(r, 2).address = Hl(r.before)
        /\ ~Is(r, 38) => Slot(r, 3).address = Hl(r.before)

ConstrainCbDestination(r, w) ==
    /\ IsOneOf(r, { 37, 39, 40 }) => PrimaryDestination(r, r.isa.one, 3) = w.result
    /\ ConstrainCbBusWithLookup(r)
    /\ IsOneOf(r, 37 .. 40) /\ r.isa.one = 6 => Slot(r, 2).value = w.operand

ConstrainRotateAndBitOperations(r, w) ==
    /\ ConstrainBitOperandRouting(r, w)
    /\ ConstrainRotations(r, w)
    /\ ConstrainBitOperations(r, w)
    /\ ConstrainCbDestination(r, w)

ConstrainDecimalAdjust(r, w) ==
    LET a(i) == BitAt(r.before.A, i)
        Above(three, two, one) == three * (two + one - two * one)
        sub == SubtractBefore(r)
        lowOr == HalfBefore(r) + w.lowGtNine - HalfBefore(r) * w.lowGtNine
        highOr == CarryBefore(r) + w.accGt99 - CarryBefore(r) * w.accGt99
        correction == 6 * w.lowAdjust + 96 * w.highAdjust
    IN  IF Is(r, 13)
        THEN /\ w.lowGtNine = Above(a(3), a(2), a(1))
             /\ w.highGtNine = Above(a(7), a(6), a(5))
             /\ w.highEqualsNine = a(7) * (1 - a(6)) * (1 - a(5)) * a(4)
             /\ w.accGt99 = w.highGtNine + w.highEqualsNine * w.lowGtNine
             /\ w.lowAdjust = sub * HalfBefore(r) + (1 - sub) * lowOr
             /\ w.highAdjust = sub * CarryBefore(r) + (1 - sub) * highOr
             /\ r.before.A + (1 - 2 * sub) * correction = w.result + 256 * w.daaWrap - 512 * sub * w.daaWrap
             /\ w.operand = r.before.A
             /\ r.after.A = w.result
             /\ w.carry = w.highAdjust
             /\ w.half = 0
             /\ r.after.F = 128 * w.zero + 64 * sub + 16 * w.highAdjust
        ELSE /\ w.lowGtNine = 0 /\ w.highGtNine = 0 /\ w.highEqualsNine = 0 /\ w.accGt99 = 0
             /\ w.lowAdjust = 0 /\ w.highAdjust = 0 /\ w.daaWrap = 0

-----------------------------------------------------------------------------
(***************************************************************************)
(* mbc3.rs, memory.rs and the bus of cpu.rs.                               *)
(***************************************************************************)
Slots == 0 .. 4

\* Bits 15 to 13 of an address in A000-BFFF
ExternalBits(address) == BitAt(address, 15) = 1 /\ BitAt(address, 14) = 0 /\ BitAt(address, 13) = 1

ConstrainExternalRamPolicy(r) ==
    LET available == r.mapper.ram /\ BitAt(r.mapper.select, 2) = 0 /\ BitAt(r.mapper.select, 3) = 0
    IN  \A i \in Slots : Slot(r, i).kind \in { Mbc3OpenBusRead, Mbc3IgnoredWrite } =>
            /\ ExternalBits(Slot(r, i).address)
            /\ ~available
            /\ Slot(r, i).physical = 0
            /\ ~(r.profile.rtc /\ r.mapper.select \in 8 .. 12)
            /\ Slot(r, i).kind = Mbc3OpenBusRead => Slot(r, i).value = 255

ConstrainRomMapping(r) ==
    \A i \in Slots : Slot(r, i).kind \in { OpcodeFetch, ImmediateRead, RomRead } =>
        /\ BitAt(Slot(r, i).address, 15) = 0
        /\ Slot(r, i).physical = Slot(r, i).address + BitAt(Slot(r, i).address, 14) * (r.mapper.bank - 1) * 16384

MappedRomBank(profile, value) ==
    LET bank == value % BankMask(profile) IN IF bank = 0 THEN 1 ELSE bank

ConstrainMapperUpdates(r) ==
    LET controls == { i \in Slots : Slot(r, i).kind = Mbc3ControlWrite }
        Segment(i) == (Slot(r, i).address \div 8192) % 4
        In(segment) == { Slot(r, i).value : i \in { j \in controls : Segment(j) = segment } }
    IN  /\ Cardinality(controls) <= 1
        /\ \A i \in controls : Slot(r, i).address < 32768 /\ Slot(r, i).physical = 0
        /\ r.mapperAfter.ram = IF In(0) = {} THEN r.mapper.ram ELSE \E v \in In(0) : v % 16 = 10
        /\ IF In(1) = {} THEN r.mapperAfter.bank = r.mapper.bank
           ELSE \A v \in In(1) : r.mapperAfter.bank = MappedRomBank(r.profile, v)
        /\ IF In(2) = {} THEN r.mapperAfter.select = r.mapper.select
           ELSE \A v \in In(2) : r.mapperAfter.select = v % 16

ConstrainMapperAndRom(r) ==
    /\ ConstrainRomMapping(r)
    /\ ConstrainExternalRamPolicy(r)
    /\ ConstrainMapperUpdates(r)

\* The physical address of the events of the read-write memory argument
ConstrainPhysicalMapping(r) ==
    \A i \in Slots : Slot(r, i).kind \in { MemoryRead, MemoryWrite, MemoryOpcodeFetch, MemoryImmediateRead } =>
        LET external == ExternalBits(Slot(r, i).address)
        IN  /\ external => r.mapper.ram /\ BitAt(r.mapper.select, 2) = 0 /\ BitAt(r.mapper.select, 3) = 0
            /\ Slot(r, i).physical =
                   Slot(r, i).address + Bit(external) * (24576 + r.mapper.select * 8192)
            /\ Slot(r, i).physical < 131072

\* constrain_memory_slot of the packed relation: the 17-bit table
ConstrainMemorySlots(r) ==
    \A i \in Slots : Slot(r, i).kind \in { MemoryRead, MemoryWrite, MemoryOpcodeFetch, MemoryImmediateRead } =>
        Slot(r, i).physical < 131072

\* constrain_instruction_bus_counts and, in a lane, constrain_lane_event_counts
ConstrainInstructionBusCounts(r) ==
    LET Count(kinds) == Cardinality({ i \in Slots : Slot(r, i).kind \in kinds })
    IN  /\ Count(OpcodeKinds) = r.isa.fetches
        /\ Count(ImmediateKinds) = r.isa.immediates
        /\ Count(DataReadKinds) = r.isa.dataReads + r.branch * r.isa.takenReads
        /\ Count(DataWriteKinds) = r.isa.dataWrites + r.branch * r.isa.takenWrites

\* constrain_cycles_and_frames and, in a lane, constrain_lane
ConstrainCycles(r) ==
    r.cycles = r.isa.base + r.branch * Bit(r.isa.taken # 0) * (r.isa.taken - r.isa.base)

ConstrainStateWriteMask(r, w) ==
    \A c \in Components \ r.isa.writes :
        r.after[c] = r.before[c] - (IF c = "run" THEN 3 * w.haltBug ELSE 0)

-----------------------------------------------------------------------------
(***************************************************************************)
(* CpuStructuralRelation on an instruction row, and a lane of              *)
(* BlockCpuRelation (constrain_instruction_lane with the frontend, flow    *)
(* and memory relations below it).                                         *)
(***************************************************************************)
RowHolds(r, w) ==
    /\ ConstrainStateWriteMask(r, w)
    /\ ConstrainCycles(r)
    /\ ConstrainInstructionBusCounts(r)
    /\ ConstrainInstructionFlow(r, w)
    /\ ConstrainByteArithmetic(r, w)
    /\ ConstrainDataAndSimpleOperations(r, w)
    /\ ConstrainWordOperations(r, w)
    /\ ConstrainStackOperations(r, w)
    /\ ConstrainRotateAndBitOperations(r, w)
    /\ ConstrainDecimalAdjust(r, w)
    /\ ConstrainMapperAndRom(r)
    /\ ConstrainPhysicalMapping(r)

LaneHolds(r, w) ==
    /\ ConstrainStateWriteMask(r, w)
    /\ ConstrainCycles(r)
    /\ ConstrainInstructionBusCounts(r)
    /\ ConstrainExecutionLookupGlue(r, w.immediateLow)
    /\ ConstrainMapperAndRom(r)
    /\ ConstrainInstructionFlowWithLookup(r, w)
    /\ ConstrainDataAndSimpleOperations(r, w)
    /\ ConstrainWordOperationsWithLookup(r, w)
    /\ ConstrainStackOperations(r, w)
    /\ ConstrainCbBusWithLookup(r)
    /\ ConstrainMemorySlots(r)

=============================================================================
