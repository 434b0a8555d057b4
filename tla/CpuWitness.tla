----------------------------- MODULE CpuWitness -----------------------------
(***************************************************************************)
(* The auxiliary columns of an instruction row, as the trace encoder       *)
(* writes them (trace.rs, trace/word.rs, trace/daa.rs), and the other      *)
(* values the same columns can take.                                       *)
(***************************************************************************)
EXTENDS CpuRelation, TLC

Arithmetic(operand, result, carry, half) ==
    [ operand |-> operand, result |-> result, carry |-> Bit(carry), half |-> Bit(half) ]

FirstDataValue(r) == FirstOr0(ValuesOf(r, DataReadKinds))
FirstImmediateValue(r) == FirstOr0(ValuesOf(r, ImmediateKinds))

ArithmeticOperand(r) ==
    LET code == IF IsOneOf(r, { 9, 10 }) THEN r.isa.zero ELSE r.isa.one
    IN  CASE IsOneOf(r, { 12, 13 }) -> r.before.A
          [] IsOneOf(r, { 22, 23 }) -> FirstImmediateValue(r)
          [] IsOneOf(r, { 9, 10, 17, 19 } \cup (37 .. 40)) ->
                 (CASE code = 6 -> FirstDataValue(r)
                    [] code = 8 -> FirstImmediateValue(r)
                    [] code \notin { 6, 8 } -> r.before[Operand8s[code + 1]])
          [] OTHER -> 0

AddWitness(left, right, carryIn) ==
    LET sum == left + right + carryIn
    IN  Arithmetic(right, sum % 256, sum > 255, (left % 16) + (right % 16) + carryIn > 15)

SubtractWitness(left, right, carryIn) ==
    Arithmetic(right, (left - right - carryIn + 512) % 256, left < right + carryIn,
               left % 16 < (right % 16) + carryIn)

AluWitness(r, operand) ==
    LET a == r.before.A
        carry == CarryBefore(r)
        code == r.isa.zero
    IN  CASE code \in { 0, 1 } -> AddWitness(a, operand, code * carry)
          [] code \in { 2, 3, 7 } -> SubtractWitness(a, operand, Bit(code = 3) * carry)
          [] code = 4 -> Arithmetic(operand, AndByte(a, operand), FALSE, TRUE)
          [] code = 5 -> Arithmetic(operand, XorByte(a, operand), FALSE, FALSE)
          [] code = 6 -> Arithmetic(operand, OrByte(a, operand), FALSE, FALSE)

SignedSpWitness(r, operand) ==
    LET sp == r.before.sp
        result == IF Is(r, 22) THEN Low(r.after.sp) ELSE r.after.L
    IN  Arithmetic(operand, result, Low(sp) + operand > 255, (sp % 16) + (operand % 16) > 15)

RotateWitness(code, operand, carryIn) ==
    LET rotated == RotateShift(CbRotates[code + 1], operand, carryIn, FALSE)
    IN  Arithmetic(operand, rotated.value, CarryFlag(rotated.flags), FALSE)

BitWriteWitness(r, operand) ==
    LET mask == Power2[r.isa.zero]
        set == BitAt(operand, r.isa.zero)
    IN  Arithmetic(operand, IF Is(r, 39) THEN operand - set * mask ELSE operand + (1 - set) * mask, FALSE, FALSE)

OperationWitnessOf(r, operand) ==
    CASE Is(r, 9) -> Arithmetic(operand, (operand + 1) % 256, operand = 255, operand % 16 = 15)
      [] Is(r, 10) -> Arithmetic(operand, (operand + 255) % 256, operand = 0, operand % 16 = 0)
      [] Is(r, 17) -> Arithmetic(operand, 0, FALSE, FALSE)
      [] Is(r, 19) -> AluWitness(r, operand)
      [] IsOneOf(r, { 22, 23 }) -> SignedSpWitness(r, operand)
      [] IsOneOf(r, { 12, 37 }) -> RotateWitness(r.isa.zero, operand, CarryBefore(r))
      [] Is(r, 13) -> Arithmetic(operand, r.after.A, CarryFlag(r.after.F), FALSE)
      [] Is(r, 38) -> Arithmetic(operand, operand, FALSE, FALSE)
      [] IsOneOf(r, { 39, 40 }) -> BitWriteWitness(r, operand)
      [] OTHER -> Arithmetic(0, 0, FALSE, FALSE)

OperationWitness(r) == OperationWitnessOf(r, ArithmeticOperand(r))

-----------------------------------------------------------------------------
\* append_instruction_witness
InstructionWitness(r) ==
    LET values == ValuesOf(r, ImmediateKinds)
        low == FirstOr0(values)
        high == IF Len(values) > 1 THEN values[2] ELSE 0
        bug == Bit(r.before.run = 3)
        unwrapped == r.before.pc + r.isa.len - bug
        target == (unwrapped % 65536) + Signed(low)
        taken == Is(r, 3) /\ r.branch = 1
    IN  [ immediateLow |-> low, immediateHigh |-> high, sequential |-> unwrapped % 65536,
          pcWrap |-> Bit(unwrapped > 65535), haltBug |-> bug,
          fetchOneWrap |-> Bit(r.before.pc + 1 - bug > 65535),
          fetchTwoWrap |-> Bit(r.before.pc + 2 - bug > 65535),
          underflow |-> Bit(taken /\ target < 0), overflow |-> Bit(taken /\ target > 65535) ]

\* trace/word.rs
WordWrap(r) ==
    CASE Is(r, 7) -> SelectedWord(r) = 65535
      [] Is(r, 8) -> SelectedWord(r) = 0
      [] Is(r, 6) /\ r.isa.zero = 2 -> Hl(r.before) = 65535
      [] Is(r, 6) /\ r.isa.zero = 3 -> Hl(r.before) = 0
      [] OTHER -> FALSE

StackWraps(r) ==
    LET sp == r.before.sp
    IN  CASE PushControl(r) -> << sp < 2, sp < 1 >>
          [] PopControl(r) -> << sp > 65533, sp = 65535 >>
          [] OTHER -> << FALSE, FALSE >>

WordWitness(r) ==
    LET immediates == ValuesOf(r, ImmediateKinds)
        target == r.before.sp + Signed(FirstOr0(immediates))
        signed == IsOneOf(r, { 22, 23 })
    IN  [ wordWrap |-> Bit(WordWrap(r)),
          wordCarry |-> Bit(Is(r, 5) /\ Hl(r.before) + SelectedWord(r) > 65535),
          wordHalf |-> Bit(Is(r, 5) /\ (Hl(r.before) % 4096) + (SelectedWord(r) % 4096) > 4095),
          spUnder |-> Bit(signed /\ target < 0), spOver |-> Bit(signed /\ target > 65535),
          stackWrap |-> Bit(StackWraps(r)[1]), stackFirst |-> Bit(StackWraps(r)[2]),
          popLow |-> IF Is(r, 24) /\ r.isa.zero = 3 THEN FirstDataValue(r) % 16 ELSE 0,
          addressWrap |-> Bit(Is(r, 1) /\ immediates = << 255, 255 >>) ]

\* trace/daa.rs
DaaWitness(r) ==
    LET a == r.before.A
        subtract == SubtractFlag(r.before.F)
        low == HalfFlag(r.before.F) \/ (~subtract /\ a % 16 > 9)
        high == CarryFlag(r.before.F) \/ (~subtract /\ a > 153)
        correction == 6 * Bit(low) + 96 * Bit(high)
        daa == Is(r, 13)
    IN  [ lowGtNine |-> Bit(daa /\ a % 16 > 9), highGtNine |-> Bit(daa /\ a \div 16 > 9),
          highEqualsNine |-> Bit(daa /\ a \div 16 = 9), accGt99 |-> Bit(daa /\ a > 153),
          lowAdjust |-> Bit(daa /\ low), highAdjust |-> Bit(daa /\ high),
          daaWrap |-> Bit(daa /\ (IF subtract THEN a < correction ELSE a + correction > 255)) ]

Columns(o, i, w, d) ==
    [ operand |-> o.operand, result |-> o.result, carry |-> o.carry, half |-> o.half,
      zero |-> Bit(o.result = 0),
      immediateLow |-> i.immediateLow, immediateHigh |-> i.immediateHigh, sequential |-> i.sequential,
      pcWrap |-> i.pcWrap, haltBug |-> i.haltBug, fetchOneWrap |-> i.fetchOneWrap,
      fetchTwoWrap |-> i.fetchTwoWrap, underflow |-> i.underflow, overflow |-> i.overflow,
      wordWrap |-> w.wordWrap, wordCarry |-> w.wordCarry, wordHalf |-> w.wordHalf,
      spUnder |-> w.spUnder, spOver |-> w.spOver, stackWrap |-> w.stackWrap,
      stackFirst |-> w.stackFirst, popLow |-> w.popLow, addressWrap |-> w.addressWrap,
      lowGtNine |-> d.lowGtNine, highGtNine |-> d.highGtNine, highEqualsNine |-> d.highEqualsNine,
      accGt99 |-> d.accGt99, lowAdjust |-> d.lowAdjust, highAdjust |-> d.highAdjust,
      daaWrap |-> d.daaWrap ]

TraceWitness(r) == Columns(OperationWitness(r), InstructionWitness(r), WordWitness(r), DaaWitness(r))

-----------------------------------------------------------------------------
(***************************************************************************)
(* Every other filling of the columns that could satisfy the relation. The *)
(* immediates, the sequential PC, HALT's bug bit, the operand and the DAA  *)
(* predicates are functions of the state before and the bus, and a column  *)
(* out of its operation's scope is zero: what is left free is the result   *)
(* and the carries and wraps of the operation at hand.                     *)
(***************************************************************************)
\* The byte the destination of the operation holds after the step
DestinationByte(r) ==
    CASE IsOneOf(r, { 9, 10 }) -> PrimaryDestination(r, r.isa.zero, 2)
      [] IsOneOf(r, { 37, 39, 40 }) -> PrimaryDestination(r, r.isa.one, 3)
      [] IsOneOf(r, { 12, 13, 19 }) -> r.after.A
      [] Is(r, 22) -> Low(r.after.sp)
      [] Is(r, 23) -> r.after.L
      [] OTHER -> 0

StackUsers == { 20, 24, 25, 34, 35, 36 }

Witnesses(r) ==
    LET t == TraceWitness(r)
        Free(codes) == IF IsOneOf(r, codes) THEN { 0, 1 } ELSE { 0 }
        results == IF IsOneOf(r, ArithmeticOperations) THEN { t.result, DestinationByte(r) } ELSE { 0 }
        carries == IF Is(r, 13) THEN { t.carry } ELSE Free(ArithmeticOperations)
        popped == IF Is(r, 24) /\ r.isa.zero = 3 THEN FirstDataValue(r) - r.after.F ELSE 0
    IN  { [ t EXCEPT !.result = result, !.zero = Bit(result = 0), !.carry = carry, !.half = half,
                     !.underflow = signed[1], !.overflow = signed[2], !.spUnder = signed[1],
                     !.spOver = signed[2], !.wordWrap = wrap, !.wordCarry = sum[1], !.wordHalf = sum[2],
                     !.stackWrap = stack[1], !.stackFirst = stack[2], !.addressWrap = address,
                     !.daaWrap = daa, !.popLow = popped ] :
            result \in results, carry \in carries, half \in Free(ArithmeticOperations \ { 13 }),
            signed \in Free({ 3, 22, 23 }) \X Free({ 3, 22, 23 }), wrap \in Free({ 6, 7, 8 }),
            sum \in Free({ 5 }) \X Free({ 5 }),
            stack \in Free(StackUsers) \X Free(StackUsers), address \in Free({ 1 }), daa \in Free({ 13 }) }

=============================================================================
