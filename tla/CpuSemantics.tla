---------------------------- MODULE CpuSemantics ----------------------------
(***************************************************************************)
(* One instruction of the machine and what the proof makes of it: from a   *)
(* corner state the executor runs any encoding, the trace records the      *)
(* row, and the row is put to the row-wise relation and to a lane of the   *)
(* packed one.                                                             *)
(***************************************************************************)
EXTENDS CpuWitness

CONSTANTS
    Corners,                \* states and inputs: [cpu, mapper, profile, imm, data]
    DecimalAccumulators,    \* accumulators DAA is tried on with every flag set
    Keys                    \* encodings to execute

VARIABLES
    start,      \* the corner the step starts from
    row         \* the recorded row, NoRow before the step

vars == << start, row >>

NoRow == [ key |-> -1 ]

DecimalCorner(a, f) ==
    [ cpu |-> [ A |-> a, F |-> f, B |-> 0, C |-> 0, D |-> 0, E |-> 0, H |-> 0, L |-> 0, pc |-> 256,
                sp |-> 65534, ime |-> 0, run |-> 0 ],
      mapper |-> [ ram |-> FALSE, bank |-> 1, select |-> 0 ], profile |-> Profile(TRUE, TRUE, FALSE),
      imm |-> << 0, 0 >>, data |-> << 0, 0 >> ]

DecimalCorners == { DecimalCorner(a, 16 * f) : a \in DecimalAccumulators, f \in 0 .. 15 }

KeysFor(corner) == IF corner \in DecimalCorners THEN { 39 } ELSE Keys

\* In HALT's bug state the byte after the opcode is the opcode again
Consistent(corner, key) ==
    corner.cpu.run # 3 \/ (IF key > 255 THEN key = 459 ELSE IsaTable[key].immediates = 0 \/ corner.imm[1] = key)

\* TraceRow of a finished step; a step error leaves none
Step(key, pending) ==
    /\ row = NoRow
    /\ Consistent(start, key)
    /\ \E e \in { Execute1(start.cpu, start.mapper, start.profile, key, start.imm, start.data, pending) } :
           /\ e.ok
           /\ row' = [ key |-> key, before |-> start.cpu, after |-> e.cpu, mapper |-> start.mapper,
                       mapperAfter |-> e.mapper, profile |-> start.profile, bus |-> e.events,
                       branch |-> Bit(e.branch), cycles |-> Timing(IsaTable[key], e.branch) ]
    /\ UNCHANGED start

Init == start \in Corners \cup DecimalCorners /\ row = NoRow

Next ==
    \E key \in KeysFor(start), pending \in BOOLEAN :
        /\ pending => IsaTable[key].op.op = "Halt"
        /\ Step(key, pending)

Spec == Init /\ [][Next]_vars

-----------------------------------------------------------------------------
(***************************************************************************)
(* Rows the relations leave out, and alterations of a row.                 *)
(***************************************************************************)
Recorded == row # NoRow
View(r) == [ isa |-> IsaTable[r.key] ] @@ r

\* constrain_mapper_updates takes one control write a row
TwoControlWrites(r) == Cardinality({ i \in Slots : Slot(r, i).kind = Mbc3ControlWrite }) > 1

\* fetch_instruction takes A000-BFFF as unbanked memory, memory.rs as the
\* selected bank of cartridge RAM
FetchesExternalRam(r) ==
    \E i \in Slots : Slot(r, i).kind \in { MemoryOpcodeFetch, MemoryImmediateRead } /\ InWindow(Slot(r, i).address)

Bytes8 == { "A", "B", "C", "D", "E", "H", "L" }

AlteredRegisters(r) ==
    { [ r EXCEPT !.after[c] = (@ + d) % 256 ] : c \in Bytes8, d \in { 1, 128 } }
        \cup { [ r EXCEPT !.after.F = @ + (1 - 2 * BitAt(@, i)) * Power2[i] ] : i \in 4 .. 7 }
        \cup { [ r EXCEPT !.after[c] = (@ + d) % 65536 ] : c \in { "pc", "sp" }, d \in { 1, 256, 65535 } }
        \cup { [ r EXCEPT !.after.ime = v ] : v \in (0 .. 2) \ { r.after.ime } }
        \cup { [ r EXCEPT !.after.run = v ] :
                 v \in (0 .. 3) \ (IF Is(r, 18) THEN { 1, 3 } ELSE { r.after.run }) }

AlteredControl(r) ==
    { [ r EXCEPT !.branch = 1 - @ ], [ r EXCEPT !.cycles = @ + 1 ],
      [ r EXCEPT !.mapperAfter.ram = ~@ ], [ r EXCEPT !.mapperAfter.bank = (@ % 63) + 1 ],
      [ r EXCEPT !.mapperAfter.select = (@ + 1) % 16 ] }

DataSlots(r) == { i \in 1 .. Len(r.bus) : r.bus[i].kind \in DataReadKinds \cup DataWriteKinds }

AlteredWrites(r) ==
    { [ r EXCEPT !.bus[i].value = (@ + 1) % 256 ] :
        i \in { j \in DataSlots(r) : r.bus[j].kind \in DataWriteKinds } }

\* Slots (from 1) whose address no constraint ties to HL: the source of
\* LD r,(HL) and of the ALU, and in a lane both accesses of INC and DEC (HL)
RowFreeAddresses(r) == IF IsOneOf(r, { 17, 19 }) /\ r.isa.one = 6 THEN { 2 } ELSE {}
LaneFreeAddresses(r) ==
    RowFreeAddresses(r) \cup (IF IsOneOf(r, { 9, 10 }) /\ r.isa.zero = 6 THEN { 2, 3 } ELSE {})

AlteredAddresses(r) ==
    { [ r EXCEPT !.bus[i].address = (@ + 1) % 65536, !.bus[i].physical = @ + 1 ] :
        i \in DataSlots(r) \ RowFreeAddresses(r) }

LaneBinds(r, altered) == \A i \in LaneFreeAddresses(r) : altered.bus[i].address = r.bus[i].address

\* Conditions of both relations in which only HALT's bug bit of the witness occurs
Plausible(r) ==
    /\ ConstrainStateWriteMask(r, [ haltBug |-> Bit(r.before.run = 3) ])
    /\ ConstrainCycles(r)
    /\ ConstrainInstructionBusCounts(r)

Altered(r) == AlteredRegisters(r) \cup AlteredControl(r) \cup AlteredWrites(r) \cup AlteredAddresses(r)

-----------------------------------------------------------------------------
(***************************************************************************)
(* Properties.                                                             *)
(***************************************************************************)
\* Every row the executor produces is accepted by the row-wise relation with
\* the columns the trace encoder writes: the executor (execute.rs, alu.rs,
\* bus.rs), the encoder (trace.rs) and the constraints (cpu/*.rs) agree on
\* every encoding, wrap and carry. Left out are the rows named above.
RowsAccepted ==
    Recorded => \A r \in { View(row) } :
        TwoControlWrites(r) \/ FetchesExternalRam(r) \/ RowHolds(r, TraceWitness(r))

\* The packed lane accepts the same rows: the queries the trace builds are
\* those of the static plan, they are the addresses the lane's routing
\* demands, and table outputs and affine glue agree with the executor.
LanesAccepted ==
    Recorded => \A r \in { View(row) } : \A w \in { TraceWitness(r) } :
        /\ ~LookupsRefused(r)
        /\ RecordedLookups(r) = DemandedLookups(r, w.immediateLow)
        /\ TwoControlWrites(r) \/ LaneHolds(r, w)

\* Both relations accept what the executor did.
ExecutionAccepted == RowsAccepted /\ LanesAccepted

\* No altered outcome of an instruction is accepted by the row-wise relation,
\* nor by a lane of the packed one, whose arithmetic comes from the execution
\* tables instead of constraints, whatever the auxiliary columns hold:
\* registers, flags, PC, SP, IME, run state, mapper, branch, cycles, bytes
\* written and the bound addresses are determined by the state before and the
\* bytes read.
OutcomeBound ==
    Recorded => \A r \in { View(row) } :
        \A bad \in { b \in Altered(r) : Plausible(b) } : \A w \in Witnesses(bad) :
            /\ ~RowHolds(bad, w)
            /\ LaneBinds(r, bad) => ~LaneHolds(bad, w)

\* The metadata of zksm83-isa tells the truth about the executor: a step
\* leaves every component outside the declared writes alone, treats each flag
\* as declared, and a component outside the declared reads has no influence
\* on the events, the branch or what is written.
MetadataHonest ==
    Recorded => \A r \in { View(row) } :
        LET flagAt == [ Z |-> 7, N |-> 6, H |-> 5, C |-> 4 ]
            Same(c, e) ==
                /\ e.ok /\ e.events = r.bus /\ Bit(e.branch) = r.branch
                /\ \A d \in r.isa.writes : e.cpu[d] = r.after[d]
                /\ c \notin r.isa.writes => e.cpu[c] = (start.cpu[c] + 1) % 256
        IN  /\ \A c \in Components \ (r.isa.writes \cup { "run" }) : r.after[c] = r.before[c]
            /\ \A flag \in DOMAIN flagAt :
                   LET after == BitAt(r.after.F, flagAt[flag])
                   IN  /\ r.isa.flags[flag] = "P" => after = BitAt(r.before.F, flagAt[flag])
                       /\ r.isa.flags[flag] = "C" => after = 0
                       /\ r.isa.flags[flag] = "S" => after = 1
            /\ ConstrainInstructionBusCounts(r)
            /\ \A c \in Bytes8 \ r.isa.reads :
                   Same(c, Execute1([ start.cpu EXCEPT ![c] = (@ + 1) % 256 ], start.mapper, start.profile,
                                    r.key, start.imm, start.data, r.after.run = 3))

=============================================================================
