---------------------------- MODULE BlockFrontend ----------------------------
(***************************************************************************)
(* The shared planes of one row of the packed relation: activity metadata, *)
(* ownership of cycle and bus slots, state boundaries between lanes, fixed *)
(* ISA lanes, bus events, and the chronology and log columns added by      *)
(* block_memory.rs.  Every plane has the function that writes a typed      *)
(* block into it and the identities the verifier checks of it.             *)
(*                                                                         *)
(* Lanes and slots count from 0 as in the code.  A column is an integer;   *)
(* an identity that is a polynomial there is a predicate here.             *)
(***************************************************************************)
EXTENDS Integers, Sequences, FiniteSets

LOCAL INSTANCE FiniteSetsExt
LOCAL INSTANCE SequencesExt
LOCAL Isa == INSTANCE Sm83Isa

CONSTANTS
    LaneBound,       \* BASIC_BLOCK_INSTRUCTION_BOUND
    CycleBound,      \* BASIC_BLOCK_M_CYCLE_BOUND
    BusBound,        \* BASIC_BLOCK_BUS_EVENT_BOUND
    RowCount,        \* UNIFORM_ROW_COUNT
    CellCount,       \* MEMORY_IMAGE_BYTES, the bytes of mutable memory
    TimestampBound,  \* 2^TRACE_MEMORY_TIMESTAMP_BITS, what the columns hold
    Rom              \* the immutable image, a function of physical addresses

Lanes == 0 .. LaneBound - 1
CycleSlots == 0 .. CycleBound - 1
BusSlots == 0 .. BusBound - 1

\* Codes of BusEventKind
OpcodeKinds == { 1, 14 }
ImmediateKinds == { 2, 15 }
DataReadKinds == { 3, 4, 6, 9, 11, 13 }
DataWriteKinds == { 5, 7, 8, 10, 12 }
RomKinds == { 1, 2, 3, 16 }
MemoryKinds == { 4, 5, 14, 15, 17, 18 }
MemoryWriteKinds == { 5, 18 }
InputKinds == { 6, 13 }
OutputKinds == { 7 }

Bit(condition) == IF condition THEN 1 ELSE 0
IsBit(column) == column \in { 0, 1 }
Sum(S, f) == MapThenSumSet(LAMBDA x : f[x], S)

-----------------------------------------------------------------------------
(***************************************************************************)
(* A typed block: its source rows, each [kind, key, branch, before, after, *)
(* cycles, events].  A state is [local, device], local the scalars every   *)
(* lane boundary carries.                                                  *)
(***************************************************************************)
IsInstruction(row) == row.kind = "Instruction"
InstructionCount(block) == Len(SelectSeq(block, IsInstruction))
InitialState(block) == block[1].before
FinalState(block) == block[Len(block)].after
BlockEvents(block) == FlattenSeq([ i \in 1 .. Len(block) |-> block[i].events ])

-----------------------------------------------------------------------------
(***************************************************************************)
(* block_metadata.rs                                                       *)
(***************************************************************************)
Metadata(block) ==
    LET count == InstructionCount(block)
    IN  [ active |-> 1, instruction |-> Bit(count # 0),
          lane |-> [ l \in Lanes |-> Bit(l < count) ] ]

NoMetadata == [ active |-> 0, instruction |-> 0, lane |-> [ l \in Lanes |-> 0 ] ]

ConstrainMetadata(meta) ==
    /\ IsBit(meta.active)
    /\ IsBit(meta.instruction)
    /\ meta.instruction = 1 => meta.active = 1
    /\ \A l \in Lanes : IsBit(meta.lane[l])
    /\ \A l \in Lanes \ { 0 } : meta.lane[l] = 1 => meta.lane[l - 1] = 1
    /\ meta.lane[0] = meta.instruction

-----------------------------------------------------------------------------
(***************************************************************************)
(* block_routing.rs: who owns a cycle or a bus slot, one column per slot   *)
(* and lane.                                                               *)
(***************************************************************************)
Unowned(slots) == [ s \in slots |-> [ l \in Lanes |-> 0 ] ]

\* m_cycle_owners and bus_event_owners of block_routing in zksm83-trace:
\* lane l owns the slots after those of the lanes before it
Owners(slots, uses) ==
    LET first(l) == Sum(1 .. l, uses)
    IN  [ s \in slots |-> [ l \in Lanes |->
            IF l < Len(uses) THEN Bit(first(l) <= s /\ s < first(l + 1)) ELSE 0 ] ]

OwnedSlots(owner, lane) == Sum(DOMAIN owner, [ s \in DOMAIN owner |-> owner[s][lane] ])
OwnersOf(owner, slot) == Sum(Lanes, owner[slot])

\* Mutant: an owned slot may follow an unowned one.
ConstrainResourceTransitionGaps(owner, slot) ==
    \A l, next \in Lanes :
        next < l \/ next > l + 1 => owner[slot][l] * owner[slot + 1][next] = 0

\* Owned slots come first, and ownership passes to the same or the next lane
ConstrainResourceTransition(owner, slot) ==
    /\ (1 - OwnersOf(owner, slot)) * OwnersOf(owner, slot + 1) = 0
    /\ \A l, next \in Lanes :
         next < l \/ next > l + 1 => owner[slot][l] * owner[slot + 1][next] = 0

ConstrainResource(meta, owner, bound) ==
    /\ owner[0][0] = meta.instruction
    /\ \A s \in 0 .. bound - 2 : ConstrainResourceTransition(owner, s)
    /\ \A s \in DOMAIN owner :
         /\ \A l \in Lanes : IsBit(owner[s][l])
         /\ IsBit(OwnersOf(owner, s))
    /\ \A l \in Lanes :
         IF meta.lane[l] = 1 THEN OwnedSlots(owner, l) \in 1 .. bound
         ELSE OwnedSlots(owner, l) = 0

RoutingRelation(row) ==
    /\ ConstrainMetadata(row.routing.meta)
    /\ ConstrainResource(row.routing.meta, row.routing.cycle, CycleBound)
    /\ ConstrainResource(row.routing.meta, row.routing.bus, BusBound)

RoutingRow(block) ==
    LET machine == InstructionCount(block) = 0
        cycles == IF machine THEN << >> ELSE [ i \in 1 .. Len(block) |-> block[i].cycles ]
        events == IF machine THEN << >> ELSE [ i \in 1 .. Len(block) |-> Len(block[i].events) ]
    IN  [ meta |-> Metadata(block), cycle |-> Owners(CycleSlots, cycles),
          bus |-> Owners(BusSlots, events) ]

RoutingPadding == [ meta |-> NoMetadata, cycle |-> Unowned(CycleSlots), bus |-> Unowned(BusSlots) ]

-----------------------------------------------------------------------------
(***************************************************************************)
(* block_boundary.rs: the local state before and after every lane, the     *)
(* device state before and after the block.                                *)
(***************************************************************************)
LocalScalars == { "cycles", "input", "output", "bus", "isa", "profile", "core" }
NoLocal == [ x \in LocalScalars |-> 0 ]

\* append_instruction_boundaries; boundaries 1 .. LaneBound - 1 of a machine
\* event stay zero
BoundaryRow(block) ==
    LET count == InstructionCount(block)
        initial == InitialState(block)
        final == FinalState(block)
        local(b) == CASE b = 0 -> initial.local
                      [] b > 0 /\ b <= count -> block[b].after.local
                      [] b > count /\ (count > 0 \/ b = LaneBound) -> final.local
                      [] OTHER -> NoLocal
    IN  [ meta |-> Metadata(block), local |-> [ b \in 0 .. LaneBound |-> local(b) ],
          before |-> initial.device, after |-> final.device ]

BoundaryPadding ==
    [ meta |-> NoMetadata, local |-> [ b \in 0 .. LaneBound |-> NoLocal ], before |-> 0, after |-> 0 ]

ConstrainBoundaries(plane) ==
    /\ plane.meta.active = 0 =>
         /\ \A b \in 0 .. LaneBound : plane.local[b] = NoLocal
         /\ plane.before = 0 /\ plane.after = 0
    /\ plane.meta.active = 1 /\ plane.meta.instruction = 0 =>
         \A b \in 1 .. LaneBound - 1 : plane.local[b] = NoLocal
    /\ plane.meta.instruction = 1 =>
         \A l \in Lanes : plane.meta.lane[l] = 0 => plane.local[l + 1] = plane.local[l]

BoundaryRelation(row) == ConstrainMetadata(row.boundary.meta) /\ ConstrainBoundaries(row.boundary)

-----------------------------------------------------------------------------
(***************************************************************************)
(* block_isa.rs: a row of the fixed ISA table for every lane.              *)
(***************************************************************************)
PaddingAddress == 211

NoOutputs ==
    [ valid |-> 0, base |-> 0, taken |-> 0, fetches |-> 0, immediates |-> 0, reads |-> 0,
      writes |-> 0, takenReads |-> 0, takenWrites |-> 0, timing |-> 0 ]

\* The columns of a table row that the planes of this module read
OutputsOf(entry) ==
    [ valid |-> 1, base |-> entry.base, taken |-> entry.taken, fetches |-> entry.fetches,
      immediates |-> entry.immediates, reads |-> entry.dataReads, writes |-> entry.dataWrites,
      takenReads |-> entry.takenReads, takenWrites |-> entry.takenWrites, timing |-> Bit(entry.taken # 0) ]

IsaOutputs(key) ==
    IF key \notin Isa!DefinedKeys THEN NoOutputs
    ELSE OutputsOf(Isa!Aligned(IF key < 256 THEN Isa!DecodePrimary(key) ELSE Isa!DecodeCb(key - 256)))

IsaLane(key, outputs, branch) == [ address |-> key, outputs |-> outputs, branch |-> branch ]
IsaPaddingLane == IsaLane(PaddingAddress, NoOutputs, 0)

IsaRow(block) ==
    [ meta |-> Metadata(block),
      lane |-> [ l \in Lanes |->
          IF l < InstructionCount(block)
          THEN IsaLane(block[l + 1].key, IsaOutputs(block[l + 1].key), block[l + 1].branch)
          ELSE IsaPaddingLane ] ]

IsaPadding == [ meta |-> NoMetadata, lane |-> [ l \in Lanes |-> IsaPaddingLane ] ]

ConstrainLanes(plane) ==
    \A l \in Lanes :
        /\ IsBit(plane.lane[l].branch)
        /\ plane.meta.lane[l] = 0 => plane.lane[l] = IsaPaddingLane
        /\ plane.meta.lane[l] = 1 => plane.lane[l].outputs.valid = 1

IsaRelation(row) == ConstrainMetadata(row.isa.meta) /\ ConstrainLanes(row.isa)

\* What the lookup into the committed table adds (isa_lookup.rs)
IsaLookup(row) == \A l \in Lanes : row.isa.lane[l].outputs = IsaOutputs(row.isa.lane[l].address)

-----------------------------------------------------------------------------
(***************************************************************************)
(* block_bus.rs: the bus events of all lanes in order, one per slot.       *)
(***************************************************************************)
NoSlot ==
    [ active |-> 0, kind |-> 0, address |-> 0, physical |-> 0, before |-> 0, auxiliary |-> 0,
      value |-> 0, index |-> 0, rom |-> 0, romValue |-> 0 ]

BusSlot(event) ==
    LET rom == Bit(event.kind \in RomKinds)
    IN  [ active |-> 1, kind |-> event.kind, address |-> event.address,
          physical |-> event.physical, before |-> event.before, auxiliary |-> event.auxiliary,
          value |-> event.value, index |-> event.index, rom |-> rom, romValue |-> rom * event.value ]

BusRow(block) ==
    LET events == BlockEvents(block)
    IN  [ meta |-> Metadata(block),
          slot |-> [ s \in BusSlots |-> IF s < Len(events) THEN BusSlot(events[s + 1]) ELSE NoSlot ] ]

BusPadding == [ meta |-> NoMetadata, slot |-> [ s \in BusSlots |-> NoSlot ] ]

\* append_block of block_bus.rs
BusRefused(block) == Len(BlockEvents(block)) > BusBound

BusTuple(slot) ==
    << slot.address, slot.physical, slot.before, slot.auxiliary, slot.value, slot.index >>

ConstrainBus(plane) ==
    /\ \A s \in BusSlots :
         LET slot == plane.slot[s]
         IN  /\ slot.kind \in 0 .. 18
             /\ slot.active = Bit(slot.kind # 0)
             /\ slot.active = 0 => BusTuple(slot) = BusTuple(NoSlot)
             /\ slot.rom = Bit(slot.kind \in RomKinds)
             /\ slot.romValue = slot.rom * slot.value
    /\ \A s \in 0 .. BusBound - 2 : plane.slot[s + 1].active = 1 => plane.slot[s].active = 1

BusRelation(row) == ConstrainMetadata(row.bus.meta) /\ ConstrainBus(row.bus)

\* What the lookup into the committed image adds (rom_lookup.rs)
RomLookup(row) ==
    \A s \in BusSlots :
        LET slot == row.bus.slot[s]
        IN  IF slot.rom = 1 THEN slot.romValue = Rom[slot.physical] ELSE slot.romValue = 0

-----------------------------------------------------------------------------
(***************************************************************************)
(* block_control.rs, block_isa_control.rs and block_frontend.rs: one       *)
(* metadata for all planes, and the events of a lane as its ISA row counts *)
(* them.                                                                   *)
(***************************************************************************)
ConstrainSharedSelectors(row) == row.routing.meta = row.boundary.meta
ConstrainIsaSharedMetadata(row) == row.routing.meta = row.isa.meta
ConstrainSharedMetadata(row) == row.routing.meta = row.bus.meta

ConstrainInstructionSlotActivity(row) ==
    row.routing.meta.instruction = 1 =>
        \A s \in BusSlots : row.bus.slot[s].active = OwnersOf(row.routing.bus, s)

\* owned_bus_category: events of these kinds in the slots a lane owns
OwnedBusCategory(row, lane, kinds) ==
    Sum(BusSlots, [ s \in BusSlots |->
        row.routing.bus[s][lane] * Bit(row.bus.slot[s].kind \in kinds) ])

ConstrainLaneEventCounts(row) ==
    \A l \in Lanes :
        LET isa == row.isa.lane[l].outputs
            branch == row.isa.lane[l].branch
            reads == isa.reads + branch * isa.takenReads
            writes == isa.writes + branch * isa.takenWrites
        IN  /\ OwnedSlots(row.routing.bus, l) = isa.fetches + isa.immediates + reads + writes
            /\ OwnedBusCategory(row, l, OpcodeKinds) = isa.fetches
            /\ OwnedBusCategory(row, l, ImmediateKinds) = isa.immediates
            /\ OwnedBusCategory(row, l, DataReadKinds) = reads
            /\ OwnedBusCategory(row, l, DataWriteKinds) = writes

ConstrainComposition(row) ==
    /\ ConstrainSharedMetadata(row)
    /\ ConstrainInstructionSlotActivity(row)
    /\ ConstrainLaneEventCounts(row)

-----------------------------------------------------------------------------
(***************************************************************************)
(* block_flow.rs: what a lane adds to the clock and to the log cursors.    *)
(***************************************************************************)
StateDelta(row, lane, scalar) ==
    row.boundary.local[lane + 1][scalar] - row.boundary.local[lane][scalar]

ExpectedCycles(row, lane) ==
    LET isa == row.isa.lane[lane].outputs
    IN  row.routing.meta.lane[lane]
          * (isa.base + row.isa.lane[lane].branch * isa.timing * (isa.taken - isa.base))

ConstrainLaneFlow(row) ==
    row.routing.meta.instruction = 1 =>
        \A l \in Lanes :
            /\ StateDelta(row, l, "cycles") = ExpectedCycles(row, l)
            /\ OwnedSlots(row.routing.cycle, l) = ExpectedCycles(row, l)
            /\ StateDelta(row, l, "isa") = 0
            /\ StateDelta(row, l, "bus") = 0
            /\ StateDelta(row, l, "input") = OwnedBusCategory(row, l, InputKinds)
            /\ StateDelta(row, l, "output") = OwnedBusCategory(row, l, OutputKinds)
            /\ StateDelta(row, l, "profile") = 0

\* constrain_non_cpu_flow of block_machine.rs: no log moves in a machine event
ConstrainMachineFlow(row) ==
    row.routing.meta.active = 1 /\ row.routing.meta.instruction = 0 =>
        \A x \in { "input", "output", "bus", "isa", "profile" } :
            row.boundary.local[LaneBound][x] = row.boundary.local[0][x]

-----------------------------------------------------------------------------
(***************************************************************************)
(* block_memory.rs: row number, chronology of memory events, log indices.  *)
(***************************************************************************)
CurrentTimestamp(index, slot) == index * BusBound + slot + 1

NoMemorySlot ==
    [ selected |-> 0, write |-> 0, predecessor |-> 0, delta |-> 0, input |-> 0, output |-> 0 ]


\* The timestamps of a row's events: those of the memory image before the row
\* and of the memory events in earlier slots
StampBefore(stamps, events, index, slot) ==
    LET earlier == { s \in 0 .. slot - 1 : /\ events[s + 1].kind \in MemoryKinds
                                           /\ events[s + 1].physical = events[slot + 1].physical }
    IN  IF earlier = {} THEN stamps[events[slot + 1].physical]
        ELSE CurrentTimestamp(index, Max(earlier))

MemorySlot(stamps, events, index, slot) ==
    LET kind == events[slot + 1].kind
        memory == kind \in MemoryKinds
        predecessor == StampBefore(stamps, events, index, slot)
    IN  [ selected |-> Bit(memory), write |-> Bit(kind \in MemoryWriteKinds),
          predecessor |-> IF memory THEN predecessor ELSE 0,
          delta |-> IF memory THEN CurrentTimestamp(index, slot) - predecessor - 1 ELSE 0,
          input |-> Bit(kind \in InputKinds), output |-> Bit(kind \in OutputKinds) ]

MemoryRow(block, index, stamps) ==
    LET events == BlockEvents(block)
    IN  [ index |-> index,
          slot |-> [ s \in BusSlots |->
              IF s < Len(events) THEN MemorySlot(stamps, events, index, s) ELSE NoMemorySlot ] ]

MemoryPadding(index) == [ index |-> index, slot |-> [ s \in BusSlots |-> NoMemorySlot ] ]

\* append_memory_event and current_timestamp refuse what the columns cannot hold
MemoryRefused(block, index) ==
    LET events == BlockEvents(block)
    IN  \E s \in 0 .. Len(events) - 1 :
          /\ events[s + 1].kind \in MemoryKinds
          /\ \/ events[s + 1].physical >= CellCount
             \/ CurrentTimestamp(index, s) >= TimestampBound

StampsAfter(block, index, stamps) ==
    LET events == BlockEvents(block)
        last(a) == { s \in 0 .. Len(events) - 1 :
                       events[s + 1].kind \in MemoryKinds /\ events[s + 1].physical = a }
    IN  [ a \in DOMAIN stamps |->
            IF last(a) = {} THEN stamps[a] ELSE CurrentTimestamp(index, Max(last(a))) ]

\* The sum of predecessor and delta is bound, the two summands are not: the
\* identities ask nothing of their bits in a selected slot
ConstrainMemorySlot(row, slot) ==
    LET memory == row.memory.slot[slot]
        event == row.bus.slot[slot]
    IN  /\ memory.selected = Bit(event.kind \in MemoryKinds)
        /\ memory.write = Bit(event.kind \in MemoryWriteKinds)
        /\ memory.selected = 0 => memory.predecessor = 0 /\ memory.delta = 0
        /\ memory.selected = 1 =>
             /\ memory.predecessor + memory.delta + 1 = CurrentTimestamp(row.memory.index, slot)
             /\ event.physical < CellCount

ConstrainLogSlot(row, slot) ==
    LET memory == row.memory.slot[slot]
        event == row.bus.slot[slot]
        prior(log) == Sum(0 .. slot - 1, [ s \in BusSlots |-> row.memory.slot[s][log] ])
    IN  /\ memory.input = Bit(event.kind \in InputKinds)
        /\ memory.output = Bit(event.kind \in OutputKinds)
        /\ memory.input = 1 => event.index = row.boundary.local[0].input + prior("input")
        /\ memory.output = 1 => event.index = row.boundary.local[0].output + prior("output")

ConstrainMemory(row) ==
    \A s \in BusSlots : ConstrainMemorySlot(row, s) /\ ConstrainLogSlot(row, s)

-----------------------------------------------------------------------------
(***************************************************************************)
(* The row as a whole.                                                     *)
(***************************************************************************)
\* Each relation contains the one before it
ControlRelation(row) == RoutingRelation(row) /\ BoundaryRelation(row) /\ ConstrainSharedSelectors(row)
IsaControlRelation(row) == ControlRelation(row) /\ IsaRelation(row) /\ ConstrainIsaSharedMetadata(row)
FrontendRelation(row) == IsaControlRelation(row) /\ BusRelation(row) /\ ConstrainComposition(row)
FlowRelation(row) == FrontendRelation(row) /\ ConstrainLaneFlow(row)
MemoryRelation(row) == FlowRelation(row) /\ ConstrainMachineFlow(row) /\ ConstrainMemory(row)

PackedRow(block, index, stamps) ==
    [ routing |-> RoutingRow(block), boundary |-> BoundaryRow(block), isa |-> IsaRow(block),
      bus |-> BusRow(block), memory |-> MemoryRow(block, index, stamps) ]

PaddingRow(index) ==
    [ routing |-> RoutingPadding, boundary |-> BoundaryPadding, isa |-> IsaPadding,
      bus |-> BusPadding, memory |-> MemoryPadding(index) ]

BlockRefused(block, index) == BusRefused(block) \/ MemoryRefused(block, index)
=============================================================================
