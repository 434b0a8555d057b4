---------------------------- MODULE BlockPacking ----------------------------
(* How the prover fills one proof segment.  fill_packed_segment executes a *)
(* chunk of transitions, packs it into basic blocks, one relation row      *)
(* each, and repeats until the steps or the relation rows are used up.     *)
(* The planner is greedy: it absorbs instruction rows into the open block  *)
(* until a bound, or the meaning of a row, cuts it.                        *)
EXTENDS Integers, Sequences, SequencesExt

CONSTANTS
    Rows,             \* names of the trace rows an execution may produce
    Row,              \* what the planner reads of each of them
    MaxSteps,         \* the largest number of steps asked for
    RowCapacity,      \* UNIFORM_ROW_COUNT
    InstructionBound, MCycleBound, BusEventBound

VARIABLES
    pc,        \* "fill", "run", "plan", "block", or how the filling ended
    maximum,   \* maximum_steps
    rows,      \* rows executed so far
    completed, \* completed_steps: rows packed into blocks
    limit,     \* end of the chunk being executed or planned
    cursor,    \* rows the planner has placed
    open,      \* the block being planned
    chunk,     \* blocks planned in this chunk
    blocks     \* blocks of the segment

vars == <<pc, maximum, rows, completed, limit, cursor, open, chunk, blocks>>

Operations == {"LowPower", "InterruptControl", "ControlFlow", "Other"}
DeviceEvents == {"DmgMmioRead", "DmgMmioWrite", "DmgJoypadRead"}
MemoryEvents == {"MemoryRead", "MemoryWrite", "MemoryOpcodeFetch", "MemoryImmediateRead"}
PortEvents == {"InputRead", "OutputWrite", "DmgJoypadRead"}
EventKinds ==
    DeviceEvents \cup MemoryEvents \cup PortEvents
    \cup {"OpcodeFetch", "ImmediateRead", "RomRead", "Mbc3ControlWrite"}

ASSUME BoundsAssumption ==
    /\ MaxSteps \in Nat \ {0} /\ RowCapacity \in Nat \ {0}
    /\ InstructionBound \in Nat \ {0} /\ MCycleBound \in Nat /\ BusEventBound \in Nat
\* An instruction alone fits one block: CALL and LD (nn),SP, with six
\* M-cycles or five bus events, are the largest of the instruction set.
ASSUME RowAssumption ==
    \A r \in Rows :
        /\ Row[r].instruction \in BOOLEAN /\ Row[r].pending \in BOOLEAN
        /\ Row[r].operation \in Operations /\ Row[r].cycles \in Nat
        /\ Row[r].events \in Seq([kind : EventKinds, video : BOOLEAN])
        /\ Row[r].instruction =>
             Row[r].cycles <= MCycleBound /\ Len(Row[r].events) <= BusEventBound

Failures == {"StepFailed", "ResourceAccounting", "PartitionInvariant", "CapacityExceeded"}
NoBlock == [start |-> 0, cycles |-> 0, events |-> 0]

-----------------------------------------------------------------------------
(* The cuts of a row.                                                      *)

StandaloneEvent(e) == e.kind \in DeviceEvents \/ (e.kind \in MemoryEvents /\ e.video)
BoundaryEvent(e) ==
    e.kind \in PortEvents \cup {"Mbc3ControlWrite", "MemoryOpcodeFetch", "MemoryImmediateRead"}

\* A device register or video memory access is a block of its own.
StandaloneCut(r) ==
    LET i == SelectInSeq(Row[r].events, StandaloneEvent)
    IN  IF i = 0 THEN "None"
        ELSE IF Row[r].events[i].kind \in DeviceEvents THEN "DeviceIo"
        ELSE "PpuSensitiveMemory"

EventCut(kind) ==
    CASE kind \in PortEvents -> "ProtocolIo"
      [] kind = "Mbc3ControlWrite" -> "MapperChange"
      [] OTHER -> "MutableExecution"

\* Mutant: an interrupt that became pending does not end the block.
SemanticCutIgnoringPending(r) ==
    LET i == SelectInSeq(Row[r].events, BoundaryEvent)
    IN  IF Row[r].operation # "Other" THEN Row[r].operation
        ELSE IF StandaloneCut(r) # "None" THEN StandaloneCut(r)
        ELSE IF i # 0 THEN EventCut(Row[r].events[i].kind)
        ELSE "None"

\* A row after which the next row may behave differently ends its block.
SemanticCut(r) ==
    LET i == SelectInSeq(Row[r].events, BoundaryEvent)
    IN  IF Row[r].operation # "Other" THEN Row[r].operation
        ELSE IF StandaloneCut(r) # "None" THEN StandaloneCut(r)
        ELSE IF i # 0 THEN EventCut(Row[r].events[i].kind)
        ELSE IF Row[r].pending THEN "InterruptPending"
        ELSE "None"

\* Why row r may not join the open block; a block always takes its first.
CutBefore(r) ==
    IF cursor = open.start THEN "None"
    ELSE IF StandaloneCut(r) # "None" THEN StandaloneCut(r)
    ELSE IF open.cycles + Row[r].cycles > MCycleBound THEN "CycleBound"
    ELSE IF open.events + Len(Row[r].events) > BusEventBound THEN "BusEventBound"
    ELSE "None"

\* Mutant: the lane bound is one too large.
CutAfterLate(r) ==
    IF SemanticCut(r) # "None" THEN SemanticCut(r)
    ELSE IF cursor - open.start = InstructionBound THEN "InstructionBound"
    ELSE IF cursor + 1 = limit THEN "EndOfTrace"
    ELSE IF ~Row[rows[cursor + 2]].instruction THEN "MachineEvent"
    ELSE "None"

\* Why the open block ends after it absorbed row r at the cursor.
CutAfter(r) ==
    IF SemanticCut(r) # "None" THEN SemanticCut(r)
    ELSE IF cursor + 1 - open.start = InstructionBound THEN "InstructionBound"
    ELSE IF cursor + 1 = limit THEN "EndOfTrace"
    ELSE IF ~Row[rows[cursor + 2]].instruction THEN "MachineEvent"
    ELSE "None"

-----------------------------------------------------------------------------
(* Routing: lane i of a block owns the cycle and event slots that follow   *)
(* those of the lanes before it.                                           *)

BlockRows(b) == SubSeq(rows, b.start + 1, b.start + b.count)
CyclesBefore(b, i) ==
    FoldSeq(LAMBDA r, sum : Row[r].cycles + sum, 0, SubSeq(BlockRows(b), 1, i))
EventsBefore(b, i) ==
    FoldSeq(LAMBDA r, sum : Len(Row[r].events) + sum, 0, SubSeq(BlockRows(b), 1, i))

\* block_routing finds nothing to object to in planned block b.
Routable(b) ==
    IF b.instructions = 0
    THEN b.count = 1 /\ ~Row[rows[b.start + 1]].instruction
    ELSE /\ b.count = b.instructions /\ b.count <= InstructionBound
         /\ \A i \in 1..b.count :
              /\ Row[BlockRows(b)[i]].instruction
              /\ CyclesBefore(b, i) <= MCycleBound
              /\ EventsBefore(b, i) <= BusEventBound
         /\ CyclesBefore(b, b.count) = b.cycles
         /\ EventsBefore(b, b.count) = b.events

-----------------------------------------------------------------------------
Init ==
    /\ pc = "fill" /\ maximum \in 1..MaxSteps
    /\ rows = <<>> /\ completed = 0 /\ limit = 0 /\ cursor = 0
    /\ open = NoBlock /\ chunk = <<>> /\ blocks = <<>>

\* One round of the loop: as many steps as relation rows are left.
FillChunk ==
    /\ pc = "fill" /\ completed < maximum /\ Len(blocks) < RowCapacity
    /\ LET left == maximum - completed  free == RowCapacity - Len(blocks)
       IN  limit' = completed + (IF left < free THEN left ELSE free)
    /\ pc' = "run"
    /\ UNCHANGED <<maximum, rows, completed, cursor, open, chunk, blocks>>

\* run_exact_steps executes one more row of the chunk.
BuilderStep ==
    /\ pc = "run"
    /\ \E r \in Rows : rows' = Append(rows, r)
    /\ pc' = IF Len(rows) + 1 = limit THEN "plan" ELSE "run"
    /\ UNCHANGED <<maximum, completed, limit, cursor, open, chunk, blocks>>

\* ... or cannot: the machine stopped, or the step has no valid witness.
BuilderFails ==
    /\ pc = "run"
    /\ pc' = "StepFailed"
    /\ UNCHANGED <<maximum, rows, completed, limit, cursor, open, chunk, blocks>>

\* A row that is not an instruction is a block of its own.
PlanMachineEvent ==
    /\ pc = "plan" /\ cursor < limit
    /\ LET r == rows[cursor + 1]
       IN  /\ ~Row[r].instruction
           /\ chunk' = Append(chunk, [start |-> cursor, count |-> 1, instructions |-> 0,
                                      cycles |-> Row[r].cycles, events |-> Len(Row[r].events),
                                      cut |-> "MachineEvent"])
    /\ cursor' = cursor + 1
    /\ UNCHANGED <<pc, maximum, rows, completed, limit, open, blocks>>

OpenBlock ==
    /\ pc = "plan" /\ cursor < limit
    /\ Row[rows[cursor + 1]].instruction
    /\ open' = [start |-> cursor, cycles |-> 0, events |-> 0]
    /\ pc' = "block"
    /\ UNCHANGED <<maximum, rows, completed, limit, cursor, chunk, blocks>>

\* Mutant: rows are counted from the chunk, not from the segment.
CloseBlockInChunk(end, cycles, events, cut) ==
    /\ chunk' = Append(chunk, [start |-> open.start - completed, count |-> end - open.start,
                               instructions |-> end - open.start,
                               cycles |-> cycles, events |-> events, cut |-> cut])
    /\ open' = NoBlock
    /\ pc' = "plan"

\* The open block, ended before row end, becomes a span of the plan.
CloseBlock(end, cycles, events, cut) ==
    /\ chunk' = Append(chunk, [start |-> open.start, count |-> end - open.start,
                               instructions |-> end - open.start,
                               cycles |-> cycles, events |-> events, cut |-> cut])
    /\ open' = NoBlock
    /\ pc' = "plan"

CutBeforeRow ==
    /\ pc = "block"
    /\ CutBefore(rows[cursor + 1]) # "None"
    /\ CloseBlock(cursor, open.cycles, open.events, CutBefore(rows[cursor + 1]))
    /\ UNCHANGED <<maximum, rows, completed, limit, cursor, blocks>>

\* A first row that exceeds the bounds by itself has no block.
AbsorbRow ==
    /\ pc = "block"
    /\ LET r == rows[cursor + 1]
           cycles == open.cycles + Row[r].cycles
           events == open.events + Len(Row[r].events)
       IN  /\ CutBefore(r) = "None"
           /\ IF cycles > MCycleBound \/ events > BusEventBound
              THEN pc' = "ResourceAccounting" /\ UNCHANGED <<cursor, open, chunk>>
              ELSE /\ cursor' = cursor + 1
                   /\ IF CutAfter(r) # "None"
                      THEN CloseBlock(cursor + 1, cycles, events, CutAfter(r))
                      ELSE /\ open' = [start |-> open.start, cycles |-> cycles, events |-> events]
                           /\ UNCHANGED <<pc, chunk>>
    /\ UNCHANGED <<maximum, rows, completed, limit, blocks>>

\* The chunk is planned: route its blocks and append them to the segment.
AppendChunk ==
    /\ pc = "plan" /\ cursor = limit
    /\ IF \E i \in 1..Len(chunk) : ~Routable(chunk[i])
       THEN pc' = "PartitionInvariant" /\ UNCHANGED <<completed, chunk, blocks>>
       ELSE IF chunk = <<>> \/ Len(chunk) > RowCapacity - Len(blocks)
       THEN pc' = "CapacityExceeded" /\ UNCHANGED <<completed, chunk, blocks>>
       ELSE /\ pc' = "fill" /\ completed' = limit
            /\ blocks' = blocks \o chunk /\ chunk' = <<>>
    /\ UNCHANGED <<maximum, rows, limit, cursor, open>>

\* Mutant: the segment ends with its first chunk.
FinishSegmentEarly ==
    /\ pc = "fill" /\ completed > 0
    /\ pc' = "done"
    /\ UNCHANGED <<maximum, rows, completed, limit, cursor, open, chunk, blocks>>

\* Mutant: the segment waits for all of its relation rows.
FinishSegmentFull ==
    /\ pc = "fill" /\ Len(blocks) >= RowCapacity
    /\ pc' = "done"
    /\ UNCHANGED <<maximum, rows, completed, limit, cursor, open, chunk, blocks>>

FinishSegment ==
    /\ pc = "fill" /\ ~(completed < maximum /\ Len(blocks) < RowCapacity)
    /\ pc' = IF blocks = <<>> \/ completed = 0 THEN "CapacityExceeded" ELSE "done"
    /\ UNCHANGED <<maximum, rows, completed, limit, cursor, open, chunk, blocks>>

Next ==
    \/ FillChunk \/ BuilderStep \/ BuilderFails
    \/ PlanMachineEvent \/ OpenBlock \/ CutBeforeRow \/ AbsorbRow
    \/ AppendChunk \/ FinishSegment

Spec == Init /\ [][Next]_vars /\ WF_vars(Next)

-----------------------------------------------------------------------------
(* Properties.                                                             *)

Cuts == (Operations \ {"Other"}) \cup
   {"DeviceIo", "PpuSensitiveMemory", "ProtocolIo", "MapperChange", "MutableExecution",
    "InterruptPending", "CycleBound", "BusEventBound",
    "InstructionBound", "EndOfTrace", "MachineEvent"}
Block == [start : Nat, count : Nat \ {0}, instructions : Nat, cycles : Nat, events : Nat,
          cut : Cuts]

\* Every variable has its type: a planned block holds at least one row.
TypeOK ==
    /\ pc \in {"fill", "run", "plan", "block", "done"} \cup Failures
    /\ maximum \in 1..MaxSteps
    /\ rows \in Seq(Rows)
    /\ completed \in Nat /\ limit \in Nat /\ cursor \in Nat
    /\ open \in [start : Nat, cycles : Nat, events : Nat]
    /\ chunk \in Seq(Block) /\ blocks \in Seq(Block)

Planned == blocks \o chunk

\* Packing neither drops, repeats nor reorders a row: the blocks of a
\* segment, across chunks, follow each other from its first row to the last
\* one placed (pack_witness_basic_blocks_at, source_row_offset).
BlocksPartition ==
    /\ \A i \in 1..Len(Planned) :
         Planned[i].start = IF i = 1 THEN 0 ELSE Planned[i - 1].start + Planned[i - 1].count
    /\ pc # "block" /\ Planned # <<>> => Last(Planned).start + Last(Planned).count = cursor
    /\ pc = "block" /\ Planned # <<>> => Last(Planned).start + Last(Planned).count = open.start

\* An instruction block fits one row of the relation: at most four
\* instructions, six M-cycles and five bus events; a machine event is alone
\* (block.rs, BASIC_BLOCK_*_BOUND).
BlocksWithinBounds ==
    \A b \in Range(blocks) \cup Range(chunk) :
        IF b.instructions = 0 THEN b.count = 1
        ELSE /\ b.count = b.instructions /\ b.count <= InstructionBound
             /\ b.cycles <= MCycleBound /\ b.events <= BusEventBound

TouchesDevice(r) ==
    \E e \in Range(Row[r].events) :
        e.kind \in DeviceEvents \/ (e.kind \in MemoryEvents /\ e.video)
Quiet(r) ==
    /\ Row[r].operation = "Other" /\ ~Row[r].pending /\ ~TouchesDevice(r)
    /\ \A e \in Range(Row[r].events) :
         e.kind \notin {"InputRead", "OutputWrite", "Mbc3ControlWrite",
                      "MemoryOpcodeFetch", "MemoryImmediateRead"}

\* A row that reads or writes a device register or video memory shares its
\* block with nothing that precedes or follows it, and no block goes on
\* after a row that may change what the next one does: the relations of a
\* block look at devices at its boundary only (semantic_cut, standalone_cut).
BoundaryRowsEndBlocks ==
    \A i \in 1..Len(Planned) :
        LET b == Planned[i]
        IN  \A k \in 1..b.count :
              LET r == rows[b.start + k]
              IN  /\ Row[r].instruction <=> b.instructions # 0
                  /\ k < b.count => Quiet(r)
                  /\ b.count > 1 => ~TouchesDevice(r)

\* The plan is greedy: within a chunk a block followed by an instruction
\* could not have absorbed it (BasicBlockCut: the auditable reason that a
\* planned block cannot absorb the following trace row).
BlocksMaximal ==
    \A i \in 1..(Len(chunk) - 1) :
        LET b == chunk[i]
            next == rows[b.start + b.count + 1]
        IN  b.instructions # 0 /\ Row[next].instruction =>
              \/ b.count = InstructionBound
              \/ b.cycles + Row[next].cycles > MCycleBound
              \/ b.events + Len(Row[next].events) > BusEventBound
              \/ ~Quiet(rows[b.start + b.count])
              \/ TouchesDevice(next)

\* Blocks end where they must and only there.
CutsExact == BoundaryRowsEndBlocks /\ BlocksMaximal

\* The planner never meets a row without a block and never hands back more
\* blocks than the segment has relation rows left (plan_indexed's
\* ResourceAccounting, "packed chunk exceeded relation-row capacity").
PlanFits == pc \notin {"ResourceAccounting", "CapacityExceeded"}

Lanes(plan) == Len(plan) * InstructionBound

\* A segment ends with the execution or with all of its relation rows used,
\* and never holds more blocks than steps or more steps than its blocks have
\* lanes: what preflight and validate_progress take for granted.
SegmentFilled ==
    pc = "done" =>
        /\ completed = maximum \/ Len(blocks) = RowCapacity
        /\ 0 < Len(blocks) /\ Len(blocks) <= RowCapacity
        /\ Len(blocks) <= completed /\ completed <= Lanes(blocks)

\* Where the loops stand: the chunk asks for no more steps than relation rows
\* are left, every block holds at least one and at most InstructionBound of
\* the placed rows, and the open block is within its bounds.
Filled ==
    /\ Len(blocks) <= completed /\ completed <= Lanes(blocks)
    /\ completed <= maximum /\ Len(blocks) <= RowCapacity
InChunk ==
    /\ completed < limit /\ limit <= maximum
    /\ limit - completed <= RowCapacity - Len(blocks)
Running == chunk = <<>> /\ cursor = completed /\ completed <= Len(rows) /\ Len(rows) < limit
PlannedUpTo(end) ==
    /\ Len(rows) = limit /\ completed <= end /\ end <= limit
    /\ Len(chunk) <= end - completed /\ end - completed <= Lanes(chunk)
InBlock ==
    /\ open.start <= cursor /\ cursor < limit /\ cursor - open.start < InstructionBound
    /\ Row[rows[cursor + 1]].instruction = TRUE
    /\ open.cycles <= MCycleBound /\ open.events <= BusEventBound
    /\ cursor = open.start => open.cycles = 0 /\ open.events = 0

Progress ==
    /\ Filled
    /\ pc = "fill" => chunk = <<>> /\ Len(rows) = completed /\ cursor = completed
    /\ pc \in {"run", "plan", "block"} => InChunk
    /\ pc = "run" => Running
    /\ pc = "plan" => PlannedUpTo(cursor)
    /\ pc = "block" => PlannedUpTo(open.start) /\ InBlock

\* The facts above together: every step of fill_packed_segment and of
\* plan_indexed preserves them, which no one of them alone is enough for.
InductiveInvariant == TypeOK /\ Progress /\ BlocksWithinBounds /\ PlanFits /\ SegmentFilled

\* Filling a segment terminates: every round executes a step, although later
\* rounds ask for ever fewer of them (fill_packed_segment_with_capacity).  It
\* ends with the segment, or with a step the execution refuses: no row is left
\* without a block, no chunk exceeds the relation rows left, and routing a
\* planned block never fails (ResourceAccounting, PartitionInvariant).
FillingEnds == <>(pc \in {"done", "StepFailed"})
=============================================================================
