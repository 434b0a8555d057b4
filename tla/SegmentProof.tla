---------------------------- MODULE SegmentProof ----------------------------
(***************************************************************************)
(* A prover filling one segment, row by row, and what the verifier's       *)
(* checks make of it.  `free` names the part of the committed columns that *)
(* does not come from the witness builder but from any prover at all:      *)
(*   "nothing"  the honest segment;                                        *)
(*   "tables"   the log tables of an honest trace;                         *)
(*   "memory"   memory events, their values and predecessors;              *)
(*   "states"   the states and the row numbers;                            *)
(*   "receipts" nothing here: the segments of a receipt, ReceiptChain.     *)
(***************************************************************************)
EXTENDS SegmentArguments

CONSTANTS
    FreeParts,       \* the parts explored, of those above
    BitsAreBoolean,  \* whether predecessor and delta columns are bits
    Samples,         \* bytes an input port or the joypad may deliver
    VisibleByte,     \* what FF00 shows of a sample with no line selected
    MaxBlocks,       \* blocks packed when the trace is honest
    Cores            \* what a state holds besides clock and cursors

ASSUME SegmentConstants ==
    /\ FreeParts \subseteq { "nothing", "tables", "memory", "states", "receipts" }
    /\ BitsAreBoolean \in BOOLEAN
    /\ \A n \in { LaneBound, CycleBound, BusBound, RowCount } : n \in Nat \ { 0 }
    /\ RowCount * BusBound < TimestampBound

VARIABLES free, state, memory, blocks, rows

vars == << free, state, memory, blocks, rows >>

Cells == 0 .. CellCount - 1
BlankMemory == [ a \in Cells |-> 0 ]

ResetState ==
    [ local |-> [ cycles |-> 0, input |-> 0, output |-> 0, bus |-> 0, isa |-> 0, profile |-> 1,
                  core |-> 1 ],
      device |-> 1 ]

-----------------------------------------------------------------------------
(***************************************************************************)
(* What the executor reports of a step: the shape of its bus events.  An   *)
(* operation of a template is [kind, place, value].                        *)
(***************************************************************************)
Op(kind, place, value) == [ kind |-> kind, place |-> place, value |-> value ]
Template(kind, key, branch, ops) == [ kind |-> kind, key |-> key, branch |-> branch, ops |-> ops ]

Fetch(key) == Op(1, key, 0)
Immediate == Op(2, 0, 0)

Quiet ==
    { Template("Instruction", 0, 0, << Fetch(0) >>),                             \* NOP
      Template("Instruction", 126, 0, << Fetch(126), Op(4, 0, 0) >>),            \* LD A,(HL)
      Template("Instruction", 119, 0, << Fetch(119), Op(5, 0, 1) >>),            \* LD (HL),A
      Template("Instruction", 52, 0, << Fetch(52), Op(4, 1, 0), Op(5, 1, 1) >>) } \* INC (HL)

\* Steps that end a block
Closing ==
    { Template("Instruction", 240, 0, << Fetch(240), Immediate, Op(6, 0, s) >>) : s \in Samples }
      \cup
    { Template("Instruction", 224, 0, << Fetch(224), Immediate, Op(7, 0, s) >>) : s \in Samples }
      \cup
    { Template("Instruction", 196, 0, << Fetch(196), Immediate, Immediate >>),   \* CALL NZ
      Template("Instruction", 196, 1,
               << Fetch(196), Immediate, Immediate, Op(5, 1, 1), Op(5, 0, 0) >>) }

\* Steps that are a block of their own
Alone ==
    { Template("Instruction", 240, 0, << Fetch(240), Immediate, Op(13, 0, s) >>) : s \in Samples }
      \cup
    { Template("DmaByte", 0, 0, << Op(17, 0, 0), Op(18, 1, 0) >>),
      Template("InterruptDispatch", 0, 0, << Op(5, 1, 0), Op(5, 0, 1) >>),
      Template("HaltIdle", 0, 0, << >>) }

\* transcript_event of zksm83-core: the fields each kind of event fills.  A
\* joypad read reports the buttons sampled apart from the byte they show.
TranscriptEvent(kind, place, before, value, index) ==
    [ kind |-> kind, address |-> place, physical |-> place,
      before |-> IF kind \in MemoryWriteKinds THEN before ELSE 0,
      auxiliary |-> IF kind = 13 THEN value ELSE 0,
      value |-> IF kind = 13 THEN VisibleByte ELSE value,
      index |-> IF kind \in InputKinds \cup OutputKinds THEN index ELSE 0 ]

EventOf(op, local, image) ==
    LET place == IF op.kind \in MemoryKinds \cup RomKinds THEN op.place ELSE 0
        value == CASE op.kind \in RomKinds -> Rom[place]
                   [] op.kind \in MemoryKinds \ MemoryWriteKinds -> image[place]
                   [] OTHER -> op.value
    IN  TranscriptEvent(op.kind, place, IF op.kind \in MemoryKinds THEN image[place] ELSE 0, value,
                        IF op.kind \in OutputKinds THEN local.output ELSE local.input)

\* The image after the first n operations of a template
ImageAfter(ops, n, image) ==
    [ a \in Cells |->
        LET writes == { i \in 1 .. n : ops[i].kind \in MemoryWriteKinds /\ ops[i].place = a }
        IN  IF writes = {} THEN image[a]
            ELSE ops[CHOOSE i \in writes : \A j \in writes : j <= i].value ]

Timing(isa, branch) == IF branch = 1 /\ isa.timing = 1 THEN isa.taken ELSE isa.base

CyclesOf(template) ==
    IF template.kind # "Instruction" THEN 1 ELSE Timing(IsaOutputs(template.key), template.branch)

\* The trace row of a step of some cycles
StepOf(template, cycles, before, image) ==
    LET ops == template.ops
        counts(kinds) == Cardinality({ i \in 1 .. Len(ops) : ops[i].kind \in kinds })
        local == before.local
        after == [ local EXCEPT !.cycles = @ + cycles,
                                !.input = @ + counts(InputKinds),
                                !.output = @ + counts(OutputKinds),
                                !.core = 3 - @ ]
    IN  [ kind |-> template.kind, key |-> template.key, branch |-> template.branch,
          before |-> before, after |-> [ local |-> after, device |-> 3 - before.device ],
          cycles |-> cycles,
          events |-> [ i \in 1 .. Len(ops) |-> EventOf(ops[i], local, ImageAfter(ops, i - 1, image)) ] ]

Step(template, before, image) == StepOf(template, CyclesOf(template), before, image)

\* Sequences of steps the planner of zksm83-trace packs into one block
Fits(templates) ==
    /\ Sum(DOMAIN templates, [ i \in DOMAIN templates |-> CyclesOf(templates[i]) ]) <= CycleBound
    /\ Sum(DOMAIN templates, [ i \in DOMAIN templates |-> Len(templates[i].ops) ]) <= BusBound

Plans ==
    { << t >> : t \in Alone } \cup
    { plan \in { Append(quiet, last) : quiet \in UNION { [ 1 .. n -> Quiet ] : n \in 0 .. LaneBound - 1 },
                                       last \in Quiet \cup Closing } : Fits(plan) }

\* Steps that read an input or write an output
Logs(template) == \E i \in DOMAIN template.ops : template.ops[i].kind \in InputKinds \cup OutputKinds

\* A plan of templates run from a state and an image
RECURSIVE RunPlan(_, _, _)
RunPlan(plan, before, image) ==
    IF plan = << >> THEN << >>
    ELSE LET row == Step(plan[1], before, image)
         IN  << row >> \o RunPlan(Tail(plan), row.after,
                                  ImageAfter(plan[1].ops, Len(plan[1].ops), image))

RECURSIVE ImageOfPlan(_, _)
ImageOfPlan(plan, image) ==
    IF plan = << >> THEN image
    ELSE ImageOfPlan(Tail(plan), ImageAfter(plan[1].ops, Len(plan[1].ops), image))

-----------------------------------------------------------------------------
Init ==
    /\ free \in FreeParts
    /\ state = ResetState
    /\ memory = BlankMemory
    /\ blocks = << >>
    /\ rows = << >>

\* The packer hands the witness builder its next block
PackBlock ==
    /\ free \in { "nothing", "tables" }
    /\ Len(blocks) < MaxBlocks
    /\ \E plan \in Plans :
         /\ free = "tables" => Logs(plan[Len(plan)]) /\ (Len(plan) > 1 => plan[1].key = 0)
         /\ \E block \in { RunPlan(plan, state, memory) } :
              blocks' = Append(blocks, block) /\ state' = FinalState(block)
         /\ memory' = ImageOfPlan(plan, memory)
    /\ UNCHANGED << free, rows >>

\* A row with one memory event, the rest of its columns as a builder leaves
\* them.  A predecessor no event and no initial byte carries matches nothing
\* and is left out.
MemoryEventRow(kind, cell, before, value, predecessor) ==
    LET index == Len(rows)
        template == Template("DmaByte", 0, 0, << >>)
        event == TranscriptEvent(kind, cell, before, value, 0)
        block == << [ Step(template, ResetState, BlankMemory) EXCEPT !.events = << event >> ] >>
    IN  [ PackedRow(block, index, ZeroStamps) EXCEPT
            !.memory.slot[0].predecessor = predecessor,
            !.memory.slot[0].delta = CurrentTimestamp(index, 0) - predecessor - 1 ]

ColumnFits(value) == value \in 0 .. TimestampBound - 1

CommitMemoryRow ==
    /\ free = "memory"
    /\ Len(rows) < RowCount
    /\ \E kind \in { 17, 18 }, cell \in Cells, before \in 0 .. 1, value \in 0 .. 1,
          predecessor \in { 0 } \cup { CurrentTimestamp(r, 0) : r \in RowNumbers } :
         \E row \in { MemoryEventRow(kind, cell, before, value, predecessor) } :
           /\ kind = 17 => before = 0
           /\ BitsAreBoolean => ColumnFits(predecessor) /\ ColumnFits(row.memory.slot[0].delta)
           /\ ConstrainMemory(row)
           /\ rows' = Append(rows, row)
    /\ UNCHANGED << free, state, memory, blocks >>

\* A padding row, or a machine event from one state to another, under any of
\* two row numbers
StateOf(core) == [ ResetState EXCEPT !.local.core = core ]

StateRow(before, after, index) ==
    PackedRow(<< [ Step(Template("HaltIdle", 0, 0, << >>), StateOf(before), BlankMemory)
                     EXCEPT !.after = StateOf(after) ] >>, index, ZeroStamps)

CommitStateRow ==
    /\ free = "states"
    /\ Len(rows) < RowCount
    /\ \E index \in { Len(rows), (Len(rows) + 1) % RowCount } :
         rows' \in { Append(rows, PaddingRow(index)) }
                     \cup { Append(rows, StateRow(before, after, index)) :
                              before \in Cores, after \in Cores }
    /\ UNCHANGED << free, state, memory, blocks >>

Next == PackBlock \/ CommitMemoryRow \/ CommitStateRow

Spec == Init /\ [][Next]_vars

-----------------------------------------------------------------------------
(***************************************************************************)
(* What the segments of these behaviours must satisfy.                     *)
(***************************************************************************)
HonestSegment == CommittedSegment(blocks, BlankMemory, memory)


\* Owners of slots as any prover may write them: the lane each slot is given
\* to, LaneBound for none.  One lane stands for all the inactive ones.
OwnerChoices(slots, count) == [ slots -> (0 .. count) \cup { LaneBound } ]
OwnersBy(choice) == [ s \in DOMAIN choice |-> [ l \in Lanes |-> Bit(choice[s] = l) ] ]

\* The relation leaves an instruction block no choice: which lane owns a
\* cycle or a bus slot, how far clock and log cursors are at each lane, and
\* the index of a logged event are those of the execution.
FrontEndDetermined ==
    free = "nothing" /\ Len(blocks) = 1 /\ InstructionCount(blocks[1]) > 0 =>
        \A row \in { PackedRow(blocks[1], 0, ZeroStamps) } :
            LET forced(other) == MemoryRelation(other) => other = row
                count == InstructionCount(blocks[1])
            IN  /\ \A choice \in OwnerChoices(BusSlots, count) :
                     forced([ row EXCEPT !.routing.bus = OwnersBy(choice) ])
                /\ \A choice \in OwnerChoices(CycleSlots, count) :
                     forced([ row EXCEPT !.routing.cycle = OwnersBy(choice) ])
                /\ \A changed \in SUBSET (1 .. LaneBound), cursor \in { "cycles", "input", "output" } :
                     forced([ row EXCEPT !.boundary.local = [ b \in 0 .. LaneBound |->
                         IF b \in changed THEN [ row.boundary.local[b] EXCEPT ![cursor] = @ + 1 ]
                         ELSE row.boundary.local[b] ] ])
                /\ \A s \in BusSlots, i \in 0 .. 2 :
                     row.bus.slot[s].kind \in InputKinds \cup OutputKinds =>
                         forced([ row EXCEPT !.bus.slot[s].index = i ])

\* The segment of committed rows and padding, with a final image
RowsSegment(final, stamps) ==
    [ rows |-> [ r \in RowNumbers |-> IF r < Len(rows) THEN rows[r + 1] ELSE PaddingRow(r) ],
      initialMemory |-> BlankMemory, finalMemory |-> final, finalStamps |-> stamps ]

\* Tokens a final image may be made of: others match no event
FinalCandidates(cell) ==
    { << 0, 0 >> } \cup
    { << rows[r + 1].bus.slot[0].value, CurrentTimestamp(r, 0) >> :
        r \in { q \in 0 .. Len(rows) - 1 : rows[q + 1].bus.slot[0].physical = cell } }

\* The byte of a cell just before row r, by replaying the rows in order
LatestByte(cell, r) ==
    LET writes == { q \in 0 .. r - 1 : /\ rows[q + 1].bus.slot[0].physical = cell
                                       /\ rows[q + 1].memory.slot[0].write = 1 }
    IN  IF writes = {} THEN 0
        ELSE rows[1 + (CHOOSE q \in writes : \A p \in writes : p <= q)].bus.slot[0].value

\* Whatever values and predecessors a prover commits, if the memory argument
\* accepts them then every access finds the byte last written to its cell and
\* the final image is the one the accesses leave.
MemoryConsistent ==
    free = "memory" /\ rows # << >> =>
        \A last \in { f \in [ Cells -> UNION { FinalCandidates(a) : a \in Cells } ] :
                        \A a \in Cells : f[a] \in FinalCandidates(a) } :
            MemoryAccepts(RowsSegment([ a \in Cells |-> last[a][1] ], [ a \in Cells |-> last[a][2] ])) =>
                /\ \A r \in 0 .. Len(rows) - 1 :
                     InputValue(rows[r + 1], 0) = LatestByte(rows[r + 1].bus.slot[0].physical, r)
                /\ \A a \in Cells : last[a][1] = LatestByte(a, Len(rows))

\* A memory event of an accepted row comes after the event it names as its
\* predecessor: "strict packed mutable-memory event chronology".
ChronologyStrict ==
    free = "memory" =>
        \A r \in 0 .. Len(rows) - 1 :
            rows[r + 1].memory.slot[0].predecessor < CurrentTimestamp(rows[r + 1].memory.index, 0)

\* Whatever states a prover commits, and however it numbers the rows, an
\* accepted segment is one chain: the active rows come first, each starts
\* where the one before it ended, the first and the last state and the number
\* of transitions are those of the claim.
SegmentIsOneChain ==
    free = "states" /\ Len(rows) = RowCount =>
        \A first \in Cores, last \in Cores, active \in 0 .. RowCount, count \in 0 .. RowCount :
            \A segment \in { [ rows |-> [ r \in RowNumbers |-> rows[r + 1] ],
                               claim |-> [ activeRows |-> active, transitions |-> count,
                                           initial |-> StateOf(first), final |-> StateOf(last) ] ] } :
                ClockAccepts(segment) /\ ContinuityAccepts(segment) =>
                    /\ ActiveRows(segment) = 0 .. active - 1
                    /\ StateBefore(rows[1]) = StateOf(first)
                    /\ StateAfter(rows[active]) = StateOf(last)
                    /\ \A r \in 1 .. active - 1 : StateBefore(rows[r + 1]) = StateAfter(rows[r])
                    /\ count = active

\* Rows of a log table as any prover may write them
AnyTableRows ==
    { TableRow(selected, << index, sample >>) :
        selected \in 0 .. 2, index \in 0 .. 2, sample \in Samples } \cup { TableRow(0, NoEntry) }

AnyTables ==
    { [ i \in 0 .. LogCapacity - 1 |-> IF i \in DOMAIN head THEN head[i] ELSE TableRow(0, NoEntry) ] :
        head \in [ 0 .. 1 -> AnyTableRows ] }

\* What the blocks took from the input stream or gave to the output stream,
\* with its place in the stream.  Only the last step of a block does either.
StreamBytes(kind) ==
    LET kinds == IF kind = "input" THEN InputKinds ELSE OutputKinds
        last(i) == BlockEvents(blocks[i])[Len(BlockEvents(blocks[i]))]
    IN  { << InitialState(blocks[i]).local[kind],
             IF last(i).kind = 13 THEN last(i).auxiliary ELSE last(i).value >> :
            i \in { j \in 1 .. Len(blocks) : last(j).kind \in kinds } }

\* Whatever tables a prover commits for a trace, the accepted ones list the
\* bytes of the input and the output stream, each once under its place in the
\* stream, and nothing else.
LogsExact ==
    free = "tables" /\ blocks # << >> =>
        \A segment \in { HonestSegment }, kind \in { "input", "output" }, table \in AnyTables :
            LogsAccept([ segment EXCEPT !.tables[kind] = table ]) =>
                /\ { table[i].entry : i \in SelectedRows(table) } = StreamBytes(kind)
                /\ Cardinality(SelectedRows(table)) = Cardinality(StreamBytes(kind))
=============================================================================
