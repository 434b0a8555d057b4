-------------------------- MODULE SegmentArguments --------------------------
(***************************************************************************)
(* The arguments that tie the rows of one packed segment together: the     *)
(* fixed clock, the offline memory check, the continuity of states, the    *)
(* protocol logs, and their composition in block_proof.rs.                 *)
(*                                                                         *)
(* Each argument commits columns of inverses 1 / (point - token) and       *)
(* compares their sums.  Over a field much larger than the tables, with a  *)
(* point drawn after the tokens are committed, equal sums mean equal bags  *)
(* of tokens: that is how a sum is modelled.  A token, a random linear     *)
(* combination of the fields of a tuple, is the tuple.  Sumchecks and      *)
(* polynomial openings establish what they are for.                        *)
(***************************************************************************)
EXTENDS BlockFrontend, Bags

LOCAL INSTANCE SequencesExt

CONSTANT LogCapacity  \* PROTOCOL_LOG_ROW_COUNT

LogKinds == { "bus", "input", "output", "isa" }

\* The bag of the tokens of a family: sum of 1 / (point - family[i]) over i
TokenBag(family) ==
    [ token \in { family[i] : i \in DOMAIN family } |->
        Cardinality({ i \in DOMAIN family : family[i] = token }) ]

-----------------------------------------------------------------------------
(***************************************************************************)
(* A segment under proof: [rows, claim, logClaim, tables, initialMemory,   *)
(* finalMemory, finalStamps].  rows is a function of 0 .. RowCount - 1.    *)
(***************************************************************************)
RowNumbers == 0 .. RowCount - 1
Events == RowNumbers \X BusSlots

\* Mutant: any bits that make a row number.
ClockAcceptsAnyOrder(segment) == \A r \in RowNumbers : segment.rows[r].memory.index \in RowNumbers

\* clock.rs: the row bits, opened at a random point, are those of the number
ClockAccepts(segment) == \A r \in RowNumbers : segment.rows[r].memory.index = r

-----------------------------------------------------------------------------
(***************************************************************************)
(* memory.rs: what is read with its timestamp is what was last written.    *)
(***************************************************************************)
SelectedMemory(segment) == { e \in Events : segment.rows[e[1]].memory.slot[e[2]].selected = 1 }

InputValue(row, slot) ==
    IF row.memory.slot[slot].write = 1 THEN row.bus.slot[slot].before ELSE row.bus.slot[slot].value

MemoryInputs(segment) ==
    TokenBag([ e \in SelectedMemory(segment) |->
        LET row == segment.rows[e[1]]
        IN  << row.bus.slot[e[2]].physical, InputValue(row, e[2]),
               row.memory.slot[e[2]].predecessor >> ])

MemoryOutputs(segment) ==
    TokenBag([ e \in SelectedMemory(segment) |->
        LET row == segment.rows[e[1]]
        IN  << row.bus.slot[e[2]].physical, row.bus.slot[e[2]].value,
               CurrentTimestamp(row.memory.index, e[2]) >> ])

\* boundary.rs: one token for every address of the two images
InitialTokens(segment) ==
    TokenBag([ a \in DOMAIN segment.initialMemory |-> << a, segment.initialMemory[a], 0 >> ])
FinalTokens(segment) ==
    TokenBag([ a \in DOMAIN segment.finalMemory |->
        << a, segment.finalMemory[a], segment.finalStamps[a] >> ])

\* Mutant: the tokens of the final image carry no timestamp.
CheckEqualityUntimed(segment) ==
    LET untimed(bag) == [ t \in { << u[1], u[2] >> : u \in DOMAIN bag } |->
            BagCardinality([ u \in { v \in DOMAIN bag : << v[1], v[2] >> = t } |-> bag[u] ]) ]
    IN  untimed(InitialTokens(segment) (+) MemoryOutputs(segment))
          = untimed(FinalTokens(segment) (+) MemoryInputs(segment))

CheckEquality(segment) ==
    InitialTokens(segment) (+) MemoryOutputs(segment)
      = FinalTokens(segment) (+) MemoryInputs(segment)

MemoryAccepts(segment) == ClockAccepts(segment) /\ CheckEquality(segment)

-----------------------------------------------------------------------------
(***************************************************************************)
(* continuity.rs: states joined row by row, and the count of transitions.  *)
(***************************************************************************)
ClaimValid(claim) ==
    /\ claim.activeRows \in 1 .. RowCount
    /\ claim.activeRows <= claim.transitions
    /\ claim.transitions <= claim.activeRows * LaneBound

StateBefore(row) == [ local |-> row.boundary.local[0], device |-> row.boundary.before ]
StateAfter(row) == [ local |-> row.boundary.local[LaneBound], device |-> row.boundary.after ]

ActiveRows(segment) == { r \in RowNumbers : segment.rows[r].routing.meta.active = 1 }

\* A state carries the number of its row, the next number when it is after
StateTokens(segment, after) ==
    TokenBag([ r \in ActiveRows(segment) |->
        LET row == segment.rows[r]
        IN  IF after THEN << StateAfter(row), row.memory.index + 1 >>
            ELSE << StateBefore(row), row.memory.index >> ])

Transitions(segment) ==
    Sum(RowNumbers, [ r \in RowNumbers |->
        LET meta == segment.rows[r].routing.meta
        IN  meta.active - meta.instruction + Sum(Lanes, meta.lane) ])

CheckSum(segment) ==
    LET claim == segment.claim
    IN  /\ StateTokens(segment, TRUE) (+) SetToBag({ << claim.initial, 0 >> })
             = StateTokens(segment, FALSE) (+) SetToBag({ << claim.final, claim.activeRows >> })
        /\ Transitions(segment) = claim.transitions

ContinuityAccepts(segment) == ClaimValid(segment.claim) /\ CheckSum(segment)

ClaimOf(blocks) ==
    [ activeRows |-> Len(blocks),
      transitions |-> Sum(1 .. Len(blocks), [ i \in 1 .. Len(blocks) |-> Len(blocks[i]) ]),
      initial |-> InitialState(blocks[1]), final |-> FinalState(blocks[Len(blocks)]) ]

-----------------------------------------------------------------------------
(***************************************************************************)
(* logs.rs and logs/packed.rs: four committed tables, each the bag of the  *)
(* events its log takes from the rows.                                     *)
(***************************************************************************)
NoEntry == << >>
TableRow(selected, entry) == [ selected |-> selected, entry |-> entry ]

BusEntry(row, slot) ==
    << row.memory.index * BusBound + slot, row.bus.slot[slot].kind >> \o BusTuple(row.bus.slot[slot])

\* append_byte_entry: a joypad sample is logged, not the byte read from it
InputEntry(row, slot) ==
    LET event == row.bus.slot[slot]
    IN  << event.index, IF event.kind = 13 THEN event.auxiliary ELSE event.value >>

OutputEntry(row, slot) == << row.bus.slot[slot].index, row.bus.slot[slot].value >>

\* The packed words of an ISA row stand for all its columns
IsaEntry(row, lane) == << row.memory.index * LaneBound + lane, row.isa.lane[lane].address >>

\* The family of tokens of a log, by row and slot or lane
LogTokens(segment, kind) ==
    LET row(e) == segment.rows[e[1]]
        events(kinds) == { e \in Events : row(e).bus.slot[e[2]].kind \in kinds }
    IN  CASE kind = "bus" ->
               [ e \in { f \in Events : row(f).bus.slot[f[2]].active = 1 } |-> BusEntry(row(e), e[2]) ]
          [] kind = "input" -> [ e \in events(InputKinds) |-> InputEntry(row(e), e[2]) ]
          [] kind = "output" -> [ e \in events(OutputKinds) |-> OutputEntry(row(e), e[2]) ]
          [] kind = "isa" ->
               [ e \in { f \in RowNumbers \X Lanes : row(f).routing.meta.lane[f[2]] = 1 } |->
                   IsaEntry(row(e), e[2]) ]

\* extract_entries and append_table: the rows in order, then zero rows
TableOf(segment, kind) ==
    LET tokens == LogTokens(segment, kind)
        rank(e) == Cardinality({ f \in DOMAIN tokens :
                       f[1] < e[1] \/ (f[1] = e[1] /\ f[2] < e[2]) })
    IN  [ i \in 0 .. LogCapacity - 1 |->
            IF i < Cardinality(DOMAIN tokens)
            THEN TableRow(1, tokens[CHOOSE e \in DOMAIN tokens : rank(e) = i])
            ELSE TableRow(0, NoEntry) ]

CursorDelta(claim, cursor) == claim.final.local[cursor] - claim.initial.local[cursor]

LogClaimValid(logClaim, claim) ==
    /\ ClaimValid(claim)
    /\ logClaim.bus <= claim.activeRows * BusBound
    /\ logClaim.isa <= claim.activeRows * LaneBound
    /\ CursorDelta(claim, "input") >= 0
    /\ CursorDelta(claim, "output") >= 0
    /\ CursorDelta(claim, "input") + CursorDelta(claim, "output") <= logClaim.bus
    /\ CursorDelta(claim, "bus") = 0
    /\ CursorDelta(claim, "isa") = 0

ClaimedCount(segment, kind) ==
    IF kind \in { "bus", "isa" } THEN segment.logClaim[kind] ELSE CursorDelta(segment.claim, kind)

LogClaimOf(segment) ==
    [ bus |-> Cardinality(DOMAIN LogTokens(segment, "bus")),
      isa |-> Cardinality(DOMAIN LogTokens(segment, "isa")) ]

\* table_relation.rs: selectors are bits, unselected rows are zero
TableRelation(table) ==
    \A i \in DOMAIN table : IsBit(table[i].selected) /\ (table[i].selected = 0 => table[i].entry = NoEntry)

SelectedRows(table) == { i \in DOMAIN table : table[i].selected = 1 }

\* Mutant: a table may list fewer entries than the rows have, if the claim agrees.
CheckLogSubset(segment, kind) ==
    LET table == segment.tables[kind]
    IN  /\ TokenBag([ i \in SelectedRows(table) |-> table[i].entry ])
             \sqsubseteq TokenBag(LogTokens(segment, kind))
        /\ Cardinality(SelectedRows(table)) <= ClaimedCount(segment, kind)

CheckLog(segment, kind) ==
    LET table == segment.tables[kind]
    IN  /\ TokenBag([ i \in SelectedRows(table) |-> table[i].entry ])
             = TokenBag(LogTokens(segment, kind))
        /\ Cardinality(SelectedRows(table)) = ClaimedCount(segment, kind)

LogsAccept(segment) ==
    /\ LogClaimValid(segment.logClaim, segment.claim)
    /\ \A kind \in LogKinds : TableRelation(segment.tables[kind])
    /\ \A kind \in LogKinds : CheckLog(segment, kind)

-----------------------------------------------------------------------------
(***************************************************************************)
(* block_proof.rs: everything the verifier asks of one segment.            *)
(***************************************************************************)
RowsAccept(segment) ==
    \A r \in RowNumbers :
        LET row == segment.rows[r]
        IN  MemoryRelation(row) /\ IsaLookup(row) /\ RomLookup(row)

ComponentsAccept(segment) ==
    /\ RowsAccept(segment)
    /\ MemoryAccepts(segment)
    /\ ContinuityAccepts(segment)
    /\ LogsAccept(segment)

-----------------------------------------------------------------------------
(***************************************************************************)
(* The segment an honest prover commits for a sequence of blocks.          *)
(***************************************************************************)
ZeroStamps == [ a \in 0 .. CellCount - 1 |-> 0 ]

StampsThrough(blocks, count) ==
    FoldLeftDomain(LAMBDA stamps, i : StampsAfter(blocks[i], i - 1, stamps), ZeroStamps,
                   SubSeq(blocks, 1, count))

CommittedRows(blocks) ==
    [ r \in RowNumbers |->
        IF r < Len(blocks) THEN PackedRow(blocks[r + 1], r, StampsThrough(blocks, r))
        ELSE PaddingRow(r) ]

CommittedSegment(blocks, initialMemory, finalMemory) ==
    LET partial == [ rows |-> CommittedRows(blocks), claim |-> ClaimOf(blocks) ]
    IN  [ rows |-> partial.rows, claim |-> partial.claim, logClaim |-> LogClaimOf(partial),
          tables |-> [ kind \in LogKinds |-> TableOf(partial, kind) ],
          initialMemory |-> initialMemory, finalMemory |-> finalMemory,
          finalStamps |-> StampsThrough(blocks, Len(blocks)) ]
=============================================================================
