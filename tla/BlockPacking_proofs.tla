------------------------ MODULE BlockPacking_proofs ------------------------
(* Packing fits: for every execution, every capacity and every bound the   *)
(* planner finds a block for each row, no chunk has more blocks than the   *)
(* segment has relation rows left, and a finished segment is full or ends  *)
(* with the execution.  Its blocks cover the rows in order and end exactly *)
(* where they must.                                                        *)
EXTENDS BlockPacking, WellFoundedInduction, TLAPS

\* The lanes of a plan: one block more has one bound of lanes more, an empty
\* plan has none.
LEMMA LanesTyped ==
    ASSUME NEW S, NEW s \in Seq(S)
    PROVE  Lanes(s) \in Nat /\ Len(s) \in Nat /\ (Len(s) = 0 => Lanes(s) = 0)
<1>1. Len(s) \in Nat
  OBVIOUS
<1>2. QED
  BY <1>1, BoundsAssumption DEF Lanes

\* The lanes of two plans joined.
LEMMA LanesJoined ==
    ASSUME NEW S, NEW s \in Seq(S), NEW t \in Seq(S)
    PROVE  Lanes(s \o t) = Lanes(s) + Lanes(t)
<1>1. \A n, m, b \in Nat : (n + m) * b = n * b + m * b
  BY SMT
<1>2. Len(s) \in Nat /\ Len(t) \in Nat /\ Len(s \o t) = Len(s) + Len(t)
  OBVIOUS
<1>3. QED
  BY <1>1, <1>2, BoundsAssumption DEF Lanes

\* The lanes of a plan with one more block.
LEMMA LanesAppended ==
    ASSUME NEW S, NEW s \in Seq(S), NEW e \in S
    PROVE  Lanes(Append(s, e)) = Lanes(s) + InstructionBound
<1>1. \A n, b \in Nat : (n + 1) * b = n * b + b
  BY SMT
<1>2. Len(s) \in Nat /\ Len(Append(s, e)) = Len(s) + 1
  OBVIOUS
<1>3. QED
  BY <1>1, <1>2, BoundsAssumption DEF Lanes

\* Appending adds one element.
LEMMA AppendRange ==
    ASSUME NEW S, NEW s \in Seq(S), NEW e \in S
    PROVE  /\ Append(s, e) \in Seq(S) /\ Len(Append(s, e)) = Len(s) + 1
           /\ Range(Append(s, e)) = Range(s) \cup {e}
<1>1. Append(s, e) \in Seq(S) /\ Len(Append(s, e)) = Len(s) + 1
  OBVIOUS
<1>2. DOMAIN s = 1..Len(s) /\ DOMAIN Append(s, e) = 1..(Len(s) + 1) /\ Len(s) \in Nat
  OBVIOUS
<1>3. \A i \in 1..Len(s) : Append(s, e)[i] = s[i]
  OBVIOUS
<1>4. Append(s, e)[Len(s) + 1] = e
  OBVIOUS
<1>5. \A i : i \in 1..(Len(s) + 1) <=> i \in 1..Len(s) \/ i = Len(s) + 1
  BY <1>2
<1> HIDE DEF Range
<1>6. Range(Append(s, e)) = {Append(s, e)[i] : i \in 1..(Len(s) + 1)} /\ Range(s) = {s[i] : i \in 1..Len(s)}
  BY <1>2 DEF Range
<1>7. QED
  BY <1>1, <1>3, <1>4, <1>5, <1>6, Zenon

\* Joining two sequences joins their elements.
LEMMA JoinedRange ==
    ASSUME NEW S, NEW s \in Seq(S), NEW t \in Seq(S)
    PROVE  /\ s \o t \in Seq(S) /\ Len(s \o t) = Len(s) + Len(t)
           /\ Range(s \o t) \subseteq Range(s) \cup Range(t)
<1>1. s \o t \in Seq(S) /\ Len(s \o t) = Len(s) + Len(t) /\ Len(s) \in Nat /\ Len(t) \in Nat
  OBVIOUS
<1>2. ASSUME NEW i \in 1..(Len(s) + Len(t))
      PROVE  (s \o t)[i] \in Range(s) \cup Range(t)
  <2>1. CASE i <= Len(s)
    <3>1. (s \o t)[i] = s[i] /\ i \in DOMAIN s
      BY <1>1, <2>1
    <3>2. QED
      BY <3>1 DEF Range
  <2>2. CASE i > Len(s)
    <3>1. (s \o t)[i] = t[i - Len(s)] /\ i - Len(s) \in DOMAIN t
      BY <1>1, <2>2
    <3>2. QED
      BY <3>1 DEF Range
  <2>3. QED
    BY <1>1, <2>1, <2>2
<1>3. DOMAIN (s \o t) = 1..(Len(s) + Len(t))
  OBVIOUS
<1>4. QED
  BY <1>1, <1>2, <1>3 DEF Range

\* The reasons the planner gives are those of BasicBlockCut.
LEMMA CutsTyped ==
    ASSUME NEW r \in Rows
    PROVE  /\ CutBefore(r) \in Cuts \cup {"None"}
           /\ CutAfter(r) \in Cuts \cup {"None"}
<1>1. StandaloneCut(r) \in Cuts \cup {"None"}
  BY DEF StandaloneCut, Cuts
<1>2. \A kind : EventCut(kind) \in Cuts
  BY DEF EventCut, Cuts
<1>3. Row[r].operation \in Operations
  BY RowAssumption
<1>4. Row[r].operation # "Other" => Row[r].operation \in Cuts
  BY <1>3 DEF Cuts
<1> HIDE DEF StandaloneCut, EventCut
<1>5. SemanticCut(r) \in Cuts \cup {"None"}
  <2>1. "InterruptPending" \in Cuts
    BY DEF Cuts
  <2>2. QED
    BY <1>1, <1>2, <1>4, <2>1 DEF SemanticCut
<1>6. {"CycleBound", "BusEventBound", "InstructionBound", "EndOfTrace", "MachineEvent"} \subseteq Cuts
  BY DEF Cuts
<1>7. CutBefore(r) \in Cuts \cup {"None"}
  BY <1>1, <1>6, Zenon DEF CutBefore
<1>8. CutAfter(r) \in Cuts \cup {"None"}
  BY <1>5, <1>6, Zenon DEF CutAfter
<1>9. QED
  BY <1>7, <1>8

\* The numbers the planner reads of a row.
LEMMA RowTyped ==
    ASSUME NEW r \in Rows
    PROVE  /\ Row[r].cycles \in Nat /\ Len(Row[r].events) \in Nat
           /\ Row[r].instruction =>
                Row[r].cycles <= MCycleBound /\ Len(Row[r].events) <= BusEventBound
BY RowAssumption

\* A bounded block.
Bounded(b) ==
    IF b.instructions = 0 THEN b.count = 1
    ELSE /\ b.count = b.instructions /\ b.count <= InstructionBound
         /\ b.cycles <= MCycleBound /\ b.events <= BusEventBound

\* The initial state satisfies the invariant.
LEMMA InitInvariant == Init => InductiveInvariant
<1> SUFFICES ASSUME Init PROVE InductiveInvariant
  OBVIOUS
<1>1. TypeOK
  BY BoundsAssumption DEF Init, TypeOK, NoBlock
<1>2. Progress
  BY BoundsAssumption DEF Init, Progress, Filled, Lanes
<1>3. BlocksWithinBounds
  BY DEF Init, BlocksWithinBounds, Range
<1>4. PlanFits /\ SegmentFilled
  BY DEF Init, PlanFits, SegmentFilled
<1>5. QED
  BY <1>1, <1>2, <1>3, <1>4 DEF InductiveInvariant

\* FillChunk asks for at least one step and at most the free relation rows.
LEMMA FillChunkInvariant == InductiveInvariant /\ FillChunk => InductiveInvariant'
<1> SUFFICES ASSUME InductiveInvariant, FillChunk PROVE InductiveInvariant'
  OBVIOUS
<1> USE DEF InductiveInvariant, FillChunk
<1>0. /\ completed \in Nat /\ maximum \in Nat /\ Len(blocks) \in Nat
      /\ limit' = completed + (IF maximum - completed < RowCapacity - Len(blocks)
                              THEN maximum - completed ELSE RowCapacity - Len(blocks))
  BY DEF TypeOK
<1>1. /\ limit' \in Nat /\ completed < limit' /\ limit' <= maximum
      /\ limit' - completed <= RowCapacity - Len(blocks)
  BY <1>0, BoundsAssumption
<1>2. TypeOK'
  BY <1>1 DEF TypeOK
<1>3. Progress'
  <2>1. Filled'
    BY DEF Progress, Filled
  <2>2. InChunk'
    BY <1>0, <1>1 DEF InChunk
  <2>3. Running'
    BY <1>0, <1>1 DEF Progress, Running
  <2>4. QED
    BY <2>1, <2>2, <2>3 DEF Progress
<1>4. BlocksWithinBounds'
  BY DEF BlocksWithinBounds
<1>5. PlanFits' /\ SegmentFilled'
  BY DEF PlanFits, SegmentFilled
<1>6. QED
  BY <1>2, <1>3, <1>4, <1>5

\* Executing a row only lengthens the part of the chunk not yet planned.
LEMMA BuilderInvariant == InductiveInvariant /\ (BuilderStep \/ BuilderFails) => InductiveInvariant'
<1>1. ASSUME InductiveInvariant, BuilderStep PROVE InductiveInvariant'
  <2> USE <1>1 DEF InductiveInvariant, BuilderStep
  <2>1. PICK r \in Rows : rows' = Append(rows, r)
    OBVIOUS
  <2>2. rows' \in Seq(Rows) /\ Len(rows') = Len(rows) + 1 /\ Len(rows) \in Nat
    BY <2>1 DEF TypeOK
  <2>3. TypeOK'
    BY <2>2 DEF TypeOK
  <2>4. Progress'
    <3>1. limit \in Nat /\ completed \in Nat /\ Running /\ InChunk /\ Filled
      BY DEF TypeOK, Progress
    <3>2. Filled' /\ InChunk'
      BY <3>1 DEF Filled, InChunk
    <3>3. CASE Len(rows) + 1 = limit
      <4>1. Len(chunk) = 0 /\ Lanes(chunk) = 0
        BY <3>1, LanesTyped DEF Running, TypeOK
      <4>2. PlannedUpTo(cursor)'
        BY <2>2, <3>1, <3>3, <4>1 DEF Running, InChunk, PlannedUpTo
      <4>3. QED
        BY <3>2, <3>3, <4>2 DEF Progress
    <3>4. CASE Len(rows) + 1 # limit
      <4>1. Running'
        BY <2>2, <3>1, <3>4 DEF Running
      <4>2. QED
        BY <3>2, <3>4, <4>1 DEF Progress
    <3>5. QED
      BY <3>3, <3>4
  <2>5. BlocksWithinBounds'
    BY DEF BlocksWithinBounds
  <2>6. PlanFits' /\ SegmentFilled'
    BY DEF PlanFits, SegmentFilled
  <2>7. QED
    BY <2>3, <2>4, <2>5, <2>6
<1>2. ASSUME InductiveInvariant, BuilderFails PROVE InductiveInvariant'
  <2> USE <1>2 DEF InductiveInvariant, BuilderFails
  <2>1. TypeOK'
    BY DEF TypeOK, Failures
  <2>2. Progress'
    BY DEF Progress, Filled
  <2>3. BlocksWithinBounds'
    BY DEF BlocksWithinBounds
  <2>4. PlanFits' /\ SegmentFilled'
    BY DEF PlanFits, SegmentFilled
  <2>5. QED
    BY <2>1, <2>2, <2>3, <2>4
<1>3. QED
  BY <1>1, <1>2

\* The row at the cursor while the chunk is being planned.
LEMMA CursorRow ==
    ASSUME InductiveInvariant, pc \in {"plan", "block"}, cursor < limit
    PROVE  rows[cursor + 1] \in Rows
<1>1. Len(rows) = limit
  BY DEF InductiveInvariant, Progress, PlannedUpTo
<1>2. QED
  BY <1>1 DEF InductiveInvariant, TypeOK

\* A bounded block added to the plan leaves every planned block bounded.
LEMMA BoundedAppend ==
    ASSUME TypeOK, BlocksWithinBounds, blocks' = blocks,
           NEW b \in Block, Bounded(b), chunk' = Append(chunk, b)
    PROVE  /\ BlocksWithinBounds' /\ chunk' \in Seq(Block)
           /\ Len(chunk) \in Nat /\ Len(chunk') = Len(chunk) + 1
           /\ Lanes(chunk') = Lanes(chunk) + InstructionBound /\ Lanes(chunk) \in Nat
<1>1. chunk \in Seq(Block)
  BY DEF TypeOK
<1>2. chunk' \in Seq(Block) /\ Len(chunk') = Len(chunk) + 1 /\ Range(chunk') = Range(chunk) \cup {b}
  BY <1>1, AppendRange
<1>3. BlocksWithinBounds'
  BY <1>2, Zenon DEF BlocksWithinBounds, Bounded
<1>4. Len(chunk) \in Nat
  BY <1>1
<1>5. QED
  BY <1>1, <1>2, <1>3, <1>4, LanesAppended, LanesTyped

\* A machine event becomes a block of one row.
LEMMA PlanMachineEventInvariant == InductiveInvariant /\ PlanMachineEvent => InductiveInvariant'
<1> SUFFICES ASSUME InductiveInvariant, PlanMachineEvent PROVE InductiveInvariant'
  OBVIOUS
<1> DEFINE r == rows[cursor + 1]
           b == [start |-> cursor, count |-> 1, instructions |-> 0,
                 cycles |-> Row[r].cycles, events |-> Len(Row[r].events),
                 cut |-> "MachineEvent"]
<1>1. r \in Rows
  BY CursorRow DEF PlanMachineEvent
<1>2. b \in Block
  <2>1. Row[r].cycles \in Nat /\ Len(Row[r].events) \in Nat
    BY <1>1, RowTyped
  <2>2. "MachineEvent" \in Cuts
    BY DEF Cuts
  <2>3. cursor \in Nat
    BY DEF InductiveInvariant, TypeOK
  <2>4. QED
    BY <2>1, <2>2, <2>3 DEF Block
<1>3. Bounded(b)
  BY DEF Bounded
<1>4. chunk' = Append(chunk, b) /\ blocks' = blocks
  BY DEF PlanMachineEvent
<1> HIDE DEF b
<1>5. /\ BlocksWithinBounds' /\ chunk' \in Seq(Block)
      /\ Len(chunk) \in Nat /\ Len(chunk') = Len(chunk) + 1
      /\ Lanes(chunk') = Lanes(chunk) + InstructionBound /\ Lanes(chunk) \in Nat
  BY <1>2, <1>3, <1>4, BoundedAppend DEF InductiveInvariant
<1>6. TypeOK'
  BY <1>5 DEF InductiveInvariant, TypeOK, PlanMachineEvent
<1>7. Progress'
  <2>1. cursor \in Nat /\ limit \in Nat /\ completed \in Nat
    BY DEF InductiveInvariant, TypeOK
  <2>2. pc = "plan" /\ PlannedUpTo(cursor) /\ InChunk /\ Filled
    BY DEF InductiveInvariant, Progress, PlanMachineEvent
  <2>3. /\ cursor < limit /\ cursor' = cursor + 1
        /\ UNCHANGED <<pc, maximum, rows, completed, limit, open, blocks>>
    BY DEF PlanMachineEvent
  <2>4. PlannedUpTo(cursor)'
    BY <1>5, <2>1, <2>2, <2>3, BoundsAssumption DEF PlannedUpTo
  <2>5. InChunk' /\ Filled'
    BY <2>2, <2>3 DEF InChunk, Filled
  <2>6. QED
    BY <2>2, <2>3, <2>4, <2>5 DEF Progress
<1>8. PlanFits' /\ SegmentFilled'
  BY DEF InductiveInvariant, PlanFits, SegmentFilled, PlanMachineEvent
<1>9. QED
  BY <1>5, <1>6, <1>7, <1>8 DEF InductiveInvariant

\* A new block starts empty, at an instruction.
LEMMA OpenBlockInvariant == InductiveInvariant /\ OpenBlock => InductiveInvariant'
<1> SUFFICES ASSUME InductiveInvariant, OpenBlock PROVE InductiveInvariant'
  OBVIOUS
<1> USE DEF InductiveInvariant, OpenBlock
<1>1. TypeOK'
  BY DEF TypeOK
<1>2. Progress'
  <2>1. PlannedUpTo(cursor) /\ InChunk /\ Filled /\ cursor \in Nat
    BY DEF Progress, TypeOK
  <2>2. open'.start = cursor /\ open'.cycles = 0 /\ open'.events = 0
    OBVIOUS
  <2>3. PlannedUpTo(open.start)' /\ InChunk' /\ Filled'
    BY <2>1, <2>2 DEF PlannedUpTo, InChunk, Filled
  <2>4. Row[rows[cursor + 1]].instruction = TRUE
    <3>1. Row[rows[cursor + 1]].instruction \in BOOLEAN
      BY CursorRow, RowAssumption
    <3>2. QED
      BY <3>1
  <2>5. InBlock'
    BY <2>1, <2>2, <2>4, BoundsAssumption DEF InBlock
  <2>6. QED
    BY <2>3, <2>5 DEF Progress
<1>3. BlocksWithinBounds'
  BY DEF BlocksWithinBounds
<1>4. PlanFits' /\ SegmentFilled'
  BY DEF PlanFits, SegmentFilled
<1>5. QED
  BY <1>1, <1>2, <1>3, <1>4

\* Closing the open block before row end, within its bounds, plans a block
\* of at least one row.
LEMMA CloseBlockInvariant ==
    ASSUME InductiveInvariant, pc = "block",
           NEW end \in Nat, NEW cycles \in Nat, NEW events \in Nat, NEW cut \in Cuts,
           open.start < end, end - open.start <= InstructionBound, end <= limit,
           cycles <= MCycleBound, events <= BusEventBound,
           CloseBlock(end, cycles, events, cut), cursor' = end,
           UNCHANGED <<maximum, rows, completed, limit, blocks>>
    PROVE  InductiveInvariant'
<1> DEFINE b == [start |-> open.start, count |-> end - open.start,
                 instructions |-> end - open.start,
                 cycles |-> cycles, events |-> events, cut |-> cut]
<1>1. open.start \in Nat /\ end - open.start \in Nat \ {0}
  BY DEF InductiveInvariant, TypeOK
<1>2. b \in Block
  BY <1>1 DEF Block
<1>3. Bounded(b)
  BY <1>1 DEF Bounded
<1>4. chunk' = Append(chunk, b) /\ blocks' = blocks /\ open' = NoBlock /\ pc' = "plan"
  BY DEF CloseBlock
<1> HIDE DEF b
<1>5. /\ BlocksWithinBounds' /\ chunk' \in Seq(Block)
      /\ Len(chunk) \in Nat /\ Len(chunk') = Len(chunk) + 1
      /\ Lanes(chunk') = Lanes(chunk) + InstructionBound /\ Lanes(chunk) \in Nat
  BY <1>2, <1>3, <1>4, BoundedAppend DEF InductiveInvariant
<1>6. TypeOK'
  BY <1>4, <1>5 DEF InductiveInvariant, TypeOK, NoBlock
<1>7. Progress'
  <2>1. cursor \in Nat /\ limit \in Nat /\ completed \in Nat
    BY DEF InductiveInvariant, TypeOK
  <2>2. PlannedUpTo(open.start) /\ InChunk /\ Filled
    BY DEF InductiveInvariant, Progress
  <2>3. PlannedUpTo(cursor)'
    <3>1. /\ Len(chunk) <= open.start - completed /\ open.start - completed <= Lanes(chunk)
          /\ Len(rows) = limit /\ completed <= open.start
      BY <2>2 DEF PlannedUpTo
    <3>2. Len(chunk') <= end - completed /\ completed <= end
      BY <1>1, <1>5, <2>1, <3>1
    <3>3. end - completed <= Lanes(chunk')
      BY <1>1, <1>5, <2>1, <3>1, BoundsAssumption
    <3>4. QED
      BY <3>1, <3>2, <3>3 DEF PlannedUpTo
  <2>4. InChunk' /\ Filled'
    BY <2>2 DEF InChunk, Filled
  <2>5. QED
    BY <1>4, <2>3, <2>4 DEF Progress
<1>8. PlanFits' /\ SegmentFilled'
  BY <1>4 DEF PlanFits, SegmentFilled
<1>9. QED
  BY <1>5, <1>6, <1>7, <1>8 DEF InductiveInvariant

\* A block cut before a row has at least one row of its own.
LEMMA CutBeforeRowInvariant == InductiveInvariant /\ CutBeforeRow => InductiveInvariant'
<1> SUFFICES ASSUME InductiveInvariant, CutBeforeRow PROVE InductiveInvariant'
  OBVIOUS
<1> DEFINE r == rows[cursor + 1]
<1>1. pc = "block" /\ cursor < limit /\ InBlock
  BY DEF InductiveInvariant, Progress, InBlock, CutBeforeRow
<1>2. r \in Rows
  BY <1>1, CursorRow
<1>3. CutBefore(r) # "None" /\ CloseBlock(cursor, open.cycles, open.events, CutBefore(r))
  BY DEF CutBeforeRow
<1>4. CutBefore(r) \in Cuts
  BY <1>2, <1>3, CutsTyped
<1>5. cursor # open.start
  BY <1>3 DEF CutBefore
<1>6. /\ cursor \in Nat /\ open.start \in Nat /\ open.cycles \in Nat /\ open.events \in Nat
      /\ limit \in Nat
  BY DEF InductiveInvariant, TypeOK
<1>7. /\ open.start < cursor /\ cursor - open.start <= InstructionBound /\ cursor <= limit
      /\ open.cycles <= MCycleBound /\ open.events <= BusEventBound
  BY <1>1, <1>5, <1>6, BoundsAssumption DEF InBlock
<1>8. cursor' = cursor /\ UNCHANGED <<maximum, rows, completed, limit, blocks>>
  BY DEF CutBeforeRow
<1> HIDE DEF r
<1>9. QED
  BY <1>1, <1>3, <1>4, <1>6, <1>7, <1>8, CloseBlockInvariant

\* A row the block may take fits it: the first of a block fits alone, and the
\* others were compared with the bounds.
LEMMA AbsorbRowInvariant == InductiveInvariant /\ AbsorbRow => InductiveInvariant'
<1> SUFFICES ASSUME InductiveInvariant, AbsorbRow PROVE InductiveInvariant'
  OBVIOUS
<1> DEFINE r == rows[cursor + 1]
           cycles == open.cycles + Row[r].cycles
           events == open.events + Len(Row[r].events)
<1>1. pc = "block" /\ cursor < limit /\ Row[r].instruction /\ InBlock
  BY DEF InductiveInvariant, Progress, InBlock, AbsorbRow
<1>2. r \in Rows
  BY <1>1, CursorRow
<1>3. /\ cursor \in Nat /\ open.start \in Nat /\ open.cycles \in Nat /\ open.events \in Nat
      /\ limit \in Nat
  BY DEF InductiveInvariant, TypeOK
<1>4. Row[r].cycles \in Nat /\ Len(Row[r].events) \in Nat
  BY <1>2, RowTyped
<1>5. cycles \in Nat /\ events \in Nat
  <2> HIDE DEF r
  <2>1. \A x, y \in Nat : x + y \in Nat
    OBVIOUS
  <2>2. QED
    BY <1>3, <1>4, <2>1, Zenon
<1>6. CutBefore(r) = "None"
  BY DEF AbsorbRow
<1>7. cycles <= MCycleBound /\ events <= BusEventBound
  <2>1. CASE cursor = open.start
    <3>1. open.cycles = 0 /\ open.events = 0
      BY <1>1, <2>1 DEF InBlock
    <3>2. Row[r].cycles <= MCycleBound /\ Len(Row[r].events) <= BusEventBound
      BY <1>1, <1>2, RowTyped
    <3>3. QED
      BY <1>4, <3>1, <3>2
  <2>2. CASE cursor # open.start
    <3>1. ~(cycles > MCycleBound) /\ ~(events > BusEventBound)
      BY <1>6, <2>2 DEF CutBefore
    <3>2. QED
      BY <1>5, <3>1, BoundsAssumption
  <2>3. QED
    BY <2>1, <2>2
<1>8. /\ cursor' = cursor + 1 /\ UNCHANGED <<maximum, rows, completed, limit, blocks>>
      /\ IF CutAfter(r) # "None"
         THEN CloseBlock(cursor + 1, cycles, events, CutAfter(r))
         ELSE /\ open' = [start |-> open.start, cycles |-> cycles, events |-> events]
              /\ UNCHANGED <<pc, chunk>>
  <2>1. ~(cycles > MCycleBound \/ events > BusEventBound)
    BY <1>5, <1>7, BoundsAssumption
  <2>2. QED
    BY <2>1, Zenon DEF AbsorbRow
<1>9. CASE CutAfter(r) # "None"
  <2>1. CutAfter(r) \in Cuts
    BY <1>2, <1>9, CutsTyped
  <2>2. CloseBlock(cursor + 1, cycles, events, CutAfter(r))
    BY <1>8, <1>9
  <2>3. /\ open.start < cursor + 1 /\ cursor + 1 - open.start <= InstructionBound
        /\ cursor + 1 <= limit /\ cursor + 1 \in Nat
    BY <1>1, <1>3, BoundsAssumption DEF InBlock
  <2> DEFINE end == cursor + 1
             cut == CutAfter(r)
  <2>4. end \in Nat /\ open.start < end /\ end - open.start <= InstructionBound /\ end <= limit
    BY <1>3, <2>3, BoundsAssumption
  <2>5. cut \in Cuts /\ CloseBlock(end, cycles, events, cut)
    BY <2>1, <2>2, Zenon
  <2>6. cursor' = end /\ UNCHANGED <<maximum, rows, completed, limit, blocks>>
    BY <1>8, Zenon
  <2> HIDE DEF r, cycles, events, end, cut
  <2>7. QED
    BY <1>1, <1>5, <1>7, <2>4, <2>5, <2>6, CloseBlockInvariant
<1>10. CASE CutAfter(r) = "None"
  <2>1. /\ cursor + 1 - open.start # InstructionBound /\ cursor + 1 # limit
        /\ Row[rows[cursor + 2]].instruction
    BY <1>10 DEF CutAfter
  <2>2. open' = [start |-> open.start, cycles |-> cycles, events |-> events] /\ UNCHANGED <<pc, chunk>>
    BY <1>8, <1>10
  <2>3. open' \in [start : Nat, cycles : Nat, events : Nat]
        /\ open'.start = open.start /\ open'.cycles = cycles /\ open'.events = events
    BY <1>5, <2>2 DEF InductiveInvariant, TypeOK
  <2> HIDE DEF r, cycles, events
  <2>4. TypeOK'
    BY <1>8, <1>3, <2>2, <2>3 DEF InductiveInvariant, TypeOK
  <2>5. Progress'
    <3>1. cursor' + 1 = cursor + 2
      BY <1>3, <1>8
    <3>3. cursor + 1 < limit /\ cursor + 1 - open.start < InstructionBound /\ open.start < cursor + 1
      BY <1>1, <1>3, <2>1, BoundsAssumption DEF InBlock
    <3>4. InBlock'
      <4>1. Row[rows'[cursor' + 1]].instruction = TRUE
        <5>1. rows[cursor + 2] \in Rows
          <6>1. Len(rows) = limit
            BY <1>1 DEF InductiveInvariant, Progress, PlannedUpTo
          <6>2. QED
            BY <1>3, <3>3, <6>1 DEF InductiveInvariant, TypeOK
        <5>2. Row[rows[cursor + 2]].instruction \in BOOLEAN
          BY <5>1, RowAssumption
        <5>3. QED
          BY <1>8, <2>1, <3>1, <5>2
      <4>2. QED
        BY <1>3, <1>7, <1>8, <2>3, <3>3, <4>1 DEF InBlock
    <3>5. (PlannedUpTo(open.start) /\ InChunk /\ Filled)'
      BY <1>1, <1>8, <2>2, <2>3 DEF InductiveInvariant, Progress, PlannedUpTo, InChunk, Filled
    <3>6. QED
      BY <1>1, <2>2, <3>4, <3>5 DEF Progress
  <2>6. BlocksWithinBounds' /\ PlanFits' /\ SegmentFilled'
    BY <1>8, <2>2, <1>1 DEF InductiveInvariant, BlocksWithinBounds, PlanFits, SegmentFilled
  <2>7. QED
    BY <2>4, <2>5, <2>6 DEF InductiveInvariant
<1>11. QED
  BY <1>9, <1>10

\* A planned chunk has a block, and no more blocks than steps, which are no
\* more than the relation rows left.
LEMMA AppendChunkInvariant == InductiveInvariant /\ AppendChunk => InductiveInvariant'
<1> SUFFICES ASSUME InductiveInvariant, AppendChunk PROVE InductiveInvariant'
  OBVIOUS
<1>1. /\ pc = "plan" /\ cursor = limit
      /\ UNCHANGED <<maximum, rows, limit, cursor, open>>
  BY DEF AppendChunk
<1>2. /\ chunk \in Seq(Block) /\ blocks \in Seq(Block) /\ completed \in Nat /\ limit \in Nat
      /\ Len(chunk) \in Nat /\ Len(blocks) \in Nat
  BY DEF InductiveInvariant, TypeOK
<1>3. /\ completed < limit /\ limit <= maximum /\ Len(chunk) <= limit - completed
      /\ limit - completed <= RowCapacity - Len(blocks)
      /\ limit - completed <= Lanes(chunk)
      /\ Len(blocks) <= completed /\ completed <= Lanes(blocks)
      /\ Len(rows) = limit
  BY <1>1 DEF InductiveInvariant, Progress, PlannedUpTo, InChunk, Filled
<1>4. chunk # <<>> /\ ~(Len(chunk) > RowCapacity - Len(blocks))
  <2>1. ASSUME chunk = <<>> PROVE FALSE
    <3>1. Lanes(chunk) = 0
      BY <1>2, <2>1, LanesTyped
    <3>2. QED
      BY <1>2, <1>3, <3>1
  <2>2. QED
    BY <1>2, <1>3, <2>1, BoundsAssumption
<1>5. CASE pc' = "PartitionInvariant" /\ UNCHANGED <<completed, chunk, blocks>>
  <2>1. TypeOK'
    BY <1>1, <1>5 DEF InductiveInvariant, TypeOK, Failures
  <2>2. Progress'
    BY <1>1, <1>5 DEF InductiveInvariant, Progress, Filled
  <2>3. BlocksWithinBounds' /\ PlanFits' /\ SegmentFilled'
    BY <1>5 DEF InductiveInvariant, BlocksWithinBounds, PlanFits, SegmentFilled
  <2>4. QED
    BY <2>1, <2>2, <2>3 DEF InductiveInvariant
<1>6. CASE pc' = "fill" /\ completed' = limit /\ blocks' = blocks \o chunk /\ chunk' = <<>>
  <2>1. /\ blocks' \in Seq(Block) /\ Len(blocks') = Len(blocks) + Len(chunk)
        /\ Range(blocks') \subseteq Range(blocks) \cup Range(chunk)
    BY <1>2, <1>6, JoinedRange
  <2>2. Range(chunk') = {}
    BY <1>6 DEF Range
  <2>3. TypeOK'
    BY <1>1, <1>2, <1>6, <2>1 DEF InductiveInvariant, TypeOK
  <2>4. Lanes(blocks') = Lanes(blocks) + Lanes(chunk)
    BY <1>2, <1>6, LanesJoined
  <2>5. limit <= Lanes(blocks')
    <3>1. Lanes(blocks) \in Nat /\ Lanes(chunk) \in Nat
      BY <1>2, LanesTyped
    <3>2. QED
      BY <1>2, <1>3, <2>4, <3>1
  <2>6. Len(blocks') <= limit /\ Len(blocks') <= RowCapacity
    BY <1>2, <1>3, <2>1, BoundsAssumption
  <2>7. Progress'
    BY <1>1, <1>3, <1>6, <2>5, <2>6 DEF Progress, Filled
  <2>8. BlocksWithinBounds'
    BY <2>1, <2>2 DEF InductiveInvariant, BlocksWithinBounds
  <2>9. PlanFits' /\ SegmentFilled'
    BY <1>6 DEF PlanFits, SegmentFilled
  <2>10. QED
    BY <2>3, <2>7, <2>8, <2>9 DEF InductiveInvariant
<1>7. QED
  BY <1>4, <1>5, <1>6, Zenon DEF AppendChunk

\* The loop ends only with the steps or the relation rows.
LEMMA FinishSegmentInvariant == InductiveInvariant /\ FinishSegment => InductiveInvariant'
<1> SUFFICES ASSUME InductiveInvariant, FinishSegment PROVE InductiveInvariant'
  OBVIOUS
<1>1. /\ pc = "fill" /\ ~(completed < maximum /\ Len(blocks) < RowCapacity)
      /\ UNCHANGED <<maximum, rows, completed, limit, cursor, open, chunk, blocks>>
  BY DEF FinishSegment
<1>2. /\ blocks \in Seq(Block) /\ Len(blocks) \in Nat /\ completed \in Nat
      /\ maximum \in Nat /\ 0 < maximum
  BY DEF InductiveInvariant, TypeOK
<1>3. /\ Len(blocks) <= completed /\ completed <= Lanes(blocks)
      /\ completed <= maximum /\ Len(blocks) <= RowCapacity
  BY DEF InductiveInvariant, Progress, Filled
<1>4. completed # 0
  BY <1>1, <1>2, <1>3, BoundsAssumption
<1>5. Len(blocks) # 0
  <2>1. ASSUME Len(blocks) = 0 PROVE FALSE
    <3>1. Lanes(blocks) = 0
      BY <1>2, <2>1, LanesTyped
    <3>2. QED
      BY <1>2, <1>3, <1>4, <3>1
  <2>2. QED
    BY <2>1
<1>6. pc' = "done"
  BY <1>4, <1>5 DEF FinishSegment
<1>7. TypeOK'
  BY <1>1, <1>6 DEF InductiveInvariant, TypeOK
<1>8. Progress'
  BY <1>1, <1>6 DEF InductiveInvariant, Progress, Filled
<1>9. SegmentFilled'
  BY <1>1, <1>2, <1>3, <1>5, BoundsAssumption DEF SegmentFilled
<1>10. BlocksWithinBounds' /\ PlanFits'
  BY <1>1, <1>6 DEF InductiveInvariant, BlocksWithinBounds, PlanFits
<1>11. QED
  BY <1>7, <1>8, <1>9, <1>10 DEF InductiveInvariant

\* Every step of filling a segment preserves the invariant.
LEMMA StepInvariant == InductiveInvariant /\ [Next]_vars => InductiveInvariant'
<1>1. InductiveInvariant /\ Next => InductiveInvariant'
  BY FillChunkInvariant, BuilderInvariant, PlanMachineEventInvariant, OpenBlockInvariant,
     CutBeforeRowInvariant, AbsorbRowInvariant, AppendChunkInvariant, FinishSegmentInvariant
  DEF Next
<1>2. ASSUME InductiveInvariant, UNCHANGED vars PROVE InductiveInvariant'
  <2> USE <1>2 DEF vars, InductiveInvariant
  <2>1. TypeOK'
    BY DEF TypeOK
  <2>2. (Filled <=> Filled') /\ (InChunk <=> InChunk') /\ (Running <=> Running')
    BY DEF Filled, InChunk, Running
  <2>3. PlannedUpTo(cursor)' = PlannedUpTo(cursor) /\ PlannedUpTo(open.start)' = PlannedUpTo(open.start)
    BY DEF PlannedUpTo
  <2>4. InBlock' = InBlock
    BY DEF InBlock
  <2>5. Progress'
    BY <2>2, <2>3, <2>4 DEF Progress
  <2>6. BlocksWithinBounds'
    BY DEF BlocksWithinBounds
  <2>7. PlanFits' /\ SegmentFilled'
    BY DEF PlanFits, SegmentFilled
  <2>8. QED
    BY <2>1, <2>5, <2>6, <2>7
<1>3. QED
  BY <1>1, <1>2

\* The invariant holds in every state of filling a segment.
LEMMA Invariant == Spec => []InductiveInvariant
BY InitInvariant, StepInvariant, PTL DEF Spec

\* fill_packed_segment never reports a row without a block nor a chunk that
\* exceeds the relation-row capacity, whatever the execution produces.
THEOREM PackingFits == Spec => []PlanFits
<1>1. InductiveInvariant => PlanFits
  BY DEF InductiveInvariant
<1>2. QED
  BY <1>1, Invariant, PTL

\* A finished segment used all of its relation rows or reached the end of the
\* execution, with no more blocks than steps and no more steps than lanes.
THEOREM SegmentsFull == Spec => []SegmentFilled
<1>1. InductiveInvariant => SegmentFilled
  BY DEF InductiveInvariant
<1>2. QED
  BY <1>1, Invariant, PTL

\* Every block plan_indexed hands to the relation is within its fixed widths.
THEOREM BlocksFit == Spec => []BlocksWithinBounds
<1>1. InductiveInvariant => BlocksWithinBounds
  BY DEF InductiveInvariant
<1>2. QED
  BY <1>1, Invariant, PTL
-----------------------------------------------------------------------------
(* Where the blocks begin and end.                                         *)

End(plan) == IF plan = <<>> THEN 0 ELSE plan[Len(plan)].start + plan[Len(plan)].count
Consecutive(plan) ==
    \A i \in 1..Len(plan) :
        plan[i].start = IF i = 1 THEN 0 ELSE plan[i - 1].start + plan[i - 1].count

\* The rows of a block: those of an instruction block are instructions, all
\* but the last are quiet, and one that touches a device is alone.
RowsExact(b) ==
    /\ b.start + b.count <= Len(rows)
    /\ \A k \in 1..b.count :
         /\ Row[rows[b.start + k]].instruction <=> b.instructions # 0
         /\ k < b.count => Quiet(rows[b.start + k])
         /\ b.count > 1 => ~TouchesDevice(rows[b.start + k])

\* Why block b does not hold the row after it.
StopsAt(b, next) ==
    \/ b.count = InstructionBound
    \/ b.cycles + Row[next].cycles > MCycleBound
    \/ b.events + Len(Row[next].events) > BusEventBound
    \/ ~Quiet(rows[b.start + b.count])
    \/ TouchesDevice(next)
Maximal(b) ==
    b.start + b.count < Len(rows) =>
        LET next == rows[b.start + b.count + 1]
        IN  b.instructions # 0 /\ Row[next].instruction => StopsAt(b, next)

\* The rows the open block holds.
OpenQuiet ==
    pc = "block" =>
        \A k \in 1..(cursor - open.start) :
            Row[rows[open.start + k]].instruction /\ Quiet(rows[open.start + k])

\* The plan follows the rows: what BlocksPartition and CutsExact say of the
\* finished blocks, the same of the block being planned, and that no block
\* reaches past the rows executed.
PlanFollowsRows ==
    /\ Consecutive(Planned)
    /\ End(Planned) = IF pc = "block" THEN open.start ELSE cursor
    /\ \A b \in Range(blocks) \cup Range(chunk) : RowsExact(b)
    /\ \A b \in Range(chunk) : Maximal(b)
    /\ OpenQuiet

-----------------------------------------------------------------------------
(* What the cuts mean.                                                     *)

\* A set of naturals that is not empty has a least element.
LEMMA LeastNat == ASSUME NEW S \in SUBSET Nat, S # {} PROVE \E m \in S : \A n \in S : m <= n
<1>1. IsWellFoundedOn(OpToRel(<, Nat), Nat)
  BY NatLessThanWellFounded
<1>2. PICK m \in S : \A n \in S : ~(<<n, m>> \in OpToRel(<, Nat))
  BY <1>1, WFMin
<1>3. \A n \in S : ~(n < m)
  BY <1>2 DEF OpToRel
<1> QED BY <1>3

\* The first index of a set of indices is one of them.
LEMMA FirstIndex == ASSUME NEW n \in Nat, NEW I \in SUBSET (1..n), I # {} PROVE Min(I) \in I
<1>1. I \in SUBSET Nat
  OBVIOUS
<1>2. \E m \in I : \A k \in I : m <= k
  BY <1>1, LeastNat
<1> QED BY <1>2 DEF Min

\* standalone_cut finds an event exactly when the row touches a device.
LEMMA StandaloneMeaning ==
    ASSUME NEW r \in Rows
    PROVE  StandaloneCut(r) = "None" <=> ~TouchesDevice(r)
<1> DEFINE s == Row[r].events
           I == {i \in 1..Len(s) : StandaloneEvent(s[i])}
<1>1. s \in Seq([kind : EventKinds, video : BOOLEAN])
  BY RowAssumption
<1>2. Len(s) \in Nat /\ DOMAIN s = 1..Len(s)
  BY <1>1
<1>3. TouchesDevice(r) <=> I # {}
  BY <1>2 DEF TouchesDevice, StandaloneEvent, Range
<1>4. SelectInSeq(s, StandaloneEvent) = IF I # {} THEN Min(I) ELSE 0
  BY DEF SelectInSeq
<1>5. I # {} => Min(I) \in I
  BY <1>2, FirstIndex
<1>6. I # {} => Min(I) # 0
  BY <1>2, <1>5
<1> HIDE DEF I
<1>7. QED
  BY <1>3, <1>4, <1>6 DEF StandaloneCut

\* semantic_cut ends a block exactly after a row that is not quiet.
LEMMA SemanticMeaning ==
    ASSUME NEW r \in Rows
    PROVE  SemanticCut(r) = "None" <=> Quiet(r)
<1> DEFINE s == Row[r].events
           I == {i \in 1..Len(s) : BoundaryEvent(s[i])}
<1>1. s \in Seq([kind : EventKinds, video : BOOLEAN])
  BY RowAssumption
<1>2. Len(s) \in Nat /\ DOMAIN s = 1..Len(s)
  BY <1>1
<1>3. ~TouchesDevice(r) =>
        (I = {} <=> \A e \in Range(s) :
                      e.kind \notin {"InputRead", "OutputWrite", "Mbc3ControlWrite",
                                     "MemoryOpcodeFetch", "MemoryImmediateRead"})
  BY <1>2 DEF TouchesDevice, BoundaryEvent, PortEvents, DeviceEvents, Range
<1>4. SelectInSeq(s, BoundaryEvent) = IF I # {} THEN Min(I) ELSE 0
  BY DEF SelectInSeq
<1>5. I # {} => Min(I) \in I
  BY <1>2, FirstIndex
<1>6. I # {} => Min(I) # 0
  BY <1>2, <1>5
<1>7. \A kind : EventCut(kind) # "None"
  BY DEF EventCut
<1>8. Row[r].pending \in BOOLEAN /\ Row[r].operation \in Operations
  BY RowAssumption
<1>9. Row[r].operation # "None"
  BY <1>8 DEF Operations
<1> HIDE DEF I
<1>10. SelectInSeq(s, BoundaryEvent) # 0 <=> I # {}
  BY <1>4, <1>6
<1>11. SemanticCut(r) = "None" <=>
         /\ Row[r].operation = "Other" /\ ~Row[r].pending
         /\ StandaloneCut(r) = "None" /\ SelectInSeq(s, BoundaryEvent) = 0
  BY <1>7, <1>8, <1>9, Zenon DEF SemanticCut
<1>12. QED
  BY <1>3, <1>10, <1>11, StandaloneMeaning DEF Quiet

-----------------------------------------------------------------------------
(* The plan follows the rows.                                              *)

\* One block more, where the plan ends, leaves the plan consecutive.
LEMMA ConsecutiveAppend ==
    ASSUME NEW plan \in Seq(Block), Consecutive(plan), NEW b \in Block, b.start = End(plan)
    PROVE  Consecutive(Append(plan, b)) /\ End(Append(plan, b)) = b.start + b.count
<1>1. /\ Len(plan) \in Nat /\ Len(Append(plan, b)) = Len(plan) + 1
      /\ Append(plan, b)[Len(plan) + 1] = b /\ Append(plan, b) # <<>>
      /\ \A i \in 1..Len(plan) : Append(plan, b)[i] = plan[i]
      /\ plan = <<>> <=> Len(plan) = 0
  OBVIOUS
<1>2. End(Append(plan, b)) = b.start + b.count
  BY <1>1 DEF End
<1>3. ASSUME NEW i \in 1..(Len(plan) + 1)
      PROVE  Append(plan, b)[i].start =
               IF i = 1 THEN 0
               ELSE Append(plan, b)[i - 1].start + Append(plan, b)[i - 1].count
  <2>1. CASE i \in 1..Len(plan)
    <3>1. i # 1 => i - 1 \in 1..Len(plan)
      BY <1>1, <2>1
    <3>2. QED
      BY <1>1, <2>1, <3>1 DEF Consecutive
  <2>2. CASE i = Len(plan) + 1
    <3>1. Append(plan, b)[i] = b
      BY <1>1, <2>2
    <3>2. CASE Len(plan) = 0
      BY <1>1, <2>2, <3>1, <3>2 DEF End
    <3>3. CASE Len(plan) # 0
      <4>1. i # 1 /\ i - 1 = Len(plan) /\ i - 1 \in 1..Len(plan)
        BY <1>1, <2>2, <3>3
      <4>2. QED
        BY <1>1, <3>1, <3>3, <4>1 DEF End
    <3>4. QED
      BY <3>2, <3>3
  <2>3. QED
    BY <1>1, <2>1, <2>2
<1>4. QED
  BY <1>1, <1>2, <1>3 DEF Consecutive

\* A block appended to the chunk is appended to the plan.
LEMMA PlannedAppend ==
    ASSUME NEW s \in Seq(Block), NEW c \in Seq(Block), NEW b \in Block
    PROVE  s \o Append(c, b) = Append(s \o c, b) /\ s \o c \in Seq(Block)
<1>1. /\ Append(c, b) \in Seq(Block) /\ Len(Append(c, b)) = Len(c) + 1
      /\ s \o c \in Seq(Block) /\ Len(s \o c) = Len(s) + Len(c)
      /\ Len(s) \in Nat /\ Len(c) \in Nat
  OBVIOUS
<1>2. /\ s \o Append(c, b) \in Seq(Block) /\ Append(s \o c, b) \in Seq(Block)
      /\ Len(s \o Append(c, b)) = Len(s) + Len(c) + 1
      /\ Len(Append(s \o c, b)) = Len(s) + Len(c) + 1
  BY <1>1
<1>3. ASSUME NEW i \in 1..(Len(s) + Len(c) + 1)
      PROVE  (s \o Append(c, b))[i] = Append(s \o c, b)[i]
  <2>1. CASE i <= Len(s)
    BY <1>1, <2>1
  <2>2. CASE i > Len(s) /\ i <= Len(s) + Len(c)
    <3>1. (s \o Append(c, b))[i] = Append(c, b)[i - Len(s)] /\ i - Len(s) \in 1..Len(c)
      BY <1>1, <2>2
    <3>2. Append(s \o c, b)[i] = (s \o c)[i] /\ (s \o c)[i] = c[i - Len(s)]
      BY <1>1, <2>2
    <3>3. QED
      BY <1>1, <3>1, <3>2
  <2>3. CASE i = Len(s) + Len(c) + 1
    <3>1. (s \o Append(c, b))[i] = Append(c, b)[Len(c) + 1]
      BY <1>1, <2>3
    <3>2. Append(s \o c, b)[i] = b
      BY <1>1, <2>3
    <3>3. QED
      BY <1>1, <3>1, <3>2
  <2>4. QED
    BY <1>1, <2>1, <2>2, <2>3
<1>4. QED
  BY <1>1, <1>2, <1>3

\* A block that fits where the plan ends and follows the rows may be added.
LEMMA PlanGrows ==
    ASSUME TypeOK, PlanFollowsRows, NEW b \in Block,
           b.start = End(Planned), RowsExact(b), Maximal(b),
           chunk' = Append(chunk, b), blocks' = blocks, rows' = rows,
           pc' = "plan", cursor' = b.start + b.count
    PROVE  PlanFollowsRows'
<1>1. chunk \in Seq(Block) /\ blocks \in Seq(Block)
  BY DEF TypeOK
<1>2. Planned \in Seq(Block) /\ Planned' = Append(Planned, b)
  BY <1>1, PlannedAppend DEF Planned
<1>3. Consecutive(Planned)' /\ End(Planned)' = b.start + b.count
  <2>1. Consecutive(Planned) /\ End(Planned) = b.start
    BY DEF PlanFollowsRows
  <2>2. Consecutive(Append(Planned, b)) /\ End(Append(Planned, b)) = b.start + b.count
    BY <1>2, <2>1, ConsecutiveAppend
  <2>3. QED
    BY <1>2, <2>2 DEF Consecutive, End
<1>4. Range(chunk') = Range(chunk) \cup {b}
  BY <1>1, AppendRange
<1>5. \A c : (RowsExact(c)' <=> RowsExact(c)) /\ (Maximal(c)' <=> Maximal(c))
  BY DEF RowsExact, Maximal, StopsAt
<1>6. \A c \in Range(blocks') \cup Range(chunk') : RowsExact(c)'
  BY <1>4, <1>5 DEF PlanFollowsRows
<1>7. \A c \in Range(chunk') : Maximal(c)'
  BY <1>4, <1>5 DEF PlanFollowsRows
<1>8. OpenQuiet'
  BY DEF OpenQuiet
<1>9. QED
  BY <1>3, <1>6, <1>7, <1>8 DEF PlanFollowsRows

\* A step that leaves the plan and the rows alone.
LEMMA PlanRests ==
    ASSUME PlanFollowsRows, UNCHANGED <<rows, cursor, chunk, blocks>>,
           pc # "block", pc' = "block" => open'.start = cursor /\ cursor \in Nat
    PROVE  PlanFollowsRows'
<1>1. Planned' = Planned
  BY DEF Planned
<1>2. \A c : (RowsExact(c)' <=> RowsExact(c)) /\ (Maximal(c)' <=> Maximal(c))
  BY DEF RowsExact, Maximal, StopsAt
<1>3. Consecutive(Planned)' /\ End(Planned)' = cursor
  BY <1>1 DEF PlanFollowsRows, Consecutive, End
<1>4. OpenQuiet'
  BY DEF OpenQuiet
<1>5. QED
  BY <1>2, <1>3, <1>4 DEF PlanFollowsRows

\* An executed row is past every block.
LEMMA RowsExtend ==
    ASSUME TypeOK, PlanFollowsRows, pc = "run", chunk = <<>>, NEW r \in Rows,
           rows' = Append(rows, r), pc' # "block", UNCHANGED <<cursor, chunk, blocks>>
    PROVE  PlanFollowsRows'
<1>1. /\ rows \in Seq(Rows) /\ Len(rows) \in Nat /\ Len(rows') = Len(rows) + 1
      /\ \A i \in 1..Len(rows) : rows'[i] = rows[i]
  BY DEF TypeOK
<1>2. Range(chunk) = {} /\ Range(chunk') = {}
  BY DEF Range
<1>3. ASSUME NEW b \in Range(blocks) PROVE RowsExact(b)'
  <2>1. RowsExact(b) /\ b \in Block
    <3>1. blocks \in Seq(Block)
      BY DEF TypeOK
    <3>2. b \in Block
      BY <3>1 DEF Range
    <3>3. QED
      BY <3>2 DEF PlanFollowsRows
  <2>2. b.start \in Nat /\ b.count \in Nat
    BY <2>1 DEF Block
  <2>3. \A k \in 1..b.count : b.start + k \in 1..Len(rows)
    BY <1>1, <2>1, <2>2 DEF RowsExact
  <2>4. \A k \in 1..b.count : rows'[b.start + k] = rows[b.start + k]
    BY <1>1, <2>3
  <2>5. b.start + b.count <= Len(rows')
    BY <1>1, <2>1, <2>2 DEF RowsExact
  <2>6. QED
    BY <2>1, <2>4, <2>5 DEF RowsExact
<1>4. Planned' = Planned
  BY DEF Planned
<1>5. Consecutive(Planned)' /\ End(Planned)' = cursor
  BY <1>4 DEF PlanFollowsRows, Consecutive, End
<1>6. OpenQuiet'
  BY DEF OpenQuiet
<1>7. QED
  BY <1>2, <1>3, <1>5, <1>6 DEF PlanFollowsRows

\* A machine event, alone in its block, extends the plan.
LEMMA MachineEventFollows ==
    InductiveInvariant /\ PlanFollowsRows /\ PlanMachineEvent => PlanFollowsRows'
<1> SUFFICES ASSUME InductiveInvariant, PlanFollowsRows, PlanMachineEvent PROVE PlanFollowsRows'
  OBVIOUS
<1> DEFINE r == rows[cursor + 1]
           b == [start |-> cursor, count |-> 1, instructions |-> 0,
                 cycles |-> Row[r].cycles, events |-> Len(Row[r].events),
                 cut |-> "MachineEvent"]
<1>1. r \in Rows /\ ~Row[r].instruction
  BY CursorRow DEF PlanMachineEvent
<1>2. cursor \in Nat /\ limit \in Nat /\ TypeOK
  BY DEF InductiveInvariant, TypeOK
<1>3. b \in Block
  <2>1. Row[r].cycles \in Nat /\ Len(Row[r].events) \in Nat
    BY <1>1, RowTyped
  <2>2. "MachineEvent" \in Cuts
    BY DEF Cuts
  <2>3. QED
    BY <1>2, <2>1, <2>2 DEF Block
<1>4. /\ chunk' = Append(chunk, b) /\ blocks' = blocks /\ rows' = rows /\ pc = "plan"
      /\ pc' = "plan" /\ cursor < limit /\ cursor' = cursor + 1
  BY DEF PlanMachineEvent
<1>5. Len(rows) = limit
  BY <1>4 DEF InductiveInvariant, Progress, PlannedUpTo
<1>6. /\ b.start = cursor /\ b.count = 1 /\ b.instructions = 0
  OBVIOUS
<1> HIDE DEF b
<1>7. RowsExact(b)
  <2>1. \A k \in 1..1 : k = 1
    OBVIOUS
  <2>2. cursor + 1 <= Len(rows)
    BY <1>2, <1>4, <1>5
  <2>3. QED
    BY <1>1, <1>6, <2>1, <2>2 DEF RowsExact
<1>8. Maximal(b)
  BY <1>6 DEF Maximal
<1>9. b.start = End(Planned)
  BY <1>4, <1>6 DEF PlanFollowsRows
<1>10. QED
  BY <1>2, <1>3, <1>4, <1>6, <1>7, <1>8, <1>9, PlanGrows

\* The open block, closed before row end, extends the plan.
LEMMA CloseFollows ==
    ASSUME InductiveInvariant, PlanFollowsRows, pc = "block",
           NEW end \in Nat, NEW cycles \in Nat, NEW events \in Nat, NEW cut \in Cuts,
           open.start < end, end <= Len(rows),
           \A k \in 1..(end - open.start) :
             /\ Row[rows[open.start + k]].instruction
             /\ k < end - open.start => Quiet(rows[open.start + k])
             /\ end - open.start > 1 => ~TouchesDevice(rows[open.start + k]),
           end < Len(rows) /\ Row[rows[end + 1]].instruction =>
             \/ end - open.start = InstructionBound
             \/ cycles + Row[rows[end + 1]].cycles > MCycleBound
             \/ events + Len(Row[rows[end + 1]].events) > BusEventBound
             \/ ~Quiet(rows[end])
             \/ TouchesDevice(rows[end + 1]),
           CloseBlock(end, cycles, events, cut), cursor' = end, rows' = rows, blocks' = blocks
    PROVE  PlanFollowsRows'
<1> DEFINE b == [start |-> open.start, count |-> end - open.start,
                 instructions |-> end - open.start,
                 cycles |-> cycles, events |-> events, cut |-> cut]
<1>1. open.start \in Nat /\ end - open.start \in Nat \ {0} /\ TypeOK
  BY DEF InductiveInvariant, TypeOK
<1>2. b \in Block
  BY <1>1 DEF Block
<1>3. chunk' = Append(chunk, b) /\ pc' = "plan"
  BY DEF CloseBlock
<1>4. /\ b.start = open.start /\ b.count = end - open.start /\ b.instructions = end - open.start
      /\ b.cycles = cycles /\ b.events = events
  OBVIOUS
<1> HIDE DEF b
<1>5. b.start + b.count = end /\ b.instructions # 0
  BY <1>1, <1>4
<1>6. RowsExact(b)
  BY <1>4, <1>5 DEF RowsExact
<1>7. Maximal(b)
  BY <1>4, <1>5 DEF Maximal, StopsAt
<1>8. b.start = End(Planned)
  BY <1>4 DEF PlanFollowsRows
<1>9. QED
  BY <1>1, <1>2, <1>3, <1>5, <1>6, <1>7, <1>8, PlanGrows

\* A block cut before a row holds quiet instructions and could not have
\* taken that row.
LEMMA CutBeforeFollows ==
    InductiveInvariant /\ PlanFollowsRows /\ CutBeforeRow => PlanFollowsRows'
<1> SUFFICES ASSUME InductiveInvariant, PlanFollowsRows, CutBeforeRow PROVE PlanFollowsRows'
  OBVIOUS
<1> DEFINE r == rows[cursor + 1]
<1>1. pc = "block" /\ cursor < limit /\ InBlock /\ Len(rows) = limit
  BY DEF InductiveInvariant, Progress, InBlock, PlannedUpTo, CutBeforeRow
<1>2. r \in Rows
  BY <1>1, CursorRow
<1>3. CutBefore(r) # "None" /\ CloseBlock(cursor, open.cycles, open.events, CutBefore(r))
  BY DEF CutBeforeRow
<1>4. CutBefore(r) \in Cuts
  BY <1>2, <1>3, CutsTyped
<1>5. cursor # open.start
  BY <1>3 DEF CutBefore
<1>6. /\ cursor \in Nat /\ open.start \in Nat /\ open.cycles \in Nat /\ open.events \in Nat
      /\ limit \in Nat
  BY DEF InductiveInvariant, TypeOK
<1>7. open.start < cursor /\ cursor <= Len(rows)
  BY <1>1, <1>5, <1>6 DEF InBlock
<1>8. cursor' = cursor /\ rows' = rows /\ blocks' = blocks
  BY DEF CutBeforeRow
<1>9. \A k \in 1..(cursor - open.start) :
        /\ Row[rows[open.start + k]].instruction
        /\ k < cursor - open.start => Quiet(rows[open.start + k])
        /\ cursor - open.start > 1 => ~TouchesDevice(rows[open.start + k])
  BY <1>1 DEF PlanFollowsRows, OpenQuiet, Quiet
<1>10. \/ open.cycles + Row[r].cycles > MCycleBound
       \/ open.events + Len(Row[r].events) > BusEventBound
       \/ TouchesDevice(r)
  BY <1>2, <1>3, <1>5, StandaloneMeaning DEF CutBefore
<1>11. QED
  BY <1>1, <1>3, <1>4, <1>6, <1>7, <1>8, <1>9, <1>10, CloseFollows

\* The block goes on after a quiet row and ends after any other.
LEMMA AbsorbFollows ==
    InductiveInvariant /\ PlanFollowsRows /\ AbsorbRow => PlanFollowsRows'
<1> SUFFICES ASSUME InductiveInvariant, PlanFollowsRows, AbsorbRow PROVE PlanFollowsRows'
  OBVIOUS
<1> DEFINE r == rows[cursor + 1]
           cycles == open.cycles + Row[r].cycles
           events == open.events + Len(Row[r].events)
           size == cursor + 1 - open.start
<1>1. pc = "block" /\ cursor < limit /\ Row[r].instruction /\ InBlock /\ Len(rows) = limit
  BY DEF InductiveInvariant, Progress, InBlock, PlannedUpTo, AbsorbRow
<1>2. r \in Rows
  BY <1>1, CursorRow
<1>3. /\ cursor \in Nat /\ open.start \in Nat /\ limit \in Nat /\ open.start <= cursor
      /\ open.cycles \in Nat /\ open.events \in Nat
  BY <1>1 DEF InductiveInvariant, TypeOK, InBlock
<1>4. CutBefore(r) = "None"
  BY DEF AbsorbRow
<1>5. cursor # open.start => ~TouchesDevice(r)
  BY <1>2, <1>4, StandaloneMeaning DEF CutBefore
<1>6. \A k \in 1..(cursor - open.start) :
        Row[rows[open.start + k]].instruction /\ Quiet(rows[open.start + k])
  BY <1>1 DEF PlanFollowsRows, OpenQuiet
<1>7. open.start + size = cursor + 1 /\ size \in Nat \ {0}
  BY <1>3
<1>8. \A k \in 1..size : k \in 1..(cursor - open.start) \/ k = size
  BY <1>3
<1>9. cycles \in Nat /\ events \in Nat
  <2>1. Row[r].cycles \in Nat /\ Len(Row[r].events) \in Nat
    BY <1>2, RowTyped
  <2> HIDE DEF r
  <2>2. QED
    BY <1>3, <2>1
<1>10. ~(cycles > MCycleBound \/ events > BusEventBound)
  <2>1. pc' # "ResourceAccounting"
    BY AbsorbRowInvariant DEF InductiveInvariant, PlanFits
  <2>2. QED
    BY <2>1 DEF AbsorbRow
<1>11. /\ cursor' = cursor + 1 /\ rows' = rows /\ blocks' = blocks
       /\ IF CutAfter(r) # "None"
          THEN CloseBlock(cursor + 1, cycles, events, CutAfter(r))
          ELSE /\ open' = [start |-> open.start, cycles |-> cycles, events |-> events]
               /\ UNCHANGED <<pc, chunk>>
  BY <1>10, Zenon DEF AbsorbRow
<1>12. CASE CutAfter(r) # "None"
  <2> DEFINE end == cursor + 1
             cut == CutAfter(r)
  <2>1. cut \in Cuts
    BY <1>2, <1>12, CutsTyped
  <2>2. end \in Nat /\ open.start < end /\ end <= Len(rows) /\ end - open.start = size
    BY <1>1, <1>3
  <2>3. \A k \in 1..size :
          /\ Row[rows[open.start + k]].instruction
          /\ k < size => Quiet(rows[open.start + k])
          /\ size > 1 => ~TouchesDevice(rows[open.start + k])
    <3> SUFFICES ASSUME NEW k \in 1..size
                 PROVE  /\ Row[rows[open.start + k]].instruction
                        /\ k < size => Quiet(rows[open.start + k])
                        /\ size > 1 => ~TouchesDevice(rows[open.start + k])
      OBVIOUS
    <3>1. CASE k \in 1..(cursor - open.start)
      BY <1>6, <3>1 DEF Quiet
    <3>2. CASE k = size
      <4>1. rows[open.start + k] = r /\ ~(k < size)
        BY <1>7, <3>2
      <4>2. size > 1 => cursor # open.start
        BY <1>3
      <4>3. QED
        BY <1>1, <1>5, <4>1, <4>2
    <3>3. QED
      BY <1>8, <3>1, <3>2
  <2>4. end < Len(rows) /\ Row[rows[end + 1]].instruction =>
          size = InstructionBound \/ ~Quiet(rows[end])
    <3>1. end + 1 = cursor + 2
      BY <1>3
    <3>2. end < Len(rows) => cursor + 1 # limit
      BY <1>1, <1>3
    <3>3. QED
      BY <1>2, <1>12, <3>1, <3>2, SemanticMeaning DEF CutAfter
  <2>5. CloseBlock(end, cycles, events, cut)
    BY <1>11, <1>12, Zenon
  <2>6. cursor' = end /\ rows' = rows /\ blocks' = blocks
    BY <1>11, Zenon
  <2> HIDE DEF r, cycles, events, end, cut, size
  <2>7. QED
    BY <1>1, <1>9, <2>1, <2>2, <2>3, <2>4, <2>5, <2>6, CloseFollows
<1>13. CASE CutAfter(r) = "None"
  <2>1. Quiet(r)
    BY <1>2, <1>13, SemanticMeaning DEF CutAfter
  <2>2. open'.start = open.start /\ pc' = "block" /\ chunk' = chunk
    BY <1>1, <1>11, <1>13
  <2>3. Planned' = Planned
    BY <1>11, <2>2 DEF Planned
  <2>4. \A c : (RowsExact(c)' <=> RowsExact(c)) /\ (Maximal(c)' <=> Maximal(c))
    BY <1>11 DEF RowsExact, Maximal, StopsAt
  <2>5. Consecutive(Planned)' /\ End(Planned)' = open'.start
    BY <1>1, <2>2, <2>3 DEF PlanFollowsRows, Consecutive, End
  <2>6. OpenQuiet'
    <3>0. 1..(cursor' - open'.start) = 1..size /\ rows' = rows
      <4>1. cursor' = cursor + 1 /\ rows' = rows
        BY <1>11, Zenon
      <4>2. QED
        BY <1>3, <2>2, <4>1
    <3> SUFFICES ASSUME NEW k \in 1..size
                 PROVE  Row[rows[open.start + k]].instruction /\ Quiet(rows[open.start + k])
      BY <2>2, <3>0 DEF OpenQuiet, Quiet, TouchesDevice
    <3>1. k = size => rows[open.start + k] = r
      BY <1>7
    <3>2. QED
      BY <1>1, <1>6, <1>8, <2>1, <3>1
  <2>7. QED
    BY <1>11, <2>2, <2>4, <2>5, <2>6 DEF PlanFollowsRows
<1>14. QED
  BY <1>12, <1>13

\* Appending a chunk moves its blocks, and no boundary, to the segment.
LEMMA AppendChunkFollows ==
    InductiveInvariant /\ PlanFollowsRows /\ AppendChunk => PlanFollowsRows'
<1> SUFFICES ASSUME InductiveInvariant, PlanFollowsRows, AppendChunk PROVE PlanFollowsRows'
  OBVIOUS
<1>1. pc = "plan" /\ pc' # "block" /\ UNCHANGED <<rows, cursor>>
  BY DEF AppendChunk
<1>2. CASE UNCHANGED <<chunk, blocks>>
  BY <1>1, <1>2, PlanRests
<1>3. CASE blocks' = blocks \o chunk /\ chunk' = <<>>
  <2>1. chunk \in Seq(Block) /\ blocks \in Seq(Block)
    BY DEF InductiveInvariant, TypeOK
  <2>2. Planned' = Planned
    <3>1. Planned \in Seq(Block)
      BY <2>1 DEF Planned
    <3>2. Planned' = Planned \o <<>>
      BY <1>3 DEF Planned
    <3>3. QED
      BY <3>1, <3>2
  <2>3. Range(blocks') \subseteq Range(blocks) \cup Range(chunk) /\ Range(chunk') = {}
    <3>1. Range(<<>>) = {}
      BY DEF Range
    <3>2. QED
      BY <1>3, <2>1, <3>1, JoinedRange
  <2>4. \A c : RowsExact(c)' <=> RowsExact(c)
    BY <1>1 DEF RowsExact
  <2>5. Consecutive(Planned)' /\ End(Planned)' = cursor
    BY <1>1, <2>2 DEF PlanFollowsRows, Consecutive, End
  <2>6. OpenQuiet'
    BY <1>1 DEF OpenQuiet
  <2>7. QED
    BY <1>1, <2>3, <2>4, <2>5, <2>6 DEF PlanFollowsRows
<1>4. QED
  BY <1>2, <1>3, Zenon DEF AppendChunk

\* Every step keeps the plan on the rows.
LEMMA StepFollows == InductiveInvariant /\ PlanFollowsRows /\ [Next]_vars => PlanFollowsRows'
<1> SUFFICES ASSUME InductiveInvariant, PlanFollowsRows, [Next]_vars PROVE PlanFollowsRows'
  OBVIOUS
<1>1. CASE FillChunk \/ BuilderFails \/ FinishSegment
  BY <1>1, PlanRests DEF FillChunk, BuilderFails, FinishSegment
<1>2. CASE OpenBlock
  <2>1. open'.start = cursor /\ cursor \in Nat
    BY <1>2 DEF OpenBlock, InductiveInvariant, TypeOK
  <2>2. QED
    BY <1>2, <2>1, PlanRests DEF OpenBlock
<1>3. CASE BuilderStep
  <2>1. TypeOK /\ chunk = <<>>
    BY <1>3 DEF BuilderStep, InductiveInvariant, Progress, Running
  <2>2. QED
    BY <1>3, <2>1, RowsExtend DEF BuilderStep
<1>4. CASE UNCHANGED vars
  <2>1. Planned' = Planned
    BY <1>4 DEF Planned, vars
  <2>2. \A c : (RowsExact(c)' <=> RowsExact(c)) /\ (Maximal(c)' <=> Maximal(c))
    BY <1>4 DEF RowsExact, Maximal, StopsAt, vars
  <2>3. (Consecutive(Planned) <=> Consecutive(Planned)') /\ End(Planned)' = End(Planned)
    BY <2>1 DEF Consecutive, End
  <2>4. OpenQuiet'
    BY <1>4 DEF OpenQuiet, PlanFollowsRows, vars
  <2>5. QED
    BY <1>4, <2>2, <2>3, <2>4 DEF PlanFollowsRows, vars
<1>5. QED
  BY <1>1, <1>2, <1>3, <1>4, MachineEventFollows, CutBeforeFollows, AbsorbFollows,
     AppendChunkFollows
  DEF Next

\* The plan follows the rows in every state.
LEMMA FollowsAlways == Spec => [](InductiveInvariant /\ PlanFollowsRows)
<1>1. Init => PlanFollowsRows
  <2> SUFFICES ASSUME Init PROVE PlanFollowsRows
    OBVIOUS
  <2>1. Planned = <<>> /\ Range(<<>>) = {}
    BY DEF Init, Planned, Range
  <2>2. QED
    BY <2>1 DEF Init, PlanFollowsRows, Consecutive, End, OpenQuiet
<1>2. QED
  BY <1>1, InitInvariant, StepInvariant, StepFollows, PTL DEF Spec

\* The blocks fill_packed_segment returns, chunk after chunk, cover the rows
\* from the first to the last one placed, each once and in order.
THEOREM RowsPartitioned == Spec => []BlocksPartition
<1>1. PlanFollowsRows => BlocksPartition
  BY DEF PlanFollowsRows, BlocksPartition, Consecutive, End, Last
<1>2. QED
  BY <1>1, FollowsAlways, PTL

\* A block of the plan in the chunk or in the segment.
LEMMA PlannedBlock ==
    ASSUME TypeOK, NEW i \in 1..Len(Planned)
    PROVE  Planned[i] \in Range(blocks) \cup Range(chunk)
<1>1. chunk \in Seq(Block) /\ blocks \in Seq(Block)
  BY DEF TypeOK
<1>2. Range(Planned) \subseteq Range(blocks) \cup Range(chunk)
  BY <1>1, JoinedRange DEF Planned
<1>3. Planned[i] \in Range(Planned)
  <2>1. DOMAIN Planned = 1..Len(Planned)
    BY <1>1 DEF Planned
  <2>2. QED
    BY <2>1 DEF Range
<1>4. QED
  BY <1>2, <1>3

\* A block of the chunk that is not its last ends before the last row.
LEMMA NextBlockFollows ==
    ASSUME TypeOK, PlanFollowsRows, NEW i \in 1..(Len(chunk) - 1)
    PROVE  chunk[i] \in Range(chunk) /\ chunk[i].start + chunk[i].count < Len(rows)
<1>1. chunk \in Seq(Block) /\ blocks \in Seq(Block) /\ Len(chunk) \in Nat /\ Len(blocks) \in Nat
  BY DEF TypeOK
<1> DEFINE j == Len(blocks) + i + 1
<1>2. /\ Len(Planned) = Len(blocks) + Len(chunk) /\ j \in 1..Len(Planned) /\ j # 1
      /\ j - 1 = Len(blocks) + i
  BY <1>1 DEF Planned
<1>3. Planned[Len(blocks) + i] = chunk[i]
  BY <1>1 DEF Planned
<1>4. Planned[Len(blocks) + i + 1] = chunk[i + 1]
  BY <1>1 DEF Planned
<1>5. chunk[i + 1].start = chunk[i].start + chunk[i].count
  BY <1>2, <1>3, <1>4 DEF PlanFollowsRows, Consecutive
<1>6. chunk[i] \in Range(chunk) /\ chunk[i + 1] \in Range(chunk) /\ chunk[i + 1] \in Block
  BY <1>1 DEF Range
<1>7. chunk[i + 1].start + chunk[i + 1].count <= Len(rows)
  BY <1>6 DEF PlanFollowsRows, RowsExact
<1>8. /\ chunk[i + 1].start \in Nat /\ chunk[i + 1].count \in Nat \ {0}
      /\ Len(rows) \in Nat
  <2>1. \A b \in Block : b.start \in Nat /\ b.count \in Nat \ {0}
    BY DEF Block
  <2>2. Len(rows) \in Nat
    BY DEF TypeOK
  <2>3. QED
    BY <1>6, <2>1, <2>2
<1>9. QED
  BY <1>5, <1>6, <1>7, <1>8

\* Blocks end exactly where they must: after a row that may change what the
\* next one does, around one that touches a device, at a bound, or where the
\* next row is no instruction.
THEOREM CutsAreExact == Spec => []CutsExact
<1>1. InductiveInvariant /\ PlanFollowsRows => BoundaryRowsEndBlocks
  <2> SUFFICES ASSUME InductiveInvariant, PlanFollowsRows PROVE BoundaryRowsEndBlocks
    OBVIOUS
  <2>1. TypeOK
    BY DEF InductiveInvariant
  <2>2. \A i \in 1..Len(Planned) : RowsExact(Planned[i])
    BY <2>1, PlannedBlock DEF PlanFollowsRows
  <2>3. QED
    BY <2>2 DEF BoundaryRowsEndBlocks, RowsExact
<1>2. InductiveInvariant /\ PlanFollowsRows => BlocksMaximal
  <2> SUFFICES ASSUME InductiveInvariant, PlanFollowsRows PROVE BlocksMaximal
    OBVIOUS
  <2>1. TypeOK
    BY DEF InductiveInvariant
  <2>2. \A i \in 1..(Len(chunk) - 1) :
          Maximal(chunk[i]) /\ chunk[i].start + chunk[i].count < Len(rows)
    BY <2>1, NextBlockFollows DEF PlanFollowsRows
  <2>3. QED
    BY <2>2 DEF BlocksMaximal, Maximal, StopsAt
<1>3. QED
  BY <1>1, <1>2, FollowsAlways, PTL DEF CutsExact
=============================================================================
