---------------------------- MODULE ReceiptChain ----------------------------
(***************************************************************************)
(* Receipts of many segments: receipt.rs, receipt/identity.rs and          *)
(* receipt/stream.rs.  A stream prover appends one frame per segment to a  *)
(* spool, may fail in the middle of a write and be tried again, may be     *)
(* dropped and resumed from the spool, and at last publishes a receipt     *)
(* that two verifiers read: one from memory, one frame by frame.           *)
(*                                                                         *)
(* A digest is what was hashed.  The proof of a segment is the public      *)
(* inputs it was made for, and verifies for these alone: SegmentArguments  *)
(* says what it establishes.  A spool is a sequence of units: a frame is   *)
(* its length prefix, part 0, and `size` units of body.                    *)
(***************************************************************************)
EXTENDS SegmentArguments

LOCAL INSTANCE FiniteSetsExt
LOCAL INSTANCE SequencesExt

CONSTANTS
    SegmentLimit,  \* MAX_NATIVE_SEGMENT_COUNT
    StreamLimit,   \* MAX_NATIVE_STREAM_RECEIPT_BYTES, in units
    HeaderUnits,   \* what precedes the frames of a receipt
    FrameLimit     \* frames proved in a behaviour

VARIABLES spool, handle, receipt, made

receiptVars == << spool, handle, receipt, made >>

None == << >>

-----------------------------------------------------------------------------
(***************************************************************************)
(* identity.rs                                                             *)
(***************************************************************************)
EmptyLog == [ length |-> 0, digest |-> << >> ]

MachineProfiles == 1 .. 4

\* KiB of the ROM a profile runs
RomLength(profile) == IF profile \in { 1, 4 } THEN 1024 ELSE 256

\* The identity of the one ROM of this model, direct_rom_identity
CommittedRom == [ length |-> 1024, digest |-> "rom" ]

ValidBoundary(boundary) ==
    /\ boundary.state.local.profile \in MachineProfiles
    /\ \A kind \in { "bus", "isa" } : boundary.state.local[kind] = 0
    /\ \A kind \in { "input", "output" } : boundary.state.local[kind] = boundary.logs[kind].length
    /\ \A kind \in LogKinds : boundary.logs[kind].length = 0 => boundary.logs[kind] = EmptyLog

InitialBoundary(state, memory) ==
    [ state |-> state, memory |-> memory, logs |-> [ kind \in LogKinds |-> EmptyLog ] ]

\* A log that took nothing keeps its identity
AdvanceLog(identity, index, count, commitment) ==
    LET end == identity.length + count
    IN  IF count = 0 THEN identity
        ELSE [ length |-> end,
               digest |-> Append(identity.digest, << index, identity.length, end, commitment >>) ]

Advance(boundary, state, memory, commitment, index, counts) ==
    [ state |-> state, memory |-> memory,
      logs |-> [ kind \in LogKinds |->
                   AdvanceLog(boundary.logs[kind], index, counts[kind], commitment) ] ]

\* ProtocolLogCounts::between and ::packed
CountsBetween(initial, final) ==
    [ kind \in LogKinds |-> final.logs[kind].length - initial.logs[kind].length ]
CountsPacked(initial, final, bus, isa) ==
    [ bus |-> bus, isa |-> isa, input |-> final.local.input - initial.local.input,
      output |-> final.local.output - initial.local.output ]

\* checked_delta and checked_sub refuse to go below zero
Declines(counts) == \E kind \in DOMAIN counts : counts[kind] < 0

-----------------------------------------------------------------------------
(***************************************************************************)
(* receipt.rs: one segment.                                                *)
(***************************************************************************)
ClaimOfSegment(segment) ==
    [ activeRows |-> segment.active, transitions |-> segment.transitions,
      initial |-> segment.initial.state, final |-> segment.final.state ]

PublicInputs(segment) ==
    [ claim |-> ClaimOfSegment(segment),
      logClaim |-> [ bus |-> segment.counts.bus, isa |-> segment.counts.isa ],
      logs |-> segment.logs, rom |-> CommittedRom,
      initialMemory |-> segment.initialMemory, finalMemory |-> segment.finalMemory ]

\* A witness: [initial, final, initialMemory, finalMemory, active, transitions, bus, isa, logs, size]
ProveSegmentRefused(boundary, witness) ==
    \/ boundary.state # witness.initial
    \/ boundary.memory # witness.initialMemory

ProveSegment(index, boundary, witness) ==
    LET counts == CountsPacked(witness.initial, witness.final, witness.bus, witness.isa)
        final == Advance(boundary, witness.final, witness.finalMemory, witness.logs, index, counts)
        segment == [ index |-> index, transitions |-> witness.transitions, active |-> witness.active,
                     padded |-> RowCount - witness.active, initial |-> boundary, final |-> final,
                     initialMemory |-> witness.initialMemory, finalMemory |-> witness.finalMemory,
                     logs |-> witness.logs, counts |-> counts,
                     cycles |-> final.state.local.cycles - boundary.state.local.cycles,
                     size |-> witness.size ]
    IN  segment @@ ("proof" :> PublicInputs(segment))

ValidSegmentCounts(segment) ==
    /\ segment.active # 0
    /\ segment.active + segment.padded = RowCount
    /\ segment.transitions \in segment.active .. segment.active * LaneBound

\* Mutant: a segment may start anywhere, as long as it is the next.
VerifySegmentAnywhere(index, segment, expected) ==
    /\ segment.index = index
    /\ ValidSegmentCounts(segment)
    /\ segment.initialMemory = segment.initial.memory
    /\ segment.finalMemory = segment.final.memory
    /\ segment.proof = PublicInputs(segment)

VerifySegment(index, segment, expected) ==
    /\ segment.index = index
    /\ segment.initial = expected
    /\ ValidSegmentCounts(segment)
    /\ segment.initialMemory = segment.initial.memory
    /\ segment.finalMemory = segment.final.memory
    /\ ValidBoundary(segment.initial)
    /\ ValidBoundary(segment.final)
    /\ segment.final = Advance(segment.initial, segment.final.state, segment.final.memory,
                               segment.logs, segment.index, segment.counts)
    /\ segment.cycles = segment.final.state.local.cycles - segment.initial.state.local.cycles
    /\ segment.cycles >= 0
    /\ segment.counts = CountsBetween(segment.initial, segment.final)
    /\ ~Declines(segment.counts)
    /\ ClaimValid(ClaimOfSegment(segment))
    /\ LogClaimValid(PublicInputs(segment).logClaim, ClaimOfSegment(segment))
    /\ segment.proof = PublicInputs(segment)

-----------------------------------------------------------------------------
(***************************************************************************)
(* receipt.rs: the statement and the receipt as a whole.                   *)
(***************************************************************************)
StatementOf(initial, final, segments, transitions, rows) ==
    [ profile |-> initial.state.local.profile, romLength |-> CommittedRom.length, rom |-> CommittedRom,
      initial |-> initial, final |-> final, segments |-> segments, transitions |-> transitions,
      rows |-> rows, cycles |-> final.state.local.cycles - initial.state.local.cycles,
      counts |-> CountsBetween(initial, final) ]

ValidStatement(statement) ==
    /\ statement.romLength = RomLength(statement.profile)
    /\ statement.segments \in 1 .. SegmentLimit
    /\ statement.rows >= statement.segments
    /\ statement.transitions \in statement.rows .. statement.rows * LaneBound
    /\ statement.rom.length = statement.romLength
    /\ ValidBoundary(statement.initial)
    /\ ValidBoundary(statement.final)
    /\ statement.profile = statement.initial.state.local.profile
    /\ statement.profile = statement.final.state.local.profile
    /\ statement.cycles = statement.final.state.local.cycles - statement.initial.state.local.cycles
    /\ statement.cycles >= 0
    /\ statement.counts = CountsBetween(statement.initial, statement.final)
    /\ ~Declines(statement.counts)

SumOf(frames, field) ==
    Sum(1 .. Len(frames), [ i \in 1 .. Len(frames) |-> frames[i][field] ])

\* Each segment starts at the boundary, and with the memory, the one before
\* it ended with
ChainHolds(frames, first) ==
    \A i \in 1 .. Len(frames) :
        /\ i > 1 => frames[i - 1].finalMemory = frames[i].initialMemory
        /\ VerifySegment(i - 1, frames[i], IF i = 1 THEN first ELSE frames[i - 1].final)

LastBoundary(frames, first) == IF frames = << >> THEN first ELSE frames[Len(frames)].final

\* verify_receipt_structure: a receipt parsed into memory
VerifyReceiptStructure(statement, frames) ==
    /\ CommittedRom = statement.rom
    /\ Len(frames) = statement.segments
    /\ ChainHolds(frames, statement.initial)
    /\ LastBoundary(frames, statement.initial) = statement.final
    /\ SumOf(frames, "transitions") = statement.transitions
    /\ SumOf(frames, "active") = statement.rows

VerifyNativeReceipt(statement, frames, expected) ==
    /\ ValidStatement(expected)
    /\ statement = expected
    /\ VerifyReceiptStructure(statement, frames)

-----------------------------------------------------------------------------
(***************************************************************************)
(* stream.rs: units on a spool.                                            *)
(***************************************************************************)
Encoded(frame) == [ i \in 1 .. frame.size + 1 |-> << frame, i - 1 >> ]

\* read_spool_frame and BoundedReader::blob: the frame at a position, if its
\* prefix and all its body are there
WholeFrame(units, at) ==
    /\ units[at][2] = 0
    /\ at + units[at][1].size <= Len(units)
    /\ SubSeq(units, at, at + units[at][1].size) = Encoded(units[at][1])

\* The frames of a byte string that is frames and nothing else
ReadFrames(units) ==
    LET read[at \in 1 .. Len(units) + 1] ==
          IF at > Len(units) THEN [ whole |-> TRUE, frames |-> << >>, ends |-> { at - 1 } ]
          ELSE IF ~WholeFrame(units, at) THEN [ whole |-> FALSE, frames |-> << >>, ends |-> { at - 1 } ]
          ELSE LET frame == units[at][1]
                   rest == read[at + frame.size + 1]
               IN  [ whole |-> rest.whole, frames |-> << frame >> \o rest.frames,
                     ends |-> { at - 1 } \cup rest.ends ]
    IN  read[1]

\* A handle on a spool with these frames
Progress(frames, bytes) ==
    [ initial |-> IF frames = << >> THEN None ELSE frames[1].initial,
      boundary |-> IF frames = << >> THEN None ELSE frames[Len(frames)].final,
      memory |-> IF frames = << >> THEN None ELSE << frames[Len(frames)].finalMemory >>,
      segments |-> Len(frames), transitions |-> SumOf(frames, "transitions"),
      rows |-> SumOf(frames, "active"), bytes |-> bytes ]

\* verify_spool: the first frame must start an execution
SpoolVerifies(units) ==
    LET parsed == ReadFrames(units)
    IN  /\ Len(units) \in 1 .. StreamLimit
        /\ parsed.whole
        /\ Len(parsed.frames) <= SegmentLimit
        /\ \E first \in { InitialBoundary(parsed.frames[1].initial.state, parsed.frames[1].initialMemory) } :
             ValidBoundary(first) /\ ChainHolds(parsed.frames, first)

\* verify_native_receipt_reader_with_backend and verify_frames: a receipt
\* read as a stream, to its last byte
VerifyReceiptReader(statement, units, expected) ==
    LET parsed == ReadFrames(units)
    IN  /\ ValidStatement(expected)
        /\ statement = expected
        /\ CommittedRom = statement.rom
        /\ statement.segments <= SegmentLimit
        /\ HeaderUnits + Len(units) <= StreamLimit
        /\ parsed.whole /\ Len(parsed.frames) = statement.segments
        /\ ChainHolds(parsed.frames, statement.initial)
        /\ LastBoundary(parsed.frames, statement.initial) = statement.final
        /\ SumOf(parsed.frames, "transitions") = statement.transitions
        /\ SumOf(parsed.frames, "active") = statement.rows

-----------------------------------------------------------------------------
(***************************************************************************)
(* What the caller gives to a stream prover: a witness of some work from   *)
(* some state and memory.                                                  *)
(***************************************************************************)
Works ==
    { [ name |-> "idle", active |-> 1, transitions |-> 1, inputs |-> 0, outputs |-> 0, bus |-> 0,
        isa |-> 0, size |-> 1 ],
      [ name |-> "echo", active |-> 2, transitions |-> 3, inputs |-> 1, outputs |-> 1, bus |-> 6,
        isa |-> 3, size |-> 2 ] }

Memories == 0 .. 1

StartState ==
    [ local |-> [ cycles |-> 0, input |-> 0, output |-> 0, bus |-> 0, isa |-> 0, profile |-> 1,
                  core |-> 1 ],
      device |-> 1 ]

WitnessOf(work, state, memory, after) ==
    [ initial |-> state,
      final |-> [ state EXCEPT !.local.cycles = @ + work.transitions, !.local.input = @ + work.inputs,
                               !.local.output = @ + work.outputs, !.local.core = 3 - @ ],
      initialMemory |-> memory, finalMemory |-> after, active |-> work.active,
      transitions |-> work.transitions, bus |-> work.bus, isa |-> work.isa,
      logs |-> << work.name, state.local.cycles >>, size |-> work.size ]

-----------------------------------------------------------------------------
ReceiptInit ==
    /\ spool = << >>
    /\ handle = None
    /\ receipt = None
    /\ made = {}

\* NativeReceiptStreamProver::new
OpenNew ==
    /\ handle = None
    /\ spool = << >>
    /\ handle' = Progress(<< >>, 0)
    /\ UNCHANGED << spool, receipt, made >>

\* resume: the handle is what the frames of the spool say
Resume ==
    /\ handle = None
    /\ SpoolVerifies(spool)
    /\ handle' = Progress(ReadFrames(spool).frames, Len(spool))
    /\ UNCHANGED << spool, receipt, made >>

\* The bytes of a file after a write at an offset; what lies beyond stays
Overwrite(units, offset, new) ==
    [ i \in 1 .. Max({ Len(units), offset + Len(new) }) |->
        IF i > offset /\ i <= offset + Len(new) THEN new[i - offset] ELSE units[i] ]

\* append up to the write: checks and the frame proved
BoundaryFor(witness) ==
    IF handle.boundary = None THEN InitialBoundary(witness.initial, witness.initialMemory)
    ELSE handle.boundary

Proved(witness) == ProveSegment(handle.segments, BoundaryFor(witness), witness)

AppendAllowed(witness) ==
    /\ handle # None
    /\ handle.segments < SegmentLimit
    /\ handle.memory # None => handle.memory = << witness.initialMemory >>
    /\ ValidBoundary(BoundaryFor(witness))
    /\ ~ProveSegmentRefused(BoundaryFor(witness), witness)
    /\ ValidBoundary(Proved(witness).final)
    /\ handle.bytes + witness.size + 1 <= StreamLimit

CountFrame(frame) ==
    [ initial |-> IF handle.initial = None THEN frame.initial ELSE handle.initial,
      boundary |-> frame.final, memory |-> << frame.finalMemory >>,
      segments |-> handle.segments + 1, transitions |-> handle.transitions + frame.transitions,
      rows |-> handle.rows + frame.active, bytes |-> handle.bytes + frame.size + 1 ]

\* Mutant: the frame is written where the last write stopped.
WriteFrameAtEnd(frame) ==
    /\ spool' = Overwrite(spool, Len(spool), Encoded(frame))
    /\ handle' = CountFrame(frame)

\* The write of append: from the end of the frames counted so far
WriteFrame(frame) ==
    /\ spool' = Overwrite(spool, handle.bytes, Encoded(frame))
    /\ handle' = CountFrame(frame)

\* A write that fails leaves some units behind and the handle as it was
TearFrame(frame, written) ==
    /\ spool' = Overwrite(spool, handle.bytes, SubSeq(Encoded(frame), 1, written))
    /\ UNCHANGED handle

AppendFrame ==
    /\ Cardinality(made) < FrameLimit
    /\ \E work \in Works, after \in Memories,
          from \in { << StartState, 0 >> } \cup
                   (IF handle = None \/ handle.boundary = None THEN {}
                    ELSE { << handle.boundary.state, handle.boundary.memory >> }) :
         \E witness \in { WitnessOf(work, from[1], from[2], after) } :
           /\ AppendAllowed(witness)
           /\ \E frame \in { Proved(witness) } :
                /\ made' = made \cup { frame }
                /\ \/ WriteFrame(frame)
                   \/ \E written \in 0 .. frame.size : TearFrame(frame, written)
    /\ UNCHANGED receipt

\* into_spool, or the end of the process
DropHandle ==
    /\ handle # None
    /\ handle' = None
    /\ UNCHANGED << spool, receipt, made >>

\* The caller cuts the file back to a length it recorded
CutSpool ==
    /\ handle = None
    /\ \E end \in ReadFrames(spool).ends : end # Len(spool) /\ spool' = SubSeq(spool, 1, end)
    /\ UNCHANGED << handle, receipt, made >>

FinalStatement ==
    StatementOf(handle.initial, handle.boundary, handle.segments, handle.transitions, handle.rows)

FinishAllowed ==
    /\ handle.initial # None
    /\ ValidStatement(FinalStatement)
    /\ HeaderUnits + handle.bytes <= StreamLimit

\* Mutant: everything on the spool is copied.
FinishedUnitsAll == spool

\* io::copy of exactly the counted bytes
FinishedUnits == SubSeq(spool, 1, handle.bytes)

\* finish consumes the handle whether it publishes or not
Finish ==
    /\ handle # None
    /\ receipt' = IF FinishAllowed THEN [ statement |-> FinalStatement, units |-> FinishedUnits ]
                  ELSE receipt
    /\ handle' = None
    /\ UNCHANGED << spool, made >>

ReceiptNext == OpenNew \/ Resume \/ AppendFrame \/ DropHandle \/ CutSpool \/ Finish

-----------------------------------------------------------------------------
\* However often a write failed, was repeated, or the prover was dropped and
\* resumed, the counted bytes of the spool are whole frames that verify as
\* one chain, and the handle says of them what resume would find.
AppendAtomic ==
    handle # None =>
        /\ handle.bytes <= Len(spool)
        /\ \E counted \in { SubSeq(spool, 1, handle.bytes) } :
             /\ counted # << >> => SpoolVerifies(counted)
             /\ handle = Progress(ReadFrames(counted).frames, Len(counted))

\* A receipt that finish wrote is accepted by both verifiers for the
\* statement finish returned.
ReceiptAccepted ==
    receipt # None =>
        /\ VerifyReceiptReader(receipt.statement, receipt.units, receipt.statement)
        /\ VerifyNativeReceipt(receipt.statement, ReadFrames(receipt.units).frames, receipt.statement)

\* Frames with a public field rewritten; the proof stays
Rewritten(frame) ==
    { [ frame EXCEPT !.index = i ] : i \in 0 .. SegmentLimit - 1 } \cup
    { [ frame EXCEPT !.transitions = @ + 1 ],
      [ frame EXCEPT !.counts.bus = @ + 1, !.final.logs.bus.length = @ + 1 ] } \cup
    { [ frame EXCEPT !.initial = other.initial ] : other \in made }

Assemblies ==
    LET frames == UNION { Rewritten(frame) : frame \in made }
    IN  UNION { [ 1 .. n -> frames ] : n \in 1 .. 2 }

\* What a log of the final boundary lists beyond the initial one: one entry
\* for every segment that added to it, in order
Listed(statement, kind) ==
    LET before == Len(statement.initial.logs[kind].digest)
        whole == statement.final.logs[kind].digest
    IN  [ i \in 1 .. Len(whole) - before |-> whole[i + before][4] ]

\* Whatever frames are put together, and whatever is written in their public
\* fields, a receipt that verifies is one execution: its proofs join state to
\* state and image to image, from the statement's first boundary to its last,
\* its counts are theirs, and every log lists what each of them committed.
ReceiptIsExecution ==
    handle = None =>
        \A frames \in Assemblies :
            \A statement \in { StatementOf(frames[1].initial, frames[Len(frames)].final, Len(frames),
                                           SumOf(frames, "transitions"), SumOf(frames, "active")) } :
                VerifyNativeReceipt(statement, frames, statement) =>
                    LET n == Len(frames)
                        proof(i) == frames[i].proof
                        added(i, kind) ==
                            IF kind \in { "bus", "isa" } THEN proof(i).logClaim[kind]
                            ELSE CursorDelta(proof(i).claim, kind)
                    IN  /\ proof(1).claim.initial = statement.initial.state
                        /\ proof(1).initialMemory = statement.initial.memory
                        /\ proof(n).claim.final = statement.final.state
                        /\ proof(n).finalMemory = statement.final.memory
                        /\ \A i \in 1 .. n - 1 :
                             /\ proof(i).claim.final = proof(i + 1).claim.initial
                             /\ proof(i).finalMemory = proof(i + 1).initialMemory
                        /\ statement.transitions =
                             Sum(1 .. n, [ i \in 1 .. n |-> proof(i).claim.transitions ])
                        /\ statement.rows = Sum(1 .. n, [ i \in 1 .. n |-> proof(i).claim.activeRows ])
                        /\ \A kind \in LogKinds :
                             /\ statement.counts[kind] = Sum(1 .. n, [ i \in 1 .. n |-> added(i, kind) ])
                             /\ Listed(statement, kind) =
                                  LET adds == SelectSeq([ i \in 1 .. n |-> i ],
                                                        LAMBDA i : added(i, kind) > 0)
                                  IN  [ j \in 1 .. Len(adds) |-> proof(adds[j]).logs ]
=============================================================================
