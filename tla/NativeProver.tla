---------------------------- MODULE NativeProver ----------------------------
(***************************************************************************)
(* The durable side of the native prover: the segment spool, the progress  *)
(* checkpoint, the statement and the receipt, written by one process at a  *)
(* time that may be killed between any two system calls, on a machine that *)
(* may lose power.  Execution is deterministic, so a VM state, its memory  *)
(* image and its commitment are abstracted to the number of machine        *)
(* transitions executed since reset.                                       *)
(*                                                                         *)
(* File-system semantics (external): file data is durable once the file    *)
(* is synced; a directory operation (create, rename) is durable once its   *)
(* directory is synced; an unsynced directory comes back as it was after   *)
(* some prefix of its unsynced operations.                                 *)
(***************************************************************************)
EXTENDS Integers, Sequences, FiniteSets

CONSTANTS
    Total,          \* transitions to prove (ExpectedCheckpoint::completed_steps)
    SegmentEnd,     \* SegmentEnd[s]: where the segment that starts after s transitions ends
    Capacity,       \* relation rows of one segment (UNIFORM_ROW_COUNT)
    MaxSegments,    \* MAX_NATIVE_SEGMENT_COUNT
    HeaderBytes,    \* receipt bytes that precede the first frame
    MaxStreamBytes, \* MAX_NATIVE_STREAM_RECEIPT_BYTES
    Limits,         \* the values --segment-limit is given
    Pids,           \* process identifiers, reused across runs
    Dirs, DirOf,    \* directory of each of the four paths
    EndpointMatches,\* the final state and memory equal the expected checkpoint
    MaxFaults,      \* bound: kills and power losses in one behaviour
    None, Junk      \* an absent file; file content lost by a crash

Finals == {"progress", "statement", "receipt"}
Paths  == Finals \cup {"spool"}

ASSUME TotalAssumption == Total \in Nat \ {0}
ASSUME SegmentEndAssumption ==
    /\ SegmentEnd \in [0..(Total - 1) -> 1..Total]
    /\ \A s \in 0..(Total - 1) : s < SegmentEnd[s]
ASSUME CapacityAssumption ==
    /\ Capacity \in Nat \ {0}
    /\ \A s \in 0..(Total - 1) : SegmentEnd[s] = Total \/ SegmentEnd[s] - s >= Capacity
ASSUME PreflightAssumption == MaxSegments \in Nat \ {0} /\ Total <= MaxSegments * Capacity
ASSUME BytesAssumption == HeaderBytes \in Nat /\ MaxStreamBytes \in Nat
ASSUME LimitsAssumption == Limits \subseteq Nat
ASSUME DirAssumption == DirOf \in [Paths -> Dirs]
ASSUME FaultsAssumption == MaxFaults \in Nat
ASSUME EndpointAssumption == EndpointMatches \in BOOLEAN

FrameBytes == 2     \* a frame is a length word and a body

\* One encoded segment receipt: its index and its two boundaries.
Frames == [index : Nat, from : 0..Total, to : 0..Total]

\* Counters kept by NativeReceiptStreamProver and stored in ProverProgress.
Counters == [segments : Nat, steps : 0..Total, bytes : Nat]
NoCounters == [segments |-> 0, steps |-> 0, bytes |-> 0]

VARIABLES
    spool,    \* content of the spool file: whole frames, then maybe a torn one
    synced,   \* leading frames of the spool that are on stable storage
    ent,      \* the directory entries a running process sees
    past,     \* past[d]: entries directory d may come back with after a power loss
    pc,       \* the next step of the running process, "idle" when there is none
    pid,
    prover,   \* counters of the running NativeReceiptStreamProver
    at,       \* transitions executed by the running TraceBuilder
    budget,   \* segments this run may still prove (--segment-limit)
    draft,    \* content of the receipt written to its partial file
    faults

vars == <<spool, synced, ent, past, pc, pid, prover, at, budget, draft, faults>>
disk == <<spool, synced, ent, past>>

----------------------------------------------------------------------------
(* Directory operations.                                                   *)

File(data, flushed) == [data |-> data, flushed |-> flushed]

\* A directory operation on path f: visible at once, durable after SyncDir(f).
Install(f, new) ==
    /\ ent' = new
    /\ past' = [past EXCEPT ![DirOf[f]] = @ \cup {ent}]

\* support.rs sync_parent_directory
SyncDir(f) ==
    /\ past' = [past EXCEPT ![DirOf[f]] = {}]
    /\ UNCHANGED ent

\* support.rs open_new(partial_path(path)): refuses a name that exists.
PartialFree(f) == <<f, pid>> \notin ent.partial
OpenPartial(f) == Install(f, [ent EXCEPT !.partial = @ \cup {<<f, pid>>}])

\* fs::rename(partial, path)
Publish(f, file) ==
    Install(f, [ent EXCEPT ![f] = file, !.partial = @ \ {<<f, pid>>}])

\* Everything directory d may hold once the machine is back.
Views(d) == past[d] \cup {ent}

----------------------------------------------------------------------------
(* The spool and what the verifier accepts of it.                          *)

EmptySpool == [frames |-> <<>>, torn |-> FALSE]
SpoolBytes == FrameBytes * Len(spool.frames) + (IF spool.torn THEN 1 ELSE 0)

\* verify_spool: frames decode, carry consecutive indices and share boundaries.
VerifySpool(frames) ==
    /\ \A i \in 1..Len(frames) :
        /\ frames[i] # Junk
        /\ frames[i].index = i - 1
        /\ frames[i].from = IF i = 1 THEN 0 ELSE frames[i - 1].to

\* Counters recovered from a verified spool; the transition counts telescope.
SpoolCounters(frames) ==
    [segments |-> Len(frames), steps |-> frames[Len(frames)].to,
     bytes |-> FrameBytes * Len(frames)]

\* validate_progress: the checkpoint decodes and its counters are in range.
ValidProgress(progress) ==
    /\ progress # Junk
    /\ progress.counters.segments \in 1..MaxSegments
    /\ progress.counters.bytes \in 1..MaxStreamBytes
    /\ progress.counters.steps > 0

\* verify_spool and validate_verified_progress.
ProgressMatches(progress, frames) ==
    /\ Len(frames) > 0
    /\ VerifySpool(frames)
    /\ SpoolCounters(frames) = progress.counters
    /\ progress.at = frames[Len(frames)].to

----------------------------------------------------------------------------
Init ==
    /\ spool = EmptySpool
    /\ synced = 0
    /\ ent = [spool |-> FALSE, progress |-> None, statement |-> None,
              receipt |-> None, partial |-> {}]
    /\ past = [d \in Dirs |-> {}]
    /\ pc = "idle"
    /\ pid = None
    /\ prover = NoCounters
    /\ at = 0
    /\ budget = 0
    /\ draft = None
    /\ faults = 0

\* The process ends; its memory is gone and the files stay.
Exited ==
    /\ pc' = "idle"
    /\ pid' = None
    /\ prover' = NoCounters
    /\ at' = 0
    /\ budget' = 0
    /\ draft' = None

Goto(next) == pc' = next

\* run without --resume, and start: every output path must be absent.
Start(p, limit) ==
    /\ pc = "idle"
    /\ ent.receipt = None
    /\ ent.statement = None
    /\ ~ent.spool
    /\ ent.progress = None
    /\ Install("spool", [ent EXCEPT !.spool = TRUE])
    /\ spool' = EmptySpool
    /\ synced' = 0
    /\ Goto("proving")
    /\ pid' = p
    /\ budget' = limit
    /\ UNCHANGED <<prover, at, draft, faults>>

\* Mutant: resume forgets to cut the tail.
ResumeKeepsTail(p, limit) ==
    /\ pc = "idle"
    /\ ent.receipt = None
    /\ ent.progress # None
    /\ ValidProgress(ent.progress.data)
    /\ ent.spool
    /\ SpoolBytes >= ent.progress.data.counters.bytes
    /\ Goto("verify")
    /\ pid' = p
    /\ budget' = limit
    /\ UNCHANGED <<spool, synced, ent, past, prover, at, draft, faults>>

\* Mutant: resume refuses an uncheckpointed tail, as inspection does.
ResumeExact(p, limit) ==
    /\ pc = "idle"
    /\ ent.receipt = None
    /\ ent.progress # None
    /\ ValidProgress(ent.progress.data)
    /\ ent.spool
    /\ SpoolBytes = ent.progress.data.counters.bytes
    /\ Goto("verify")
    /\ pid' = p
    /\ budget' = limit
    /\ UNCHANGED <<spool, synced, ent, past, prover, at, draft, faults>>

\* run with --resume, and resume up to the truncation of the uncheckpointed tail.
Resume(p, limit) ==
    /\ pc = "idle"
    /\ ent.receipt = None
    /\ ent.progress # None
    /\ ValidProgress(ent.progress.data)
    /\ ent.spool
    /\ LET kept == ent.progress.data.counters.bytes \div FrameBytes   \* set_len
       IN  /\ SpoolBytes >= ent.progress.data.counters.bytes
           /\ IF SpoolBytes = ent.progress.data.counters.bytes
              THEN /\ Goto("verify")
                   /\ UNCHANGED <<spool, synced>>
              ELSE /\ spool' = [frames |-> SubSeq(spool.frames, 1, kept), torn |-> FALSE]
                   /\ synced' = IF synced < kept THEN synced ELSE kept
                   /\ Goto("sync tail")
    /\ pid' = p
    /\ budget' = limit
    /\ UNCHANGED <<ent, past, prover, at, draft, faults>>

\* resume: sync_all after set_len.
SyncTruncation ==
    /\ pc = "sync tail"
    /\ synced' = Len(spool.frames)
    /\ Goto("verify")
    /\ UNCHANGED <<spool, ent, past, pid, prover, at, budget, draft, faults>>

\* resume: verify every frame, compare with the checkpoint, restore the builder.
VerifyPrefix ==
    /\ pc = "verify"
    /\ IF ProgressMatches(ent.progress.data, spool.frames)
       THEN /\ prover' = SpoolCounters(spool.frames)
            /\ at' = ent.progress.data.at
            /\ Goto("proving")
            /\ UNCHANGED <<pid, budget, draft>>
       ELSE Exited
    /\ UNCHANGED <<disk, faults>>

\* Mutant: the limit is tested before the new segment is checkpointed.
PauseBeforeCheckpoint ==
    /\ pc \in {"proving", "sync spool"}
    /\ prover.steps < Total
    /\ budget = 0
    /\ Exited
    /\ UNCHANGED <<disk, faults>>

\* prove_segments: --segment-limit reached before the endpoint.
Pause ==
    /\ pc = "proving"
    /\ prover.steps < Total
    /\ budget = 0
    /\ Exited
    /\ UNCHANGED <<disk, faults>>

\* Mutant: the last segment is refused.
AppendFitsLess ==
    /\ prover.segments + 1 < MaxSegments
    /\ prover.bytes + FrameBytes <= MaxStreamBytes

\* append: the bounds on the number of segments and on the spool's length.
AppendFits ==
    /\ prover.segments < MaxSegments
    /\ prover.bytes + FrameBytes <= MaxStreamBytes

\* Mutant: --segment-limit is not consulted.
AppendLengthUnlimited ==
    /\ pc = "proving"
    /\ prover.steps < Total
    /\ at' = SegmentEnd[at]
    /\ spool' = [spool EXCEPT !.torn = TRUE]
    /\ Goto("append")
    /\ UNCHANGED <<synced, ent, past, pid, prover, budget, draft, faults>>

\* prove_segments: fill and prove one segment; append up to its length word.
AppendLength ==
    /\ pc = "proving"
    /\ prover.steps < Total
    /\ budget > 0
    /\ IF AppendFits
       THEN /\ at' = SegmentEnd[at]
            /\ spool' = [spool EXCEPT !.torn = TRUE]
            /\ Goto("append")
            /\ UNCHANGED <<pid, prover, budget, draft>>
       ELSE /\ Exited
            /\ UNCHANGED spool
    /\ UNCHANGED <<synced, ent, past, faults>>

\* append: the frame body, then the counters.
AppendBody ==
    /\ pc = "append"
    /\ LET frame == [index |-> prover.segments, from |-> prover.steps, to |-> at]
       IN  spool' = [frames |-> Append(spool.frames, frame), torn |-> FALSE]
    /\ prover' = [segments |-> prover.segments + 1, steps |-> at,
                  bytes |-> prover.bytes + FrameBytes]
    /\ budget' = budget - 1
    /\ Goto("sync spool")
    /\ UNCHANGED <<synced, ent, past, pid, at, draft, faults>>

\* Mutant: the checkpoint is written without syncing the spool.
SyncSpoolSkipped ==
    /\ pc = "sync spool"
    /\ Goto("draft progress")
    /\ UNCHANGED <<disk, pid, prover, at, budget, draft, faults>>

\* NativeReceiptStreamProver::sync_spool
SyncSpool ==
    /\ pc = "sync spool"
    /\ synced' = Len(spool.frames)
    /\ Goto("draft progress")
    /\ UNCHANGED <<spool, ent, past, pid, prover, at, budget, draft, faults>>

\* write_progress, atomic_replace: write the partial file.
DraftProgress ==
    /\ pc = "draft progress"
    /\ IF PartialFree("progress")
       THEN /\ OpenPartial("progress")
            /\ draft' = File([counters |-> prover, at |-> at], FALSE)
            /\ Goto("flush progress")
            /\ UNCHANGED <<pid, prover, at, budget>>
       ELSE /\ Exited
            /\ UNCHANGED <<ent, past>>
    /\ UNCHANGED <<spool, synced, faults>>

\* atomic_replace and finalize: sync_all of the partial file.
Flush(now, next) ==
    /\ pc = now
    /\ draft' = [draft EXCEPT !.flushed = TRUE]
    /\ Goto(next)
    /\ UNCHANGED <<disk, pid, prover, at, budget, faults>>

FlushProgress == Flush("flush progress", "rename progress")

\* atomic_replace: rename over the previous checkpoint.
RenameProgress ==
    /\ pc = "rename progress"
    /\ Publish("progress", draft)
    /\ draft' = None
    /\ Goto("sync progress")
    /\ UNCHANGED <<spool, synced, pid, prover, at, budget, faults>>

SyncProgress ==
    /\ pc = "sync progress"
    /\ SyncDir("progress")
    /\ Goto("proving")
    /\ UNCHANGED <<spool, synced, pid, prover, at, budget, draft, faults>>

\* NativeStatement::new from the prover's counters and boundaries.
Statement(frames) ==
    [segments |-> prover.segments, steps |-> prover.steps,
     from |-> frames[1].from, to |-> prover.steps]

\* Mutant: a run that reaches its limit finalizes.
DraftReceiptEarly ==
    /\ pc = "proving"
    /\ prover.steps = Total \/ (budget = 0 /\ prover.segments > 0)
    /\ PartialFree("receipt")
    /\ OpenPartial("receipt")
    /\ draft' = File([statement |-> Statement(spool.frames),
                      frames |-> SubSeq(spool.frames, 1, prover.segments)], FALSE)
    /\ Goto("flush receipt")
    /\ UNCHANGED <<spool, synced, pid, prover, at, budget, faults>>

\* run past prove_segments, validate_endpoint, finalize and finish: the
\* partial receipt holds the statement and a copy of the spooled frames.  It
\* is left behind when they exceed the stream limit.
DraftReceipt ==
    /\ pc = "proving"
    /\ prover.steps = Total
    /\ IF EndpointMatches /\ PartialFree("receipt")
       THEN /\ OpenPartial("receipt")
            /\ IF HeaderBytes + prover.bytes <= MaxStreamBytes
               THEN /\ draft' = File([statement |-> Statement(spool.frames),
                                      frames |-> SubSeq(spool.frames, 1, prover.segments)], FALSE)
                    /\ Goto("flush receipt")
                    /\ UNCHANGED <<pid, prover, at, budget>>
               ELSE Exited
       ELSE /\ Exited
            /\ UNCHANGED <<ent, past>>
    /\ UNCHANGED <<spool, synced, faults>>

\* Mutant: the receipt is renamed before the statement exists.
FlushReceiptFirst == Flush("flush receipt", "rename receipt")

FlushReceipt == Flush("flush receipt", "statement")

\* finalize: an existing statement must be the same one, and is kept.
KeepStatement ==
    /\ pc = "statement"
    /\ ent.statement # None
    /\ IF ent.statement.data = draft.data.statement
       THEN /\ Goto("rename receipt")
            /\ UNCHANGED <<pid, prover, at, budget, draft>>
       ELSE Exited
    /\ UNCHANGED <<disk, faults>>

\* finalize, write_new: write and sync the partial statement.
DraftStatement ==
    /\ pc = "statement"
    /\ ent.statement = None
    /\ IF PartialFree("statement")
       THEN /\ OpenPartial("statement")
            /\ Goto("rename statement")
            /\ UNCHANGED <<pid, prover, at, budget, draft>>
       ELSE /\ Exited
            /\ UNCHANGED <<ent, past>>
    /\ UNCHANGED <<spool, synced, faults>>

RenameStatement ==
    /\ pc = "rename statement"
    /\ Publish("statement", File(draft.data.statement, TRUE))
    /\ Goto("sync statement")
    /\ UNCHANGED <<spool, synced, pid, prover, at, budget, draft, faults>>

SyncStatement ==
    /\ pc = "sync statement"
    /\ SyncDir("statement")
    /\ Goto("rename receipt")
    /\ UNCHANGED <<spool, synced, pid, prover, at, budget, draft, faults>>

\* finalize: require_absent(receipt) has held since run; publish it.
RenameReceipt ==
    /\ pc = "rename receipt"
    /\ ent.receipt = None
    /\ Publish("receipt", draft)
    /\ draft' = None
    /\ Goto("sync receipt")
    /\ UNCHANGED <<spool, synced, pid, prover, at, budget, faults>>

\* finalize: sync the directory; the process ends with success.
SyncReceipt ==
    /\ pc = "sync receipt"
    /\ SyncDir("receipt")
    /\ Exited
    /\ UNCHANGED <<spool, synced, faults>>

----------------------------------------------------------------------------
(* Faults.                                                                 *)

\* The process is killed, or a system call fails and it exits with an error.
Kill ==
    /\ pc # "idle"
    /\ faults < MaxFaults
    /\ faults' = faults + 1
    /\ Exited
    /\ UNCHANGED disk

\* What an unsynced file holds after a power loss.
Settled(file) ==
    IF file = None THEN None
    ELSE IF file.flushed THEN file
    ELSE File(Junk, TRUE)

\* The spool after a power loss: unsynced frames are lost, kept or garbage,
\* and the file may be longer than what was seen of it.
SpoolsAfterLoss ==
    UNION { { [frames |-> [i \in 1..n |->
                              IF i <= synced \/ (i <= Len(spool.frames) /\ i \in kept)
                              THEN spool.frames[i] ELSE Junk],
               torn |-> t] : kept \in SUBSET ((synced + 1)..n), t \in BOOLEAN }
            : n \in synced..(Len(spool.frames) + 1) }

\* Each directory comes back as one of its views.
PowerLoss ==
    /\ faults < MaxFaults
    /\ faults' = faults + 1
    /\ \E view \in [Dirs -> UNION {Views(d) : d \in Dirs}] :
        /\ \A d \in Dirs : view[d] \in Views(d)
        /\ ent' = [spool     |-> view[DirOf["spool"]].spool,
                   progress  |-> Settled(view[DirOf["progress"]].progress),
                   statement |-> Settled(view[DirOf["statement"]].statement),
                   receipt   |-> Settled(view[DirOf["receipt"]].receipt),
                   partial   |-> {n \in Finals \X Pids : n \in view[DirOf[n[1]]].partial}]
        /\ IF view[DirOf["spool"]].spool
           THEN /\ spool' \in SpoolsAfterLoss
                /\ synced' = Len(spool'.frames)
           ELSE /\ spool' = EmptySpool
                /\ synced' = 0
    /\ past' = [d \in Dirs |-> {}]
    /\ Exited

Step ==
    \/ SyncTruncation \/ VerifyPrefix \/ Pause
    \/ AppendLength \/ AppendBody \/ SyncSpool
    \/ DraftProgress \/ FlushProgress \/ RenameProgress \/ SyncProgress
    \/ DraftReceipt \/ FlushReceipt
    \/ KeepStatement \/ DraftStatement \/ RenameStatement \/ SyncStatement
    \/ RenameReceipt \/ SyncReceipt

Next ==
    \/ \E p \in Pids, limit \in Limits : Start(p, limit) \/ Resume(p, limit)
    \/ Step
    \/ Kill
    \/ PowerLoss

Spec == Init /\ [][Next]_vars

\* A running process is scheduled; the operator repeats the command with
\* --resume, and no process identifier is avoided for ever.
Fairness ==
    /\ WF_vars(Step)
    /\ \A p \in Pids : SF_vars(\E limit \in Limits : Resume(p, limit))

FairSpec == Spec /\ Fairness

----------------------------------------------------------------------------
(* Properties.                                                             *)

Progress == [counters : Counters, at : 0..Total]
Statements == [segments : Nat, steps : 0..Total, from : 0..Total, to : 0..Total]
Receipts == [statement : Statements, frames : Seq(Frames)]

FileOf(contents) == {None} \cup [data : contents \cup {Junk}, flushed : BOOLEAN]

Entries == [spool : BOOLEAN, progress : FileOf(Progress), statement : FileOf(Statements),
            receipt : FileOf(Receipts), partial : SUBSET (Finals \X Pids)]

Labels == {"idle", "sync tail", "verify", "proving", "append", "sync spool",
           "draft progress", "flush progress", "rename progress", "sync progress",
           "flush receipt", "statement", "rename statement", "sync statement",
           "rename receipt", "sync receipt"}

\* Every variable keeps its type.
TypeOK ==
    /\ spool \in [frames : Seq(Frames \cup {Junk}), torn : BOOLEAN]
    /\ synced \in 0..Len(spool.frames)
    /\ ent \in Entries
    /\ past \in [Dirs -> SUBSET Entries]
    /\ pc \in Labels
    /\ pid \in Pids \cup {None}
    /\ prover \in Counters
    /\ at \in 0..Total
    /\ budget \in Nat
    /\ draft \in FileOf(Progress) \cup FileOf(Receipts)
    /\ faults \in 0..MaxFaults

\* Lost file content is not mistaken for a frame, a checkpoint or a receipt:
\* decoding fails.
ASSUME JunkAssumption == Junk \notin Frames /\ Junk \notin Progress /\ Junk \notin Receipts
ASSUME NoneAssumption ==
    /\ None \notin [data : Progress \cup {Junk}, flushed : BOOLEAN]
    /\ None \notin [data : Statements, flushed : BOOLEAN]

\* The frames are the ones an uninterrupted run writes.
Deterministic(frames) ==
    /\ VerifySpool(frames)
    /\ \A i \in 1..Len(frames) : frames[i].to = SegmentEnd[frames[i].from]

\* The synced part of the spool holds exactly what checkpoint g counts.
Backed(g) ==
    /\ ValidProgress(g)
    /\ g.counters.segments <= synced
    /\ ProgressMatches(g, SubSeq(spool.frames, 1, g.counters.segments))
    /\ Deterministic(SubSeq(spool.frames, 1, g.counters.segments))

\* v and w may be what directories c and d hold after the same power loss.
Together(c, v, d, w) == c = d => v = w

\* write_progress runs after sync_spool: whichever checkpoint survives a power
\* loss at this instant, the frames it counts are on stable storage and verify.
CheckpointCovered ==
    LET p == DirOf["progress"]
        s == DirOf["spool"]
    IN  \A v \in Views(p), w \in Views(s) :
            Together(p, v, s, w) /\ v.progress # None => w.spool /\ Backed(v.progress.data)

\* The process holds a NativeReceiptStreamProver.
Proving == Labels \ {"idle", "sync tail", "verify"}

\* The counters in memory are those of the frames in the spool, and the
\* builder stands where the last frame ends, one segment ahead during append.
ProverTracksSpool ==
    /\ pc # "idle" => pid \in Pids
    /\ pc \notin Proving => prover = NoCounters /\ at = 0
    /\ pc \in Proving =>
        /\ VerifySpool(spool.frames)
        /\ prover.segments = Len(spool.frames)
        /\ prover.bytes = FrameBytes * Len(spool.frames)
        /\ prover.steps = IF Len(spool.frames) = 0 THEN 0 ELSE spool.frames[Len(spool.frames)].to
        /\ at = IF pc = "append" THEN SegmentEnd[prover.steps] ELSE prover.steps
    /\ pc = "append" => prover.steps < Total /\ budget > 0 /\ AppendFits
    /\ pc \in {"sync spool", "draft progress", "flush progress", "rename progress"} =>
        /\ prover.segments \in 1..MaxSegments
        /\ prover.bytes \in 1..MaxStreamBytes
        /\ prover.steps > 0

\* What the partial file about to be renamed holds.
DraftMatchesProver ==
    /\ pc \in {"flush progress", "rename progress"} =>
        draft = File([counters |-> prover, at |-> at], pc = "rename progress")
    /\ pc \in {"flush receipt", "statement", "rename statement", "sync statement",
              "rename receipt"} => draft \in [data : Receipts, flushed : BOOLEAN]

\* Every checkpoint a power loss may bring back is flushed and backed by the
\* synced spool, and counts no more segments than the visible one: so cutting
\* the spool back to the visible checkpoint takes no frame from any of them.
SurvivorsBacked ==
    \A v \in Views(DirOf["progress"]) : v.progress # None =>
        /\ v.spool /\ v.progress.flushed
        /\ Backed(v.progress.data)
        /\ ent.progress # None
        /\ v.progress.data.counters.segments <= ent.progress.data.counters.segments

\* The visible checkpoint counts no more than the running prover, whose
\* frames are on stable storage before it writes the next checkpoint.
CheckpointsOrdered ==
    /\ SurvivorsBacked
    /\ pc \in {"sync tail", "verify"} => ent.progress # None
    /\ pc \in Proving =>
        /\ ent.spool
        /\ Deterministic(spool.frames)
        /\ ent.progress # None => ent.progress.data.counters.segments <= prover.segments
    /\ pc \in {"draft progress", "flush progress", "rename progress"} =>
        synced = Len(spool.frames)

\* The inductive invariant behind CheckpointCovered.
InductiveInvariant ==
    TypeOK /\ ProverTracksSpool /\ DraftMatchesProver /\ CheckpointsOrdered

\* resume accepts every spool and checkpoint pair the prover leaves behind,
\* after it has cut the tail that no checkpoint counts.
ResumeAccepted ==
    /\ pc = "verify" => ProgressMatches(ent.progress.data, spool.frames)
    /\ pc = "idle" /\ ent.progress # None =>
           /\ ValidProgress(ent.progress.data) /\ ent.spool
           /\ SpoolBytes >= ent.progress.data.counters.bytes

\* finalize publishes whole proofs only: the frames of a receipt run from reset
\* to the expected endpoint and are the ones an uninterrupted run would write.
ReceiptComplete ==
    ent.receipt # None =>
        LET r == ent.receipt.data
        IN  /\ EndpointMatches
            /\ r # Junk
            /\ Len(r.frames) > 0
            /\ Deterministic(r.frames)
            /\ r.frames[Len(r.frames)].to = Total
            /\ r.statement = [segments |-> Len(r.frames), steps |-> Total,
                              from |-> 0, to |-> Total]

\* finalize writes the statement first and the receipt last: a receipt that
\* survives a power loss at this instant has its statement beside it.
ReceiptHasStatement ==
    LET c == DirOf["receipt"]
        d == DirOf["statement"]
    IN  \A v \in Views(c), w \in Views(d) :
            Together(c, v, d, w) /\ v.receipt # None =>
                w.statement # None /\ w.statement.data = v.receipt.data.statement

\* A receipt that can be seen is the whole proof, and one that survives has
\* its statement.
ReceiptWhole == ReceiptComplete /\ ReceiptHasStatement

\* What preflight accepted fits: no segment is refused for lack of room in the
\* receipt as long as the byte limit is not reached.
AppendNeverRefused ==
    pc = "proving" /\ prover.steps < Total /\ prover.bytes + FrameBytes <= MaxStreamBytes
        => AppendFits

\* inspect_progress: read-only, refuses a spool longer than its checkpoint.
InspectAccepts ==
    /\ ent.progress # None
    /\ ValidProgress(ent.progress.data)
    /\ ent.progress.data.counters.steps <= Total
    /\ ent.spool
    /\ SpoolBytes = ent.progress.data.counters.bytes
    /\ ProgressMatches(ent.progress.data, spool.frames)
    /\ ent.progress.data.counters.steps = Total => EndpointMatches

\* A run that pauses after a segment leaves a pair that inspection accepts.
PauseIsInspectable == [][Pause /\ prover.segments > 0 => InspectAccepts']_vars

\* Where resume continues from when v is what is left.
Position(v) == IF v.progress = None THEN 0 ELSE v.progress.data.at

\* The checkpoint that is certain to survive a power loss.
Committed ==
    LET ats == {Position(v) : v \in Views(DirOf["progress"])}
    IN  CHOOSE a \in ats : \A b \in ats : a <= b

\* The receipt is certain to survive a power loss.
Published == \A v \in Views(DirOf["receipt"]) : v.receipt # None

Log == INSTANCE ProofLog WITH committed <- Committed, published <- Published

\* The prover implements the abstract proof log: nothing committed is lost,
\* and a receipt appears once, at the end.
ImplementsProofLog == Log!Spec

\* Once a checkpoint is durable, repeating the command with --resume ends with
\* a receipt that stays, however often the prover was interrupted before.
CommittedIsFinished == Committed > 0 ~> [](ent.receipt # None)
=============================================================================
