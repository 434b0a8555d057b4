-------------------- MODULE NativeProverRefinement_proofs -------------------
(***************************************************************************)
(* The prover implements the abstract proof log.                           *)
(***************************************************************************)
EXTENDS NativeProverReceipt_proofs, WellFoundedInduction

\* The spool, the checkpoint and the receipt live in one directory.
OneDirectory == DirOf["spool"] = DirOf["progress"] /\ DirOf["receipt"] = DirOf["progress"]

----------------------------------------------------------------------------
(* The boundaries of an uninterrupted run.                                 *)

\* A set of naturals that is not empty has a least element.
LEMMA LeastNat == ASSUME NEW S \in SUBSET Nat, S # {} PROVE \E m \in S : \A n \in S : m <= n
<1>1. IsWellFoundedOn(OpToRel(<, Nat), Nat)
  BY NatLessThanWellFounded
<1>2. PICK m \in S : \A n \in S : ~(<<n, m>> \in OpToRel(<, Nat))
  BY <1>1, WFMin
<1>3. \A n \in S : ~(n < m)
  BY <1>2 DEF OpToRel
<1> QED BY <1>3

\* A run from s passes through s.
LEMMA FromSelf == ASSUME NEW s \in 0..Total PROVE s \in Log!From(s)
BY DEF Log!From

\* A run that passes through b passes through the end of the segment at b.
LEMMA FromStep ==
    ASSUME NEW s \in 0..Total, NEW b \in Log!From(s), b < Total
    PROVE  SegmentEnd[b] \in Log!From(s)
<1>1. b \in 0..(Total - 1)
  BY TotalAssumption DEF Log!From
<1>2. SegmentEnd[b] \in 0..Total
  BY <1>1, SegmentEndAssumption
<1> QED BY <1>2 DEF Log!From, Log!Closed

\* What holds of s and passes from a boundary to the next holds of them all.
LEMMA FromLeast ==
    ASSUME NEW s \in 0..Total, NEW b \in Log!From(s),
           NEW B \in SUBSET (0..Total), s \in B, Log!Closed(B)
    PROVE  b \in B
BY DEF Log!From

\* A run only moves forward.
LEMMA FromForward == ASSUME NEW s \in 0..Total, NEW b \in Log!From(s) PROVE s <= b /\ b \in 0..Total
<1> DEFINE B == {x \in 0..Total : s <= x}
<1>1. Log!Closed(B)
  <2> SUFFICES ASSUME NEW x \in B, x < Total PROVE SegmentEnd[x] \in B
    BY DEF Log!Closed
  <2>1. x \in 0..(Total - 1)
    BY TotalAssumption
  <2>2. SegmentEnd[x] \in 1..Total /\ x < SegmentEnd[x]
    BY <2>1, SegmentEndAssumption
  <2> QED BY <2>1, <2>2, TotalAssumption
<1>2. s \in B
  BY TotalAssumption
<1>3. b \in B
  BY <1>1, <1>2, FromLeast
<1> QED BY <1>3

\* What is not the start comes after the end of the first segment.
LEMMA FromUnfold ==
    ASSUME NEW s \in 0..Total, s < Total, NEW b \in Log!From(s), b # s
    PROVE  b \in Log!From(SegmentEnd[s])
<1> DEFINE e == SegmentEnd[s]
           B == {s} \cup Log!From(e)
<1>1. e \in 0..Total
  <2>1. s \in 0..(Total - 1)
    BY TotalAssumption
  <2> QED BY <2>1, SegmentEndAssumption
<1>2. B \in SUBSET (0..Total)
  BY DEF Log!From
<1>3. Log!Closed(B)
  <2> SUFFICES ASSUME NEW x \in B, x < Total PROVE SegmentEnd[x] \in B
    BY DEF Log!Closed
  <2>1. CASE x = s
    BY <1>1, <2>1, FromSelf
  <2>2. CASE x \in Log!From(e)
    BY <1>1, <2>2, FromStep
  <2> QED BY <2>1, <2>2
<1>4. b \in B
  BY <1>2, <1>3, FromLeast
<1> QED BY <1>4

\* Two boundaries of one run are in order: the run from the first passes
\* through the second.
LEMMA FromLinear ==
    ASSUME NEW s \in 0..Total, NEW x \in Log!From(s), NEW y \in Log!From(s), x <= y
    PROVE  y \in Log!From(x)
<1> DEFINE B == {z \in Log!From(s) : z \in Log!From(x) \/ x \in Log!From(z)}
<1>1. x \in 0..Total /\ y \in 0..Total
  BY FromForward
<1>2. B \in SUBSET (0..Total)
  BY FromForward
<1>3. Log!Closed(B)
  <2> SUFFICES ASSUME NEW z \in B, z < Total PROVE SegmentEnd[z] \in B
    BY DEF Log!Closed
  <2>1. z \in 0..Total /\ SegmentEnd[z] \in Log!From(s)
    BY <1>2, FromStep
  <2>2. CASE z \in Log!From(x)
    BY <1>1, <2>1, <2>2, FromStep
  <2>3. CASE x \in Log!From(z) /\ x # z
    BY <2>1, <2>3, FromUnfold
  <2>4. CASE x = z
    BY <1>1, <2>1, <2>4, FromSelf, FromStep
  <2> QED BY <2>2, <2>3, <2>4
<1>4. s \in B
  BY FromSelf
<1>5. y \in B
  BY <1>2, <1>3, <1>4, FromLeast
<1>6. CASE x \in Log!From(y)
  <2>1. y <= x
    BY <1>1, <1>6, FromForward
  <2>2. x = y
    BY <1>1, <2>1
  <2> QED BY <1>1, <2>2, FromSelf
<1> QED BY <1>5, <1>6

----------------------------------------------------------------------------
(* Where the checkpoints stand.                                            *)

\* Every checkpoint that may survive is a boundary of the uninterrupted run,
\* none is ahead of the visible one, and with a receipt it is the last one.
PositionsOrdered ==
    /\ \A v \in Views(ProgressDir) :
          /\ Position(v) \in Log!From(0)
          /\ Position(v) <= Position(ent)
          /\ v.receipt # None => Position(v) = Total
    /\ pc \in Proving => prover.steps \in Log!From(0) /\ Position(ent) <= prover.steps
    /\ pc \in Drafting \cup {"sync receipt"} => Position(ent) = Total

\* The inductive invariant behind the refinement.
LogInvariant ==
    ResumeInvariant /\ FramesGenuine /\ ReceiptsComplete /\ NoReceiptYet /\ PositionsOrdered

\* The visible checkpoint changes by a rename or by a power loss.
LEMMA VisibleProgress ==
    ASSUME TypeOK, [Next]_vars
    PROVE  \/ ent'.progress = ent.progress
           \/ pc = "rename progress" /\ ent'.progress = draft
           \/ PowerLoss
<1>1. ent \in Entries
  BY DEF TypeOK
<1>2. CASE UNCHANGED <<ent, past>>
  BY <1>2
<1>3. ASSUME NEW f \in Finals, SyncDir(f) PROVE ent'.progress = ent.progress
  BY <1>3 DEF SyncDir
<1>4. ASSUME NEW f \in Finals, OpenPartial(f) PROVE ent'.progress = ent.progress
  BY <1>1, <1>4 DEF OpenPartial, Install, Entries
<1>5. CASE Install("spool", [ent EXCEPT !.spool = TRUE])
  BY <1>1, <1>5 DEF Install, Entries
<1>6. ASSUME NEW f \in Finals, NEW file, Publish(f, file), Renaming(f, file)
      PROVE  ent'.progress = ent.progress \/ (pc = "rename progress" /\ ent'.progress = draft)
  <2>1. CASE f = "progress"
    BY <1>1, <1>6, <2>1 DEF Publish, Install, Entries, Renaming
  <2>2. CASE f # "progress"
    BY <1>1, <1>6, <2>2 DEF Publish, Install, Entries
  <2> QED BY <2>1, <2>2
<1> QED BY <1>2, <1>3, <1>4, <1>5, <1>6, DirectorySteps

\* After a power loss there is one view of every directory.
LEMMA LossViews == ASSUME NEW d \in Dirs, PowerLoss PROVE Views(d)' = {ent'}
BY DEF PowerLoss, Views

\* The position a checkpoint of the prover records.
LEMMA CheckpointAt ==
    ASSUME NEW g, g = [counters |-> prover, at |-> prover.steps] PROVE g.at = prover.steps
<1>1. ASSUME NEW c, NEW a PROVE [counters |-> c, at |-> a].at = a
  OBVIOUS
<1> QED BY <1>1, Zenon

\* The position of what the rename of the checkpoint installs.
LEMMA DraftPosition ==
    ASSUME TypeInv, pc = "rename progress"
    PROVE  \A v : v.progress = draft => Position(v) = prover.steps
<1>1. draft = [data |-> [counters |-> prover, at |-> at], flushed |-> TRUE] /\ at = prover.steps
  BY DEF TypeInv, DraftMatchesProver, ProverTracksSpool, File, Proving, Labels
<1>2. draft.data = [counters |-> prover, at |-> prover.steps]
  BY <1>1
<1>3. draft \in [data : Progress \cup {Junk}, flushed : BOOLEAN]
  BY <1>1 DEF TypeInv, TypeOK, Progress
<1>4. draft # None
  BY <1>3, NoneAssumption
<1>5. draft.data.at = prover.steps
  BY <1>2, CheckpointAt
<1> QED BY <1>4, <1>5 DEF Position

\* A surviving checkpoint is one that could have survived before the step,
\* with its receipt, or the one that is being renamed.
LEMMA PositionsEvolve ==
    ASSUME OneDirectory, LogInvariant, [Next]_vars, NEW v \in Views(ProgressDir)'
    PROVE  \E w \in Views(ProgressDir) :
              /\ w.receipt # None => v.receipt # None
              /\ \/ /\ v.progress = w.progress
                    /\ v.receipt # None => w.receipt # None \/ (w = ent /\ pc = "rename receipt")
                 \/ /\ v = ent' /\ pc = "rename progress" /\ v.progress = draft /\ v.receipt = None
<1>1. TypeOK /\ ProgressDir \in Dirs
  BY DirAssumption DEF LogInvariant, ResumeInvariant, InductiveInvariant, ProgressDir, Paths, Finals
<1>2. PICK w \in Views(ProgressDir) : \A f \in Finals : DirOf[f] = ProgressDir =>
              \/ v[f] \in {w[f], Settled(w[f])}
              \/ w = ent /\ v = ent' /\ Renaming(f, v[f])
  BY <1>1, ViewsEvolve
<1>3. \/ v.progress \in {w.progress, Settled(w.progress)}
      \/ w = ent /\ v = ent' /\ pc = "rename progress" /\ v.progress = draft
  BY <1>2 DEF Finals, ProgressDir, Renaming
<1>4. \/ v.receipt \in {w.receipt, Settled(w.receipt)}
      \/ w = ent /\ pc = "rename receipt" /\ v.receipt = draft
  BY <1>2 DEF Finals, ProgressDir, Renaming, OneDirectory
<1>5. w.progress # None => w.progress.flushed
  BY DEF LogInvariant, ResumeInvariant, InductiveInvariant, CheckpointsOrdered, SurvivorsBacked,
         ProgressDir
<1>6. Settled(w.progress) = w.progress
  BY <1>5 DEF Settled
<1>7. Settled(w.receipt) = None => w.receipt = None
  <2>1. w.receipt # None => w.receipt.flushed
    BY DEF LogInvariant, ReceiptsComplete, ReceiptDir, ProgressDir, OneDirectory
  <2> QED BY <2>1 DEF Settled
<1>8. Settled(None) = None
  BY DEF Settled
<1>9. v.receipt # None => w.receipt # None \/ (w = ent /\ pc = "rename receipt")
  BY <1>4, <1>8
<1>10. CASE w = ent /\ v = ent' /\ pc = "rename progress" /\ v.progress = draft
  <2>1. w.receipt = None
    BY <1>10 DEF LogInvariant, NoReceiptYet
  <2> QED BY <1>9, <1>10, <2>1
<1>11. w.receipt # None => v.receipt # None
  <2>1. ASSUME w = ent, pc = "rename receipt" PROVE w.receipt = None
    BY <2>1 DEF LogInvariant, NoReceiptYet
  <2> QED BY <1>4, <1>7, <2>1
<1> QED BY <1>3, <1>6, <1>9, <1>10, <1>11

\* A receipt comes with the last checkpoint.
LEMMA NextPositions ==
    ASSUME OneDirectory, LogInvariant, [Next]_vars
    PROVE  \A v \in Views(ProgressDir)' :
              /\ Position(v) \in Log!From(0)
              /\ Position(v) <= Position(ent')
              /\ v.receipt # None => Position(v) = Total
<1>1. TypeInv /\ TypeOK /\ PositionsOrdered /\ ent \in Views(ProgressDir) /\ ProgressDir \in Dirs
  BY DirAssumption DEF LogInvariant, ResumeInvariant, InductiveInvariant, TypeInv, Views, ProgressDir,
                       Paths, Finals
<1>2. 0 \in 0..Total /\ \A b \in Log!From(0) : b \in Nat
  BY TotalAssumption, FromForward
<1>3. pc = "rename progress" => prover.steps \in Log!From(0) /\ Position(ent) <= prover.steps
  BY <1>1 DEF PositionsOrdered, Proving, Labels
<1>4. ASSUME NEW v \in Views(ProgressDir)'
      PROVE  /\ Position(v) \in Log!From(0)
             /\ v.receipt # None => Position(v) = Total
             /\ Position(v) <= Position(ent) \/ v = ent'
  <2>1. PICK w \in Views(ProgressDir) :
              \/ /\ v.progress = w.progress
                 /\ v.receipt # None => w.receipt # None \/ (w = ent /\ pc = "rename receipt")
              \/ /\ v = ent' /\ pc = "rename progress" /\ v.progress = draft /\ v.receipt = None
    BY <1>4, PositionsEvolve
  <2>2. CASE /\ v.progress = w.progress
             /\ v.receipt # None => w.receipt # None \/ (w = ent /\ pc = "rename receipt")
    <3>1. Position(v) = Position(w)
      BY <2>2 DEF Position
    <3> QED BY <1>1, <2>2, <3>1 DEF PositionsOrdered, Drafting, Flushed
  <2>3. CASE v = ent' /\ pc = "rename progress" /\ v.progress = draft /\ v.receipt = None
    BY <1>1, <1>3, <2>3, DraftPosition
  <2> QED BY <2>1, <2>2, <2>3
<1>5. ASSUME NEW v \in Views(ProgressDir)' PROVE Position(v) <= Position(ent')
  <2>1. Position(v) \in Nat /\ Position(ent) \in Nat
    BY <1>1, <1>2, <1>4, <1>5 DEF PositionsOrdered
  <2>2. CASE v = ent'
    BY <2>1, <2>2
  <2>3. CASE v # ent'
    <3>1. Position(v) <= Position(ent) /\ ~PowerLoss
      BY <1>1, <1>4, <1>5, <2>3, LossViews
    <3>2. CASE ent'.progress = ent.progress
      BY <3>1, <3>2 DEF Position
    <3>3. CASE pc = "rename progress" /\ ent'.progress = draft
      <4>1. Position(ent') = prover.steps
        BY <1>1, <3>3, DraftPosition
      <4>2. prover.steps \in Nat /\ Position(ent) <= prover.steps
        BY <1>2, <1>3, <3>3
      <4> QED BY <2>1, <3>1, <4>1, <4>2
    <3> QED BY <1>1, <3>1, <3>2, <3>3, VisibleProgress
  <2> QED BY <2>2, <2>3
<1> QED BY <1>4, <1>5

\* How a process comes to hold a prover, and what its next step does to it.
LEMMA ProvingSteps ==
    ASSUME TypeInv, [Next]_vars, pc' \in Proving
    PROVE  \/ \E p \in Pids, limit \in Limits : Start(p, limit)
           \/ VerifyPrefix /\ ProgressMatches(ent.progress.data, spool.frames)
           \/ AppendBody
           \/ pc \in Proving /\ prover' = prover /\ ~PowerLoss
<1>1. ~(\E p \in Pids, limit \in Limits : Resume(p, limit))
  BY DEF Resume, Goto, Proving
<1>2. ~(SyncTruncation \/ Pause \/ Kill \/ SyncReceipt \/ PowerLoss)
  BY DEF SyncTruncation, Pause, Kill, SyncReceipt, PowerLoss, Exited, Goto, Proving
<1>3. CASE VerifyPrefix
  BY <1>3 DEF VerifyPrefix, Exited, Proving
<1>4. CASE AppendLength \/ SyncSpool \/ FlushProgress \/ FlushReceipt \/ KeepStatement
           \/ UNCHANGED vars
  BY <1>2, <1>4 DEF AppendLength, SyncSpool, FlushProgress, FlushReceipt, Flush, KeepStatement,
              vars, Exited, Proving, Labels
<1>5. CASE \/ DraftProgress \/ RenameProgress \/ SyncProgress \/ DraftReceipt
           \/ DraftStatement \/ RenameStatement \/ SyncStatement \/ RenameReceipt
  BY <1>2, <1>5 DEF DraftProgress, RenameProgress, SyncProgress, DraftReceipt, DraftStatement,
              RenameStatement, SyncStatement, RenameReceipt, Exited, Proving, Labels
<1> QED BY <1>1, <1>2, <1>3, <1>4, <1>5 DEF Next, Step

\* The prover stands at a boundary, at or past the visible checkpoint.
LEMMA NextProver ==
    ASSUME LogInvariant, [Next]_vars, pc' \in Proving
    PROVE  prover'.steps \in Log!From(0) /\ Position(ent') <= prover'.steps
<1>1. /\ TypeInv /\ TypeOK /\ PositionsOrdered /\ ent \in Views(ProgressDir)
      /\ InductiveInvariant /\ ent \in Entries
  BY DEF LogInvariant, ResumeInvariant, InductiveInvariant, TypeInv, TypeOK, Views
<1>2. 0 \in 0..Total /\ 0 \in Log!From(0) /\ \A b \in Log!From(0) : b \in Nat /\ b \in 0..Total
  BY TotalAssumption, FromSelf, FromForward
<1>3. CASE \E p \in Pids, limit \in Limits : Start(p, limit)
  <2>1. prover' = NoCounters /\ ent.progress = None /\ ent'.progress = ent.progress
    BY <1>1, <1>3 DEF Start, Install, Entries, TypeInv, ProverTracksSpool, Proving
  <2>2. prover'.steps = 0 /\ Position(ent') = 0
    BY <2>1 DEF NoCounters, Position
  <2> QED BY <1>2, <2>2
<1>4. CASE VerifyPrefix /\ ProgressMatches(ent.progress.data, spool.frames)
  <2>1. ent.progress # None /\ ent' = ent /\ prover' = SpoolCounters(spool.frames)
        /\ ent.progress.data.at = spool.frames[Len(spool.frames)].to
    BY <1>1, <1>4 DEF VerifyPrefix, ProgressMatches, disk, InductiveInvariant, CheckpointsOrdered
  <2>2. prover'.steps = spool.frames[Len(spool.frames)].to
    BY <2>1 DEF SpoolCounters
  <2>3. Position(ent') = prover'.steps /\ Position(ent') = Position(ent)
    BY <2>1, <2>2 DEF Position
  <2>4. Position(ent) \in Log!From(0)
    BY <1>1 DEF PositionsOrdered
  <2> QED BY <1>2, <2>3, <2>4
<1>5. CASE AppendBody
  <2>1. pc = "append" /\ pc \in Proving /\ ent' = ent /\ prover'.steps = at
    BY <1>5 DEF AppendBody, Proving, Labels
  <2>2. prover.steps < Total /\ at = SegmentEnd[prover.steps]
    BY <1>1, <2>1 DEF TypeInv, ProverTracksSpool
  <2>3. prover.steps \in Log!From(0) /\ Position(ent) <= prover.steps
        /\ Position(ent) \in Log!From(0)
    BY <1>1, <2>1 DEF PositionsOrdered
  <2>4. at \in Log!From(0)
    BY <1>2, <2>2, <2>3, FromStep
  <2>5. prover.steps \in 0..(Total - 1)
    BY <1>2, <2>2, <2>3, TotalAssumption
  <2>6. prover.steps < at
    BY <2>2, <2>5, SegmentEndAssumption
  <2>7. Position(ent) \in Nat /\ prover.steps \in Nat /\ at \in Nat
    BY <1>2, <2>3, <2>4
  <2>8. Position(ent) <= at
    BY <2>3, <2>6, <2>7
  <2> QED BY <2>1, <2>4, <2>8
<1>6. CASE pc \in Proving /\ prover' = prover /\ ~PowerLoss
  <2>1. prover.steps \in Log!From(0) /\ Position(ent) <= prover.steps
    BY <1>1, <1>6 DEF PositionsOrdered
  <2>2. Position(ent') = Position(ent) \/ Position(ent') = prover.steps
    BY <1>1, <1>6, VisibleProgress, DraftPosition DEF Position
  <2> QED BY <1>2, <1>6, <2>1, <2>2
<1> QED BY <1>1, <1>3, <1>4, <1>5, <1>6, ProvingSteps

\* finalize works beside the last checkpoint.
LEMMA NextDrafting ==
    ASSUME LogInvariant, [Next]_vars, pc' \in Drafting \cup {"sync receipt"}
    PROVE  Position(ent') = Total
<1>1. TypeInv /\ TypeOK /\ PositionsOrdered
  BY DEF LogInvariant, ResumeInvariant, InductiveInvariant, TypeInv
<1>2. CASE DraftReceipt
  <2>1. pc = "proving" /\ pc \in Checkpointed /\ prover.steps = Total
        /\ OpenPartial("receipt")
    BY <1>2 DEF DraftReceipt, Exited, Checkpointed, Proving, Labels, Drafting, Flushed
  <2>2. prover.segments > 0
    <3>1. prover.segments = Len(spool.frames) /\ prover.segments \in Nat
          /\ prover.steps = IF Len(spool.frames) = 0 THEN 0 ELSE spool.frames[Len(spool.frames)].to
      BY <1>1, <2>1 DEF TypeInv, ProverTracksSpool, TypeOK, Counters, Checkpointed
    <3>2. prover.segments # 0
      BY <2>1, <3>1, TotalAssumption
    <3> QED BY <3>1, <3>2, SomeFrames
  <2>3. ent.progress # None /\ ent.progress.data = [counters |-> prover, at |-> prover.steps]
    BY <2>1, <2>2 DEF LogInvariant, ResumeInvariant, PairComplete
  <2>4. ent.progress.data.at = Total
    BY <2>1, <2>3, CheckpointAt
  <2>5. ent'.progress = ent.progress
    BY <1>1, <2>1, CheckpointStaysVisible
  <2> QED BY <2>3, <2>4, <2>5 DEF Position
<1>3. CASE pc \in Drafting \cup {"sync receipt"} /\ ~PowerLoss
  <2>1. ent'.progress = ent.progress
    BY <1>1, <1>3, VisibleProgress DEF Drafting, Flushed
  <2> QED BY <1>1, <1>3, <2>1 DEF PositionsOrdered, Position
<1>4. ~(\E p \in Pids, limit \in Limits : Start(p, limit) \/ Resume(p, limit))
  BY DEF Start, Resume, Goto, Drafting, Flushed
<1>5. ~(\/ SyncTruncation \/ VerifyPrefix \/ Pause \/ AppendLength \/ AppendBody \/ SyncSpool
        \/ FlushProgress \/ Kill \/ PowerLoss)
  BY DEF SyncTruncation, VerifyPrefix, Pause, AppendLength, AppendBody, SyncSpool,
         FlushProgress, Flush, Kill, PowerLoss, Exited, Goto, Drafting, Flushed
<1>6. ~(\/ DraftProgress \/ RenameProgress \/ SyncProgress \/ SyncReceipt)
  BY DEF DraftProgress, RenameProgress, SyncProgress, SyncReceipt, Exited, Goto, Drafting, Flushed
<1>7. CASE \/ FlushReceipt \/ KeepStatement \/ DraftStatement \/ RenameStatement
           \/ SyncStatement \/ RenameReceipt \/ UNCHANGED vars
  <2>1. pc \in Drafting \cup {"sync receipt"}
    BY <1>7 DEF FlushReceipt, Flush, KeepStatement, DraftStatement, RenameStatement,
                SyncStatement, RenameReceipt, vars, Drafting, Flushed
  <2> QED BY <1>3, <1>5, <2>1
<1> QED BY <1>2, <1>4, <1>5, <1>6, <1>7 DEF Next, Step

\* Every step preserves the invariant.
LEMMA NextLogInvariant ==
    ASSUME OneDirectory PROVE LogInvariant /\ [Next]_vars => LogInvariant'
<1> SUFFICES ASSUME LogInvariant, [Next]_vars PROVE LogInvariant'
  OBVIOUS
<1>1. InductiveInvariant /\ TailCut /\ PairComplete /\ TypeInv /\ TypeOK /\ SameDirectory
  BY DEF LogInvariant, ResumeInvariant, InductiveInvariant, TypeInv, OneDirectory, SameDirectory
<1>2. ResumeInvariant'
  BY <1>1, NextOrdered, NextTailCut, NextPairComplete DEF ResumeInvariant
<1>3. FramesGenuine' /\ ReceiptsComplete' /\ NoReceiptYet'
  BY <1>1, NextGenuine, NextReceiptsComplete, NextNoReceipt DEF LogInvariant
<1>4. PositionsOrdered'
  BY NextPositions, NextProver, NextDrafting DEF PositionsOrdered, Position, ProgressDir
<1> QED BY <1>2, <1>3, <1>4 DEF LogInvariant

LEMMA InitLogInvariant == Init => LogInvariant
<1> SUFFICES ASSUME Init PROVE LogInvariant
  OBVIOUS
<1>1. \A d \in Dirs : Views(d) = {ent}
  BY DEF Init, Views
<1>2. /\ ProgressDir \in Dirs /\ ReceiptDir \in Dirs /\ pc = "idle"
      /\ ent.receipt = None /\ ent.progress = None
  BY DirAssumption DEF Init, ProgressDir, ReceiptDir, Paths, Finals
<1>3. Position(ent) = 0
  BY <1>2 DEF Position
<1>4. 0 \in Log!From(0)
  BY TotalAssumption, FromSelf
<1>5. PositionsOrdered
  BY <1>1, <1>2, <1>3, <1>4 DEF PositionsOrdered, Proving, Drafting, Flushed
<1>6. ReceiptsComplete /\ NoReceiptYet
  BY <1>1, <1>2 DEF ReceiptsComplete, NoReceiptYet, Drafting, Flushed
<1>7. spool.frames = <<>> /\ Len(spool.frames) = 0
  BY DEF Init, EmptySpool
<1>8. FramesGenuine /\ TailCut /\ PairComplete
  BY <1>2, <1>7 DEF FramesGenuine, TailCut, PairComplete, Proving, Checkpointed
<1> QED BY <1>5, <1>6, <1>8, InitInductive DEF LogInvariant, ResumeInvariant

----------------------------------------------------------------------------
(* The refinement.                                                         *)

\* CHOOSE finds the least of a set of naturals.
LEMMA ChooseLeast ==
    ASSUME NEW S \in SUBSET Nat, S # {}
    PROVE  LET c == CHOOSE a \in S : \A b \in S : a <= b
           IN  c \in S /\ \A b \in S : c <= b
<1>1. \E a \in S : \A b \in S : a <= b
  BY LeastNat
<1> QED BY <1>1

\* Committed is the position of some view, and of none an earlier one.
LEMMA CommittedLeast ==
    ASSUME PositionsOrdered
    PROVE  /\ \E v \in Views(ProgressDir) : Committed = Position(v)
           /\ \A v \in Views(ProgressDir) : Committed <= Position(v)
<1> DEFINE S == {Position(v) : v \in Views(ProgressDir)}
<1>1. S \in SUBSET Nat
  <2>1. 0 \in 0..Total
    BY TotalAssumption
  <2>2. \A v \in Views(ProgressDir) : Position(v) \in 0..Total
    BY <2>1, FromForward DEF PositionsOrdered
  <2> QED BY <2>2
<1>2. S # {}
  BY DEF Views
<1>3. Committed = CHOOSE a \in S : \A b \in S : a <= b
  BY DEF Committed, ProgressDir
<1> HIDE DEF S
<1>4. Committed \in S /\ \A b \in S : Committed <= b
  BY <1>1, <1>2, <1>3, ChooseLeast
<1> QED BY <1>4 DEF S

\* The same of the state after the step.
LEMMA CommittedLeastNext ==
    ASSUME PositionsOrdered'
    PROVE  /\ \E v \in Views(ProgressDir)' : Committed' = Position(v)
           /\ \A v \in Views(ProgressDir)' : Committed' <= Position(v)
<1> DEFINE S == {Position(v) : v \in Views(ProgressDir)'}
<1>1. S \in SUBSET Nat
  <2>1. 0 \in 0..Total
    BY TotalAssumption
  <2>2. \A v \in Views(ProgressDir)' : Position(v) \in 0..Total
    BY <2>1, FromForward DEF PositionsOrdered, Position, ProgressDir
  <2> QED BY <2>2
<1>2. S # {}
  BY DEF Views
<1>3. Committed' = CHOOSE a \in S : \A b \in S : a <= b
  BY DEF Committed, ProgressDir, Position
<1> HIDE DEF S
<1>4. Committed' \in S /\ \A b \in S : Committed' <= b
  BY <1>1, <1>2, <1>3, ChooseLeast
<1> QED BY <1>4 DEF S

\* What is certain to survive after a step is not behind what was certain before.
LEMMA CommittedForward ==
    ASSUME OneDirectory, LogInvariant, LogInvariant', [Next]_vars
    PROVE  /\ Committed \in 0..Total /\ Committed \in Log!From(0)
           /\ Committed' \in Log!From(Committed)
<1>1. PositionsOrdered /\ PositionsOrdered' /\ TypeInv
  BY DEF LogInvariant, ResumeInvariant, InductiveInvariant, TypeInv
<1>2. 0 \in 0..Total /\ \A b \in Log!From(0) : b \in Nat /\ b \in 0..Total
  BY TotalAssumption, FromForward
<1>3. PICK v0 \in Views(ProgressDir) : Committed = Position(v0)
  BY <1>1, CommittedLeast
<1>4. Committed \in Log!From(0)
  BY <1>1, <1>3 DEF PositionsOrdered
<1>5. PICK v \in Views(ProgressDir)' : Committed' = Position(v)
  BY <1>1, CommittedLeastNext
<1>6. Committed' \in Log!From(0)
  BY <1>5, NextPositions
<1>7. Committed <= Committed'
  <2>1. PICK w \in Views(ProgressDir) :
              /\ w.receipt # None => v.receipt # None
              /\ \/ /\ v.progress = w.progress
                    /\ v.receipt # None => w.receipt # None \/ (w = ent /\ pc = "rename receipt")
                 \/ /\ v = ent' /\ pc = "rename progress" /\ v.progress = draft /\ v.receipt = None
    BY PositionsEvolve
  <2>2. CASE v.progress = w.progress
    BY <1>1, <1>5, <2>2, CommittedLeast DEF Position
  <2>3. CASE pc = "rename progress" /\ v.progress = draft
    <3>1. Position(v) = prover.steps
      BY <1>1, <2>3, DraftPosition
    <3>2. ent \in Views(ProgressDir)
      BY DEF Views
    <3>3. Committed <= Position(ent) /\ Position(ent) <= prover.steps
          /\ prover.steps \in Nat /\ Position(ent) \in Nat
      BY <1>1, <1>2, <2>3, <3>2, CommittedLeast DEF PositionsOrdered, Proving, Labels
    <3> QED BY <1>2, <1>4, <1>5, <3>1, <3>3
  <2> QED BY <2>1, <2>2, <2>3
<1> QED BY <1>2, <1>4, <1>6, <1>7, FromLinear

\* A published receipt stays, and finds the whole execution committed.
LEMMA PublishedLast == ASSUME OneDirectory, LogInvariant, Published PROVE Committed = Total
<1>1. PositionsOrdered
  BY DEF LogInvariant
<1> QED BY <1>1, CommittedLeast DEF Published, PositionsOrdered, OneDirectory, ProgressDir

LEMMA PublishedLastNext ==
    ASSUME OneDirectory, LogInvariant', Published' PROVE Committed' = Total /\ EndpointMatches
<1>1. PositionsOrdered' /\ ReceiptsComplete'
  BY DEF LogInvariant
<1>2. \A v \in Views(ProgressDir)' : v.receipt # None
  BY DEF Published, OneDirectory, ProgressDir
<1>3. Committed' = Total
  BY <1>1, <1>2, CommittedLeastNext DEF PositionsOrdered, Position, ProgressDir
<1>4. ent'.receipt # None /\ Complete(ent'.receipt.data)
  BY <1>1, <1>2 DEF ReceiptsComplete, Views, Complete, ReceiptDir, OneDirectory, ProgressDir
<1> QED BY <1>3, <1>4 DEF Complete

LEMMA PublishedStays ==
    ASSUME OneDirectory, LogInvariant, [Next]_vars, Published PROVE Published'
<1>1. \A w \in Views(ProgressDir) : w.receipt # None
  BY DEF Published, OneDirectory, ProgressDir
<1>2. ASSUME NEW v \in Views(ProgressDir)' PROVE v.receipt # None
  BY <1>1, <1>2, PositionsEvolve
<1> QED BY <1>2 DEF Published, OneDirectory, ProgressDir

\* Nothing that was certain to survive is lost by any step, a power loss
\* included: the checkpoints move along the boundaries of an uninterrupted
\* run, and the receipt appears once, when the whole execution is committed.
THEOREM RefinesProofLog == ASSUME OneDirectory PROVE Spec => ImplementsProofLog
<1>1. Init => Log!Init
  <2> SUFFICES ASSUME Init PROVE Committed = 0 /\ ~Published
    BY DEF Log!Init
  <2>1. /\ ProgressDir \in Dirs /\ DirOf["receipt"] \in Dirs
        /\ \A d \in Dirs : Views(d) = {ent}
    BY DirAssumption DEF Init, Views, ProgressDir, Paths, Finals
  <2>2. ent.progress = None /\ ent.receipt = None
    BY DEF Init
  <2>3. PositionsOrdered
    BY InitLogInvariant DEF LogInvariant
  <2>4. Committed = 0
    BY <2>1, <2>2, <2>3, CommittedLeast DEF Position
  <2>5. ~Published
    BY <2>1, <2>2 DEF Published
  <2> QED BY <2>4, <2>5
<1>2. LogInvariant /\ LogInvariant' /\ [Next]_vars => [Log!Next]_(Log!vars)
  <2> SUFFICES ASSUME LogInvariant, LogInvariant', [Next]_vars PROVE [Log!Next]_(Log!vars)
    OBVIOUS
  <2>1. Committed' \in Log!From(Committed)
    BY CommittedForward
  <2>2. CASE Published
    <3>1. Committed = Total /\ Committed' = Total /\ Published'
      BY <2>2, PublishedLast, PublishedStays, PublishedLastNext
    <3> QED BY <2>2, <3>1 DEF Log!vars
  <2>3. CASE ~Published /\ Published'
    <3>1. Committed' = Total /\ EndpointMatches
      BY <2>3, PublishedLastNext
    <3> QED BY <2>1, <2>3, <3>1 DEF Log!Next, Log!PublishReceipt
  <2>4. CASE ~Published /\ ~Published'
    <3>a. Published' = Published
      BY <2>4 DEF Published
    <3>1. CASE Committed' = Committed
      BY <3>a, <3>1 DEF Log!vars
    <3>2. CASE Committed' # Committed
      BY <2>1, <2>4, <3>a, <3>2 DEF Log!Next, Log!Commit
    <3> QED BY <3>1, <3>2
  <2> QED BY <2>2, <2>3, <2>4
<1>3. LogInvariant /\ [Next]_vars => LogInvariant'
  BY NextLogInvariant
<1> QED BY <1>1, <1>2, <1>3, InitLogInvariant, PTL DEF Spec, ImplementsProofLog, Log!Spec
=============================================================================
