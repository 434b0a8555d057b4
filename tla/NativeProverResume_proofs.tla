--------------------- MODULE NativeProverResume_proofs ----------------------
(***************************************************************************)
(* What an interrupted prover leaves behind can be used: resume accepts    *)
(* it, a segment always finds room, and a run that pauses leaves a pair    *)
(* that inspection accepts.                                                *)
(***************************************************************************)
EXTENDS NativeProver_proofs

----------------------------------------------------------------------------
(* What a step does to the files a power loss may bring back.              *)

\* The file a rename is about to install under the final path f.
Renaming(f, file) ==
    \/ f = "progress" /\ pc = "rename progress" /\ file = draft
    \/ f = "statement" /\ pc = "rename statement" /\ file = File(draft.data.statement, TRUE)
    \/ f = "receipt" /\ pc = "rename receipt" /\ file = draft

\* Every step leaves the directories alone, syncs one, creates a name that
\* is not final, renames a partial file or loses power.
LEMMA DirectorySteps ==
    ASSUME [Next]_vars
    PROVE  \/ UNCHANGED <<ent, past>>
           \/ \E f \in Finals : SyncDir(f)
           \/ \E f \in Finals : OpenPartial(f)
           \/ Install("spool", [ent EXCEPT !.spool = TRUE])
           \/ \E f \in Finals, file \in {draft, File(draft.data.statement, TRUE)} :
                  Publish(f, file) /\ Renaming(f, file)
           \/ PowerLoss
<1>1. CASE \E p \in Pids, limit \in Limits : Start(p, limit) \/ Resume(p, limit)
  BY <1>1 DEF Start, Resume
<1>2. CASE \/ SyncTruncation \/ VerifyPrefix \/ Pause \/ AppendLength \/ AppendBody \/ SyncSpool
           \/ FlushProgress \/ FlushReceipt \/ KeepStatement \/ Kill \/ UNCHANGED vars
  BY <1>2 DEF SyncTruncation, VerifyPrefix, Pause, AppendLength, AppendBody, SyncSpool,
              FlushProgress, FlushReceipt, Flush, KeepStatement, Kill, disk, vars
<1>3. CASE SyncProgress \/ SyncStatement \/ SyncReceipt
  BY <1>3 DEF SyncProgress, SyncStatement, SyncReceipt, Finals
<1>4. CASE DraftProgress \/ DraftReceipt \/ DraftStatement
  BY <1>4 DEF DraftProgress, DraftReceipt, DraftStatement, Finals
<1>5. CASE RenameProgress
  BY <1>5 DEF RenameProgress, Finals, Renaming
<1>6. CASE RenameStatement
  BY <1>6 DEF RenameStatement, Finals, Renaming
<1>7. CASE RenameReceipt
  BY <1>7 DEF RenameReceipt, Finals, Renaming
<1>8. CASE PowerLoss
  BY <1>8
<1> QED BY <1>1, <1>2, <1>3, <1>4, <1>5, <1>6, <1>7, <1>8 DEF Next, Step

\* What survives after a step survived before it, was being renamed, or is
\* what the power loss left of it; files of one directory survive together.
LEMMA ViewsEvolve ==
    ASSUME TypeOK, [Next]_vars, NEW d \in Dirs, NEW v \in Views(d)'
    PROVE  \E w \in Views(d) : \A f \in Finals : DirOf[f] = d =>
              \/ v[f] \in {w[f], Settled(w[f])}
              \/ w = ent /\ v = ent' /\ Renaming(f, v[f])
<1> DEFINE Evolves == \E w \in Views(d) : \A f \in Finals : DirOf[f] = d =>
              \/ v[f] \in {w[f], Settled(w[f])}
              \/ w = ent /\ v = ent' /\ Renaming(f, v[f])
<1> SUFFICES Evolves
  OBVIOUS
<1>0. /\ past \in [Dirs -> SUBSET Entries] /\ ent \in Entries /\ ent \in Views(d)
      /\ \A f \in Finals : f \in Paths /\ f # "partial" /\ f # "spool"
  BY DEF TypeOK, Views, Paths, Finals
<1>a. v \in Views(d) => Evolves
  OBVIOUS
<1>b. ASSUME NEW f \in Paths, NEW new, Install(f, new) PROVE (v = ent' /\ v = new) \/ v \in Views(d)
  <2>1. past'[d] \subseteq past[d] \cup {ent} /\ ent' = new
    BY <1>0, <1>b, DirAssumption DEF Install
  <2> QED BY <2>1 DEF Views
<1>c. ASSUME v = ent', \A f \in Finals : v[f] = ent[f] \/ Renaming(f, v[f]) PROVE Evolves
  BY <1>0, <1>c
<1>1. CASE UNCHANGED <<ent, past>>
  BY <1>1, <1>a DEF Views
<1>2. ASSUME NEW f \in Finals, SyncDir(f) PROVE Evolves
  <2>1. past'[d] \subseteq past[d] /\ ent' = ent
    BY <1>0, <1>2 DEF SyncDir
  <2> QED BY <2>1, <1>a DEF Views
<1>3. ASSUME NEW f \in Finals, OpenPartial(f) PROVE Evolves
  <2> DEFINE new == [ent EXCEPT !.partial = @ \cup {<<f, pid>>}]
  <2>1. \A g \in Finals : new[g] = ent[g]
    BY <1>0 DEF Entries, Finals
  <2>2. Install(f, new)
    BY <1>3 DEF OpenPartial
  <2> HIDE DEF new
  <2> QED BY <1>0, <2>1, <2>2, <1>a, <1>b, <1>c
<1>4. CASE Install("spool", [ent EXCEPT !.spool = TRUE])
  <2> DEFINE new == [ent EXCEPT !.spool = TRUE]
  <2>1. \A g \in Finals : new[g] = ent[g]
    BY <1>0 DEF Entries, Finals
  <2>2. Install("spool", new) /\ "spool" \in Paths
    BY <1>4 DEF Paths
  <2> HIDE DEF new
  <2> QED BY <1>0, <2>1, <2>2, <1>a, <1>b, <1>c
<1>5. ASSUME NEW f \in Finals, NEW file, Publish(f, file), Renaming(f, file) PROVE Evolves
  <2> DEFINE new == [ent EXCEPT ![f] = file, !.partial = @ \ {<<f, pid>>}]
  <2>1. new[f] = file /\ \A g \in Finals \ {f} : new[g] = ent[g]
    BY <1>0 DEF Entries, Finals
  <2>2. Install(f, new)
    BY <1>5 DEF Publish
  <2> HIDE DEF new
  <2> QED BY <1>0, <1>5, <2>1, <2>2, <1>a, <1>b, <1>c
<1>6. CASE PowerLoss
  <2>1. PICK view \in [Dirs -> UNION {Views(c) : c \in Dirs}] :
        /\ \A c \in Dirs : view[c] \in Views(c)
        /\ ent' = [spool     |-> view[DirOf["spool"]].spool,
                   progress  |-> Settled(view[DirOf["progress"]].progress),
                   statement |-> Settled(view[DirOf["statement"]].statement),
                   receipt   |-> Settled(view[DirOf["receipt"]].receipt),
                   partial   |-> {n \in Finals \X Pids : n \in view[DirOf[n[1]]].partial}]
    BY <1>6 DEF PowerLoss
  <2>2. past' = [c \in Dirs |-> {}]
    BY <1>6 DEF PowerLoss
  <2>3. v = ent'
    BY <2>2 DEF Views
  <2>4. view[d] \in Views(d)
    BY <2>1
  <2>5. \A f \in Finals : DirOf[f] = d => v[f] = Settled(view[d][f])
    BY <2>1, <2>3 DEF Finals
  <2> QED BY <2>4, <2>5
<1> HIDE DEF Evolves
<1>7. CASE \E f \in Finals : SyncDir(f) \/ OpenPartial(f)
  BY <1>2, <1>3, <1>7
<1>8. CASE \E f \in Finals, file \in {draft, File(draft.data.statement, TRUE)} :
               Publish(f, file) /\ Renaming(f, file)
  BY <1>5, <1>8
<1> QED BY <1>1, <1>4, <1>6, <1>7, <1>8, DirectorySteps

----------------------------------------------------------------------------
(* Room for a segment.                                                     *)

\* A segment that is not the last one fills its relation.
Full(c) == c.steps = Total \/ c.segments * Capacity <= c.steps

\* The prover counts full segments, as does every checkpoint that may survive.
CountsFull ==
    /\ Full(prover)
    /\ pc \in {"sync tail", "verify"} => ent.progress # None
    /\ \A v \in Views(ProgressDir) : v.progress # None =>
          /\ v.progress.flushed /\ v.progress.data # Junk
          /\ Full(v.progress.data.counters)

\* The counters in memory come from a new process, from the visible
\* checkpoint, or from one more segment.
LEMMA ProverSteps ==
    ASSUME TypeInv, [Next]_vars
    PROVE  \/ prover' \in {prover, NoCounters}
           \/ /\ pc = "verify" /\ ProgressMatches(ent.progress.data, spool.frames)
              /\ prover' = ent.progress.data.counters
           \/ AppendBody
<1>1. CASE \E p \in Pids, limit \in Limits : Start(p, limit) \/ Resume(p, limit)
  BY <1>1 DEF Start, Resume
<1>2. CASE VerifyPrefix
  BY <1>2 DEF VerifyPrefix, Exited, ProgressMatches
<1>3. CASE \/ SyncTruncation \/ Pause \/ AppendLength \/ SyncSpool
           \/ FlushProgress \/ FlushReceipt \/ KeepStatement \/ Kill \/ UNCHANGED vars
  BY <1>3 DEF SyncTruncation, Pause, AppendLength, SyncSpool, FlushProgress, FlushReceipt,
              Flush, KeepStatement, Kill, Exited, vars
<1>4. CASE \/ DraftProgress \/ RenameProgress \/ SyncProgress \/ DraftReceipt
           \/ DraftStatement \/ RenameStatement \/ SyncStatement
           \/ RenameReceipt \/ SyncReceipt \/ PowerLoss
  BY <1>4 DEF DraftProgress, RenameProgress, SyncProgress, DraftReceipt, DraftStatement,
              RenameStatement, SyncStatement, RenameReceipt, SyncReceipt, PowerLoss, Exited
<1> QED BY <1>1, <1>2, <1>3, <1>4 DEF Next, Step

\* resume looks at a checkpoint from its first step to its last.
LEMMA ResumeHasProgress ==
    ASSUME TypeInv, [Next]_vars, pc \in {"sync tail", "verify"} => ent.progress # None
    PROVE  (pc \in {"sync tail", "verify"} => ent.progress # None)'
<1> SUFFICES ASSUME pc' \in {"sync tail", "verify"} PROVE ent'.progress # None
  OBVIOUS
<1>1. CASE \E p \in Pids, limit \in Limits : Start(p, limit) \/ Resume(p, limit)
  BY <1>1 DEF Start, Resume, Goto
<1>2. CASE \/ SyncTruncation \/ VerifyPrefix \/ Pause \/ AppendLength \/ AppendBody \/ SyncSpool
           \/ FlushProgress \/ FlushReceipt \/ KeepStatement \/ Kill \/ UNCHANGED vars
  BY <1>2 DEF SyncTruncation, VerifyPrefix, Pause, AppendLength, AppendBody, SyncSpool,
              FlushProgress, FlushReceipt, Flush, KeepStatement, Kill, Exited, Goto, disk, vars
<1>3. CASE \/ DraftProgress \/ RenameProgress \/ SyncProgress \/ DraftReceipt
           \/ DraftStatement \/ RenameStatement \/ SyncStatement
           \/ RenameReceipt \/ SyncReceipt \/ PowerLoss
  BY <1>3 DEF DraftProgress, RenameProgress, SyncProgress, DraftReceipt, DraftStatement,
              RenameStatement, SyncStatement, RenameReceipt, SyncReceipt, PowerLoss, Exited, Goto
<1> QED BY <1>1, <1>2, <1>3 DEF Next, Step

\* One more segment is full, or it is the last.
LEMMA AppendBodyFull == ASSUME TypeInv, Full(prover), AppendBody PROVE Full(prover)'
<1>1. /\ prover.steps < Total /\ prover.steps \in 0..(Total - 1) /\ prover.segments \in Nat
      /\ at = SegmentEnd[prover.steps] /\ at \in 0..Total
  <2>1. pc = "append" /\ pc \in Proving
    BY DEF AppendBody, Proving, Labels
  <2>2. prover.steps < Total /\ at = SegmentEnd[prover.steps]
    BY <2>1 DEF TypeInv, ProverTracksSpool
  <2>3. prover.steps \in 0..Total /\ prover.segments \in Nat /\ at \in 0..Total
    BY DEF TypeInv, TypeOK, Counters
  <2> QED BY <2>2, <2>3, TotalAssumption
<1>2. prover'.segments = prover.segments + 1 /\ prover'.steps = at
  BY DEF AppendBody
<1>3. at = Total \/ at - prover.steps >= Capacity
  BY <1>1, CapacityAssumption
<1>4. (prover.segments + 1) * Capacity = prover.segments * Capacity + Capacity
  BY <1>1, CapacityAssumption
<1>5. prover.segments * Capacity <= prover.steps
  BY <1>1 DEF Full
<1>6. prover.segments * Capacity \in Nat
  BY <1>1, CapacityAssumption
<1>7. at = Total \/ prover.segments * Capacity + Capacity <= at
  BY <1>1, <1>3, <1>5, <1>6, CapacityAssumption
<1> QED BY <1>2, <1>4, <1>7 DEF Full

LEMMA NextCountsFull == TypeInv /\ CountsFull /\ [Next]_vars => CountsFull'
<1> SUFFICES ASSUME TypeInv, CountsFull, [Next]_vars PROVE CountsFull'
  OBVIOUS
<1>1. TypeInv' /\ TypeOK /\ ProgressDir \in Dirs /\ ent \in Views(ProgressDir)
  BY NextTypeInv, DirAssumption DEF TypeInv, ProgressDir, Paths, Finals, Views
<1>2. Full(NoCounters)
  BY CapacityAssumption, TotalAssumption DEF Full, NoCounters
<1>3. Full(prover)'
  <2>1. CASE prover' \in {prover, NoCounters}
    BY <1>2, <2>1 DEF CountsFull, Full
  <2>2. CASE pc = "verify" /\ prover' = ent.progress.data.counters
    BY <1>1, <2>2 DEF CountsFull, Full
  <2>3. CASE AppendBody
    BY <2>3, AppendBodyFull DEF CountsFull
  <2> QED BY <2>1, <2>2, <2>3, ProverSteps
<1>4. (pc \in {"sync tail", "verify"} => ent.progress # None)'
  BY ResumeHasProgress DEF CountsFull
<1>5. ASSUME NEW v \in Views(ProgressDir)', v.progress # None
      PROVE  /\ v.progress.flushed /\ v.progress.data # Junk
             /\ Full(v.progress.data.counters)
  <2>1. PICK w \in Views(ProgressDir) : \A f \in Finals : DirOf[f] = ProgressDir =>
              \/ v[f] \in {w[f], Settled(w[f])}
              \/ w = ent /\ v = ent' /\ Renaming(f, v[f])
    BY <1>1, ViewsEvolve
  <2>2. \/ v.progress \in {w.progress, Settled(w.progress)}
        \/ pc = "rename progress" /\ v.progress = draft
    BY <2>1 DEF Finals, ProgressDir, Renaming
  <2>3. CASE v.progress \in {w.progress, Settled(w.progress)}
    <3>1. w.progress # None
      BY <1>5, <2>3 DEF Settled
    <3>2. w.progress.flushed /\ v.progress = w.progress
      BY <2>3, <3>1 DEF CountsFull, Settled
    <3> QED BY <3>1, <3>2 DEF CountsFull
  <2>4. CASE pc = "rename progress" /\ v.progress = draft
    <3>1. draft = [data |-> [counters |-> prover, at |-> at], flushed |-> TRUE]
      BY <2>4 DEF TypeInv, DraftMatchesProver, File
    <3>a. draft.flushed = TRUE /\ draft.data = [counters |-> prover, at |-> at]
      BY <3>1
    <3>2. v.progress.flushed /\ v.progress.data = [counters |-> prover, at |-> at]
      BY <2>4, <3>a
    <3>3. v.progress.data \in Progress /\ v.progress.data.counters = prover
      BY <1>1, <3>2 DEF TypeOK, Progress
    <3> QED BY <3>2, <3>3, JunkAssumption DEF CountsFull
  <2> QED BY <2>2, <2>3, <2>4
<1> QED BY <1>3, <1>4, <1>5 DEF CountsFull

\* Fewer full segments than the limit fit below Total.
LEMMA Room ==
    ASSUME TypeOK, Full(prover), prover.steps < Total
    PROVE  prover.segments < MaxSegments
<1> SUFFICES ASSUME prover.segments >= MaxSegments PROVE FALSE
  BY PreflightAssumption DEF TypeOK, Counters
<1> DEFINE n == prover.segments
<1>1. n \in Nat /\ prover.steps \in Nat /\ n * Capacity <= prover.steps
  BY TotalAssumption DEF TypeOK, Counters, Full
<1> HIDE DEF n
<1>2. n >= MaxSegments
  BY DEF n
<1>3. n * Capacity >= MaxSegments * Capacity
  BY <1>1, <1>2, CapacityAssumption, PreflightAssumption
<1>4. n * Capacity \in Nat /\ MaxSegments * Capacity \in Nat
  BY <1>1, CapacityAssumption, PreflightAssumption
<1> QED BY <1>1, <1>3, <1>4, PreflightAssumption, TotalAssumption

\* preflight bounds Total by the rows of MaxSegments segments: no segment is
\* ever refused for their number, in whatever directories the files are, and
\* however often the prover is interrupted and resumed.
THEOREM AppendSafe == Spec => []AppendNeverRefused
<1> DEFINE I == TypeInv /\ CountsFull
<1>1. Init => I
  <2> SUFFICES ASSUME Init PROVE CountsFull
    BY InitTypeInv
  <2>1. Views(ProgressDir) = {ent} /\ ent.progress = None
    BY DirAssumption DEF Init, Views, ProgressDir, Paths, Finals
  <2>2. Full(prover)
    BY CapacityAssumption, TotalAssumption DEF Init, Full, NoCounters
  <2> QED BY <2>1, <2>2 DEF Init, CountsFull
<1>2. I /\ [Next]_vars => I'
  BY NextTypeInv, NextCountsFull
<1>3. I => AppendNeverRefused
  BY Room DEF TypeInv, CountsFull, AppendNeverRefused, AppendFits
<1> QED BY <1>1, <1>2, <1>3, PTL DEF Spec

----------------------------------------------------------------------------
(* What resume and a pause find.                                           *)

\* resume has cut the spool back to the frames the visible checkpoint counts.
TailCut ==
    pc \in {"sync tail", "verify"} =>
        /\ ~spool.torn
        /\ Len(spool.frames) = ent.progress.data.counters.segments

\* Where the prover stands between two segments, or past the last one.
Checkpointed == Proving \ {"append", "sync spool", "draft progress", "flush progress",
                           "rename progress"}

\* Between two segments the visible checkpoint is the prover's own.
PairComplete ==
    /\ pc \in Proving \ {"append"} => ~spool.torn
    /\ pc \in Checkpointed /\ prover.segments > 0 =>
          /\ ent.progress # None
          /\ ent.progress.data = [counters |-> prover, at |-> prover.steps]

\* The inductive invariant behind ResumeAccepted and PauseIsInspectable.
ResumeInvariant == InductiveInvariant /\ TailCut /\ PairComplete

\* The visible checkpoint is backed by the spool.
LEMMA VisibleBacked ==
    ASSUME InductiveInvariant, ent.progress # None
    PROVE  LET g == ent.progress.data
           IN  /\ Backed(g) /\ ent.spool /\ ValidProgress(g)
               /\ g \in Progress
               /\ g.counters.segments \in Nat
               /\ g.counters.bytes = FrameBytes * g.counters.segments
               /\ g.counters.segments <= Len(spool.frames)
               /\ Len(spool.frames) \in Nat
<1> DEFINE g == ent.progress.data
           k == g.counters.segments
<1>1. ent \in Views(ProgressDir) /\ TypeOK
  BY DEF Views, InductiveInvariant
<1>2. Backed(g) /\ ent.spool
  BY <1>1 DEF InductiveInvariant, CheckpointsOrdered, SurvivorsBacked, ProgressDir
<1>3. ValidProgress(g) /\ g # Junk
  BY <1>2 DEF Backed, ValidProgress
<1>4. g \in Progress /\ k \in Nat
  BY <1>1, <1>3, ViewsTyped
<1>5. spool.frames \in Seq(Frames \cup {Junk}) /\ Len(spool.frames) \in Nat
      /\ synced \in Nat /\ synced <= Len(spool.frames)
  BY <1>1, LenProperties DEF TypeOK
<1>6. k <= synced
  BY <1>2 DEF Backed
<1>7. k <= Len(spool.frames)
  BY <1>4, <1>5, <1>6
<1>8. k \in 0..Len(spool.frames)
  BY <1>4, <1>5, <1>7
<1>9. Len(SubSeq(spool.frames, 1, k)) = k
  BY <1>5, <1>8, Prefix
<1>10. SpoolCounters(SubSeq(spool.frames, 1, k)) = g.counters
  BY <1>2 DEF Backed, ProgressMatches
<1>11. g.counters.bytes = FrameBytes * k
  <2> DEFINE sub == SubSeq(spool.frames, 1, k)
  <2>1. SpoolCounters(sub).bytes = FrameBytes * Len(sub)
    BY DEF SpoolCounters
  <2> QED BY <1>9, <1>10, <2>1
<1> QED BY <1>2, <1>3, <1>4, <1>5, <1>7, <1>11

\* A spool of exactly the frames the checkpoint counts matches it.
LEMMA ExactMatches ==
    ASSUME InductiveInvariant, ent.progress # None,
           Len(spool.frames) = ent.progress.data.counters.segments
    PROVE  ProgressMatches(ent.progress.data, spool.frames)
<1>1. spool.frames \in Seq(Frames \cup {Junk})
  BY DEF InductiveInvariant, TypeOK
<1>2. SubSeq(spool.frames, 1, ent.progress.data.counters.segments) = spool.frames
  BY <1>1, WholePrefix
<1> QED BY <1>2, VisibleBacked DEF Backed

\* set_len leaves whole frames, as many as the checkpoint counts; a spool of
\* the checkpoint's length has no torn frame, because frames are even.
LEMMA ResumeCuts ==
    ASSUME InductiveInvariant, NEW p \in Pids, NEW limit \in Limits, Resume(p, limit)
    PROVE  TailCut'
<1> DEFINE k == ent.progress.data.counters.segments
           n == Len(spool.frames)
<1>1. ent.progress # None /\ ent' = ent
  BY DEF Resume
<1>2. /\ k \in Nat /\ n \in Nat /\ k <= n
      /\ ent.progress.data.counters.bytes = FrameBytes * k
  BY <1>1, VisibleBacked
<1>3. spool.frames \in Seq(Frames \cup {Junk}) /\ spool.torn \in BOOLEAN
  BY DEF InductiveInvariant, TypeOK
<1>4. CASE SpoolBytes = ent.progress.data.counters.bytes
  <2>1. FrameBytes * n + (IF spool.torn THEN 1 ELSE 0) = FrameBytes * k
    BY <1>2, <1>4 DEF SpoolBytes
  <2>2. ~spool.torn /\ n = k
    <3> HIDE DEF n, k
    <3> QED BY <1>2, <1>3, <2>1 DEF FrameBytes
  <2>3. spool' = spool
    BY <1>4 DEF Resume
  <2> QED BY <1>1, <2>2, <2>3 DEF TailCut
<1>5. CASE SpoolBytes # ent.progress.data.counters.bytes
  <2>1. (ent.progress.data.counters.bytes \div FrameBytes) = k
    <3> HIDE DEF k
    <3> QED BY <1>2, FramesOfBytes
  <2>2. spool' = [frames |-> SubSeq(spool.frames, 1, k), torn |-> FALSE]
    BY <1>5, <2>1 DEF Resume
  <2>3. k \in 0..n
    BY <1>2
  <2>4. Len(SubSeq(spool.frames, 1, k)) = k
    BY <1>3, <2>3, Prefix
  <2>5. spool'.frames = SubSeq(spool.frames, 1, k) /\ spool'.torn = FALSE
    BY <2>2
  <2> QED BY <1>1, <2>4, <2>5 DEF TailCut
<1> QED BY <1>4, <1>5

\* Only resume and its sync come before the verification.
LEMMA NextTailCut == ASSUME InductiveInvariant, TailCut, [Next]_vars PROVE TailCut'
<1>1. CASE \E p \in Pids, limit \in Limits : Start(p, limit)
  BY <1>1 DEF Start, Goto, TailCut
<1>2. CASE \E p \in Pids, limit \in Limits : Resume(p, limit)
  BY <1>2, ResumeCuts
<1>3. CASE SyncTruncation \/ UNCHANGED vars
  BY <1>3 DEF SyncTruncation, vars, TailCut
<1>4. CASE \/ VerifyPrefix \/ Pause \/ AppendLength \/ AppendBody \/ SyncSpool
           \/ FlushProgress \/ FlushReceipt \/ KeepStatement \/ Kill
  BY <1>4 DEF VerifyPrefix, Pause, AppendLength, AppendBody, SyncSpool,
              FlushProgress, FlushReceipt, Flush, KeepStatement, Kill, Exited, Goto, TailCut
<1>5. CASE \/ DraftProgress \/ RenameProgress \/ SyncProgress \/ DraftReceipt
           \/ DraftStatement \/ RenameStatement \/ SyncStatement
           \/ RenameReceipt \/ SyncReceipt \/ PowerLoss
  BY <1>5 DEF DraftProgress, RenameProgress, SyncProgress, DraftReceipt, DraftStatement,
              RenameStatement, SyncStatement, RenameReceipt, SyncReceipt, PowerLoss,
              Exited, Goto, TailCut
<1> QED BY <1>1, <1>2, <1>3, <1>4, <1>5 DEF Next, Step

\* Creating a name, or renaming another file, leaves the checkpoint visible.
LEMMA CheckpointStaysVisible ==
    ASSUME TypeOK, NEW f \in {"statement", "receipt"}, NEW file,
           OpenPartial("progress") \/ OpenPartial(f) \/ Publish(f, file) \/ SyncDir(f)
           \/ SyncDir("progress")
    PROVE  ent'.progress = ent.progress
<1>1. ent \in Entries
  BY DEF TypeOK
<1>2. CASE OpenPartial("progress") \/ OpenPartial(f)
  BY <1>1, <1>2 DEF OpenPartial, Install, Entries
<1>3. CASE Publish(f, file)
  BY <1>1, <1>3 DEF Publish, Install, Entries
<1>4. CASE SyncDir(f) \/ SyncDir("progress")
  BY <1>4 DEF SyncDir
<1> QED BY <1>2, <1>3, <1>4

\* A process that is gone, or has not verified its prefix, has nothing to show.
LEMMA PairBefore == ASSUME pc' \notin Proving PROVE PairComplete'
BY DEF PairComplete, Checkpointed

\* Whatever leaves the checkpoint and the prover alone keeps them a pair.
LEMMA PairStays ==
    ASSUME PairComplete, pc \in Proving, pc' \in Checkpointed => pc \in Checkpointed,
           pc # "append", spool'.torn = spool.torn, prover' = prover,
           pc' \in Checkpointed => ent'.progress = ent.progress
    PROVE  PairComplete'
BY DEF PairComplete

\* The prefix that resume verified is the checkpoint's, whole.
LEMMA VerifyPrefixPair ==
    ASSUME InductiveInvariant, TailCut, VerifyPrefix PROVE PairComplete'
<1>1. pc = "verify" /\ UNCHANGED <<spool, ent>>
  BY DEF VerifyPrefix, disk
<1>2. CASE ProgressMatches(ent.progress.data, spool.frames)
  <2> DEFINE g == ent.progress.data
  <2>1. ent.progress # None
    BY <1>1 DEF InductiveInvariant, CheckpointsOrdered
  <2>2. g \in Progress
    BY <2>1, VisibleBacked
  <2>3. prover' = SpoolCounters(spool.frames) /\ g.counters = SpoolCounters(spool.frames)
        /\ g.at = spool.frames[Len(spool.frames)].to
    BY <1>2 DEF VerifyPrefix, ProgressMatches
  <2>4. prover'.steps = spool.frames[Len(spool.frames)].to
    BY <2>3 DEF SpoolCounters
  <2>5. g.counters = prover' /\ g.at = prover'.steps
    BY <2>3, <2>4
  <2>6. g = [counters |-> prover', at |-> prover'.steps]
    <3> HIDE DEF g
    <3> QED BY <2>2, <2>5 DEF Progress
  <2>7. ~spool.torn
    BY <1>1 DEF TailCut
  <2> QED BY <1>1, <2>1, <2>6, <2>7 DEF PairComplete
<1>3. CASE ~ProgressMatches(ent.progress.data, spool.frames)
  BY <1>3, PairBefore DEF VerifyPrefix, Exited, Proving
<1> QED BY <1>2, <1>3

\* The rename makes the prover's counters the visible checkpoint.
LEMMA RenameProgressPair ==
    ASSUME InductiveInvariant, PairComplete, RenameProgress PROVE PairComplete'
<1>1. /\ pc = "rename progress" /\ pc \in Proving /\ ent \in Entries
      /\ spool' = spool /\ prover' = prover
      /\ ent' = [ent EXCEPT !["progress"] = draft, !.partial = @ \ {<<"progress", pid>>}]
  BY DEF RenameProgress, Publish, Install, Proving, Labels, InductiveInvariant, TypeOK
<1>2. ent'.progress = draft
  BY <1>1 DEF Entries
<1>3. draft = [data |-> [counters |-> prover, at |-> at], flushed |-> TRUE] /\ at = prover.steps
  BY <1>1 DEF InductiveInvariant, DraftMatchesProver, ProverTracksSpool, File
<1>4. draft.data = [counters |-> prover, at |-> prover.steps]
  BY <1>3
<1>5. draft \in [data : Progress \cup {Junk}, flushed : BOOLEAN]
  BY <1>3 DEF InductiveInvariant, TypeOK, Progress
<1>6. ent'.progress # None /\ ent'.progress.data = [counters |-> prover', at |-> prover'.steps]
  BY <1>1, <1>2, <1>4, <1>5, NoneAssumption
<1> QED BY <1>1, <1>6 DEF PairComplete

LEMMA NextPairComplete ==
    ASSUME InductiveInvariant, TailCut, PairComplete, [Next]_vars PROVE PairComplete'
<1>1. TypeOK
  BY DEF InductiveInvariant
<1>2. ASSUME NEW p \in Pids, NEW limit \in Limits, Start(p, limit) PROVE PairComplete'
  <2>1. spool' = [frames |-> <<>>, torn |-> FALSE] /\ prover' = NoCounters
    BY <1>2 DEF Start, EmptySpool, InductiveInvariant, ProverTracksSpool, Proving
  <2>2. spool'.torn = FALSE /\ prover'.segments = 0
    BY <2>1 DEF NoCounters
  <2> QED BY <2>2 DEF PairComplete
<1>3. CASE \E p \in Pids, limit \in Limits : Resume(p, limit)
  BY <1>3, PairBefore DEF Resume, Goto, Proving
<1>4. CASE SyncTruncation \/ Pause \/ Kill \/ SyncReceipt \/ PowerLoss
  BY <1>4, PairBefore DEF SyncTruncation, Pause, Kill, SyncReceipt, PowerLoss, Exited, Goto, Proving
<1>5. CASE VerifyPrefix
  BY <1>5, VerifyPrefixPair
<1>6. CASE AppendLength
  <2>1. CASE Exited
    BY <2>1, PairBefore DEF Exited, Proving
  <2>2. CASE ~Exited
    BY <1>6, <2>2 DEF AppendLength, Goto, PairComplete, Checkpointed
  <2> QED BY <2>1, <2>2
<1>7. CASE AppendBody
  <2>1. spool'.torn = FALSE /\ pc' = "sync spool"
    BY <1>7 DEF AppendBody, Goto
  <2> QED BY <2>1 DEF PairComplete, Checkpointed
<1>8. CASE SyncSpool \/ FlushProgress \/ FlushReceipt
  BY <1>8, PairStays DEF SyncSpool, FlushProgress, FlushReceipt, Flush, Goto, disk,
                         Checkpointed, Proving, Labels
<1>9. CASE DraftProgress \/ DraftReceipt \/ KeepStatement \/ DraftStatement
  <2>1. CASE Exited
    BY <2>1, PairBefore DEF Exited, Proving
  <2>2. CASE ~Exited
    <3>1. CASE DraftProgress
      BY <1>1, <2>2, <3>1, PairStays DEF DraftProgress, Goto, Checkpointed, Proving, Labels
    <3>2. CASE DraftReceipt
      BY <1>1, <2>2, <3>2, PairStays, CheckpointStaysVisible
         DEF DraftReceipt, Goto, Checkpointed, Proving, Labels
    <3>3. CASE KeepStatement
      BY <2>2, <3>3, PairStays DEF KeepStatement, Goto, disk, Checkpointed, Proving, Labels
    <3>4. CASE DraftStatement
      BY <1>1, <2>2, <3>4, PairStays, CheckpointStaysVisible
         DEF DraftStatement, Goto, Checkpointed, Proving, Labels
    <3> QED BY <1>9, <3>1, <3>2, <3>3, <3>4
  <2> QED BY <2>1, <2>2
<1>10. CASE RenameProgress
  BY <1>10, RenameProgressPair
<1>11. CASE SyncProgress \/ SyncStatement
  BY <1>1, <1>11, PairStays, CheckpointStaysVisible
     DEF SyncProgress, SyncStatement, Goto, Checkpointed, Proving, Labels
<1>12. CASE RenameStatement
  BY <1>1, <1>12, PairStays, CheckpointStaysVisible
     DEF RenameStatement, Goto, Checkpointed, Proving, Labels
<1>13. CASE RenameReceipt
  BY <1>1, <1>13, PairStays, CheckpointStaysVisible
     DEF RenameReceipt, Goto, Checkpointed, Proving, Labels
<1>14. CASE UNCHANGED vars
  BY <1>14 DEF vars, PairComplete
<1> QED BY <1>2, <1>3, <1>4, <1>5, <1>6, <1>7, <1>8, <1>9, <1>10, <1>11, <1>12, <1>13,
           <1>14 DEF Next, Step

\* The invariant behind both theorems below.
LEMMA ResumeHolds == ASSUME SameDirectory PROVE Spec => []ResumeInvariant
<1>1. Init => ResumeInvariant
  <2>1. Init => TailCut /\ PairComplete
    BY DEF Init, TailCut, PairComplete, Proving, Checkpointed
  <2> QED BY <2>1, InitInductive DEF ResumeInvariant
<1>2. ResumeInvariant /\ [Next]_vars => ResumeInvariant'
  BY NextOrdered, NextTailCut, NextPairComplete DEF ResumeInvariant
<1> QED BY <1>1, <1>2, PTL DEF Spec

\* Whatever a kill or a power loss leaves, resume accepts once it has cut the
\* tail: the lengths suffice, and the frames verify and match the checkpoint.
THEOREM ResumeSafe == ASSUME SameDirectory PROVE Spec => []ResumeAccepted
<1>1. ResumeInvariant => ResumeAccepted
  <2> SUFFICES ASSUME ResumeInvariant PROVE ResumeAccepted
    OBVIOUS
  <2>1. ASSUME pc = "verify" PROVE ProgressMatches(ent.progress.data, spool.frames)
    <3>1. ent.progress # None
      BY <2>1 DEF ResumeInvariant, InductiveInvariant, CheckpointsOrdered
    <3>2. Len(spool.frames) = ent.progress.data.counters.segments
      BY <2>1 DEF ResumeInvariant, TailCut
    <3> QED BY <3>1, <3>2, ExactMatches DEF ResumeInvariant
  <2>2. ASSUME ent.progress # None
        PROVE  /\ ValidProgress(ent.progress.data) /\ ent.spool
               /\ SpoolBytes >= ent.progress.data.counters.bytes
    <3> DEFINE k == ent.progress.data.counters.segments
               n == Len(spool.frames)
    <3>1. /\ ValidProgress(ent.progress.data) /\ ent.spool
          /\ ent.progress.data.counters.bytes = FrameBytes * k
          /\ k \in Nat /\ n \in Nat /\ k <= n
      BY <2>2, VisibleBacked DEF ResumeInvariant
    <3>2. FrameBytes * n + (IF spool.torn THEN 1 ELSE 0) >= FrameBytes * k
      <4> HIDE DEF n, k
      <4> QED BY <3>1 DEF FrameBytes
    <3> QED BY <3>1, <3>2 DEF SpoolBytes
  <2> QED BY <2>1, <2>2 DEF ResumeAccepted
<1> QED BY <1>1, ResumeHolds, PTL

\* A run that stops at its segment limit leaves a spool of exactly the frames
\* its checkpoint counts, so that read-only inspection accepts the pair.
THEOREM PauseSafe == ASSUME SameDirectory PROVE Spec => PauseIsInspectable
<1>1. ASSUME ResumeInvariant, Pause, prover.segments > 0 PROVE InspectAccepts'
  <2>1. pc = "proving" /\ prover.steps < Total /\ UNCHANGED <<spool, ent>>
    BY <1>1 DEF Pause, disk
  <2>2. /\ ~spool.torn /\ ent.progress # None
        /\ ent.progress.data = [counters |-> prover, at |-> prover.steps]
    BY <1>1, <2>1 DEF ResumeInvariant, PairComplete, Checkpointed, Proving, Labels
  <2>3. ent.progress.data.counters = prover
    BY <2>2
  <2>4. prover.segments = Len(spool.frames) /\ prover.bytes = FrameBytes * Len(spool.frames)
        /\ prover.steps \in 0..Total
    BY <1>1, <2>1 DEF ResumeInvariant, InductiveInvariant, ProverTracksSpool, Proving, Labels,
                      TypeOK, Counters
  <2>5. ValidProgress(ent.progress.data) /\ ent.spool
        /\ ProgressMatches(ent.progress.data, spool.frames)
    BY <1>1, <2>2, <2>3, <2>4, VisibleBacked, ExactMatches DEF ResumeInvariant
  <2>6. SpoolBytes = ent.progress.data.counters.bytes
    <3>1. Len(spool.frames) \in Nat
      BY <1>1, <2>2, VisibleBacked DEF ResumeInvariant
    <3> QED BY <2>2, <2>3, <2>4, <3>1 DEF SpoolBytes, FrameBytes
  <2>7. prover.steps <= Total /\ prover.steps # Total
    BY <2>1, <2>4, TotalAssumption
  <2>8. InspectAccepts
    BY <2>2, <2>3, <2>5, <2>6, <2>7 DEF InspectAccepts
  <2> QED BY <2>1, <2>8 DEF InspectAccepts, SpoolBytes
<1>2. ResumeInvariant /\ [Next]_vars => [Pause /\ prover.segments > 0 => InspectAccepts']_vars
  BY <1>1
<1> QED BY <1>2, ResumeHolds, PTL DEF Spec, PauseIsInspectable
=============================================================================
