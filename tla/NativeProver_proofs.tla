------------------------ MODULE NativeProver_proofs -------------------------
(***************************************************************************)
(* Proofs about the prover's durable protocol, for every number of         *)
(* transitions, segment layout, byte limit, set of process identifiers and *)
(* number of faults.                                                       *)
(***************************************************************************)
EXTENDS NativeProver, SequenceTheorems, TLAPS

\* The part of the invariant that needs nothing of the directories.
TypeInv == TypeOK /\ ProverTracksSpool /\ DraftMatchesProver

----------------------------------------------------------------------------
(* Directory operations keep the entries well typed.                       *)

\* Install and SyncDir keep past well typed when the new entries are.
LEMMA InstallType ==
    ASSUME TypeOK, NEW f \in Paths, NEW new \in Entries, Install(f, new)
    PROVE  ent' \in Entries /\ past' \in [Dirs -> SUBSET Entries]
BY DirAssumption DEF TypeOK, Install

\* Syncing a directory keeps the entries and the views typed.
LEMMA SyncDirType ==
    ASSUME TypeOK, NEW f \in Paths, SyncDir(f)
    PROVE  ent' \in Entries /\ past' \in [Dirs -> SUBSET Entries]
BY DirAssumption DEF TypeOK, SyncDir

\* The initial state satisfies the invariant.
LEMMA InitTypeInv == Init => TypeInv
<1> SUFFICES ASSUME Init PROVE TypeInv
    OBVIOUS
<1>1. TypeOK
  BY TotalAssumption, FaultsAssumption
  DEF Init, TypeOK, EmptySpool, NoCounters, Counters, Entries, FileOf, Labels
<1>2. ProverTracksSpool /\ DraftMatchesProver
  BY DEF Init, ProverTracksSpool, DraftMatchesProver, Proving
<1> QED BY <1>1, <1>2 DEF TypeInv

\* A process that exits leaves nothing in memory to constrain.
LEMMA ExitedTypeInv ==
    ASSUME TypeInv, Exited,
           spool' \in [frames : Seq(Frames \cup {Junk}), torn : BOOLEAN],
           synced' \in 0..Len(spool'.frames),
           ent' \in Entries, past' \in [Dirs -> SUBSET Entries],
           faults' \in 0..MaxFaults
    PROVE  TypeInv'
<1>1. TypeOK'
  <2>1. pc' \in Labels /\ pid' \in Pids \cup {None} /\ budget' \in Nat /\ at' \in 0..Total
    BY TotalAssumption DEF Exited, Labels
  <2>2. prover' \in Counters
    BY TotalAssumption DEF Exited, NoCounters, Counters
  <2>3. draft' \in FileOf(Progress) \cup FileOf(Receipts)
    BY DEF Exited, FileOf
  <2> QED BY <2>1, <2>2, <2>3 DEF TypeOK
<1>2. ProverTracksSpool' /\ DraftMatchesProver'
  BY DEF Exited, ProverTracksSpool, DraftMatchesProver, Proving
<1> QED BY <1>1, <1>2 DEF TypeInv

----------------------------------------------------------------------------
(* Each action preserves TypeInv.                                          *)

\* start leaves an empty spool and a prover with no counters.
LEMMA StartTypeInv ==
    ASSUME TypeInv, NEW p \in Pids, NEW limit \in Limits, Start(p, limit)
    PROVE  TypeInv'
<1>1. ent' \in Entries /\ past' \in [Dirs -> SUBSET Entries]
  <2>1. [ent EXCEPT !.spool = TRUE] \in Entries
    BY DEF TypeInv, TypeOK, Entries
  <2> QED BY <2>1, InstallType DEF TypeInv, Start, Paths
<1>2. TypeOK'
  <2>1. spool' \in [frames : Seq(Frames \cup {Junk}), torn : BOOLEAN] /\ synced' = 0
        /\ Len(spool'.frames) = 0
    BY DEF Start, EmptySpool
  <2>2. pc' \in Labels /\ pid' \in Pids /\ budget' \in Nat
    BY LimitsAssumption DEF Start, Goto, Labels
  <2> QED BY <1>1, <2>1, <2>2 DEF TypeInv, TypeOK, Start
<1>3. prover' = NoCounters /\ at' = 0
  BY DEF TypeInv, ProverTracksSpool, Start, Proving
<1>4. spool'.frames = <<>> /\ pc' = "proving" /\ pid' \in Pids
  BY DEF Start, EmptySpool, Goto
<1>5. ProverTracksSpool'
  BY <1>3, <1>4 DEF ProverTracksSpool, Proving, VerifySpool, NoCounters, Labels, FrameBytes
<1>6. DraftMatchesProver'
  BY <1>4 DEF DraftMatchesProver
<1> QED BY <1>2, <1>5, <1>6 DEF TypeInv

\* The first n elements of a sequence.
LEMMA Prefix ==
    ASSUME NEW S, NEW s \in Seq(S), NEW n \in 0..Len(s)
    PROVE  /\ SubSeq(s, 1, n) \in Seq(S)
           /\ Len(SubSeq(s, 1, n)) = n
           /\ \A i \in 1..n : SubSeq(s, 1, n)[i] = s[i]
<1>1. 1 \in Int /\ n \in Int /\ n <= Len(s) /\ Len(s) \in Nat /\ n - 1 + 1 = n
  BY LenProperties
<1>2. \A i \in 1..n : s[i] \in S
  BY <1>1, ElementOfSeq
<1>3. /\ SubSeq(s, 1, n) \in Seq(S)
      /\ Len(SubSeq(s, 1, n)) = IF 1 <= n THEN n - 1 + 1 ELSE 0
      /\ \A i \in 1..(n - 1 + 1) : SubSeq(s, 1, n)[i] = s[1 + i - 1]
  BY <1>1, <1>2, SubSeqProperties
<1> QED BY <1>1, <1>3

\* resume cuts the spool to a prefix of whole frames.
LEMMA ResumeTypeInv ==
    ASSUME TypeInv, NEW p \in Pids, NEW limit \in Limits, Resume(p, limit)
    PROVE  TypeInv'
<1> USE DEF TypeInv
<1> DEFINE bytes == ent.progress.data.counters.bytes
           kept == bytes \div FrameBytes
<1>1. bytes \in Nat
  BY DEF TypeOK, Entries, FileOf, Progress, Counters, Resume, ValidProgress
<1>2. spool' \in [frames : Seq(Frames \cup {Junk}), torn : BOOLEAN]
      /\ synced' \in 0..Len(spool'.frames) /\ pc' \in {"verify", "sync tail"}
  <2>1. CASE SpoolBytes = bytes
    BY <2>1 DEF TypeOK, Resume, Goto
  <2>2. CASE SpoolBytes # bytes
    <3>1. spool.frames \in Seq(Frames \cup {Junk}) /\ synced \in 0..Len(spool.frames)
      BY DEF TypeOK
    <3>2. Len(spool.frames) \in Nat
      BY <3>1, LenProperties
    <3>3. kept \in 0..Len(spool.frames)
      <4>1. SpoolBytes \in 0..(2 * Len(spool.frames) + 1)
        <5>1. CASE spool.torn
          BY <3>2, <5>1 DEF SpoolBytes, FrameBytes
        <5>2. CASE ~spool.torn
          BY <3>2, <5>2 DEF SpoolBytes, FrameBytes
        <5> QED BY <5>1, <5>2
      <4>2. SpoolBytes >= bytes
        BY DEF Resume
      <4> QED BY <1>1, <3>2, <4>1, <4>2 DEF FrameBytes
    <3>4. SubSeq(spool.frames, 1, kept) \in Seq(Frames \cup {Junk})
          /\ Len(SubSeq(spool.frames, 1, kept)) = kept
      BY <3>1, <3>3, Prefix
    <3>5. /\ spool' = [frames |-> SubSeq(spool.frames, 1, kept), torn |-> FALSE]
          /\ synced' = IF synced < kept THEN synced ELSE kept
          /\ pc' = "sync tail"
      BY <2>2 DEF Resume, Goto
    <3> HIDE DEF kept
    <3>6. spool'.frames = SubSeq(spool.frames, 1, kept) /\ Len(spool'.frames) = kept
      BY <3>4, <3>5
    <3>7. synced' \in 0..kept
      <4>1. synced \in Nat /\ kept \in Nat
        BY <3>1, <3>2, <3>3
      <4>2. synced' = IF synced < kept THEN synced ELSE kept
        BY <3>5
      <4> QED BY <4>1, <4>2
    <3> QED BY <3>4, <3>5, <3>6, <3>7
  <2> QED BY <2>1, <2>2
<1>3. TypeOK'
  BY <1>2, LimitsAssumption DEF TypeOK, Resume, Labels
<1>4. ProverTracksSpool' /\ DraftMatchesProver'
  BY <1>2 DEF Resume, ProverTracksSpool, DraftMatchesProver, Proving
<1> QED BY <1>3, <1>4

\* A synced file: its length is within its own bounds.
LEMMA WholeLength == ASSUME NEW n \in Nat PROVE n \in 0..n
OBVIOUS

\* sync_all after set_len covers exactly the frames kept.
LEMMA SyncTruncationTypeInv == ASSUME TypeInv, SyncTruncation PROVE TypeInv'
<1> USE DEF TypeInv, SyncTruncation, Goto
<1>1. Len(spool.frames) \in Nat
  BY LenProperties DEF TypeOK
<1>2. synced' \in 0..Len(spool'.frames)
  <2>1. synced' = Len(spool.frames) /\ spool' = spool
    OBVIOUS
  <2>2. Len(spool.frames) \in 0..Len(spool.frames)
    BY <1>1, WholeLength
  <2> QED BY <2>1, <2>2
<1>3. TypeOK'
  BY <1>2 DEF TypeOK, Labels
<1>4. ProverTracksSpool' /\ DraftMatchesProver'
  BY DEF ProverTracksSpool, DraftMatchesProver, Proving
<1> QED BY <1>3, <1>4

\* The recovered counters are those of the frames in the spool.
LEMMA VerifyPrefixTypeInv == ASSUME TypeInv, VerifyPrefix PROVE TypeInv'
<1> USE DEF TypeInv
<1> DEFINE frames == spool.frames
<1>1. CASE ProgressMatches(ent.progress.data, frames)
  <2>1. frames \in Seq(Frames \cup {Junk}) /\ Len(frames) \in Nat /\ Len(frames) > 0
    BY <1>1, LenProperties DEF TypeOK, ProgressMatches
  <2>2. Len(frames) \in 1..Len(frames)
    BY <2>1
  <2>3. frames[Len(frames)] \in Frames
    BY <1>1, <2>1, <2>2, ElementOfSeq DEF ProgressMatches, VerifySpool
  <2>4. frames[Len(frames)].to \in 0..Total
    BY <2>3 DEF Frames
  <2>5. /\ prover' = [segments |-> Len(frames), steps |-> frames[Len(frames)].to,
                      bytes |-> FrameBytes * Len(frames)]
        /\ at' = frames[Len(frames)].to
        /\ pc' = "proving"
        /\ UNCHANGED <<spool, synced, ent, past, pid, budget, draft, faults>>
    BY <1>1 DEF VerifyPrefix, ProgressMatches, SpoolCounters, Goto, disk
  <2>6. prover' \in Counters
    BY <2>1, <2>4, <2>5 DEF Counters, FrameBytes
  <2>7. TypeOK'
    BY <2>4, <2>5, <2>6 DEF TypeOK, Labels
  <2>8. VerifySpool(frames)
    BY <1>1 DEF ProgressMatches
  <2>9. ProverTracksSpool'
    <3>1. VerifySpool(spool'.frames)
      BY <2>5, <2>8
    <3>2. /\ prover'.segments = Len(spool'.frames)
          /\ prover'.bytes = FrameBytes * Len(spool'.frames)
          /\ prover'.steps = spool'.frames[Len(spool'.frames)].to
          /\ at' = prover'.steps
          /\ Len(spool'.frames) # 0
      BY <2>1, <2>5
    <3>3. pid' \in Pids
      BY <2>5 DEF VerifyPrefix, ProverTracksSpool
    <3> QED BY <2>5, <3>1, <3>2, <3>3 DEF ProverTracksSpool, Proving, Labels
  <2>10. DraftMatchesProver'
    BY <2>5 DEF DraftMatchesProver
  <2> QED BY <2>7, <2>9, <2>10
<1>2. CASE ~ProgressMatches(ent.progress.data, frames)
  BY <1>2, ExitedTypeInv DEF VerifyPrefix, TypeOK, disk
<1> QED BY <1>1, <1>2

\* A run that stops at its segment limit ends like any other.
LEMMA PauseTypeInv == ASSUME TypeInv, Pause PROVE TypeInv'
BY ExitedTypeInv DEF TypeInv, Pause, TypeOK, disk

\* So does a process that is killed.
LEMMA KillTypeInv == ASSUME TypeInv, Kill PROVE TypeInv'
<1>1. faults' \in 0..MaxFaults
  BY FaultsAssumption DEF TypeInv, TypeOK, Kill
<1> QED BY <1>1, ExitedTypeInv DEF TypeInv, Kill, TypeOK, disk

\* The length word of a frame leaves the whole frames alone; the builder is one segment ahead.
LEMMA AppendLengthTypeInv == ASSUME TypeInv, AppendLength PROVE TypeInv'
<1> USE DEF TypeInv
<1>1. CASE AppendFits
  <2>1. pc' = "append" /\ pc = "proving" /\ prover.steps < Total /\ budget > 0
        /\ UNCHANGED <<synced, ent, past, pid, prover, budget, draft, faults>>
    BY <1>1 DEF AppendLength, Goto
  <2>2. at = prover.steps /\ at \in 0..Total
    BY <2>1 DEF ProverTracksSpool, Proving, Labels, TypeOK
  <2>3. at' = SegmentEnd[prover.steps] /\ at' \in 0..Total
    <3>1. at \in 0..(Total - 1)
      BY <2>1, <2>2, TotalAssumption
    <3>2. at' = SegmentEnd[at]
      BY <1>1 DEF AppendLength
    <3> QED BY <2>2, <3>1, <3>2, SegmentEndAssumption
  <2>4. spool' \in [frames : Seq(Frames \cup {Junk}), torn : BOOLEAN]
        /\ spool'.frames = spool.frames
    BY <1>1 DEF AppendLength, TypeOK
  <2>5. TypeOK'
    BY <2>1, <2>3, <2>4 DEF TypeOK, Labels
  <2>6. ProverTracksSpool'
    BY <1>1, <2>1, <2>3, <2>4 DEF ProverTracksSpool, Proving, Labels, VerifySpool, AppendFits
  <2>7. DraftMatchesProver'
    BY <2>1 DEF DraftMatchesProver
  <2> QED BY <2>5, <2>6, <2>7
<1>2. CASE ~AppendFits
  BY <1>2, ExitedTypeInv DEF AppendLength, TypeOK
<1> QED BY <1>1, <1>2

\* append extends a verified spool by a frame that continues it.
LEMMA AppendBodyTypeInv == ASSUME TypeInv, AppendBody PROVE TypeInv'
<1> USE DEF TypeInv
<1> DEFINE old == spool.frames
           frame == [index |-> prover.segments, from |-> prover.steps, to |-> at]
           new == Append(old, frame)
<1>1. /\ pc = "append" /\ pc' = "sync spool"
      /\ spool' = [frames |-> new, torn |-> FALSE]
      /\ prover' = [segments |-> prover.segments + 1, steps |-> at,
                    bytes |-> prover.bytes + FrameBytes]
      /\ budget' = budget - 1
      /\ UNCHANGED <<synced, ent, past, pid, at, draft, faults>>
  BY DEF AppendBody, Goto
<1>2. old \in Seq(Frames \cup {Junk}) /\ Len(old) \in Nat
  BY LenProperties DEF TypeOK
<1>3. frame \in Frames
  BY DEF TypeOK, Counters, Frames
<1>4. /\ new \in Seq(Frames \cup {Junk}) /\ Len(new) = Len(old) + 1
      /\ \A i \in 1..Len(old) : new[i] = old[i]
      /\ new[Len(old) + 1] = frame
  BY <1>2, <1>3, AppendProperties
<1>5. /\ VerifySpool(old) /\ prover.segments = Len(old) /\ prover.bytes = FrameBytes * Len(old)
      /\ prover.steps = IF Len(old) = 0 THEN 0 ELSE old[Len(old)].to
      /\ at = SegmentEnd[prover.steps] /\ prover.steps < Total /\ budget > 0 /\ AppendFits
  BY <1>1 DEF ProverTracksSpool, Proving, Labels
<1>6. at \in 1..Total
  <2>1. prover.steps \in 0..(Total - 1)
    BY <1>5, TotalAssumption DEF TypeOK, Counters
  <2> QED BY <1>5, <2>1, SegmentEndAssumption
<1>7. TypeOK'
  <2>1. spool' \in [frames : Seq(Frames \cup {Junk}), torn : BOOLEAN] /\ spool'.frames = new
    BY <1>1, <1>4
  <2>2. synced \in 0..Len(new)
    BY <1>2, <1>4 DEF TypeOK
  <2>3. prover' \in Counters
    <3>1. prover.segments + 1 \in Nat /\ prover.bytes + FrameBytes \in Nat /\ at \in 0..Total
      BY <1>2, <1>5 DEF TypeOK, Counters, FrameBytes
    <3> QED BY <1>1, <3>1 DEF Counters
  <2>4. budget' \in Nat
    <3>1. budget \in Nat /\ budget > 0 /\ budget' = budget - 1
      BY <1>1, <1>5 DEF TypeOK
    <3> QED BY <3>1
  <2> QED BY <1>1, <2>1, <2>2, <2>3, <2>4 DEF TypeOK, Labels
<1>8. VerifySpool(new)
  <2> SUFFICES ASSUME NEW i \in 1..Len(new)
               PROVE  /\ new[i] # Junk
                      /\ new[i].index = i - 1
                      /\ new[i].from = IF i = 1 THEN 0 ELSE new[i - 1].to
    BY DEF VerifySpool
  <2>1. CASE i = Len(old) + 1
    <3>1. new[i] = frame /\ i - 1 = Len(old)
      BY <1>2, <1>4, <2>1
    <3>2. new[i] # Junk
      BY <1>3, <3>1, JunkAssumption
    <3>3. new[i].index = i - 1 /\ new[i].from = prover.steps
      BY <1>5, <3>1
    <3>4. CASE i = 1
      <4>1. Len(old) = 0
        BY <1>2, <2>1, <3>4
      <4>2. prover.steps = 0
        BY <1>5, <4>1
      <4> HIDE DEF new
      <4> QED BY <3>2, <3>3, <3>4, <4>2
    <3>5. CASE i # 1
      <4>1. i - 1 \in 1..Len(old) /\ Len(old) # 0
        BY <1>2, <2>1, <3>5
      <4>2. new[i - 1] = old[Len(old)]
        BY <1>4, <3>1, <4>1
      <4> QED BY <1>5, <3>2, <3>3, <3>5, <4>1, <4>2
    <3> QED BY <3>4, <3>5
  <2>2. CASE i # Len(old) + 1
    <3>1. i \in 1..Len(old)
      BY <1>2, <1>4, <2>2
    <3>2. new[i] = old[i] /\ (i # 1 => i - 1 \in 1..Len(old) /\ new[i - 1] = old[i - 1])
      BY <1>2, <1>4, <3>1
    <3> QED BY <1>5, <3>1, <3>2 DEF VerifySpool
  <2> QED BY <2>1, <2>2
<1>9. ProverTracksSpool'
  <2>1. VerifySpool(spool'.frames)
    BY <1>1, <1>8
  <2>2. spool'.frames = new /\ prover'.segments = Len(old) + 1
        /\ prover'.bytes = 2 * Len(old) + 2 /\ prover'.steps = at /\ at' = at
    BY <1>1, <1>5 DEF FrameBytes
  <2> HIDE DEF new
  <2>3. /\ prover'.segments = Len(spool'.frames)
        /\ prover'.bytes = FrameBytes * Len(spool'.frames)
        /\ Len(spool'.frames) # 0
    <3>1. Len(new) = Len(old) + 1
      BY <1>4
    <3>2. Len(spool'.frames) = Len(old) + 1
      BY <2>2, <3>1
    <3> HIDE DEF old
    <3> QED BY <1>2, <2>2, <3>2 DEF FrameBytes
  <2>4. prover'.steps = spool'.frames[Len(spool'.frames)].to /\ at' = prover'.steps
    <3>1. new[Len(new)] = frame
      BY <1>4
    <3>2. frame.to = at
      OBVIOUS
    <3> HIDE DEF frame
    <3> QED BY <2>2, <3>1, <3>2
  <2>5. prover'.segments \in 1..MaxSegments /\ prover'.bytes \in 1..MaxStreamBytes
    <3>1. Len(old) < MaxSegments /\ 2 * Len(old) + 2 <= MaxStreamBytes
      BY <1>5 DEF AppendFits, FrameBytes
    <3> QED BY <1>2, <2>2, <3>1, PreflightAssumption, BytesAssumption
  <2>6. prover'.steps > 0
    BY <1>6, <2>2
  <2> QED BY <1>1, <2>1, <2>3, <2>4, <2>5, <2>6 DEF ProverTracksSpool, Proving, Labels
<1>10. DraftMatchesProver'
  BY <1>1 DEF DraftMatchesProver
<1> QED BY <1>7, <1>9, <1>10

\* sync_spool covers every whole frame.
LEMMA SyncSpoolTypeInv == ASSUME TypeInv, SyncSpool PROVE TypeInv'
<1> USE DEF TypeInv
<1>1. /\ pc = "sync spool" /\ pc' = "draft progress" /\ synced' = Len(spool.frames)
      /\ UNCHANGED <<spool, ent, past, pid, prover, at, budget, draft, faults>>
  BY DEF SyncSpool, Goto
<1>2. Len(spool.frames) \in 0..Len(spool.frames)
  BY LenProperties, WholeLength DEF TypeOK
<1>3. TypeOK'
  BY <1>1, <1>2 DEF TypeOK, Labels
<1>4. ProverTracksSpool'
  BY <1>1 DEF ProverTracksSpool, Proving, Labels, VerifySpool
<1>5. DraftMatchesProver'
  BY <1>1 DEF DraftMatchesProver
<1> QED BY <1>3, <1>4, <1>5

\* Between two appends the spool and the counters stand still.
LEMMA StaysProving ==
    ASSUME ProverTracksSpool, UNCHANGED <<spool, pid, prover, at>>,
           pc \in Proving \ {"append"}, pc' \in Proving \ {"append"},
           pc' \in {"sync spool", "draft progress", "flush progress", "rename progress"} =>
               pc \in {"sync spool", "draft progress", "flush progress", "rename progress"}
    PROVE  ProverTracksSpool'
<1>1. VerifySpool(spool.frames) => VerifySpool(spool'.frames)
  OBVIOUS
<1>2. pc # "idle" /\ pc \in Proving /\ pc' \in Proving /\ pc # "append" /\ pc' # "append"
  BY DEF Proving
<1> QED BY <1>1, <1>2 DEF ProverTracksSpool

\* A partial file is created in the directory of its final path.
LEMMA OpenPartialType ==
    ASSUME TypeInv, NEW f \in Finals, pc # "idle", OpenPartial(f)
    PROVE  ent' \in Entries /\ past' \in [Dirs -> SUBSET Entries]
<1>1. <<f, pid>> \in Finals \X Pids
  BY DEF TypeInv, ProverTracksSpool
<1>2. [ent EXCEPT !.partial = @ \cup {<<f, pid>>}] \in Entries
  BY <1>1 DEF TypeInv, TypeOK, Entries
<1> QED BY <1>2, InstallType DEF TypeInv, OpenPartial, Paths

\* write_progress drafts the counters in memory.
LEMMA DraftProgressTypeInv == ASSUME TypeInv, DraftProgress PROVE TypeInv'
<1> USE DEF TypeInv
<1>1. CASE PartialFree("progress")
  <2>1. /\ pc = "draft progress" /\ pc' = "flush progress" /\ OpenPartial("progress")
        /\ draft' = File([counters |-> prover, at |-> at], FALSE)
        /\ UNCHANGED <<spool, synced, pid, prover, at, budget, faults>>
    BY <1>1 DEF DraftProgress, Goto
  <2>2. ent' \in Entries /\ past' \in [Dirs -> SUBSET Entries]
    BY <2>1, OpenPartialType DEF Finals
  <2>3. draft' \in FileOf(Progress)
    BY <2>1 DEF TypeOK, File, FileOf, Progress
  <2>4. TypeOK'
    BY <2>1, <2>2, <2>3 DEF TypeOK, Labels
  <2>5. ProverTracksSpool'
    BY <2>1, StaysProving DEF Proving, Labels
  <2>6. DraftMatchesProver'
    BY <2>1 DEF DraftMatchesProver, File
  <2> QED BY <2>4, <2>5, <2>6
<1>2. CASE ~PartialFree("progress")
  BY <1>2, ExitedTypeInv DEF DraftProgress, TypeOK
<1> QED BY <1>1, <1>2

\* The draft is on stable storage before it is renamed.
LEMMA FlushProgressTypeInv == ASSUME TypeInv, FlushProgress PROVE TypeInv'
<1> USE DEF TypeInv
<1>1. /\ pc = "flush progress" /\ pc' = "rename progress"
      /\ draft' = [draft EXCEPT !.flushed = TRUE]
      /\ UNCHANGED <<spool, synced, ent, past, pid, prover, at, budget, faults>>
  BY DEF FlushProgress, Flush, Goto, disk
<1>2. draft = [data |-> [counters |-> prover, at |-> at], flushed |-> FALSE]
  BY <1>1 DEF DraftMatchesProver, File
<1>3. draft' = [data |-> [counters |-> prover, at |-> at], flushed |-> TRUE]
  BY <1>1, <1>2
<1>4. draft' \in FileOf(Progress)
  BY <1>3 DEF TypeOK, FileOf, Progress
<1>5. TypeOK'
  BY <1>1, <1>4 DEF TypeOK, Labels
<1>6. ProverTracksSpool'
  BY <1>1, StaysProving DEF Proving, Labels
<1>7. DraftMatchesProver'
  BY <1>1, <1>3 DEF DraftMatchesProver, File
<1> QED BY <1>5, <1>6, <1>7

\* A rename puts a well-typed file at its final path.
LEMMA PublishType ==
    ASSUME TypeInv, NEW f \in Finals, NEW file, Publish(f, file),
           f = "progress" => file \in FileOf(Progress),
           f = "statement" => file \in FileOf(Statements),
           f = "receipt" => file \in FileOf(Receipts)
    PROVE  ent' \in Entries /\ past' \in [Dirs -> SUBSET Entries]
<1>1. [ent EXCEPT ![f] = file, !.partial = @ \ {<<f, pid>>}] \in Entries
  <2>1. CASE f = "progress"
    BY <2>1 DEF TypeInv, TypeOK, Entries
  <2>2. CASE f = "statement"
    BY <2>2 DEF TypeInv, TypeOK, Entries
  <2>3. CASE f = "receipt"
    BY <2>3 DEF TypeInv, TypeOK, Entries
  <2> QED BY <2>1, <2>2, <2>3 DEF Finals
<1> QED BY <1>1, InstallType DEF TypeInv, Publish, Paths

\* The rename installs a checkpoint and consumes the partial file.
LEMMA RenameProgressTypeInv == ASSUME TypeInv, RenameProgress PROVE TypeInv'
<1> USE DEF TypeInv
<1>1. /\ pc = "rename progress" /\ pc' = "sync progress" /\ draft' = None
      /\ Publish("progress", draft)
      /\ UNCHANGED <<spool, synced, pid, prover, at, budget, faults>>
  BY DEF RenameProgress, Goto
<1>2. draft \in FileOf(Progress)
  <2>1. draft = [data |-> [counters |-> prover, at |-> at], flushed |-> TRUE]
    BY <1>1 DEF DraftMatchesProver, File
  <2> QED BY <2>1 DEF TypeOK, FileOf, Progress
<1>3. ent' \in Entries /\ past' \in [Dirs -> SUBSET Entries]
  BY <1>1, <1>2, PublishType DEF Finals
<1>4. TypeOK'
  BY <1>1, <1>3 DEF TypeOK, Labels, FileOf
<1>5. ProverTracksSpool'
  BY <1>1, StaysProving DEF Proving, Labels
<1>6. DraftMatchesProver'
  BY <1>1 DEF DraftMatchesProver
<1> QED BY <1>4, <1>5, <1>6

\* Syncing the directory of the checkpoint returns to the segment loop.
LEMMA SyncProgressTypeInv == ASSUME TypeInv, SyncProgress PROVE TypeInv'
<1> USE DEF TypeInv
<1>1. /\ pc = "sync progress" /\ pc' = "proving" /\ SyncDir("progress")
      /\ UNCHANGED <<spool, synced, pid, prover, at, budget, draft, faults>>
  BY DEF SyncProgress, Goto
<1>2. ent' \in Entries /\ past' \in [Dirs -> SUBSET Entries]
  BY <1>1, SyncDirType DEF Paths, Finals
<1>3. TypeOK'
  BY <1>1, <1>2 DEF TypeOK, Labels
<1>4. ProverTracksSpool'
  BY <1>1, StaysProving DEF Proving, Labels
<1>5. DraftMatchesProver'
  BY <1>1 DEF DraftMatchesProver
<1> QED BY <1>3, <1>4, <1>5

\* The frames a verified spool holds are frames, none of them lost content.
LEMMA VerifiedFrames ==
    ASSUME NEW frames \in Seq(Frames \cup {Junk}), VerifySpool(frames)
    PROVE  /\ \A i \in 1..Len(frames) : frames[i] \in Frames
           /\ SubSeq(frames, 1, Len(frames)) \in Seq(Frames)
<1>1. \A i \in 1..Len(frames) : frames[i] \in Frames
  BY ElementOfSeq DEF VerifySpool
<1>2. 1 \in Int /\ Len(frames) \in Int
  BY LenProperties
<1> QED BY <1>1, <1>2, SubSeqProperties

\* finish drafts a statement and a copy of the frames, which have their types.
LEMMA DraftReceiptTypeInv == ASSUME TypeInv, DraftReceipt PROVE TypeInv'
<1> USE DEF TypeInv
<1> DEFINE frames == spool.frames
           free == EndpointMatches /\ PartialFree("receipt")
           fits == HeaderBytes + prover.bytes <= MaxStreamBytes
           content == [statement |-> Statement(frames),
                       frames |-> SubSeq(frames, 1, prover.segments)]
<1>1. CASE free /\ fits
  <2>1. /\ pc = "proving" /\ prover.steps = Total /\ pc' = "flush receipt"
        /\ OpenPartial("receipt") /\ draft' = File(content, FALSE)
        /\ UNCHANGED <<spool, synced, pid, prover, at, budget, faults>>
    BY <1>1 DEF DraftReceipt, Goto
  <2>2. ent' \in Entries /\ past' \in [Dirs -> SUBSET Entries]
    BY <2>1, OpenPartialType DEF Finals
  <2>3. /\ frames \in Seq(Frames \cup {Junk}) /\ Len(frames) \in Nat
        /\ VerifySpool(frames) /\ prover.segments = Len(frames) /\ Len(frames) # 0
    <3>1. frames \in Seq(Frames \cup {Junk}) /\ Len(frames) \in Nat
      BY LenProperties DEF TypeOK
    <3>2. prover.steps # 0
      BY <2>1, TotalAssumption
    <3> QED BY <2>1, <3>1, <3>2 DEF ProverTracksSpool, Proving, Labels
  <2>4. frames[1].from \in 0..Total
    <3>1. 1 \in 1..Len(frames)
      BY <2>3
    <3> QED BY <2>3, <3>1, VerifiedFrames DEF Frames
  <2>5. content \in Receipts
    <3>1. Statement(frames) \in Statements
      BY <2>4 DEF Statement, Statements, TypeOK, Counters
    <3>2. SubSeq(frames, 1, prover.segments) \in Seq(Frames)
      BY <2>3, VerifiedFrames
    <3> QED BY <3>1, <3>2 DEF Receipts
  <2> HIDE DEF content
  <2>6. draft' \in [data : Receipts, flushed : BOOLEAN]
    BY <2>1, <2>5 DEF File
  <2>7. TypeOK'
    BY <2>1, <2>2, <2>6 DEF TypeOK, Labels, FileOf
  <2>8. ProverTracksSpool'
    BY <2>1, StaysProving DEF Proving, Labels
  <2>9. DraftMatchesProver'
    BY <2>1, <2>6 DEF DraftMatchesProver
  <2> QED BY <2>7, <2>8, <2>9
<1>2. CASE free /\ ~fits
  <2>1. pc = "proving" /\ Exited /\ OpenPartial("receipt") /\ UNCHANGED <<spool, synced, faults>>
    BY <1>2 DEF DraftReceipt
  <2>2. ent' \in Entries /\ past' \in [Dirs -> SUBSET Entries]
    BY <2>1, OpenPartialType DEF Finals
  <2> QED BY <2>1, <2>2, ExitedTypeInv DEF TypeOK
<1>3. CASE ~free
  BY <1>3, ExitedTypeInv DEF DraftReceipt, TypeOK
<1> QED BY <1>1, <1>2, <1>3

\* The drafted receipt is unchanged by its sync.
LEMMA FlushReceiptTypeInv == ASSUME TypeInv, FlushReceipt PROVE TypeInv'
<1> USE DEF TypeInv
<1>1. /\ pc = "flush receipt" /\ pc' = "statement"
      /\ draft' = [draft EXCEPT !.flushed = TRUE]
      /\ UNCHANGED <<spool, synced, ent, past, pid, prover, at, budget, faults>>
  BY DEF FlushReceipt, Flush, Goto, disk
<1>2. draft' \in [data : Receipts, flushed : BOOLEAN]
  BY <1>1 DEF DraftMatchesProver
<1>3. TypeOK'
  BY <1>1, <1>2 DEF TypeOK, Labels, FileOf
<1>4. ProverTracksSpool'
  BY <1>1, StaysProving DEF Proving, Labels
<1>5. DraftMatchesProver'
  BY <1>1, <1>2 DEF DraftMatchesProver
<1> QED BY <1>3, <1>4, <1>5

\* finalize goes on beside an equal statement and ends beside another one.
LEMMA KeepStatementTypeInv == ASSUME TypeInv, KeepStatement PROVE TypeInv'
<1> USE DEF TypeInv
<1>1. CASE ent.statement.data = draft.data.statement
  <2>1. pc = "statement" /\ pc' = "rename receipt"
        /\ UNCHANGED <<spool, synced, ent, past, pid, prover, at, budget, draft, faults>>
    BY <1>1 DEF KeepStatement, Goto, disk
  <2>2. TypeOK'
    BY <2>1 DEF TypeOK, Labels
  <2>3. ProverTracksSpool'
    BY <2>1, StaysProving DEF Proving, Labels
  <2>4. DraftMatchesProver'
    BY <2>1 DEF DraftMatchesProver
  <2> QED BY <2>2, <2>3, <2>4
<1>2. CASE ent.statement.data # draft.data.statement
  BY <1>2, ExitedTypeInv DEF KeepStatement, TypeOK, disk
<1> QED BY <1>1, <1>2

\* write_new adds a partial file.
LEMMA DraftStatementTypeInv == ASSUME TypeInv, DraftStatement PROVE TypeInv'
<1> USE DEF TypeInv
<1>1. CASE PartialFree("statement")
  <2>1. pc = "statement" /\ pc' = "rename statement" /\ OpenPartial("statement")
        /\ UNCHANGED <<spool, synced, pid, prover, at, budget, draft, faults>>
    BY <1>1 DEF DraftStatement, Goto
  <2>2. ent' \in Entries /\ past' \in [Dirs -> SUBSET Entries]
    BY <2>1, OpenPartialType DEF Finals
  <2>3. TypeOK'
    BY <2>1, <2>2 DEF TypeOK, Labels
  <2>4. ProverTracksSpool'
    BY <2>1, StaysProving DEF Proving, Labels
  <2>5. DraftMatchesProver'
    BY <2>1 DEF DraftMatchesProver
  <2> QED BY <2>3, <2>4, <2>5
<1>2. CASE ~PartialFree("statement")
  BY <1>2, ExitedTypeInv DEF DraftStatement, TypeOK
<1> QED BY <1>1, <1>2

\* The statement installed is the one of the drafted receipt.
LEMMA RenameStatementTypeInv == ASSUME TypeInv, RenameStatement PROVE TypeInv'
<1> USE DEF TypeInv
<1>1. /\ pc = "rename statement" /\ pc' = "sync statement"
      /\ Publish("statement", File(draft.data.statement, TRUE))
      /\ UNCHANGED <<spool, synced, pid, prover, at, budget, draft, faults>>
  BY DEF RenameStatement, Goto
<1>2. File(draft.data.statement, TRUE) \in FileOf(Statements)
  BY <1>1 DEF DraftMatchesProver, Receipts, File, FileOf
<1>3. ent' \in Entries /\ past' \in [Dirs -> SUBSET Entries]
  BY <1>1, <1>2, PublishType DEF Finals
<1>4. TypeOK'
  BY <1>1, <1>3 DEF TypeOK, Labels
<1>5. ProverTracksSpool'
  BY <1>1, StaysProving DEF Proving, Labels
<1>6. DraftMatchesProver'
  BY <1>1 DEF DraftMatchesProver
<1> QED BY <1>4, <1>5, <1>6

\* Syncing the directory of the statement changes no entry.
LEMMA SyncStatementTypeInv == ASSUME TypeInv, SyncStatement PROVE TypeInv'
<1> USE DEF TypeInv
<1>1. /\ pc = "sync statement" /\ pc' = "rename receipt" /\ SyncDir("statement")
      /\ UNCHANGED <<spool, synced, pid, prover, at, budget, draft, faults>>
  BY DEF SyncStatement, Goto
<1>2. ent' \in Entries /\ past' \in [Dirs -> SUBSET Entries]
  BY <1>1, SyncDirType DEF Paths, Finals
<1>3. TypeOK'
  BY <1>1, <1>2 DEF TypeOK, Labels
<1>4. ProverTracksSpool'
  BY <1>1, StaysProving DEF Proving, Labels
<1>5. DraftMatchesProver'
  BY <1>1 DEF DraftMatchesProver
<1> QED BY <1>3, <1>4, <1>5

\* The receipt installed is the drafted one.
LEMMA RenameReceiptTypeInv == ASSUME TypeInv, RenameReceipt PROVE TypeInv'
<1> USE DEF TypeInv
<1>1. /\ pc = "rename receipt" /\ pc' = "sync receipt" /\ draft' = None
      /\ Publish("receipt", draft)
      /\ UNCHANGED <<spool, synced, pid, prover, at, budget, faults>>
  BY DEF RenameReceipt, Goto
<1>2. draft \in FileOf(Receipts)
  BY <1>1 DEF DraftMatchesProver, FileOf
<1>3. ent' \in Entries /\ past' \in [Dirs -> SUBSET Entries]
  BY <1>1, <1>2, PublishType DEF Finals
<1>4. TypeOK'
  BY <1>1, <1>3 DEF TypeOK, Labels, FileOf
<1>5. ProverTracksSpool'
  BY <1>1, StaysProving DEF Proving, Labels
<1>6. DraftMatchesProver'
  BY <1>1 DEF DraftMatchesProver
<1> QED BY <1>4, <1>5, <1>6

\* The last directory sync ends the process.
LEMMA SyncReceiptTypeInv == ASSUME TypeInv, SyncReceipt PROVE TypeInv'
<1>1. ent' \in Entries /\ past' \in [Dirs -> SUBSET Entries]
  BY SyncDirType DEF TypeInv, SyncReceipt, Paths, Finals
<1> QED BY <1>1, ExitedTypeInv DEF TypeInv, SyncReceipt, TypeOK

\* A file that comes back after a power loss keeps its type.
LEMMA SettledType ==
    ASSUME NEW S, NEW file \in FileOf(S)
    PROVE  Settled(file) \in FileOf(S)
BY DEF Settled, FileOf, File

\* What may be left of the spool: whole frames, and all of the synced ones.
LEMMA SpoolsAfterLossType ==
    ASSUME TypeOK, NEW s \in SpoolsAfterLoss
    PROVE  /\ s \in [frames : Seq(Frames \cup {Junk}), torn : BOOLEAN]
           /\ Len(s.frames) \in Nat
           /\ synced <= Len(s.frames)
           /\ \A i \in 1..synced : s.frames[i] = spool.frames[i]
<1> DEFINE after(n, kept) == [i \in 1..n |->
                 IF i <= synced \/ (i <= Len(spool.frames) /\ i \in kept)
                 THEN spool.frames[i] ELSE Junk]
<1>1. spool.frames \in Seq(Frames \cup {Junk}) /\ Len(spool.frames) \in Nat
      /\ synced \in 0..Len(spool.frames)
  BY LenProperties DEF TypeOK
<1>2a. PICK n \in synced..(Len(spool.frames) + 1) :
          s \in {[frames |-> after(n, k), torn |-> t] : k \in SUBSET ((synced + 1)..n), t \in BOOLEAN}
  BY DEF SpoolsAfterLoss
<1>2. PICK kept \in SUBSET ((synced + 1)..n), t \in BOOLEAN :
          s = [frames |-> after(n, kept), torn |-> t]
  <2> HIDE DEF after
  <2> QED BY <1>2a
<1>3. n \in Nat
  BY <1>1
<1>4. \A i \in 1..n : after(n, kept)[i] \in Frames \cup {Junk}
  <2> SUFFICES ASSUME NEW i \in 1..n PROVE after(n, kept)[i] \in Frames \cup {Junk}
    OBVIOUS
  <2>1. CASE i <= synced \/ (i <= Len(spool.frames) /\ i \in kept)
    <3>1. i \in 1..Len(spool.frames)
      BY <1>1, <1>3, <2>1
    <3> QED BY <1>1, <2>1, <3>1, ElementOfSeq
  <2>2. CASE ~(i <= synced \/ (i <= Len(spool.frames) /\ i \in kept))
    BY <2>2
  <2> QED BY <2>1, <2>2
<1>5. after(n, kept) \in [1..n -> Frames \cup {Junk}]
  BY <1>4
<1>6. after(n, kept) \in Seq(Frames \cup {Junk}) /\ Len(after(n, kept)) = n
  BY <1>3, <1>5
<1>7. \A i \in 1..synced : after(n, kept)[i] = spool.frames[i]
  BY <1>1, <1>3
<1> HIDE DEF after
<1> QED BY <1>1, <1>2, <1>3, <1>6, <1>7

\* Whatever mixture of views the directories come back with is typed.
LEMMA PowerLossTypeInv == ASSUME TypeInv, PowerLoss PROVE TypeInv'
<1> USE DEF TypeInv
<1>1. faults' \in 0..MaxFaults
  BY FaultsAssumption DEF PowerLoss, TypeOK
<1>2. past' \in [Dirs -> SUBSET Entries]
  BY DEF PowerLoss
<1>3. PICK view \in [Dirs -> UNION {Views(d) : d \in Dirs}] :
        /\ \A d \in Dirs : view[d] \in Views(d)
        /\ ent' = [spool     |-> view[DirOf["spool"]].spool,
                   progress  |-> Settled(view[DirOf["progress"]].progress),
                   statement |-> Settled(view[DirOf["statement"]].statement),
                   receipt   |-> Settled(view[DirOf["receipt"]].receipt),
                   partial   |-> {n \in Finals \X Pids : n \in view[DirOf[n[1]]].partial}]
        /\ IF view[DirOf["spool"]].spool
           THEN /\ spool' \in SpoolsAfterLoss
                /\ synced' = Len(spool'.frames)
           ELSE /\ spool' = EmptySpool
                /\ synced' = 0
  BY DEF PowerLoss
<1>4. \A d \in Dirs : view[d] \in Entries
  BY <1>3 DEF Views, TypeOK
<1>5. \A f \in Paths : view[DirOf[f]] \in Entries
  BY <1>4, DirAssumption
<1>6. ent' \in Entries
  <2>1. view[DirOf["spool"]].spool \in BOOLEAN
    BY <1>5 DEF Paths, Entries
  <2>2. Settled(view[DirOf["progress"]].progress) \in FileOf(Progress)
    BY <1>5, SettledType DEF Paths, Finals, Entries
  <2>3. Settled(view[DirOf["statement"]].statement) \in FileOf(Statements)
    BY <1>5, SettledType DEF Paths, Finals, Entries
  <2>4. Settled(view[DirOf["receipt"]].receipt) \in FileOf(Receipts)
    BY <1>5, SettledType DEF Paths, Finals, Entries
  <2> QED BY <1>3, <2>1, <2>2, <2>3, <2>4 DEF Entries
<1>7. /\ spool' \in [frames : Seq(Frames \cup {Junk}), torn : BOOLEAN]
      /\ synced' \in 0..Len(spool'.frames)
  <2>1. CASE view[DirOf["spool"]].spool
    <3>1. spool' \in SpoolsAfterLoss /\ synced' = Len(spool'.frames)
      BY <1>3, <2>1
    <3>2. spool' \in [frames : Seq(Frames \cup {Junk}), torn : BOOLEAN]
          /\ Len(spool'.frames) \in Nat
      BY <3>1, SpoolsAfterLossType
    <3> QED BY <3>1, <3>2, WholeLength
  <2>2. CASE ~view[DirOf["spool"]].spool
    <3>1. spool' = [frames |-> <<>>, torn |-> FALSE] /\ synced' = 0
      BY <1>3, <2>2 DEF EmptySpool
    <3>2. spool'.frames = <<>> /\ Len(spool'.frames) = 0
      BY <3>1
    <3> QED BY <3>1, <3>2
  <2> QED BY <2>1, <2>2
<1> QED BY <1>1, <1>2, <1>6, <1>7, ExitedTypeInv DEF PowerLoss

----------------------------------------------------------------------------
(* Type correctness.                                                       *)

\* Every step of the system preserves the invariant.
LEMMA NextTypeInv == TypeInv /\ [Next]_vars => TypeInv'
<1> SUFFICES ASSUME TypeInv, [Next]_vars PROVE TypeInv'
  OBVIOUS
<1>1. ASSUME NEW p \in Pids, NEW limit \in Limits, Start(p, limit) PROVE TypeInv'
  BY <1>1, StartTypeInv
<1>2. ASSUME NEW p \in Pids, NEW limit \in Limits, Resume(p, limit) PROVE TypeInv'
  BY <1>2, ResumeTypeInv
<1>3. CASE Step
  BY <1>3, SyncTruncationTypeInv, VerifyPrefixTypeInv, PauseTypeInv, AppendLengthTypeInv,
     AppendBodyTypeInv, SyncSpoolTypeInv, DraftProgressTypeInv, FlushProgressTypeInv,
     RenameProgressTypeInv, SyncProgressTypeInv, DraftReceiptTypeInv, FlushReceiptTypeInv,
     KeepStatementTypeInv, DraftStatementTypeInv, RenameStatementTypeInv,
     SyncStatementTypeInv, RenameReceiptTypeInv, SyncReceiptTypeInv
  DEF Step
<1>4. CASE Kill
  BY <1>4, KillTypeInv
<1>5. CASE PowerLoss
  BY <1>5, PowerLossTypeInv
<1>6. CASE UNCHANGED vars
  <2>1. TypeOK'
    BY <1>6 DEF vars, TypeInv, TypeOK
  <2>2. ProverTracksSpool'
    BY <1>6 DEF vars, TypeInv, ProverTracksSpool, AppendFits
  <2>3. DraftMatchesProver'
    BY <1>6 DEF vars, TypeInv, DraftMatchesProver
  <2> QED BY <2>1, <2>2, <2>3 DEF TypeInv
<1> QED BY <1>1, <1>2, <1>3, <1>4, <1>5, <1>6 DEF Next

\* Every variable of the durable protocol keeps its type, whatever the
\* directories, the faults and the order in which processes come and go.
THEOREM TypeCorrect == Spec => []TypeOK
<1>1. Init => TypeInv
  BY InitTypeInv
<1>2. TypeInv /\ [Next]_vars => TypeInv'
  BY NextTypeInv
<1>3. TypeInv => TypeOK
  BY DEF TypeInv
<1> QED BY <1>1, <1>2, <1>3, PTL DEF Spec

----------------------------------------------------------------------------
(* Checkpoints survive with their frames.                                  *)

\* The spool and the checkpoint live in one directory.
SameDirectory == DirOf["spool"] = DirOf["progress"]

ProgressDir == DirOf["progress"]

\* Arithmetic of lengths and counters, with nothing else in sight.
LEMMA LeqTransitive ==
    ASSUME NEW a \in Nat, NEW b \in Nat, NEW c \in Nat, a <= b, b <= c PROVE a <= c
OBVIOUS

\* The indices of a shorter sequence are indices of a longer one.
LEMMA IndexSubset == ASSUME NEW a \in Nat, NEW b \in Nat, a <= b PROVE 1..a \subseteq 1..b
OBVIOUS

\* The number of frames is recovered from the number of bytes.
LEMMA FramesOfBytes == ASSUME NEW n \in Nat PROVE (FrameBytes * n) \div FrameBytes = n
BY DEF FrameBytes

\* Two sequences that agree up to k have the same prefix.
LEMMA SamePrefix ==
    ASSUME NEW S, NEW s \in Seq(S), NEW t \in Seq(S), NEW k \in Nat,
           k <= Len(s), k <= Len(t), \A i \in 1..k : t[i] = s[i]
    PROVE  SubSeq(t, 1, k) = SubSeq(s, 1, k)
<1>1. k \in 0..Len(s) /\ k \in 0..Len(t)
  BY LenProperties
<1>2. /\ SubSeq(s, 1, k) \in Seq(S) /\ Len(SubSeq(s, 1, k)) = k
      /\ \A i \in 1..k : SubSeq(s, 1, k)[i] = s[i]
  BY <1>1, Prefix
<1>3. /\ SubSeq(t, 1, k) \in Seq(S) /\ Len(SubSeq(t, 1, k)) = k
      /\ \A i \in 1..k : SubSeq(t, 1, k)[i] = t[i]
  BY <1>1, Prefix
<1>4. \A i \in 1..Len(SubSeq(t, 1, k)) : SubSeq(t, 1, k)[i] = SubSeq(s, 1, k)[i]
  BY <1>2, <1>3
<1> QED BY <1>2, <1>3, <1>4, SeqEqual

\* The longest prefix of a spool is the spool.
LEMMA WholePrefix ==
    ASSUME NEW S, NEW s \in Seq(S)
    PROVE  SubSeq(s, 1, Len(s)) = s
<1>1. Len(s) \in 0..Len(s)
  BY LenProperties, WholeLength
<1>2. /\ SubSeq(s, 1, Len(s)) \in Seq(S) /\ Len(SubSeq(s, 1, Len(s))) = Len(s)
      /\ \A i \in 1..Len(s) : SubSeq(s, 1, Len(s))[i] = s[i]
  BY <1>1, Prefix
<1> QED BY <1>2, SeqEqual

\* Every entry a power loss may bring back is well typed.
LEMMA ViewsTyped ==
    ASSUME TypeOK, NEW v \in Views(ProgressDir), v.progress # None, v.progress.data # Junk
    PROVE  v.progress.data \in Progress /\ v.progress.data.counters.segments \in Nat
<1>1. v \in Entries
  BY DirAssumption DEF Views, TypeOK, ProgressDir, Paths, Finals
<1>2. v.progress.data \in Progress
  BY <1>1 DEF Entries, FileOf
<1> QED BY <1>2 DEF Progress, Counters

\* A checkpoint stays backed as long as the frames it counts stay where they
\* are and stay synced.
LEMMA BackedStable ==
    ASSUME TypeOK, TypeOK', NEW g, Backed(g), g.counters.segments \in Nat,
           g.counters.segments <= synced',
           \A i \in 1..g.counters.segments : spool'.frames[i] = spool.frames[i]
    PROVE  Backed(g)'
<1> DEFINE k == g.counters.segments
<1>1. spool.frames \in Seq(Frames \cup {Junk}) /\ spool'.frames \in Seq(Frames \cup {Junk})
  BY DEF TypeOK
<1>2. k <= Len(spool.frames) /\ k <= Len(spool'.frames)
  <2>1. k <= synced
    BY DEF Backed, ValidProgress
  <2>2. synced \in Nat /\ synced <= Len(spool.frames) /\ Len(spool.frames) \in Nat
    BY <1>1, LenProperties DEF TypeOK
  <2>3. synced' \in Nat /\ synced' <= Len(spool'.frames) /\ Len(spool'.frames) \in Nat
    BY <1>1, LenProperties DEF TypeOK
  <2> QED BY <2>1, <2>2, <2>3
<1>3. SubSeq(spool'.frames, 1, k) = SubSeq(spool.frames, 1, k)
  BY <1>1, <1>2, SamePrefix
<1> QED BY <1>3 DEF Backed

\* The visible checkpoint is among the survivors and dominates them: when the
\* frames it counts stay, and no new checkpoint appears, the survivors stay backed.
LEMMA SurvivorsStay ==
    ASSUME TypeOK, TypeOK', SurvivorsBacked,
           ent'.progress = ent.progress,
           \A v \in Views(ProgressDir)' : \E w \in Views(ProgressDir) :
               v.progress = w.progress /\ v.spool = w.spool,
           \A n \in Nat : ent.progress # None /\ n <= synced
                          /\ n <= ent.progress.data.counters.segments
               => /\ n <= synced'
                  /\ \A i \in 1..n : spool'.frames[i] = spool.frames[i]
    PROVE  SurvivorsBacked'
<1> SUFFICES ASSUME NEW v \in Views(ProgressDir)', v.progress # None
             PROVE  /\ v.spool /\ v.progress.flushed
                    /\ Backed(v.progress.data)'
                    /\ ent'.progress # None
                    /\ v.progress.data.counters.segments <= ent'.progress.data.counters.segments
  BY DEF SurvivorsBacked, ProgressDir
<1>1. PICK w \in Views(ProgressDir) : v.progress = w.progress /\ v.spool = w.spool
  OBVIOUS
<1> DEFINE g == w.progress.data
<1>2. /\ w.spool /\ w.progress.flushed /\ Backed(g) /\ ent.progress # None
      /\ g.counters.segments <= ent.progress.data.counters.segments
  BY <1>1 DEF SurvivorsBacked, ProgressDir
<1>3. g.counters.segments \in Nat /\ g.counters.segments <= synced
  BY <1>1, <1>2, ViewsTyped DEF Backed, ValidProgress
<1>4. /\ g.counters.segments <= synced'
      /\ \A i \in 1..g.counters.segments : spool'.frames[i] = spool.frames[i]
  BY <1>2, <1>3
<1>5. Backed(g)'
  BY <1>2, <1>3, <1>4, BackedStable
<1> QED BY <1>1, <1>2, <1>5

\* The spool only grows and the directories stand still.
LEMMA SurvivorsStayOnDisk ==
    ASSUME TypeOK, TypeOK', SurvivorsBacked, UNCHANGED <<ent, past>>, synced <= synced',
           \A i \in 1..synced : spool'.frames[i] = spool.frames[i]
    PROVE  SurvivorsBacked'
<1>1. \A v \in Views(ProgressDir)' : v \in Views(ProgressDir)
  BY DEF Views
<1>2. synced \in Nat /\ synced' \in Nat
  BY LenProperties DEF TypeOK
<1>3. \A n \in Nat : n <= synced => n <= synced' /\ \A i \in 1..n : spool'.frames[i] = spool.frames[i]
  BY <1>2
<1> QED BY <1>1, <1>3, SurvivorsStay

\* A directory operation that leaves the spool and the checkpoint alone.
LEMMA SurvivorsStayOnInstall ==
    ASSUME TypeOK, TypeOK', SurvivorsBacked, UNCHANGED <<spool, synced>>,
           NEW f \in Paths, NEW new, Install(f, new),
           new.progress = ent.progress, new.spool = ent.spool
    PROVE  SurvivorsBacked'
<1>1. past'[ProgressDir] \subseteq past[ProgressDir] \cup {ent} /\ ent' = new
  BY DirAssumption DEF Install, TypeOK, ProgressDir, Paths, Finals
<1>2. ASSUME NEW v \in Views(ProgressDir)'
      PROVE  \E w \in Views(ProgressDir) : v.progress = w.progress /\ v.spool = w.spool
  BY <1>1, <1>2 DEF Views
<1>3. \A n \in Nat : n <= synced => n <= synced' /\ \A i \in 1..n : spool'.frames[i] = spool.frames[i]
  OBVIOUS
<1> QED BY <1>1, <1>2, <1>3, SurvivorsStay

\* Syncing a directory only takes survivors away.
LEMMA SurvivorsStayOnSyncDir ==
    ASSUME TypeOK, TypeOK', SurvivorsBacked, UNCHANGED <<spool, synced>>,
           NEW f \in Paths, SyncDir(f)
    PROVE  SurvivorsBacked'
<1>1. past'[ProgressDir] \subseteq past[ProgressDir] /\ ent' = ent
  BY DirAssumption DEF SyncDir, TypeOK, ProgressDir, Paths, Finals
<1>2. \A v \in Views(ProgressDir)' : v \in Views(ProgressDir)
  BY <1>1 DEF Views
<1>3. \A n \in Nat : n <= synced => n <= synced' /\ \A i \in 1..n : spool'.frames[i] = spool.frames[i]
  OBVIOUS
<1> QED BY <1>1, <1>2, <1>3, SurvivorsStay

\* A process that exits leaves only the survivors to account for.
LEMMA ExitedOrdered ==
    ASSUME TypeOK, TypeOK', SurvivorsBacked, Exited, UNCHANGED disk
    PROVE  CheckpointsOrdered'
<1>1. SurvivorsBacked'
  <2>1. synced \in Nat
    BY LenProperties DEF TypeOK
  <2> QED BY <2>1, SurvivorsStayOnDisk DEF disk
<1> QED BY <1>1 DEF Exited, CheckpointsOrdered, Proving

\* start finds no checkpoint, so none can survive that its empty spool would not back.
LEMMA StartOrdered ==
    ASSUME SameDirectory, InductiveInvariant, TypeInv',
           NEW p \in Pids, NEW limit \in Limits, Start(p, limit)
    PROVE  CheckpointsOrdered'
<1>1. \A v \in Views(ProgressDir) : v.progress = None
  BY DEF InductiveInvariant, CheckpointsOrdered, SurvivorsBacked, Start, ProgressDir
<1>2. /\ ent' = [ent EXCEPT !.spool = TRUE] /\ ent'.progress = None /\ ent'.spool
  BY DEF Start, Install, InductiveInvariant, TypeOK, Entries
<1>3. past'[ProgressDir] \subseteq past[ProgressDir] \cup {ent}
  BY DirAssumption DEF Start, Install, InductiveInvariant, TypeOK, ProgressDir, Paths, Finals
<1>4. SurvivorsBacked'
  BY <1>1, <1>2, <1>3 DEF SurvivorsBacked, Views, ProgressDir
<1>5. spool'.frames = <<>> /\ pc' = "proving"
  BY DEF Start, EmptySpool, Goto
<1>6. Deterministic(spool'.frames)
  BY <1>5 DEF Deterministic, VerifySpool
<1> QED BY <1>2, <1>4, <1>5, <1>6 DEF CheckpointsOrdered

\* resume keeps every frame the visible checkpoint counts, hence those of older ones.
LEMMA ResumeOrdered ==
    ASSUME InductiveInvariant, TypeInv', NEW p \in Pids, NEW limit \in Limits, Resume(p, limit)
    PROVE  CheckpointsOrdered'
<1> DEFINE g == ent.progress.data
           kept == g.counters.bytes \div FrameBytes
<1>1. TypeOK /\ TypeOK' /\ SurvivorsBacked /\ ent.progress # None /\ UNCHANGED <<ent, past>>
      /\ pc' \in {"verify", "sync tail"}
  BY DEF InductiveInvariant, TypeInv, CheckpointsOrdered, Resume, Goto
<1>2. ent \in Views(ProgressDir)
  BY DEF Views
<1>3. Backed(g)
  BY <1>1, <1>2 DEF SurvivorsBacked, ProgressDir
<1>4. g.counters.segments \in Nat /\ g.counters.segments <= synced
      /\ synced \in Nat /\ synced <= Len(spool.frames) /\ Len(spool.frames) \in Nat
      /\ spool.frames \in Seq(Frames \cup {Junk})
  <2>1. g # Junk /\ g.counters.segments <= synced
    BY <1>3 DEF Backed, ValidProgress
  <2>2. g.counters.segments \in Nat
    BY <1>1, <1>2, <2>1, ViewsTyped
  <2>3. spool.frames \in Seq(Frames \cup {Junk}) /\ synced \in 0..Len(spool.frames)
    BY <1>1 DEF TypeOK
  <2>4. Len(spool.frames) \in Nat
    BY <2>3, LenProperties
  <2> QED BY <2>1, <2>2, <2>3, <2>4
<1>5. kept = g.counters.segments
  <2> DEFINE prefix == SubSeq(spool.frames, 1, g.counters.segments)
  <2>1. g.counters.segments \in 0..Len(spool.frames)
    BY <1>4
  <2>2. Len(prefix) = g.counters.segments
    BY <1>4, <2>1, Prefix
  <2>3. SpoolCounters(prefix) = g.counters
    BY <1>3 DEF Backed, ProgressMatches, ValidProgress
  <2>4. g.counters.bytes = FrameBytes * Len(prefix)
    <3> HIDE DEF prefix
    <3> QED BY <2>3 DEF SpoolCounters
  <2> HIDE DEF prefix
  <2> QED BY <1>4, <2>2, <2>4, FramesOfBytes
<1>6. ASSUME NEW n \in Nat, n <= synced, n <= g.counters.segments
      PROVE  n <= synced' /\ \A i \in 1..n : spool'.frames[i] = spool.frames[i]
  <2>1. CASE SpoolBytes = g.counters.bytes
    BY <1>6, <2>1 DEF Resume
  <2>2. CASE SpoolBytes # g.counters.bytes
    <3>1. /\ spool' = [frames |-> SubSeq(spool.frames, 1, kept), torn |-> FALSE]
          /\ synced' = IF synced < kept THEN synced ELSE kept
      BY <2>2 DEF Resume
    <3>2. kept \in 0..Len(spool.frames)
      BY <1>4, <1>5
    <3>3. \A i \in 1..kept : spool'.frames[i] = spool.frames[i]
      BY <1>4, <3>1, <3>2, Prefix
    <3> HIDE DEF kept
    <3>4. synced' = IF synced < kept THEN synced ELSE kept
      BY <3>1
    <3> QED BY <1>4, <1>5, <1>6, <3>3, <3>4
  <2> QED BY <2>1, <2>2
<1>7. \A v \in Views(ProgressDir)' : v \in Views(ProgressDir)
  BY <1>1 DEF Views
<1>8. SurvivorsBacked'
  BY <1>1, <1>6, <1>7, SurvivorsStay
<1> QED BY <1>1, <1>8 DEF CheckpointsOrdered, Proving

\* Syncing the truncated spool takes no frame away.
LEMMA SyncTruncationOrdered ==
    ASSUME InductiveInvariant, TypeInv', SyncTruncation
    PROVE  CheckpointsOrdered'
<1>1. TypeOK /\ TypeOK' /\ SurvivorsBacked /\ UNCHANGED <<spool, ent, past>>
      /\ synced' = Len(spool.frames) /\ pc' = "verify" /\ ent'.progress # None
  BY DEF InductiveInvariant, TypeInv, CheckpointsOrdered, SyncTruncation, Goto
<1>2. synced <= synced'
  <2>1. synced \in 0..Len(spool.frames)
    BY <1>1 DEF TypeOK
  <2> QED BY <1>1, <2>1
<1>3. SurvivorsBacked'
  BY <1>1, <1>2, SurvivorsStayOnDisk
<1> QED BY <1>1, <1>3 DEF CheckpointsOrdered, Proving

\* An unchanged spool is as synced as it was.
LEMMA SyncedStays == ASSUME TypeOK, synced' = synced PROVE synced <= synced'
<1>1. synced \in 0..Len(spool.frames)
  BY DEF TypeOK
<1> QED BY <1>1

\* After verification the prover counts what the visible checkpoint counts.
LEMMA VerifyPrefixOrdered ==
    ASSUME InductiveInvariant, TypeInv', VerifyPrefix
    PROVE  CheckpointsOrdered'
<1> DEFINE frames == spool.frames
           g == ent.progress.data
<1>1. TypeOK /\ TypeOK' /\ SurvivorsBacked /\ UNCHANGED disk /\ ent.progress # None
  BY DEF InductiveInvariant, TypeInv, CheckpointsOrdered, VerifyPrefix
<1>2. CASE ProgressMatches(g, frames)
  <2>1. pc' = "proving" /\ prover' = SpoolCounters(frames)
    BY <1>2 DEF VerifyPrefix, Goto
  <2>2. ent.spool /\ Backed(g)
    BY <1>1 DEF SurvivorsBacked, Views
  <2>3. g.counters = SpoolCounters(frames)
    BY <1>2 DEF ProgressMatches
  <2>4. g.counters.segments = Len(frames)
    BY <2>3 DEF SpoolCounters
  <2>5. frames \in Seq(Frames \cup {Junk}) /\ Len(frames) \in Nat
    BY <1>1, LenProperties DEF TypeOK
  <2>6. SubSeq(frames, 1, g.counters.segments) = frames
    BY <2>4, <2>5, WholePrefix
  <2>7. Deterministic(frames)
    BY <2>2, <2>6 DEF Backed
  <2>8. SurvivorsBacked'
    BY <1>1, SyncedStays, SurvivorsStayOnDisk DEF disk
  <2>9. ent'.spool /\ Deterministic(spool'.frames)
        /\ ent'.progress.data.counters.segments <= prover'.segments
    <3>1. spool' = spool /\ ent' = ent
      BY <1>1 DEF disk
    <3>2. prover'.segments = Len(frames)
      BY <2>1 DEF SpoolCounters
    <3> QED BY <2>2, <2>4, <2>5, <2>7, <3>1, <3>2
  <2> QED BY <2>1, <2>8, <2>9 DEF CheckpointsOrdered
<1>3. CASE ~ProgressMatches(g, frames)
  BY <1>1, <1>3, ExitedOrdered DEF VerifyPrefix
<1> QED BY <1>2, <1>3

\* A step of a proving process that leaves the spool, the counters and the
\* visible checkpoint alone.
LEMMA OrderedMeanwhile ==
    ASSUME CheckpointsOrdered, SurvivorsBacked', UNCHANGED <<spool, synced, prover>>,
           ent'.progress = ent.progress, ent'.spool = ent.spool,
           pc \in Proving, pc' \in Proving,
           pc' \in {"draft progress", "flush progress", "rename progress"} =>
               pc \in {"draft progress", "flush progress", "rename progress"}
    PROVE  CheckpointsOrdered'
<1>1. Deterministic(spool.frames) => Deterministic(spool'.frames)
  OBVIOUS
<1>2. pc' \notin {"sync tail", "verify"}
  BY DEF Proving
<1> QED BY <1>1, <1>2 DEF CheckpointsOrdered

\* A torn frame lies behind every frame a checkpoint counts.
LEMMA AppendLengthOrdered ==
    ASSUME InductiveInvariant, TypeInv', AppendLength
    PROVE  CheckpointsOrdered'
<1>1. TypeOK /\ TypeOK' /\ SurvivorsBacked /\ CheckpointsOrdered
      /\ UNCHANGED <<ent, past, synced>> /\ pc = "proving"
  BY DEF InductiveInvariant, TypeInv, CheckpointsOrdered, AppendLength
<1>2. CASE AppendFits
  <2>1. pc' = "append" /\ prover' = prover /\ spool' = [spool EXCEPT !.torn = TRUE]
    BY <1>2 DEF AppendLength, Goto
  <2>2. spool'.frames = spool.frames
    BY <1>1, <2>1 DEF TypeOK
  <2>3. SurvivorsBacked'
    BY <1>1, <2>2, SyncedStays, SurvivorsStayOnDisk
  <2>4. ent.spool /\ Deterministic(spool.frames)
        /\ (ent.progress # None => ent.progress.data.counters.segments <= prover.segments)
    BY <1>1 DEF CheckpointsOrdered, Proving, Labels
  <2>5. ent'.spool /\ Deterministic(spool'.frames)
        /\ (ent'.progress # None => ent'.progress.data.counters.segments <= prover'.segments)
    BY <1>1, <2>1, <2>2, <2>4
  <2> QED BY <2>1, <2>3, <2>5 DEF CheckpointsOrdered
<1>3. CASE ~AppendFits
  BY <1>1, <1>3, ExitedOrdered DEF AppendLength, disk
<1> QED BY <1>2, <1>3

\* So does a whole new frame.
LEMMA AppendBodyOrdered ==
    ASSUME InductiveInvariant, TypeInv', AppendBody
    PROVE  CheckpointsOrdered'
<1> DEFINE old == spool.frames
           frame == [index |-> prover.segments, from |-> prover.steps, to |-> at]
           new == Append(old, frame)
<1>1. TypeOK /\ TypeOK' /\ SurvivorsBacked /\ ProverTracksSpool /\ ProverTracksSpool'
      /\ UNCHANGED <<ent, past, synced>> /\ pc = "append" /\ pc' = "sync spool"
      /\ spool' = [frames |-> new, torn |-> FALSE]
      /\ prover' = [segments |-> prover.segments + 1, steps |-> at,
                    bytes |-> prover.bytes + FrameBytes]
  BY DEF InductiveInvariant, TypeInv, CheckpointsOrdered, AppendBody, Goto
<1>2. old \in Seq(Frames \cup {Junk}) /\ Len(old) \in Nat /\ synced \in 0..Len(old)
  BY <1>1, LenProperties DEF TypeOK
<1>3. frame \in Frames
  BY <1>1 DEF TypeOK, Counters, Frames
<1>4. /\ Len(new) = Len(old) + 1
      /\ \A i \in 1..Len(old) : new[i] = old[i]
      /\ new[Len(old) + 1] = frame
  BY <1>2, <1>3, AppendProperties
<1>5. spool'.frames = new
  BY <1>1
<1> HIDE DEF new
<1>6. SurvivorsBacked'
  <2>1. \A i \in 1..synced : spool'.frames[i] = spool.frames[i]
    <3>1. synced \in Nat /\ synced <= Len(old)
      BY <1>2
    <3>2. 1..synced \subseteq 1..Len(old)
      BY <1>2, <3>1, IndexSubset
    <3> QED BY <1>4, <1>5, <3>2
  <2> QED BY <1>1, <2>1, SyncedStays, SurvivorsStayOnDisk
<1>7. ent.spool /\ Deterministic(old)
      /\ (ent.progress # None => ent.progress.data.counters.segments <= prover.segments)
  BY <1>1 DEF InductiveInvariant, CheckpointsOrdered, Proving, Labels
<1>8. Deterministic(new)
  <2>1. VerifySpool(new)
    BY <1>1, <1>5 DEF ProverTracksSpool, Proving, Labels
  <2>2. frame.to = SegmentEnd[frame.from]
    BY <1>1 DEF ProverTracksSpool, Proving, Labels
  <2>3. ASSUME NEW i \in 1..Len(new) PROVE new[i].to = SegmentEnd[new[i].from]
    <3>1. CASE i = Len(old) + 1
      BY <1>4, <2>2, <3>1
    <3>2. CASE i # Len(old) + 1
      <4>1. i \in 1..Len(old)
        <5>1. Len(old) \in Nat /\ i \in 1..(Len(old) + 1)
          BY <1>2, <1>4
        <5> QED BY <3>2, <5>1
      <4> QED BY <1>4, <1>7, <4>1 DEF Deterministic
    <3> QED BY <3>1, <3>2
  <2> QED BY <2>1, <2>3 DEF Deterministic
<1>9. ent'.progress # None => ent'.progress.data.counters.segments <= prover'.segments
  <2> SUFFICES ASSUME ent'.progress # None
               PROVE  ent'.progress.data.counters.segments <= prover'.segments
    OBVIOUS
  <2>1. ent \in Views(ProgressDir) /\ ent' = ent /\ ent.progress # None
    BY <1>1 DEF Views
  <2>2. ent.progress.data # Junk
    BY <1>1, <2>1 DEF SurvivorsBacked, Backed, ValidProgress, ProgressDir
  <2>3. ent.progress.data.counters.segments \in Nat
    BY <1>1, <2>1, <2>2, ViewsTyped
  <2>4. prover.segments \in Nat /\ prover'.segments = prover.segments + 1
    BY <1>1 DEF TypeOK, Counters
  <2> QED BY <1>7, <2>1, <2>3, <2>4
<1> QED BY <1>1, <1>5, <1>6, <1>7, <1>8, <1>9 DEF CheckpointsOrdered

\* After sync_spool every frame of the prover is on stable storage.
LEMMA SyncSpoolOrdered ==
    ASSUME InductiveInvariant, TypeInv', SyncSpool
    PROVE  CheckpointsOrdered'
<1>1. TypeOK /\ TypeOK' /\ CheckpointsOrdered /\ SurvivorsBacked
      /\ UNCHANGED <<ent, past, spool, prover>>
      /\ synced' = Len(spool.frames) /\ pc = "sync spool" /\ pc' = "draft progress"
  BY DEF InductiveInvariant, TypeInv, CheckpointsOrdered, SyncSpool, Goto
<1>2. synced <= synced'
  <2>1. synced \in 0..Len(spool.frames) /\ synced' = Len(spool.frames)
    BY <1>1 DEF TypeOK
  <2> QED BY <2>1
<1>3. SurvivorsBacked'
  BY <1>1, <1>2, SurvivorsStayOnDisk
<1>4. Deterministic(spool.frames)
  BY <1>1 DEF CheckpointsOrdered, Proving, Labels
<1>5. Deterministic(spool'.frames) /\ synced' = Len(spool'.frames)
  BY <1>1, <1>4
<1> QED BY <1>1, <1>3, <1>5 DEF CheckpointsOrdered, Proving, Labels

\* Opening a partial file touches neither the spool nor the checkpoint.
LEMMA OpenPartialSurvivors ==
    ASSUME TypeOK, TypeOK', SurvivorsBacked, NEW f \in Finals, OpenPartial(f),
           UNCHANGED <<spool, synced>>
    PROVE  /\ SurvivorsBacked'
           /\ ent'.progress = ent.progress /\ ent'.spool = ent.spool
<1> DEFINE new == [ent EXCEPT !.partial = @ \cup {<<f, pid>>}]
<1>1. new.progress = ent.progress /\ new.spool = ent.spool
  BY DEF TypeOK, Entries
<1>2. Install(f, new) /\ ent' = new /\ f \in Paths
  BY DEF OpenPartial, Install, Paths
<1> HIDE DEF new
<1> QED BY <1>1, <1>2, SurvivorsStayOnInstall

\* So a proving process stays in order.
LEMMA OpenPartialOrdered ==
    ASSUME InductiveInvariant, TypeInv', NEW f \in Finals, OpenPartial(f),
           UNCHANGED <<spool, synced, prover>>, pc \in Proving, pc' \in Proving,
           pc' \in {"draft progress", "flush progress", "rename progress"} =>
               pc \in {"draft progress", "flush progress", "rename progress"}
    PROVE  CheckpointsOrdered'
<1>1. TypeOK /\ TypeOK' /\ CheckpointsOrdered /\ SurvivorsBacked
  BY DEF InductiveInvariant, TypeInv, CheckpointsOrdered
<1>2. SurvivorsBacked' /\ ent'.progress = ent.progress /\ ent'.spool = ent.spool
  BY <1>1, OpenPartialSurvivors
<1> QED BY <1>1, <1>2, OrderedMeanwhile

\* Neither does the rename of the statement or of the receipt.
LEMMA PublishOrdered ==
    ASSUME InductiveInvariant, TypeInv', NEW f \in {"statement", "receipt"}, NEW file,
           Publish(f, file), UNCHANGED <<spool, synced, prover>>, pc \in Proving,
           pc' \in Proving \ {"draft progress", "flush progress", "rename progress"}
    PROVE  CheckpointsOrdered'
<1> DEFINE new == [ent EXCEPT ![f] = file, !.partial = @ \ {<<f, pid>>}]
<1>1. TypeOK /\ TypeOK' /\ CheckpointsOrdered /\ SurvivorsBacked
  BY DEF InductiveInvariant, TypeInv, CheckpointsOrdered
<1>2. new.progress = ent.progress /\ new.spool = ent.spool
  <2>1. CASE f = "statement"
    BY <1>1, <2>1 DEF TypeOK, Entries
  <2>2. CASE f = "receipt"
    BY <1>1, <2>2 DEF TypeOK, Entries
  <2> QED BY <2>1, <2>2
<1>3. Install(f, new) /\ ent' = new /\ f \in Paths
  BY DEF Publish, Install, Paths, Finals
<1> HIDE DEF new
<1>4. SurvivorsBacked'
  BY <1>1, <1>2, <1>3, SurvivorsStayOnInstall
<1> QED BY <1>1, <1>2, <1>3, <1>4, OrderedMeanwhile

\* Nor does syncing a directory.
LEMMA SyncDirOrdered ==
    ASSUME InductiveInvariant, TypeInv', NEW f \in Finals, SyncDir(f),
           UNCHANGED <<spool, synced, prover>>, pc \in Proving,
           pc' \in Proving \ {"draft progress", "flush progress", "rename progress"}
    PROVE  CheckpointsOrdered'
<1>1. TypeOK /\ TypeOK' /\ CheckpointsOrdered /\ SurvivorsBacked
  BY DEF InductiveInvariant, TypeInv, CheckpointsOrdered
<1>2. SurvivorsBacked' /\ ent' = ent
  BY <1>1, SurvivorsStayOnSyncDir DEF Paths, SyncDir
<1> QED BY <1>1, <1>2, OrderedMeanwhile

\* The next checkpoint counts all the frames, which are synced, and dominates
\* every checkpoint it may be rolled back to.
LEMMA RenameProgressOrdered ==
    ASSUME InductiveInvariant, TypeInv', RenameProgress
    PROVE  CheckpointsOrdered'
<1> DEFINE frames == spool.frames
           g == [counters |-> prover, at |-> at]
           file == [data |-> g, flushed |-> TRUE]
           new == [ent EXCEPT !["progress"] = file, !.partial = @ \ {<<"progress", pid>>}]
<1>1. TypeOK /\ TypeOK' /\ CheckpointsOrdered /\ SurvivorsBacked /\ ProverTracksSpool
      /\ pc = "rename progress" /\ pc' = "sync progress"
      /\ UNCHANGED <<spool, synced, prover>>
  BY DEF InductiveInvariant, TypeInv, CheckpointsOrdered, RenameProgress, Goto
<1>2. draft = file
  BY <1>1 DEF InductiveInvariant, DraftMatchesProver, File
<1>3. Install("progress", new)
  BY <1>2 DEF RenameProgress, Publish
<1>4. g \in Progress
  BY <1>1 DEF Progress, TypeOK
<1>5. g.counters = prover /\ g.at = at
  OBVIOUS
<1>6. new.progress = file /\ new.spool = ent.spool
  BY <1>1 DEF TypeOK, Entries
<1> HIDE DEF g
<1>6a. file # None /\ file.data = g /\ file.flushed
  <2>1. file \in [data : Progress \cup {Junk}, flushed : BOOLEAN]
    BY <1>4
  <2>2. file.data = g /\ file.flushed
    OBVIOUS
  <2> HIDE DEF file
  <2> QED BY <2>1, <2>2, NoneAssumption
<1> HIDE DEF file, new
<1>7. ent' = new /\ past'[ProgressDir] = past[ProgressDir] \cup {ent}
  BY <1>1, <1>3, DirAssumption DEF Install, TypeOK, ProgressDir, Paths, Finals
<1>8. /\ VerifySpool(frames) /\ prover.segments = Len(frames)
      /\ prover.bytes = FrameBytes * Len(frames)
      /\ prover.steps = (IF Len(frames) = 0 THEN 0 ELSE frames[Len(frames)].to)
      /\ at = prover.steps
      /\ prover.segments \in 1..MaxSegments /\ prover.bytes \in 1..MaxStreamBytes
      /\ prover.steps > 0
  BY <1>1 DEF ProverTracksSpool, Proving, Labels
<1>9. /\ ent.spool /\ Deterministic(frames) /\ synced = Len(frames)
      /\ (ent.progress # None => ent.progress.data.counters.segments <= prover.segments)
  BY <1>1 DEF CheckpointsOrdered, Proving, Labels
<1>10. frames \in Seq(Frames \cup {Junk}) /\ Len(frames) \in Nat /\ prover \in Counters
  BY <1>1, LenProperties DEF TypeOK
<1>11. Backed(g)
  <2>1. SubSeq(frames, 1, Len(frames)) = frames
    BY <1>10, WholePrefix
  <2>2. g.counters = prover /\ g.at = at /\ g # Junk
    BY <1>4, <1>5, JunkAssumption
  <2>3. Len(frames) > 0
    BY <1>8, <1>10, PreflightAssumption
  <2>4. SpoolCounters(frames) = prover
    <3>1. prover = [segments |-> prover.segments, steps |-> prover.steps, bytes |-> prover.bytes]
      BY <1>10 DEF Counters
    <3> QED BY <1>8, <2>3, <3>1 DEF SpoolCounters
  <2>5. prover.steps = frames[Len(frames)].to
    BY <1>8, <2>3
  <2>6. ProgressMatches(g, frames)
    BY <1>8, <2>2, <2>3, <2>4, <2>5 DEF ProgressMatches
  <2>7. g.counters.segments = Len(frames) /\ Len(frames) <= synced
    BY <1>8, <1>9, <1>10, <2>2
  <2>8. ValidProgress(g)
    BY <1>8, <2>2 DEF ValidProgress
  <2> QED BY <1>9, <2>1, <2>2, <2>6, <2>7, <2>8 DEF Backed
<1>12. SurvivorsBacked'
  <2> SUFFICES ASSUME NEW v \in Views(ProgressDir)', v.progress # None
               PROVE  /\ v.spool /\ v.progress.flushed
                      /\ Backed(v.progress.data)'
                      /\ ent'.progress # None
                      /\ v.progress.data.counters.segments <= ent'.progress.data.counters.segments
    BY DEF SurvivorsBacked, ProgressDir
  <2>1. ent'.progress = file /\ ent'.spool /\ ent'.progress.data = g
        /\ ent'.progress.data.counters.segments = prover.segments
    BY <1>5, <1>6, <1>6a, <1>7, <1>9
  <2>2. CASE v = ent'
    <3>1. Backed(v.progress.data)
      BY <1>11, <2>1, <2>2
    <3>2. Backed(v.progress.data)'
      BY <1>1, <3>1 DEF Backed
    <3>3. prover.segments \in Nat
      BY <1>10 DEF Counters
    <3>4. v.progress.data.counters.segments <= ent'.progress.data.counters.segments
      BY <2>1, <2>2, <3>3
    <3>5. v.spool /\ v.progress.flushed /\ ent'.progress # None
      BY <1>6a, <2>1, <2>2
    <3> QED BY <3>2, <3>4, <3>5
  <2>3. CASE v # ent'
    <3>1. v \in Views(ProgressDir)
      BY <1>7, <2>3 DEF Views
    <3>2. /\ v.spool /\ v.progress.flushed /\ Backed(v.progress.data)
          /\ ent.progress # None
          /\ v.progress.data.counters.segments <= ent.progress.data.counters.segments
      BY <1>1, <3>1 DEF SurvivorsBacked, ProgressDir
    <3>3. Backed(v.progress.data)'
      BY <1>1, <3>2 DEF Backed
    <3>4. v.progress.data.counters.segments \in Nat
      BY <1>1, <3>1, <3>2, ViewsTyped DEF Backed, ValidProgress
    <3>5. ent.progress.data.counters.segments \in Nat
      <4>1. ent \in Views(ProgressDir)
        BY DEF Views
      <4>2. ent.progress.data # Junk
        BY <1>1, <3>2, <4>1 DEF SurvivorsBacked, Backed, ValidProgress, ProgressDir
      <4> QED BY <1>1, <3>2, <4>1, <4>2, ViewsTyped
    <3>6. prover.segments \in Nat
      BY <1>10 DEF Counters
    <3>7. v.progress.data.counters.segments <= prover.segments
      <4>1. ent.progress.data.counters.segments <= prover.segments
        BY <1>9, <3>2
      <4> QED BY <3>2, <3>4, <3>5, <3>6, <4>1, LeqTransitive
    <3> QED BY <1>6a, <2>1, <3>2, <3>3, <3>7
  <2> QED BY <2>2, <2>3
<1>13. ent'.spool /\ Deterministic(spool'.frames)
       /\ ent'.progress.data.counters.segments <= prover'.segments
  <2>1. ent'.spool /\ ent'.progress.data.counters.segments = prover.segments
    BY <1>5, <1>6, <1>6a, <1>7, <1>9
  <2>2. prover.segments \in Nat
    BY <1>10 DEF Counters
  <2>3. Deterministic(spool'.frames) /\ prover' = prover
    BY <1>1, <1>9
  <2> QED BY <2>1, <2>2, <2>3
<1> QED BY <1>1, <1>12, <1>13 DEF CheckpointsOrdered

\* A power loss brings back one survivor, and at least the synced frames.
LEMMA PowerLossOrdered ==
    ASSUME SameDirectory, InductiveInvariant, TypeInv', PowerLoss
    PROVE  CheckpointsOrdered'
<1>1. TypeOK /\ TypeOK' /\ SurvivorsBacked /\ pc' = "idle" /\ past' = [d \in Dirs |-> {}]
  BY DEF InductiveInvariant, TypeInv, CheckpointsOrdered, PowerLoss, Exited
<1>2. PICK view \in [Dirs -> UNION {Views(d) : d \in Dirs}] :
        /\ \A d \in Dirs : view[d] \in Views(d)
        /\ ent' = [spool     |-> view[DirOf["spool"]].spool,
                   progress  |-> Settled(view[DirOf["progress"]].progress),
                   statement |-> Settled(view[DirOf["statement"]].statement),
                   receipt   |-> Settled(view[DirOf["receipt"]].receipt),
                   partial   |-> {n \in Finals \X Pids : n \in view[DirOf[n[1]]].partial}]
        /\ IF view[DirOf["spool"]].spool
           THEN /\ spool' \in SpoolsAfterLoss
                /\ synced' = Len(spool'.frames)
           ELSE /\ spool' = EmptySpool
                /\ synced' = 0
  BY DEF PowerLoss
<1>3. ProgressDir \in Dirs
  BY DirAssumption DEF ProgressDir, Paths, Finals
<1>4. Views(ProgressDir)' = {ent'}
  BY <1>1, <1>3 DEF Views
<1> DEFINE w == view[ProgressDir]
<1>5. w \in Views(ProgressDir) /\ ent'.spool = w.spool /\ ent'.progress = Settled(w.progress)
  BY <1>2, <1>3 DEF SameDirectory, ProgressDir
<1>6. SurvivorsBacked'
  <2> SUFFICES ASSUME NEW v, v = ent', v.progress # None
               PROVE  /\ v.spool /\ v.progress.flushed
                      /\ Backed(v.progress.data)'
                      /\ v.progress.data.counters.segments <= ent'.progress.data.counters.segments
    BY <1>4 DEF SurvivorsBacked, ProgressDir
  <2>1. w.progress # None
    BY <1>5 DEF Settled
  <2>2. w.spool /\ w.progress.flushed /\ Backed(w.progress.data)
    BY <1>1, <1>5, <2>1 DEF SurvivorsBacked, ProgressDir
  <2>3. v.progress = w.progress /\ v.spool
    BY <1>5, <2>1, <2>2 DEF Settled
  <2>4. v.progress.data.counters.segments \in Nat
    BY <1>1, <1>5, <2>1, <2>2, <2>3, ViewsTyped DEF Backed, ValidProgress
  <2>5. spool' \in SpoolsAfterLoss /\ synced' = Len(spool'.frames)
    BY <1>2, <2>2 DEF SameDirectory, ProgressDir
  <2>6. synced <= synced' /\ \A i \in 1..synced : spool'.frames[i] = spool.frames[i]
    BY <1>1, <2>5, SpoolsAfterLossType
  <2>7. Backed(v.progress.data) /\ v.progress.data.counters.segments <= synced
    BY <2>2, <2>3 DEF Backed
  <2>8. synced \in Nat /\ synced' \in Nat
    BY <1>1, LenProperties DEF TypeOK
  <2>9. /\ v.progress.data.counters.segments <= synced'
        /\ \A i \in 1..v.progress.data.counters.segments : spool'.frames[i] = spool.frames[i]
    <3> DEFINE n == v.progress.data.counters.segments
    <3>1. n \in Nat /\ n <= synced
      BY <2>4, <2>7
    <3> HIDE DEF n
    <3>2. n <= synced' /\ 1..n \subseteq 1..synced
      BY <2>6, <2>8, <3>1
    <3>3. \A i \in 1..n : spool'.frames[i] = spool.frames[i]
      BY <2>6, <3>2
    <3> QED BY <3>2, <3>3 DEF n
  <2>10. Backed(v.progress.data)'
    BY <1>1, <2>4, <2>7, <2>9, BackedStable
  <2>11. v.progress.data.counters.segments <= ent'.progress.data.counters.segments
    BY <2>4
  <2> QED BY <2>2, <2>3, <2>10, <2>11
<1> QED BY <1>1, <1>6 DEF CheckpointsOrdered, Proving

\* Every step preserves the order of checkpoints.
LEMMA NextOrdered ==
    ASSUME SameDirectory
    PROVE  InductiveInvariant /\ [Next]_vars => InductiveInvariant'
<1> SUFFICES ASSUME InductiveInvariant, [Next]_vars PROVE InductiveInvariant'
  OBVIOUS
<1>1. TypeInv /\ TypeInv'
  BY NextTypeInv DEF InductiveInvariant, TypeInv
<1>2. TypeOK /\ TypeOK' /\ SurvivorsBacked /\ CheckpointsOrdered
  BY <1>1 DEF TypeInv, InductiveInvariant, CheckpointsOrdered
<1>3. CheckpointsOrdered'
  <2>1. ASSUME NEW p \in Pids, NEW limit \in Limits, Start(p, limit) PROVE CheckpointsOrdered'
    BY <1>1, <2>1, StartOrdered
  <2>2. ASSUME NEW p \in Pids, NEW limit \in Limits, Resume(p, limit) PROVE CheckpointsOrdered'
    BY <1>1, <2>2, ResumeOrdered
  <2>3. CASE SyncTruncation \/ VerifyPrefix \/ AppendLength \/ AppendBody \/ SyncSpool
    BY <1>1, <2>3, SyncTruncationOrdered, VerifyPrefixOrdered, AppendLengthOrdered,
       AppendBodyOrdered, SyncSpoolOrdered
  <2>4. CASE Pause \/ Kill
    BY <1>2, <2>4, ExitedOrdered DEF Pause, Kill
  <2>5. CASE DraftProgress
    <3>1. CASE PartialFree("progress")
      BY <1>1, <2>5, <3>1, OpenPartialOrdered DEF DraftProgress, Goto, Proving, Labels, Finals
    <3>2. CASE ~PartialFree("progress")
      BY <1>2, <2>5, <3>2, ExitedOrdered DEF DraftProgress, disk
    <3> QED BY <3>1, <3>2
  <2>6. CASE FlushProgress \/ FlushReceipt
    <3>1. SurvivorsBacked'
      BY <1>2, <2>6, SyncedStays, SurvivorsStayOnDisk DEF FlushProgress, FlushReceipt, Flush, disk
    <3> QED BY <1>2, <2>6, <3>1, OrderedMeanwhile
            DEF FlushProgress, FlushReceipt, Flush, Goto, disk, Proving, Labels
  <2>7. CASE RenameProgress
    BY <1>1, <2>7, RenameProgressOrdered
  <2>8. CASE SyncProgress
    BY <1>1, <2>8, SyncDirOrdered DEF SyncProgress, Goto, Proving, Labels, Finals
  <2>9. CASE DraftReceipt
    <3>1. CASE OpenPartial("receipt") /\ pc' = "flush receipt" /\ prover' = prover
      BY <1>1, <2>9, <3>1, OpenPartialOrdered DEF DraftReceipt, Proving, Labels, Finals
    <3>2. CASE Exited /\ UNCHANGED <<ent, past>>
      BY <1>2, <2>9, <3>2, ExitedOrdered DEF DraftReceipt, disk
    <3>3. CASE Exited /\ OpenPartial("receipt")
      <4>1. SurvivorsBacked'
        BY <1>2, <2>9, <3>3, OpenPartialSurvivors DEF DraftReceipt, Finals
      <4> QED BY <3>3, <4>1 DEF Exited, CheckpointsOrdered, Proving
    <3> QED BY <2>9, <3>1, <3>2, <3>3 DEF DraftReceipt, Goto
  <2>10. CASE KeepStatement
    <3>1. CASE Exited
      BY <1>2, <2>10, <3>1, ExitedOrdered DEF KeepStatement
    <3>2. CASE ~Exited
      <4>1. pc = "statement" /\ pc' = "rename receipt" /\ prover' = prover /\ UNCHANGED disk
        BY <2>10, <3>2 DEF KeepStatement, Goto
      <4>2. SurvivorsBacked'
        BY <1>2, <4>1, SyncedStays, SurvivorsStayOnDisk DEF disk
      <4> QED BY <1>2, <4>1, <4>2, OrderedMeanwhile DEF disk, Proving, Labels
    <3> QED BY <3>1, <3>2
  <2>11. CASE DraftStatement
    <3>1. CASE PartialFree("statement")
      BY <1>1, <2>11, <3>1, OpenPartialOrdered DEF DraftStatement, Goto, Proving, Labels, Finals
    <3>2. CASE ~PartialFree("statement")
      BY <1>2, <2>11, <3>2, ExitedOrdered DEF DraftStatement, disk
    <3> QED BY <3>1, <3>2
  <2>12. CASE RenameStatement
    BY <1>1, <2>12, PublishOrdered DEF RenameStatement, Goto, Proving, Labels
  <2>13. CASE SyncStatement
    BY <1>1, <2>13, SyncDirOrdered DEF SyncStatement, Goto, Proving, Labels, Finals
  <2>14. CASE RenameReceipt
    BY <1>1, <2>14, PublishOrdered DEF RenameReceipt, Goto, Proving, Labels
  <2>15. CASE SyncReceipt
    <3>1. SurvivorsBacked'
      BY <1>2, <2>15, SurvivorsStayOnSyncDir DEF SyncReceipt, Paths, Finals
    <3> QED BY <2>15, <3>1 DEF SyncReceipt, Exited, CheckpointsOrdered, Proving
  <2>16. CASE PowerLoss
    BY <1>1, <2>16, PowerLossOrdered
  <2>17. CASE UNCHANGED vars
    <3>1. SurvivorsBacked'
      BY <1>2, <2>17, SyncedStays, SurvivorsStayOnDisk DEF vars
    <3>2. Deterministic(spool.frames) => Deterministic(spool'.frames)
      BY <2>17 DEF vars
    <3> QED BY <1>2, <2>17, <3>1, <3>2 DEF vars, CheckpointsOrdered
  <2> QED BY <2>1, <2>2, <2>3, <2>4, <2>5, <2>6, <2>7, <2>8, <2>9, <2>10, <2>11, <2>12,
             <2>13, <2>14, <2>15, <2>16, <2>17 DEF Next, Step
<1> QED BY <1>1, <1>3 DEF TypeInv, InductiveInvariant

\* Nothing is on disk at first, and no checkpoint has to be accounted for.
LEMMA InitInductive == Init => InductiveInvariant
<1>1. Init => CheckpointsOrdered
  <2> SUFFICES ASSUME Init PROVE CheckpointsOrdered
    OBVIOUS
  <2>1. Views(DirOf["progress"]) = {ent} /\ ent.progress = None
    BY DirAssumption DEF Init, Views, Paths, Finals
  <2> QED BY <2>1 DEF Init, CheckpointsOrdered, SurvivorsBacked, Proving
<1> QED BY <1>1, InitTypeInv DEF TypeInv, InductiveInvariant

\* The inductive invariant holds throughout.
LEMMA InductiveHolds == ASSUME SameDirectory PROVE Spec => []InductiveInvariant
<1>1. InductiveInvariant /\ [Next]_vars => InductiveInvariant'
  BY NextOrdered
<1> QED BY <1>1, InitInductive, PTL DEF Spec

\* sync_spool runs before write_progress, and resume cuts back to the visible
\* checkpoint only: when the spool and the checkpoint share a directory, every
\* checkpoint that can survive a power loss finds the frames it counts, synced
\* and verifying, for any number of segments, faults and process identifiers.
THEOREM CheckpointSafe == ASSUME SameDirectory PROVE Spec => []CheckpointCovered
<1>1. InductiveInvariant => CheckpointCovered
  BY DEF InductiveInvariant, CheckpointsOrdered, SurvivorsBacked, CheckpointCovered,
         SameDirectory, Together
<1> QED BY <1>1, InductiveHolds, PTL
=============================================================================
