--------------------- MODULE NativeProverReceipt_proofs ---------------------
(***************************************************************************)
(* What finalize publishes: a receipt that can be seen, now or after a     *)
(* power loss, is the whole proof, and its statement is beside it.         *)
(***************************************************************************)
EXTENDS NativeProverResume_proofs

ReceiptDir == DirOf["receipt"]

\* The receipt of a whole, uninterrupted proof.
Complete(r) ==
    /\ EndpointMatches
    /\ r # Junk
    /\ Len(r.frames) > 0
    /\ Deterministic(r.frames)
    /\ r.frames[Len(r.frames)].to = Total
    /\ r.statement = [segments |-> Len(r.frames), steps |-> Total, from |-> 0, to |-> Total]

\* A frame that can still be decoded is one the prover wrote.
FramesGenuine ==
    \A i \in 1..Len(spool.frames) :
        spool.frames[i] # Junk => spool.frames[i].to = SegmentEnd[spool.frames[i].from]

\* Where the process holds the draft of a receipt, and where it has synced it.
Flushed  == {"statement", "rename statement", "sync statement", "rename receipt"}
Drafting == Flushed \cup {"flush receipt"}

\* The receipt that is being written is complete, as is any that may survive.
ReceiptsComplete ==
    /\ pc \in Drafting => Complete(draft.data)
    /\ pc \in Flushed => draft.flushed
    /\ \A v \in Views(ReceiptDir) : v.receipt # None =>
          v.receipt.flushed /\ Complete(v.receipt.data)

\* A running process has not seen a receipt, except the one it has just renamed.
NoReceiptYet == pc \notin {"idle", "sync receipt"} => ent.receipt = None

\* The statement is there before the receipt is: for every receipt that may
\* survive, in the same directory, and for the one about to be renamed.
StatementsFirst ==
    /\ NoReceiptYet
    /\ pc \in {"sync statement", "rename receipt"} =>
          ent.statement # None /\ ent.statement.data = draft.data.statement
    /\ \A v \in Views(ReceiptDir) :
          /\ v.statement # None => v.statement.flushed
          /\ v.receipt # None =>
                v.statement # None /\ v.statement.data = v.receipt.data.statement

\* Both live in one directory.
StatementBesideReceipt == DirOf["statement"] = DirOf["receipt"]

----------------------------------------------------------------------------
(* Frames.                                                                 *)

\* What a power loss leaves of the spool: its own frames, or lost content.
LEMMA FramesAfterLoss ==
    ASSUME TypeOK, NEW s \in SpoolsAfterLoss, NEW i \in 1..Len(s.frames), s.frames[i] # Junk
    PROVE  i \in 1..Len(spool.frames) /\ s.frames[i] = spool.frames[i]
<1> DEFINE after(n, kept) == [j \in 1..n |->
                 IF j <= synced \/ (j <= Len(spool.frames) /\ j \in kept)
                 THEN spool.frames[j] ELSE Junk]
<1>1. Len(spool.frames) \in Nat /\ synced \in 0..Len(spool.frames)
  BY LenProperties DEF TypeOK
<1>2. PICK n \in synced..(Len(spool.frames) + 1) :
          s \in {[frames |-> after(n, k), torn |-> t] : k \in SUBSET ((synced + 1)..n), t \in BOOLEAN}
  BY DEF SpoolsAfterLoss
<1>3. PICK kept \in SUBSET ((synced + 1)..n), t \in BOOLEAN :
          s = [frames |-> after(n, kept), torn |-> t]
  <2> HIDE DEF after
  <2> QED BY <1>2
<1>4. n \in Nat
  BY <1>1
<1>5. s.frames = after(n, kept)
  <2> HIDE DEF after
  <2> QED BY <1>3
<1>6. Len(s.frames) = n
  BY <1>4, <1>5
<1>7. i \in 1..n /\ after(n, kept)[i] # Junk
  BY <1>5, <1>6
<1>8. i <= synced \/ i <= Len(spool.frames)
  BY <1>7
<1>9. after(n, kept)[i] = spool.frames[i]
  BY <1>7
<1> HIDE DEF after
<1> QED BY <1>1, <1>4, <1>5, <1>7, <1>8, <1>9

\* The same frames, or a prefix of them, are genuine still.
LEMMA GenuineStays ==
    ASSUME FramesGenuine,
           \A i \in 1..Len(spool'.frames) : spool'.frames[i] # Junk =>
               i \in 1..Len(spool.frames) /\ spool'.frames[i] = spool.frames[i]
    PROVE  FramesGenuine'
BY DEF FramesGenuine

LEMMA NextGenuine == ASSUME TypeInv, FramesGenuine, [Next]_vars PROVE FramesGenuine'
<1>1. spool.frames \in Seq(Frames \cup {Junk}) /\ Len(spool.frames) \in Nat /\ TypeOK
  BY LenProperties DEF TypeInv, TypeOK
<1>2. CASE \E p \in Pids, limit \in Limits : Start(p, limit)
  <2>1. spool'.frames = <<>> /\ Len(spool'.frames) = 0
    BY <1>2 DEF Start, EmptySpool
  <2> QED BY <2>1 DEF FramesGenuine
<1>3. ASSUME NEW p \in Pids, NEW limit \in Limits, Resume(p, limit) PROVE FramesGenuine'
  <2> DEFINE g == ent.progress.data
             k == g.counters.bytes \div FrameBytes
  <2>1. CASE spool' = spool
    BY <2>1 DEF FramesGenuine
  <2>2. CASE spool' # spool
    <3>1. /\ spool' = [frames |-> SubSeq(spool.frames, 1, k), torn |-> FALSE]
          /\ SpoolBytes >= g.counters.bytes /\ g.counters.bytes \in 1..MaxStreamBytes
      BY <1>3, <2>2 DEF Resume, ValidProgress
    <3>2. g.counters.bytes \in Nat
      BY <3>1, BytesAssumption
    <3>3. FrameBytes * Len(spool.frames) + 1 >= g.counters.bytes
      BY <1>1, <3>1, <3>2 DEF SpoolBytes, FrameBytes, TypeOK
    <3>4. k \in 0..Len(spool.frames)
      BY <1>1, <3>2, <3>3 DEF FrameBytes
    <3> HIDE DEF k
    <3>5. /\ Len(SubSeq(spool.frames, 1, k)) = k
          /\ \A i \in 1..k : SubSeq(spool.frames, 1, k)[i] = spool.frames[i]
      BY <1>1, <3>4, Prefix
    <3>6. spool'.frames = SubSeq(spool.frames, 1, k)
      BY <3>1
    <3> QED BY <1>1, <3>4, <3>5, <3>6, GenuineStays
  <2> QED BY <2>1, <2>2
<1>4. CASE AppendBody
  <2> DEFINE frame == [index |-> prover.segments, from |-> prover.steps, to |-> at]
  <2>1. pc = "append" /\ pc \in Proving
    BY <1>4 DEF AppendBody, Proving, Labels
  <2>2. at = SegmentEnd[prover.steps]
    BY <2>1 DEF TypeInv, ProverTracksSpool
  <2>3. frame \in Frames
    BY <1>1 DEF TypeOK, Counters, Frames
  <2>4. frame.to = SegmentEnd[frame.from]
    BY <2>2
  <2>5. spool'.frames = Append(spool.frames, frame)
    BY <1>4 DEF AppendBody
  <2> HIDE DEF frame
  <2>6. /\ Len(spool'.frames) = Len(spool.frames) + 1
        /\ \A i \in 1..Len(spool.frames) : spool'.frames[i] = spool.frames[i]
        /\ spool'.frames[Len(spool.frames) + 1] = frame
    BY <1>1, <2>3, <2>5, AppendProperties
  <2>7. \A i \in 1..Len(spool'.frames) : i \in 1..Len(spool.frames) \/ i = Len(spool.frames) + 1
    BY <1>1, <2>6
  <2> QED BY <2>4, <2>6, <2>7 DEF FramesGenuine
<1>5. CASE PowerLoss
  <2>1. spool' = EmptySpool \/ spool' \in SpoolsAfterLoss
    BY <1>5 DEF PowerLoss
  <2>2. CASE spool' = EmptySpool
    <3>1. spool'.frames = <<>> /\ Len(spool'.frames) = 0
      BY <2>2 DEF EmptySpool
    <3> QED BY <3>1 DEF FramesGenuine
  <2>3. CASE spool' \in SpoolsAfterLoss
    BY <1>1, <2>3, FramesAfterLoss, GenuineStays
  <2> QED BY <2>1, <2>2, <2>3
<1>6. CASE AppendLength
  <2>1. spool'.frames = spool.frames
    BY <1>1, <1>6 DEF AppendLength, TypeOK
  <2> QED BY <2>1 DEF FramesGenuine
<1>7. CASE \/ SyncTruncation \/ VerifyPrefix \/ Pause \/ SyncSpool
           \/ FlushProgress \/ FlushReceipt \/ KeepStatement \/ Kill \/ UNCHANGED vars
  BY <1>7 DEF SyncTruncation, VerifyPrefix, Pause, SyncSpool,
              FlushProgress, FlushReceipt, Flush, KeepStatement, Kill, disk, vars, FramesGenuine
<1>8. CASE \/ DraftProgress \/ RenameProgress \/ SyncProgress \/ DraftReceipt
           \/ DraftStatement \/ RenameStatement \/ SyncStatement
           \/ RenameReceipt \/ SyncReceipt
  BY <1>8 DEF DraftProgress, RenameProgress, SyncProgress, DraftReceipt, DraftStatement,
              RenameStatement, SyncStatement, RenameReceipt, SyncReceipt, FramesGenuine
<1> QED BY <1>2, <1>3, <1>4, <1>5, <1>6, <1>7, <1>8 DEF Next, Step

----------------------------------------------------------------------------
(* The receipt.                                                            *)

\* A number of frames that is not zero.
LEMMA SomeFrames == ASSUME NEW n \in Nat, n # 0 PROVE n > 0 /\ 1 \in 1..n
OBVIOUS

\* The statement of a whole proof is a statement.
LEMMA WholeStatement ==
    ASSUME NEW n \in Nat
    PROVE  [segments |-> n, steps |-> Total, from |-> 0, to |-> Total] \in Statements
BY TotalAssumption DEF Statements

\* finish copies every frame of a spool that ends at the endpoint.
LEMMA DraftReceiptComplete ==
    ASSUME TypeInv, FramesGenuine, DraftReceipt, pc' = "flush receipt"
    PROVE  Complete(draft'.data)
<1> DEFINE frames == spool.frames
           n == Len(spool.frames)
<1>0. frames \in Seq(Frames \cup {Junk})
  BY DEF TypeInv, TypeOK
<1>1. n \in Nat
  BY <1>0, LenProperties
<1>2. pc = "proving" /\ pc \in Proving /\ prover.steps = Total /\ EndpointMatches
      /\ draft' = File([statement |-> Statement(frames),
                        frames |-> SubSeq(frames, 1, prover.segments)], FALSE)
  BY DEF DraftReceipt, Exited, Goto, Proving, Labels
<1>3. /\ VerifySpool(frames) /\ prover.segments = n
      /\ prover.steps = IF n = 0 THEN 0 ELSE frames[n].to
  BY <1>2 DEF TypeInv, ProverTracksSpool
<1>a. n # 0
  BY <1>2, <1>3, TotalAssumption
<1>b. n > 0 /\ 1 \in 1..n
  BY <1>1, <1>a, SomeFrames
<1>4. frames[n].to = Total
  BY <1>2, <1>3, <1>a
<1>5. SubSeq(frames, 1, prover.segments) = frames
  BY <1>0, <1>3, WholePrefix
<1>6. Deterministic(frames)
  BY <1>3 DEF Deterministic, VerifySpool, FramesGenuine
<1>7. frames[1].from = 0
  BY <1>3, <1>b DEF VerifySpool
<1>8. Statement(frames) = [segments |-> n, steps |-> Total, from |-> 0, to |-> Total]
  BY <1>2, <1>3, <1>7 DEF Statement
<1> DEFINE r == [statement |-> Statement(frames), frames |-> frames]
<1>9. draft'.data = r
  BY <1>2, <1>5 DEF File
<1>10. r.frames = frames /\ r.statement = Statement(frames)
  OBVIOUS
<1>11. r # Junk
  <2>1. frames \in Seq(Frames)
    BY <1>0, <1>3, <1>5, VerifiedFrames
  <2>2. Statement(frames) \in Statements
    BY <1>1, <1>8, WholeStatement
  <2>3. r \in Receipts
    <3> HIDE DEF frames
    <3> QED BY <2>1, <2>2 DEF Receipts
  <2> QED BY <2>3, JunkAssumption
<1> HIDE DEF r, frames, n
<1>12. Len(frames) = n
  BY DEF frames, n
<1> QED BY <1>2, <1>b, <1>4, <1>6, <1>8, <1>9, <1>10, <1>11, <1>12 DEF Complete

\* The draft stays complete until it is renamed.
LEMMA NextDraft ==
    ASSUME TypeInv, TypeInv', FramesGenuine, ReceiptsComplete, [Next]_vars
    PROVE  /\ pc' \in Drafting => Complete(draft'.data)
           /\ pc' \in Flushed => draft'.flushed
<1> SUFFICES ASSUME pc' \in Drafting
             PROVE  Complete(draft'.data) /\ (pc' \in Flushed => draft'.flushed)
  BY DEF Drafting
<1>1. CASE DraftReceipt
  BY <1>1, DraftReceiptComplete DEF DraftReceipt, Exited, Goto, Drafting, Flushed
<1>2. CASE FlushReceipt
  <2>1. pc = "flush receipt" /\ draft' = [draft EXCEPT !.flushed = TRUE]
    BY <1>2 DEF FlushReceipt, Flush
  <2>2. draft \in [data : Receipts, flushed : BOOLEAN] /\ Complete(draft.data)
    BY <2>1 DEF TypeInv, DraftMatchesProver, ReceiptsComplete, Drafting
  <2>3. draft'.data = draft.data /\ draft'.flushed = TRUE
    BY <2>1, <2>2
  <2> QED BY <2>2, <2>3
<1>3. CASE KeepStatement \/ DraftStatement \/ RenameStatement \/ SyncStatement
  <2>1. draft' = draft /\ pc \in Flushed
    BY <1>3 DEF KeepStatement, DraftStatement, RenameStatement, SyncStatement, Exited, Goto,
                Drafting, Flushed
  <2> QED BY <2>1 DEF ReceiptsComplete, Drafting
<1>4. CASE UNCHANGED vars
  BY <1>4 DEF vars, ReceiptsComplete
<1>5. ~(\E p \in Pids, limit \in Limits : Start(p, limit) \/ Resume(p, limit))
  BY DEF Start, Resume, Goto, Drafting, Flushed
<1>6. ~(\/ SyncTruncation \/ VerifyPrefix \/ Pause \/ AppendLength \/ AppendBody \/ SyncSpool
        \/ FlushProgress \/ Kill \/ PowerLoss)
  BY DEF SyncTruncation, VerifyPrefix, Pause, AppendLength, AppendBody, SyncSpool,
         FlushProgress, Flush, Kill, PowerLoss, Exited, Goto, Drafting, Flushed
<1>7. ~(\/ DraftProgress \/ RenameProgress \/ SyncProgress \/ RenameReceipt \/ SyncReceipt)
  BY DEF DraftProgress, RenameProgress, SyncProgress, RenameReceipt, SyncReceipt,
         Exited, Goto, Drafting, Flushed
<1> QED BY <1>1, <1>2, <1>3, <1>4, <1>5, <1>6, <1>7 DEF Next, Step

LEMMA NextReceiptsComplete ==
    ASSUME TypeInv, FramesGenuine, ReceiptsComplete, [Next]_vars
    PROVE  ReceiptsComplete'
<1>1. TypeInv' /\ TypeOK /\ ReceiptDir \in Dirs
  BY NextTypeInv, DirAssumption DEF TypeInv, ReceiptDir, Paths, Finals
<1>2. /\ pc' \in Drafting => Complete(draft'.data)
      /\ pc' \in Flushed => draft'.flushed
  BY <1>1, NextDraft
<1>3. ASSUME NEW v \in Views(ReceiptDir)', v.receipt # None
      PROVE  v.receipt.flushed /\ Complete(v.receipt.data)
  <2>1. PICK w \in Views(ReceiptDir) : \A f \in Finals : DirOf[f] = ReceiptDir =>
              \/ v[f] \in {w[f], Settled(w[f])}
              \/ w = ent /\ v = ent' /\ Renaming(f, v[f])
    BY <1>1, ViewsEvolve
  <2>2. \/ v.receipt \in {w.receipt, Settled(w.receipt)}
        \/ pc = "rename receipt" /\ v.receipt = draft
    BY <2>1 DEF Finals, ReceiptDir, Renaming
  <2>3. CASE v.receipt \in {w.receipt, Settled(w.receipt)}
    <3>1. w.receipt # None
      BY <1>3, <2>3 DEF Settled
    <3>2. w.receipt.flushed /\ Complete(w.receipt.data) /\ v.receipt = w.receipt
      BY <2>3, <3>1 DEF ReceiptsComplete, Settled
    <3> QED BY <3>2
  <2>4. CASE pc = "rename receipt" /\ v.receipt = draft
    BY <2>4 DEF ReceiptsComplete, Drafting, Flushed
  <2> QED BY <2>2, <2>3, <2>4
<1> QED BY <1>2, <1>3 DEF ReceiptsComplete, Complete

\* What is published is complete at every instant.
LEMMA ReceiptsHold == Spec => [](TypeInv /\ FramesGenuine /\ ReceiptsComplete)
<1> DEFINE I == TypeInv /\ FramesGenuine /\ ReceiptsComplete
<1>1. Init => I
  <2> SUFFICES ASSUME Init PROVE FramesGenuine /\ ReceiptsComplete
    BY InitTypeInv
  <2>1. Views(ReceiptDir) = {ent} /\ ent.receipt = None
    BY DirAssumption DEF Init, Views, ReceiptDir, Paths, Finals
  <2>2. ReceiptsComplete
    BY <2>1 DEF Init, ReceiptsComplete, Drafting, Flushed
  <2>3. spool.frames = <<>> /\ Len(spool.frames) = 0
    BY DEF Init, EmptySpool
  <2> QED BY <2>2, <2>3 DEF FramesGenuine
<1>2. I /\ [Next]_vars => I'
  BY NextTypeInv, NextGenuine, NextReceiptsComplete
<1> QED BY <1>1, <1>2, PTL DEF Spec

\* In whatever directories the files are, and whatever is lost of them, a
\* receipt that can be seen holds the frames of an uninterrupted run from
\* reset to the expected endpoint, under the statement that says so.
THEOREM ReceiptIsComplete == Spec => []ReceiptComplete
<1>1. ReceiptsComplete => ReceiptComplete
  BY DEF ReceiptsComplete, ReceiptComplete, Complete, Views
<1> QED BY <1>1, ReceiptsHold, PTL

----------------------------------------------------------------------------
(* The statement.                                                          *)

\* Only one step makes a receipt visible, and only a power loss can bring
\* another one back, with no process left to see it.
LEMMA NextNoReceipt ==
    ASSUME TypeOK, NoReceiptYet, [Next]_vars
    PROVE  NoReceiptYet'
<1> SUFFICES ASSUME pc' \notin {"idle", "sync receipt"} PROVE ent'.receipt = None
  BY DEF NoReceiptYet
<1>1. ent \in Entries
  BY DEF TypeOK
<1>2. CASE \E p \in Pids, limit \in Limits : Start(p, limit) \/ Resume(p, limit)
  BY <1>1, <1>2 DEF Start, Resume, Install, Entries
<1>3. CASE \/ SyncTruncation \/ VerifyPrefix \/ AppendLength \/ AppendBody \/ SyncSpool
           \/ FlushProgress \/ FlushReceipt \/ KeepStatement \/ UNCHANGED vars
  <2>1. ent' = ent /\ pc \notin {"idle", "sync receipt"}
    BY <1>3 DEF SyncTruncation, VerifyPrefix, AppendLength, AppendBody, SyncSpool,
                FlushProgress, FlushReceipt, Flush, KeepStatement, disk, vars
  <2> QED BY <2>1 DEF NoReceiptYet
<1>4. CASE SyncProgress \/ SyncStatement
  BY <1>4 DEF SyncProgress, SyncStatement, SyncDir, NoReceiptYet
<1>5. CASE DraftProgress \/ DraftReceipt \/ DraftStatement
  <2>1. ent' = ent \/ \E f \in Finals : OpenPartial(f)
    BY <1>5 DEF DraftProgress, DraftReceipt, DraftStatement, Finals
  <2>2. ent'.receipt = ent.receipt
    BY <1>1, <2>1 DEF OpenPartial, Install, Entries
  <2>3. pc \notin {"idle", "sync receipt"}
    BY <1>5 DEF DraftProgress, DraftReceipt, DraftStatement
  <2> QED BY <2>2, <2>3 DEF NoReceiptYet
<1>6. CASE RenameProgress
  BY <1>1, <1>6 DEF RenameProgress, Publish, Install, Entries, NoReceiptYet
<1>7. CASE RenameStatement
  BY <1>1, <1>7 DEF RenameStatement, Publish, Install, Entries, NoReceiptYet
<1>8. ~(Pause \/ Kill \/ PowerLoss \/ SyncReceipt \/ RenameReceipt)
  BY DEF Pause, Kill, PowerLoss, SyncReceipt, RenameReceipt, Exited, Goto
<1> QED BY <1>2, <1>3, <1>4, <1>5, <1>6, <1>7, <1>8 DEF Next, Step

\* From write_new to the rename of the receipt the statement is visible.
LEMMA NextStatementVisible ==
    ASSUME TypeInv, StatementsFirst, [Next]_vars
    PROVE  pc' \in {"sync statement", "rename receipt"} =>
               ent'.statement # None /\ ent'.statement.data = draft'.data.statement
<1> SUFFICES ASSUME pc' \in {"sync statement", "rename receipt"}
             PROVE  ent'.statement # None /\ ent'.statement.data = draft'.data.statement
  OBVIOUS
<1>1. CASE RenameStatement
  <2>1. /\ pc = "rename statement" /\ draft' = draft /\ ent \in Entries
        /\ ent' = [ent EXCEPT !["statement"] = File(draft.data.statement, TRUE),
                              !.partial = @ \ {<<"statement", pid>>}]
    BY <1>1 DEF RenameStatement, Publish, Install, TypeInv, TypeOK
  <2>2. ent'.statement = File(draft.data.statement, TRUE)
    BY <2>1 DEF Entries
  <2>3. draft \in [data : Receipts, flushed : BOOLEAN]
    BY <2>1 DEF TypeInv, DraftMatchesProver
  <2>4. draft.data.statement \in Statements
    BY <2>3 DEF Receipts
  <2>5. File(draft.data.statement, TRUE) \in [data : Statements, flushed : BOOLEAN]
    BY <2>4 DEF File
  <2>6. File(draft.data.statement, TRUE).data = draft.data.statement
    BY DEF File
  <2> QED BY <2>1, <2>2, <2>5, <2>6, NoneAssumption
<1>2. CASE KeepStatement
  BY <1>2 DEF KeepStatement, Exited, disk
<1>3. CASE SyncStatement
  BY <1>3 DEF SyncStatement, SyncDir, StatementsFirst
<1>4. CASE UNCHANGED vars
  BY <1>4 DEF vars, StatementsFirst
<1>5. ~(\E p \in Pids, limit \in Limits : Start(p, limit) \/ Resume(p, limit))
  BY DEF Start, Resume, Goto
<1>6. ~(\/ SyncTruncation \/ VerifyPrefix \/ Pause \/ AppendLength \/ AppendBody \/ SyncSpool
        \/ FlushProgress \/ FlushReceipt \/ Kill \/ PowerLoss)
  BY DEF SyncTruncation, VerifyPrefix, Pause, AppendLength, AppendBody, SyncSpool,
         FlushProgress, FlushReceipt, Flush, Kill, PowerLoss, Exited, Goto
<1>7. ~(\/ DraftProgress \/ RenameProgress \/ SyncProgress \/ DraftReceipt \/ DraftStatement
        \/ RenameReceipt \/ SyncReceipt)
  BY DEF DraftProgress, RenameProgress, SyncProgress, DraftReceipt, DraftStatement,
         RenameReceipt, SyncReceipt, Exited, Goto
<1> QED BY <1>1, <1>2, <1>3, <1>4, <1>5, <1>6, <1>7 DEF Next, Step

LEMMA NextStatementsFirst ==
    ASSUME StatementBesideReceipt, TypeInv, ReceiptsComplete, StatementsFirst, [Next]_vars
    PROVE  StatementsFirst'
<1>1. TypeOK /\ ReceiptDir \in Dirs
  BY DirAssumption DEF TypeInv, ReceiptDir, Paths, Finals
<1>2. ASSUME NEW v \in Views(ReceiptDir)'
      PROVE  /\ v.statement # None => v.statement.flushed
             /\ v.receipt # None =>
                   v.statement # None /\ v.statement.data = v.receipt.data.statement
  <2>1. PICK w \in Views(ReceiptDir) : \A f \in Finals : DirOf[f] = ReceiptDir =>
              \/ v[f] \in {w[f], Settled(w[f])}
              \/ w = ent /\ v = ent' /\ Renaming(f, v[f])
    BY <1>1, <1>2, ViewsEvolve
  <2>2. \/ v.receipt \in {w.receipt, Settled(w.receipt)}
        \/ w = ent /\ pc = "rename receipt" /\ v.receipt = draft
    BY <2>1 DEF Finals, ReceiptDir, Renaming
  <2>3. \/ v.statement \in {w.statement, Settled(w.statement)}
        \/ w = ent /\ pc = "rename statement" /\ v.statement = File(draft.data.statement, TRUE)
    BY <2>1 DEF Finals, ReceiptDir, Renaming, StatementBesideReceipt
  <2>4. w.statement # None => w.statement.flushed
    BY DEF StatementsFirst
  <2>5. Settled(w.statement) = w.statement
    BY <2>4 DEF Settled
  <2>6. w.receipt # None => w.receipt.flushed
    BY DEF ReceiptsComplete
  <2>7. Settled(w.receipt) = w.receipt
    BY <2>6 DEF Settled
  <2>8. File(draft.data.statement, TRUE).flushed = TRUE
    BY DEF File
  <2>9. v.statement # None => v.statement.flushed
    BY <2>3, <2>4, <2>5, <2>8
  <2>10. ASSUME v.receipt # None
         PROVE  v.statement # None /\ v.statement.data = v.receipt.data.statement
    <3>1. CASE v.receipt = w.receipt
      <4>1. w.statement # None /\ w.statement.data = w.receipt.data.statement
        BY <2>10, <3>1 DEF StatementsFirst
      <4>2. ~(w = ent /\ pc = "rename statement")
        BY <2>10, <3>1 DEF StatementsFirst, NoReceiptYet
      <4> QED BY <2>3, <2>5, <3>1, <4>1, <4>2
    <3>2. CASE w = ent /\ pc = "rename receipt" /\ v.receipt = draft
      <4>1. w.statement # None /\ w.statement.data = draft.data.statement
        BY <3>2 DEF StatementsFirst
      <4> QED BY <2>3, <2>5, <3>2, <4>1
    <3> QED BY <2>2, <2>7, <3>1, <3>2
  <2> QED BY <2>9, <2>10
<1> QED BY <1>1, <1>2, NextNoReceipt, NextStatementVisible DEF StatementsFirst

\* finalize makes the statement durable before it renames the receipt over
\* its path: a receipt that survives a power loss is whole and has its own
\* statement beside it, when both are in one directory.
THEOREM ReceiptSafe == ASSUME StatementBesideReceipt PROVE Spec => []ReceiptWhole
<1> DEFINE I == TypeInv /\ FramesGenuine /\ ReceiptsComplete
<1>1. Init => StatementsFirst
  <2> SUFFICES ASSUME Init PROVE StatementsFirst
    OBVIOUS
  <2>1. Views(ReceiptDir) = {ent} /\ ent.receipt = None /\ ent.statement = None
    BY DirAssumption DEF Init, Views, ReceiptDir, Paths, Finals
  <2> QED BY <2>1 DEF Init, StatementsFirst, NoReceiptYet
<1>2. I /\ StatementsFirst /\ [Next]_vars => StatementsFirst'
  BY NextStatementsFirst
<1>3. StatementsFirst => ReceiptHasStatement
  BY DEF StatementsFirst, ReceiptHasStatement, StatementBesideReceipt, ReceiptDir, Together
<1>4. StatementsFirst /\ ReceiptComplete => ReceiptWhole
  BY <1>3 DEF ReceiptWhole
<1> QED BY <1>1, <1>2, <1>4, ReceiptsHold, ReceiptIsComplete, PTL DEF Spec
=============================================================================
