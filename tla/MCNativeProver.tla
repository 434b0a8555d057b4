--------------------------- MODULE MCNativeProver ---------------------------
(* Instances of the prover's durable protocol for model checking.          *)
EXTENDS NativeProver

\* Segments 0-2, 2-5 and 5-6; the other entries are never reached.
MCSegmentEnd == [s \in 0..5 |-> IF s < 2 THEN s + 2 ELSE IF s = 2 THEN 5 ELSE 6]

MCOneDir   == {"out"}
MCOneDirOf == [f \in Paths |-> "out"]

MCSplitDirs  == Paths
MCSplitDirOf == [f \in Paths |-> f]
=============================================================================
