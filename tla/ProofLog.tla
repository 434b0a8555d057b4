------------------------------ MODULE ProofLog ------------------------------
(***************************************************************************)
(* What the native prover promises to whoever runs it: a position in the   *)
(* execution up to which the proof is committed, which only moves forward  *)
(* from one segment boundary to a later one, and a receipt that is         *)
(* published once, when the whole execution has been proved.               *)
(***************************************************************************)
EXTENDS Integers

CONSTANTS Total, SegmentEnd, EndpointMatches

VARIABLES committed, published

vars == <<committed, published>>

\* With a boundary, the end of the segment that starts there.
Closed(boundaries) ==
    \A b \in boundaries : b < Total => SegmentEnd[b] \in boundaries

\* Boundaries an uninterrupted run passes through from s on.
From(s) ==
    {b \in 0..Total : \A boundaries \in SUBSET (0..Total) :
                          s \in boundaries /\ Closed(boundaries) => b \in boundaries}

Init == committed = 0 /\ published = FALSE

Commit ==
    /\ ~published
    /\ committed' # committed
    /\ committed' \in From(committed)
    /\ UNCHANGED published

\* The directory sync that makes the receipt durable may be the one that makes
\* the last checkpoint durable too.
PublishReceipt ==
    /\ ~published
    /\ published' = TRUE
    /\ committed' = Total
    /\ Total \in From(committed)
    /\ EndpointMatches

Next == Commit \/ PublishReceipt

Spec == Init /\ [][Next]_vars
=============================================================================
