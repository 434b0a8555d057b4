--------------------------- MODULE MCSegmentProof ---------------------------
(***************************************************************************)
(* Segments of three rows of four lanes, six cycles and five bus slots,    *)
(* and receipts of up to three of them.  A behaviour is about one or the   *)
(* other.                                                                  *)
(***************************************************************************)
EXTENDS SegmentProof, ReceiptChain

MCRom == [ p \in 0 .. 255 |-> p ]

MCInit == Init /\ ReceiptInit

MCNext ==
    \/ Next /\ UNCHANGED receiptVars
    \/ free = "receipts" /\ ReceiptNext /\ UNCHANGED vars

MCSpec == MCInit /\ [][MCNext]_<< vars, receiptVars >>
=============================================================================
