--------------------------- MODULE MCJoinReceipts ---------------------------
(* Every number of segments up to MaxSegments. *)
EXTENDS JoinReceipts
=============================================================================
