--------------------------- MODULE MCCheckedBatch ---------------------------
(***************************************************************************)
(* CheckedBatch for TLC.  A dependent proposal is accepted only behind an    *)
(* accepted one, so a verdict depends on where its proposal landed.          *)
(***************************************************************************)
EXTENDS CheckedBatch, TLC

CONSTANTS p1, p2, p3

MCRank == p1 :> 1 @@ p2 :> 2 @@ p3 :> 3

MCBatches == {<<p1, p2>>, <<p2, p1>>, <<p3>>}

MCDecide(l, p) ==
  IF p = p2 => \E i \in 1..Len(l) : l[i].result = "Accept" THEN "Accept" ELSE "Reject"
=============================================================================
