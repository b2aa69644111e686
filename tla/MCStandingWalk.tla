--------------------------- MODULE MCStandingWalk ---------------------------
(***************************************************************************)
(* StandingWalk for TLC, over every lineage within the bounds.                *)
(***************************************************************************)
EXTENDS StandingWalk
=============================================================================
