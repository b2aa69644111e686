------------------------------ MODULE MCReplay ------------------------------
(***************************************************************************)
(* Replay for TLC.  The second proposal is accepted once the first was, and  *)
(* never under the strict rules, which reject it for another reason.          *)
(***************************************************************************)
EXTENDS Replay, TLC

CONSTANTS p1, p2, lax, strict

MCThread == p1 :> "t" @@ p2 :> "u"

MCDecide(r, st, p) ==
  CASE p = p1 -> "Accept"
    [] p = p2 /\ r = strict -> "NotAllowed"
    [] p = p2 /\ r = lax -> IF \E id \in st.accepted : id[2] = p1 THEN "Accept" ELSE "Missing"
=============================================================================
