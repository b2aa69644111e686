----------------------------- MODULE MCLogWriter -----------------------------
(***************************************************************************)
(* LogWriter for TLC.  A dependent proposal is accepted once some other     *)
(* record was (a Require reference to an accepted record), and the strict   *)
(* rule set rejects every dependent proposal.                               *)
(***************************************************************************)
EXTENDS LogWriter, TLC

CONSTANTS Dependent, Strict

Perms == Permutations(Handles)

MCAccepts(r, st, p) == p \in Dependent => st.accepted # {} /\ r # Strict
=============================================================================
