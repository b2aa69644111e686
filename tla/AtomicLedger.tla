---------------------------- MODULE AtomicLedger ----------------------------
(***************************************************************************)
(* What the log promises its hosts: a sequence of proposals, each decided   *)
(* once, on top of exactly the entries before it, with the proposal and its *)
(* decision appearing together or not at all.  A failure may take entries   *)
(* that no commit acknowledged; it never takes or changes another one.      *)
(***************************************************************************)
EXTENDS Integers, Sequences

CONSTANTS
  Proposals,
  Rules,
  Decide(_, _, _)  \* Decide(rules, ledger, proposal): the verdict

VARIABLES
  ledger,          \* the decided entries
  acknowledged     \* how many of them commits have returned Ok for

Init == ledger = <<>> /\ acknowledged = 0

Commit(r, p) ==
  /\ ledger' = Append(ledger, [prop |-> p, result |-> Decide(r, ledger, p)])
  /\ UNCHANGED acknowledged

Acknowledge ==
  /\ acknowledged' = Len(ledger)
  /\ UNCHANGED ledger

Lose ==
  /\ \E n \in acknowledged..Len(ledger) : ledger' = SubSeq(ledger, 1, n)
  /\ UNCHANGED acknowledged

Next == (\E r \in Rules, p \in Proposals : Commit(r, p)) \/ Acknowledge \/ Lose

Spec == Init /\ [][Next]_<<ledger, acknowledged>>
=============================================================================
