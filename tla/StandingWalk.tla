---------------------------- MODULE StandingWalk ----------------------------
(***************************************************************************)
(* The walk of derive_standing (verify/standing.rs) that gives every          *)
(* accepted candidate its standing: a post-order traversal of the candidates' *)
(* lineage with an explicit stack and a memo, in place of a recursion that    *)
(* deep lineages would overflow.  The keys of the candidates map come in any  *)
(* order (a HashMap's), and so do the dependencies of one candidate (record   *)
(* ids are hashes); the result may not depend on either.                      *)
(*                                                                          *)
(* A candidate is a number, and names earlier candidates only.  The health    *)
(* of a continuation's anchor, which the walk reads, is part of the input.    *)
(***************************************************************************)
EXTENDS Integers, Sequences, FiniteSets, SequencesExt

CONSTANTS
  MaxCandidates,   \* bound: accepted candidates
  MaxRetracted     \* bound: those that were retracted

ASSUME BoundsAssumption == MaxCandidates \in Nat /\ MaxRetracted \in Nat

VARIABLES
  info,     \* the accepted candidates, in log order, with their lineage facts
  walking,  \* whether the records were all read
  pending,  \* keys of candidates the outer loop has still to visit
  stack,    \* (candidate, whether its dependencies were pushed), top last
  sound     \* the memo: candidate |-> "sound", "compromised" or "unset"

vars == <<info, walking, pending, stack, sound>>

Candidates == DOMAIN info

Evaluation == 0   \* a cause that is no candidate

\* Lineage facts: basis, parent (0 for none), causes (the anchor aside), whether
\* the candidate was retracted and whether its anchor is sound for its parent.
CandInfo(i) ==
  LET facts(basis, parents, causes, anchors) ==
        [basis : {basis}, parent : parents, causes : causes, anchor : anchors, retracted : BOOLEAN]
  IN  facts("Root", {0}, {{}}, {TRUE})
        \union facts("Continuation", 1..(i - 1), {{}}, BOOLEAN)
        \union facts("Derivation", {0}, SUBSET ({Evaluation} \union 1..(i - 1)) \ {{}}, {TRUE})

\* Mutant of Deps: an evaluation that was derived from needs a standing too.
DepsAny(i) ==
  CASE info[i].basis = "Root" -> {}
    [] info[i].basis = "Continuation" -> {info[i].parent}
    [] info[i].basis = "Derivation" -> info[i].causes

\* The candidates whose standing that of i depends on.
Deps(i) ==
  CASE info[i].basis = "Root" -> {}
    [] info[i].basis = "Continuation" -> {info[i].parent}
    [] info[i].basis = "Derivation" -> info[i].causes \intersect Candidates

Value(b) == IF b THEN "sound" ELSE "compromised"

Init ==
  /\ info = <<>>
  /\ walking = FALSE
  /\ pending = {}
  /\ stack = <<>>
  /\ sound = <<>>

-----------------------------------------------------------------------------

\* The facts of the next accepted candidate of the log are read.
Collect(fact) ==
  /\ ~walking /\ Len(info) < MaxCandidates
  /\ fact.retracted => Cardinality({i \in Candidates : info[i].retracted}) < MaxRetracted
  /\ info' = Append(info, fact)
  /\ UNCHANGED <<walking, pending, stack, sound>>

\* The log has no more records.
Begin ==
  /\ ~walking
  /\ walking' = TRUE
  /\ pending' = Candidates
  /\ sound' = [i \in Candidates |-> "unset"]
  /\ UNCHANGED <<info, stack>>

\* The outer loop takes a key; one that has its standing is passed over.
Visit(start) ==
  /\ walking /\ stack = <<>> /\ start \in pending
  /\ pending' = pending \ {start}
  /\ stack' = IF sound[start] = "unset" THEN <<<<start, FALSE>>>> ELSE <<>>
  /\ UNCHANGED <<info, walking, sound>>

Top == stack[Len(stack)]
Rest == SubSeq(stack, 1, Len(stack) - 1)

\* The dependencies that have no standing yet.
Unresolved(i) == {d \in Deps(i) \intersect Candidates : sound[d] = "unset"}

\* Mutant of MustWait: that its dependencies were pushed before is forgotten.
MustWaitAgain == Deps(Top[1]) # {}

\* The candidate on top waits for its dependencies, pushed above it in some order.
MustWait == ~Top[2] /\ Unresolved(Top[1]) # {}

\* What has no standing is not sound.
DepSound(d) == d \in Candidates /\ sound[d] = "sound"

\* The standing of a candidate from that of its dependencies; one that was
\* retracted is compromised whatever they are.
Settled(i) == ~info[i].retracted /\ info[i].anchor /\ \A d \in Deps(i) : DepSound(d)

\* A candidate that got its standing while it was on the stack is dropped.
Drop ==
  /\ stack # <<>> /\ sound[Top[1]] # "unset"
  /\ stack' = Rest
  /\ UNCHANGED <<info, walking, pending, sound>>

\* Mutant of Push: the candidate is pushed back above its dependencies.
PushAbove ==
  /\ stack # <<>> /\ sound[Top[1]] = "unset"
  /\ ~info[Top[1]].retracted
  /\ MustWait
  /\ \E order \in SetToSeqs(Unresolved(Top[1])) :
       stack' = Rest \o [k \in DOMAIN order |-> <<order[k], FALSE>>] \o <<<<Top[1], TRUE>>>>
  /\ UNCHANGED <<info, walking, pending, sound>>

Push ==
  /\ stack # <<>> /\ sound[Top[1]] = "unset"
  /\ ~info[Top[1]].retracted
  /\ MustWait
  /\ \E order \in SetToSeqs(Unresolved(Top[1])) :
       stack' = Rest \o <<<<Top[1], TRUE>>>> \o [k \in DOMAIN order |-> <<order[k], FALSE>>]
  /\ UNCHANGED <<info, walking, pending, sound>>

Settle ==
  /\ stack # <<>> /\ sound[Top[1]] = "unset"
  /\ info[Top[1]].retracted \/ ~MustWait
  /\ sound' = [sound EXCEPT ![Top[1]] = Value(Settled(Top[1]))]
  /\ stack' = Rest
  /\ UNCHANGED <<info, walking, pending>>

Done == walking /\ stack = <<>> /\ pending = {}

Next ==
  \/ \E fact \in CandInfo(Len(info) + 1) : Collect(fact)
  \/ Begin
  \/ \E start \in Candidates : Visit(start)
  \/ Drop
  \/ Push
  \/ Settle

Spec == Init /\ [][Next]_vars

\* A call runs to its end: the log it reads is finite.
FairSpec == Spec /\ WF_vars(Next)

-----------------------------------------------------------------------------
(* Properties *)

\* A candidate that waits on the stack has every dependency settled or above it.
\* So when it comes back to the top its dependencies are all settled, and the
\* default that derive_standing gives to an unset one is never used.
PostOrder ==
  \A k \in DOMAIN stack : stack[k][2] =>
    \A d \in Unresolved(stack[k][1]) : \E j \in (k + 1)..Len(stack) : stack[j][1] = d

\* The lineage of candidate i: itself and the candidates that it came from.
Lineage(i) ==
  LET origins(c) == ({info[c].parent} \union info[c].causes) \intersect Candidates
  IN  {j \in Candidates :
         \A S \in SUBSET Candidates : (i \in S /\ \A c \in S : origins(c) \subseteq S) => j \in S}

\* A candidate that breaks the lines through it.
Breaks(i) == info[i].retracted \/ ~info[i].anchor

\* Whatever the order of the walk, every standing it has recorded is the one
\* the specification gives: compromised if and only if the lineage holds a
\* retracted candidate or a continuation whose anchor is not sound.
MemoExact ==
  walking => \A i \in Candidates : sound[i] # "unset" =>
    sound[i] = Value(\A j \in Lineage(i) : ~Breaks(j))

\* The walk settles dependencies first, and so settles each candidate right.
WalkExact == PostOrder /\ MemoExact

\* The walk ends, and then every accepted candidate has its standing.
Completes == <>(Done /\ \A i \in Candidates : sound[i] # "unset")
=============================================================================
