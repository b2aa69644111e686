------------------------------ MODULE Context ------------------------------
(***************************************************************************)
(* The working set that a host selects for a proposer (context/context.rs):  *)
(* the newest records of a thread that are accepted, not superseded and not   *)
(* withdrawn, up to max_context_records.  It reads a finished log and its     *)
(* State, so it is defined here over any state of Governance.                 *)
(***************************************************************************)
EXTENDS Governance

\* max_context_records is a count.
ASSUME ContextConstants == \A s \in Settings : s.rules.max_context_records \in Nat

\* Mutant of Eligible: what rests on withdrawn content is left in.
EligibleTainted(th, policy) ==
  {i \in accepted_records \ (replaced_records \union retracted_records) :
     log[i].body.thread = th}

\* The records of the thread that the policy admits.
Eligible(th, policy) ==
  {i \in accepted_records \ (replaced_records \union retracted_records) :
     /\ log[i].body.thread = th
     /\ policy = "ExcludeTainted" => i \notin tainted_records}

\* Mutant of Newest: the oldest records are kept.
Oldest(S) == {i \in S : Cardinality({j \in S : j < i}) < rules.max_context_records}

\* The newest records of S, as many as the rules allow.
Newest(S) == {i \in S : Cardinality({j \in S : j > i}) < rules.max_context_records}

\* build_context_with: the records, the reports of use about them, and which of
\* them are tainted.  The order, newest first, is that of the places.
ContextOf(th, policy) ==
  LET selected == Newest(Eligible(th, policy))
  IN  [records |-> selected,
       usage_feedback |-> [i \in {j \in selected : usage_counts[j] > 0} |-> usage_counts[i]],
       tainted_records |-> selected \intersect tainted_records]

-----------------------------------------------------------------------------
(* Properties *)

\* By default a proposer is fed nothing that was withdrawn and nothing that
\* rests on withdrawn content through any number of records, whichever of them
\* was committed first; under the other policy whatever does is labelled.
ContextClean ==
  \A th \in Threads :
    LET safe == ContextOf(th, "ExcludeTainted")
        all == ContextOf(th, "IncludeTainted")
    IN  /\ \A i \in safe.records : (Foundations[i] \union {i}) \intersect retracted_records = {}
        /\ all.tainted_records =
             {i \in all.records : Foundations[i] \intersect retracted_records # {}}

\* A context is full before it leaves anything out: what it leaves out is
\* withdrawn, superseded or older than all it has; and a superseding record is
\* never left out for the one that it superseded.
ContextNewest ==
  \A th \in Threads :
    LET c == ContextOf(th, "ExcludeTainted").records
        live == {i \in accepted_records : log[i].body.thread = th}
                  \ (retracted_records \union tainted_records)
    IN  /\ Cardinality(c) <= rules.max_context_records
        /\ \A i \in live \ c :
             \/ \E j \in accepted_records : i \in Targets(log[j].refs, "Replace")
             \/ Cardinality(c) = rules.max_context_records /\ \A j \in c : i < j

\* A context has what is newest among what nobody withdrew, and nothing else.
ContextSound == ContextClean /\ ContextNewest
=============================================================================
