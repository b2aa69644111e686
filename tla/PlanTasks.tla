----------------------------- MODULE PlanTasks -----------------------------
(***************************************************************************)
(* What check_plan (verify/verifier/plans.rs) asks of the tasks of a Plan:   *)
(* well-formed task lists, proofs that are results of the plan's own request, *)
(* no cycle in depends_on, and a plan status that agrees with the tasks'.     *)
(* The cycle check is the counting walk of has_cycle, step by step: in_degree *)
(* and adj count every occurrence of a dependency, so a task may name one     *)
(* twice.  The first queue is in the order of a HashMap's keys, and the       *)
(* neighbours of a task are relaxed in any order.                             *)
(*                                                                          *)
(* The Cause, the request and the Replace of a plan are Governance's.  What   *)
(* result_record_id names is "none", "own" (an accepted Result, in the        *)
(* plan's thread, of an action of its request) or something else.             *)
(***************************************************************************)
EXTENDS Integers, Sequences, FiniteSets, SequencesExt

CONSTANT Plans   \* the payloads proposed

VARIABLES
  plan,       \* the payload under check
  phase,      \* where check_plan is, and how it ended
  in_degree,  \* task |-> occurrences of dependencies not yet relaxed
  adj,        \* task |-> (task |-> how often the second depends on the first)
  queue,      \* tasks whose dependencies were all visited
  todo,       \* neighbours of the task last popped, still to be relaxed
  visited,    \* how many tasks were popped
  popped      \* which tasks were popped (history)

walk == <<in_degree, adj, queue, todo, visited, popped>>
vars == <<plan, phase, walk>>

Tasks(p) == {p.tasks[i] : i \in DOMAIN p.tasks}
TaskIds(p) == {t.id : t \in Tasks(p)}
DependsOn(id) == (CHOOSE t \in Tasks(plan) : t.id = id).depends_on

\* tasks and depends_on are lists (Vec in the payload).
ASSUME PlanTypes ==
  \A p \in Plans : /\ p.tasks \in Seq(Tasks(p))
                   /\ \A t \in Tasks(p) : t.depends_on \in Seq(ToSet(t.depends_on))

-----------------------------------------------------------------------------
(* The checks around the walk *)

UniqueIds(p) == \A i, j \in DOMAIN p.tasks : p.tasks[i].id = p.tasks[j].id => i = j

\* Tasks exist, under ids of their own, and name only each other.
WellFormed(p) ==
  /\ p.tasks # <<>>
  /\ UniqueIds(p)
  /\ \A t \in Tasks(p) : ToSet(t.depends_on) \union t.inputs_from \subseteq TaskIds(p)

\* A result is cited by an executed task, and is one of this request.
Proven(p) ==
  \A t \in Tasks(p) : t.proof # "none" => t.status \in {"Done", "Failed"} /\ t.proof = "own"

Statuses(p) == {t.status : t \in Tasks(p)}

\* The status of the plan follows from those of its tasks.
Consistent(p) ==
  CASE p.status = "Running" -> Statuses(p) \intersect {"Pending", "Running"} # {}
    [] p.status = "Completed" -> Statuses(p) \subseteq {"Done"}
    [] p.status = "Abandoned" -> /\ Statuses(p) \subseteq {"Done", "Failed", "Skipped"}
                                 /\ Statuses(p) \intersect {"Failed", "Skipped"} # {}

-----------------------------------------------------------------------------

Init ==
  /\ plan \in Plans
  /\ phase = "checks"
  /\ in_degree = <<>> /\ adj = <<>> /\ queue = <<>> /\ todo = <<>>
  /\ visited = 0 /\ popped = {}

Check ==
  /\ phase = "checks"
  /\ phase' = IF WellFormed(plan) /\ Proven(plan) THEN "count" ELSE "rejected"
  /\ UNCHANGED <<plan, walk>>

Occurrences(s, x) == Cardinality({k \in DOMAIN s : s[k] = x})

\* Mutant of Degree: a dependency counts once however often it is named.
DegreeDistinct(id) == Cardinality(ToSet(DependsOn(id)))

Degree(id) == Len(DependsOn(id))

\* The two maps, and the tasks that wait for nothing.
Count ==
  /\ phase = "count"
  /\ phase' = "walk"
  /\ in_degree' = [t \in TaskIds(plan) |-> Degree(t)]
  /\ adj' = [d \in TaskIds(plan) |-> [t \in TaskIds(plan) |-> Occurrences(DependsOn(t), d)]]
  /\ queue' \in SetToSeqs({t \in TaskIds(plan) : Degree(t) = 0})
  /\ todo' = [t \in TaskIds(plan) |-> 0]
  /\ UNCHANGED <<plan, visited, popped>>

Relaxed == \A t \in DOMAIN todo : todo[t] = 0

\* The next task of the queue; its neighbours are to be relaxed.
Pop ==
  /\ phase = "walk" /\ Relaxed /\ queue # <<>>
  /\ queue' = Tail(queue)
  /\ visited' = visited + 1
  /\ popped' = popped \union {Head(queue)}
  /\ todo' = adj[Head(queue)]
  /\ UNCHANGED <<plan, phase, in_degree, adj>>

\* Mutants of Relax: a neighbour named twice is settled once; a neighbour is
\* queued as soon as it is seen.
RelaxOnce(t) ==
  /\ phase = "walk" /\ todo[t] > 0
  /\ todo' = [todo EXCEPT ![t] = 0]
  /\ in_degree' = [in_degree EXCEPT ![t] = @ - 1]
  /\ queue' = IF in_degree'[t] = 0 THEN Append(queue, t) ELSE queue
  /\ UNCHANGED <<plan, phase, adj, visited, popped>>
RelaxEarly(t) ==
  /\ phase = "walk" /\ todo[t] > 0
  /\ todo' = [todo EXCEPT ![t] = @ - 1]
  /\ in_degree' = [in_degree EXCEPT ![t] = @ - 1]
  /\ queue' = Append(queue, t)
  /\ UNCHANGED <<plan, phase, adj, visited, popped>>

\* One occurrence of a dependency of t is settled; the last one queues t.
Relax(t) ==
  /\ phase = "walk" /\ todo[t] > 0
  /\ todo' = [todo EXCEPT ![t] = @ - 1]
  /\ in_degree' = [in_degree EXCEPT ![t] = @ - 1]
  /\ queue' = IF in_degree'[t] = 0 THEN Append(queue, t) ELSE queue
  /\ UNCHANGED <<plan, phase, adj, visited, popped>>

\* Mutant of Drained: the walk waits for every task.
DrainedAll == phase = "walk" /\ Relaxed /\ visited = Len(plan.tasks)

\* The loop over the queue is over.
Drained == phase = "walk" /\ Relaxed /\ queue = <<>>

\* Mutant of HasCycle: a walk that visited something found no cycle.
HasCycleIfStuck == visited = 0

\* What has_cycle returns: some task was never reached.
HasCycle == visited # Len(plan.tasks)

\* The end of the walk, and the status check behind it.
Decide ==
  /\ Drained
  /\ phase' = IF ~HasCycle /\ Consistent(plan) THEN "accepted" ELSE "rejected"
  /\ UNCHANGED <<plan, walk>>

Next ==
  \/ Check \/ Count \/ Pop \/ Decide
  \/ \E t \in DOMAIN todo : Relax(t)

\* check_plan is one call, which runs to its end.
Spec == Init /\ [][Next]_vars /\ WF_vars(Next)

-----------------------------------------------------------------------------
(* Properties *)

Walking == phase = "walk"

\* The type invariant: the counters are natural numbers (they are usize in the
\* code, where one decrement too many would panic or wrap), and the queue and
\* the history hold tasks of the plan.
TypeOK ==
  /\ phase \in {"checks", "count", "walk", "accepted", "rejected"}
  /\ \A t \in DOMAIN in_degree : in_degree[t] \in Nat
  /\ \A t \in DOMAIN todo : todo[t] \in 0..Len(DependsOn(t))
  /\ ToSet(queue) \union popped \subseteq TaskIds(plan)
  /\ visited \in 0..Len(plan.tasks)

\* The counter of a task is exactly what it still waits for: the occurrences of
\* dependencies that were not popped and those of the task being relaxed.
InDegreeExact ==
  Walking => \A t \in TaskIds(plan) :
    in_degree[t] = todo[t] + Cardinality({k \in DOMAIN DependsOn(t) : DependsOn(t)[k] \notin popped})

\* The walk is a topological order: a task is queued once, after everything it
\* depends on was visited, and each visit counts one task.
TopologicalOrder ==
  Walking =>
    /\ IsInjective(queue) /\ ToSet(queue) \intersect popped = {}
    /\ visited = Cardinality(popped)
    /\ \A t \in ToSet(queue) \union popped : ToSet(DependsOn(t)) \subseteq popped

\* The counters and the queue are right at every step, in every order.
WalkExact == TypeOK /\ InDegreeExact /\ TopologicalOrder

\* No set of tasks in which every one waits for another of the set.
Acyclic ==
  \A S \in SUBSET TaskIds(plan) :
    S # {} => \E t \in S : ToSet(DependsOn(t)) \intersect S = {}

\* A plan is accepted exactly if it is well-formed, proven, acyclic and of a
\* consistent status, in whatever order the walk took its tasks.
VerdictExact ==
  phase \in {"accepted", "rejected"} =>
    (phase = "accepted" <=> WellFormed(plan) /\ Proven(plan) /\ Acyclic /\ Consistent(plan))

\* The check ends.
Ends == <>(phase \in {"accepted", "rejected"})
=============================================================================
