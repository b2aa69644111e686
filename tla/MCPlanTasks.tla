---------------------------- MODULE MCPlanTasks ----------------------------
(***************************************************************************)
(* PlanTasks for TLC: every graph of three tasks that name up to two         *)
(* dependencies each, themselves and repetitions included; every graph of     *)
(* four tasks that name up to one; and every combination of statuses, proofs  *)
(* and missing names over two tasks.                                         *)
(***************************************************************************)
EXTENDS PlanTasks

Lists(S, n) == UNION {[1..k -> S] : k \in 0..n}

Task(id, deps, inputs, status, proof) ==
  [id |-> id, depends_on |-> deps, inputs_from |-> inputs, status |-> status, proof |-> proof]

Graphs_(n, k) ==
  {[tasks |-> [i \in 1..n |-> Task(i, deps[i], {}, "Pending", "none")], status |-> "Running"] :
     deps \in [1..n -> Lists(1..n, k)]}

Shapes ==
  {[tasks |-> tasks, status |-> "Running"] :
     tasks \in Lists({Task(id, deps, inputs, "Pending", "none") :
                        id \in 1..2, deps \in {<<>>, <<1>>, <<3>>}, inputs \in {{}, {1}, {3}}}, 2)}

Outcomes ==
  {[tasks |-> <<Task(1, <<>>, {}, s1, p1), Task(2, <<1>>, {1}, s2, p2)>>, status |-> s] :
     s1, s2 \in {"Pending", "Running", "Done", "Failed", "Skipped"},
     p1, p2 \in {"none", "own", "foreign"}, s \in {"Running", "Completed", "Abandoned"}}

MCPlans == Graphs_(3, 2) \union Graphs_(4, 1) \union Shapes \union Outcomes
=============================================================================
