--------------------------- MODULE PlanTasksProofs ---------------------------
(***************************************************************************)
(* The cycle check of check_plan is right for every plan: any number of      *)
(* tasks, any depends_on lists, repetitions and self-references included,     *)
(* and any order of the queue and of the relaxations.                         *)
(***************************************************************************)
EXTENDS PlanTasks, TLAPS, FiniteSetTheorems, SequenceTheorems

\* The places of t's depends_on that name a task not popped yet.
Waits(t) == {k \in DOMAIN DependsOn(t) : DependsOn(t)[k] \notin popped}

\* The two counters of every task are there, and adj counts occurrences.
Counters ==
  /\ in_degree \in [TaskIds(plan) -> Nat]
  /\ todo \in [TaskIds(plan) -> Nat]
  /\ adj = [d \in TaskIds(plan) |-> [t \in TaskIds(plan) |-> Occurrences(DependsOn(t), d)]]
  /\ queue \in Seq(TaskIds(plan))
  /\ popped \subseteq TaskIds(plan)

\* A task was queued exactly if nothing is left to wait for.
QueuedAtZero ==
  \A t \in TaskIds(plan) : in_degree[t] = 0 <=> t \in ToSet(queue) \union popped

\* No set of visited tasks waits for itself.
VisitedAcyclic ==
  \A S \in SUBSET popped : S # {} => \E t \in S : ToSet(DependsOn(t)) \intersect S = {}

\* Before the counting nothing is counted.
Fresh == in_degree = <<>> /\ todo = <<>> /\ queue = <<>> /\ popped = {} /\ visited = 0

\* The inductive invariant.
PInv ==
  /\ plan \in Plans
  /\ TypeOK
  /\ phase \in {"checks", "count"} => Fresh
  /\ phase \in {"count", "walk"} => WellFormed(plan) /\ Proven(plan)
  /\ Walking => Counters /\ QueuedAtZero /\ VisitedAcyclic
  /\ InDegreeExact
  /\ TopologicalOrder
  /\ VerdictExact

-----------------------------------------------------------------------------
(* Facts about a plan *)

\* The dependencies of a task of a well-formed plan are a list of its tasks.
LEMMA DependencyTypes ==
  ASSUME plan \in Plans, WellFormed(plan), NEW t \in TaskIds(plan)
  PROVE  DependsOn(t) \in Seq(TaskIds(plan)) /\ ToSet(DependsOn(t)) \subseteq TaskIds(plan)
<1> DEFINE task == CHOOSE x \in Tasks(plan) : x.id = t
<1>1. task \in Tasks(plan)
  BY DEF TaskIds
<1>2. /\ task.depends_on \in Seq(ToSet(task.depends_on))
      /\ ToSet(task.depends_on) \subseteq TaskIds(plan)
  BY <1>1, PlanTypes DEF WellFormed
<1>3. DependsOn(t) = task.depends_on
  BY DEF DependsOn
<1> HIDE DEF task
<1>4. task.depends_on \in Seq(TaskIds(plan))
  BY <1>2
<1> QED BY <1>2, <1>3, <1>4

\* Places of a list form a finite set, no larger than the list.
LEMMA PlacesFinite ==
  ASSUME NEW S, NEW s \in Seq(S), NEW T \in SUBSET DOMAIN s
  PROVE  /\ IsFiniteSet(T) /\ Cardinality(T) \in 0..Len(s)
         /\ Cardinality(T) = 0 <=> T = {}
         /\ Cardinality(DOMAIN s) = Len(s)
<1>1. DOMAIN s = 1..Len(s) /\ Len(s) \in Nat
  OBVIOUS
<1>2. IsFiniteSet(DOMAIN s) /\ Cardinality(DOMAIN s) = Len(s)
  <2> DEFINE n == Len(s)
  <2>1. n \in Nat /\ 1 \in Int /\ n \in Int
    OBVIOUS
  <2> HIDE DEF n
  <2>2. IsFiniteSet(1..n) /\ Cardinality(1..n) = n
    BY <2>1, FS_Interval
  <2> QED BY <1>1, <2>2 DEF n
<1>3. IsFiniteSet(T) /\ Cardinality(T) <= Len(s)
  BY <1>2, FS_Subset
<1>4. Cardinality(T) \in Nat
  BY <1>3, FS_CardinalityType
<1>5. Cardinality(T) = 0 <=> T = {}
  BY <1>3, FS_EmptySet
<1> QED BY <1>1, <1>2, <1>3, <1>4, <1>5

\* A plan has as many task ids as tasks, if they are unique.
LEMMA TaskCount ==
  ASSUME plan \in Plans
  PROVE  /\ IsFiniteSet(TaskIds(plan)) /\ Cardinality(TaskIds(plan)) \in 0..Len(plan.tasks)
         /\ UniqueIds(plan) => Cardinality(TaskIds(plan)) = Len(plan.tasks)
<1> DEFINE D == 1..Len(plan.tasks)
           f == [i \in D |-> plan.tasks[i].id]
<1>1. plan.tasks \in Seq(Tasks(plan)) /\ DOMAIN plan.tasks = D /\ Len(plan.tasks) \in Nat
  BY PlanTypes
<1>2. IsFiniteSet(D) /\ Cardinality(D) = Len(plan.tasks)
  BY <1>1, FS_Interval
<1>3. f \in Surjection(D, TaskIds(plan))
  <2>1. \A i \in D : plan.tasks[i].id \in TaskIds(plan)
    BY <1>1 DEF TaskIds, Tasks
  <2>2. \A x \in TaskIds(plan) : \E i \in D : plan.tasks[i].id = x
    BY <1>1 DEF TaskIds, Tasks
  <2> QED BY <2>1, <2>2 DEF Surjection
<1>4. IsFiniteSet(TaskIds(plan)) /\ Cardinality(TaskIds(plan)) <= Cardinality(D)
  BY <1>2, <1>3, FS_Surjection
<1>5. Cardinality(TaskIds(plan)) \in Nat
  BY <1>4, FS_CardinalityType
<1>6. ASSUME UniqueIds(plan) PROVE f \in Injection(D, TaskIds(plan))
  BY <1>1, <1>3, <1>6 DEF UniqueIds, Injection, IsInjective, Surjection
<1>7. UniqueIds(plan) => Cardinality(TaskIds(plan)) = Cardinality(D)
  BY <1>2, <1>3, <1>6, FS_Surjection
<1> QED BY <1>1, <1>2, <1>4, <1>5, <1>7

-----------------------------------------------------------------------------
(* The invariant holds initially, and every step preserves it *)

LEMMA InitInv == Init => PInv
<1> SUFFICES ASSUME Init PROVE PInv
  OBVIOUS
<1> USE DEF Init
<1>1. plan.tasks \in Seq(Tasks(plan))
  BY PlanTypes
<1>2. TypeOK
  <2>1. DOMAIN <<>> = {} /\ ToSet(<<>>) = {}
    BY DEF ToSet
  <2> QED BY <1>1, <2>1 DEF TypeOK
<1> QED BY <1>2 DEF PInv, Fresh, Walking, InDegreeExact, TopologicalOrder, VerdictExact

LEMMA CheckInv ==
  ASSUME PInv, Check
  PROVE  PInv'
<1> USE DEF Check, walk
<1>1. TypeOK'
  <2>1. phase' \in {"checks", "count", "walk", "accepted", "rejected"}
    OBVIOUS
  <2>2. \A t : DependsOn(t)' = DependsOn(t)
    BY DEF DependsOn
  <2> QED BY <2>1, <2>2 DEF PInv, TypeOK
<1>2. WellFormed(plan)' <=> WellFormed(plan)
  BY DEF WellFormed
<1>3. Proven(plan)' <=> Proven(plan)
  BY DEF Proven
<1>4. VerdictExact'
  BY <1>2, <1>3 DEF VerdictExact
<1>5. ~Walking'
  BY DEF Walking
<1>6. Fresh'
  BY DEF PInv, Fresh
<1> QED BY <1>1, <1>2, <1>3, <1>4, <1>5, <1>6 DEF PInv, Walking, InDegreeExact, TopologicalOrder

\* A sequence of SetToSeqs lists the set, each member once.
LEMMA SeqOfSet ==
  ASSUME NEW S, IsFiniteSet(S), NEW q \in SetToSeqs(S)
  PROVE  q \in Seq(S) /\ IsInjective(q) /\ ToSet(q) = S
<1> DEFINE D == 1..Cardinality(S)
<1>1. Cardinality(S) \in Nat
  BY FS_CardinalityType
<1>2. q \in [D -> S] /\ \A i, j \in D : i # j => q[i] # q[j]
  BY DEF SetToSeqs
<1>3. q \in Seq(S) /\ IsInjective(q) /\ q \in Injection(D, S)
  BY <1>1, <1>2 DEF IsInjective, Injection
<1>4. Cardinality(D) = Cardinality(S)
  BY <1>1, FS_Interval
<1>5. q \in Surjection(D, S)
  BY <1>3, <1>4, FS_Injection
<1>6. ToSet(q) = S
  BY <1>2, <1>5 DEF Surjection, ToSet
<1> QED BY <1>3, <1>6

LEMMA CountInv ==
  ASSUME PInv, Count
  PROVE  PInv'
<1> USE DEF Count
<1> DEFINE T == TaskIds(plan)
           Z == {t \in T : Degree(t) = 0}
<1>1. plan \in Plans /\ WellFormed(plan) /\ Proven(plan) /\ Fresh /\ plan' = plan /\ phase' = "walk"
  BY DEF PInv
<1>2. \A t \in T : DependsOn(t) \in Seq(T) /\ Degree(t) \in Nat /\ Degree(t) = Len(DependsOn(t))
  BY <1>1, DependencyTypes DEF Degree
<1>3. \A t : DependsOn(t)' = DependsOn(t)
  BY DEF DependsOn
<1>4. T' = T
  OBVIOUS
<1>5. queue' \in Seq(Z) /\ IsInjective(queue') /\ ToSet(queue') = Z
  <2>1. IsFiniteSet(Z)
    BY <1>1, TaskCount, FS_Subset
  <2> QED BY <2>1, SeqOfSet
<1>6. in_degree' = [t \in T |-> Degree(t)] /\ todo' = [t \in T |-> 0]
  OBVIOUS
<1>7. popped' = {} /\ visited' = 0 /\ popped = {}
  BY <1>1 DEF Fresh
<1>8. Counters'
  <2>1. queue' \in Seq(T)
    BY <1>5
  <2>2. adj' = [d \in T |-> [t \in T |-> Occurrences(DependsOn(t), d)]]
    OBVIOUS
  <2> QED BY <1>2, <1>3, <1>4, <1>6, <1>7, <2>1, <2>2 DEF Counters
<1>9. QueuedAtZero'
  BY <1>4, <1>5, <1>6, <1>7 DEF QueuedAtZero
<1>10. VisitedAcyclic'
  BY <1>7 DEF VisitedAcyclic
<1>11. TypeOK'
  <2>1. plan.tasks \in Seq(Tasks(plan))
    BY <1>1, PlanTypes
  <2>2. \A t \in DOMAIN todo' : todo'[t] \in 0..Len(DependsOn(t)')
    BY <1>2, <1>3, <1>6
  <2>3. \A t \in DOMAIN in_degree' : in_degree'[t] \in Nat
    BY <1>2, <1>6
  <2>4. ToSet(queue') \union popped' \subseteq TaskIds(plan')
    BY <1>5, <1>7
  <2> QED BY <1>1, <1>7, <2>1, <2>2, <2>3, <2>4 DEF TypeOK
<1>12. InDegreeExact'
  <2> SUFFICES ASSUME NEW t \in T
               PROVE  in_degree'[t] = todo'[t] + Cardinality({k \in DOMAIN DependsOn(t) : DependsOn(t)[k] \notin {}})
    BY <1>3, <1>4, <1>7 DEF InDegreeExact
  <2>1. {k \in DOMAIN DependsOn(t) : DependsOn(t)[k] \notin {}} = DOMAIN DependsOn(t)
    OBVIOUS
  <2>2. Cardinality(DOMAIN DependsOn(t)) = Len(DependsOn(t))
    BY <1>2, PlacesFinite
  <2> QED BY <1>2, <1>6, <2>1, <2>2
<1>13. TopologicalOrder'
  <2>1. visited' = Cardinality(popped')
    BY <1>7, FS_EmptySet
  <2>2. ASSUME NEW t \in Z PROVE ToSet(DependsOn(t)) = {}
    <3>1. DependsOn(t) \in Seq(T) /\ Len(DependsOn(t)) = 0
      BY <1>2
    <3> QED BY <3>1 DEF ToSet
  <2> QED BY <1>3, <1>5, <1>7, <2>1, <2>2 DEF TopologicalOrder
<1>14. VerdictExact'
  BY <1>1 DEF VerdictExact
<1>15. WellFormed(plan)' /\ Proven(plan)'
  BY <1>1
<1> QED BY <1>1, <1>8, <1>9, <1>10, <1>11, <1>12, <1>13, <1>14, <1>15 DEF PInv

\* The places of a list that name none of P.
Missing(s, P) == {k \in DOMAIN s : s[k] \notin P}

\* The places not yet popped, before x is popped: those of x, and the rest.
LEMMA OccurrencesSplit ==
  ASSUME NEW S, NEW s \in Seq(S), NEW P, NEW x, x \notin P
  PROVE  Cardinality(Missing(s, P)) = Occurrences(s, x) + Cardinality(Missing(s, P \union {x}))
<1> DEFINE A == {k \in DOMAIN s : s[k] \notin P}
           B == {k \in DOMAIN s : s[k] = x}
           C == {k \in DOMAIN s : s[k] \notin P \union {x}}
<1>1. A = B \union C /\ B \intersect C = {}
  OBVIOUS
<1>2. IsFiniteSet(B) /\ IsFiniteSet(C) /\ Cardinality(B) \in Nat /\ Cardinality(C) \in Nat
  BY PlacesFinite
<1>3. Occurrences(s, x) = Cardinality(B)
  BY DEF Occurrences
<1> HIDE DEF A, B, C
<1>4. Cardinality(B \union C) = Cardinality(B) + Cardinality(C) - Cardinality(B \intersect C)
  BY <1>2, FS_Union
<1>5. Cardinality(B \intersect C) = 0
  BY <1>1, FS_EmptySet
<1>6. Cardinality(A) = Cardinality(B) + Cardinality(C)
  BY <1>1, <1>2, <1>4, <1>5
<1> QED BY <1>3, <1>6 DEF A, C, Missing

LEMMA PopInv ==
  ASSUME PInv, Pop
  PROVE  PInv'
<1> USE DEF Pop
<1> DEFINE T == TaskIds(plan)
           x == Head(queue)
<1>1. /\ plan \in Plans /\ WellFormed(plan) /\ Proven(plan) /\ Walking
      /\ plan' = plan /\ phase' = "walk" /\ phase = "walk"
      /\ Counters /\ QueuedAtZero /\ VisitedAcyclic /\ InDegreeExact /\ TopologicalOrder /\ TypeOK
  BY DEF PInv, Walking
<1>2. \A t : DependsOn(t)' = DependsOn(t)
  BY DEF DependsOn
<1>3. \A t \in T : DependsOn(t) \in Seq(T)
  BY <1>1, DependencyTypes
<1>4. /\ queue \in Seq(T) /\ queue # <<>> /\ IsInjective(queue) /\ popped \subseteq T
      /\ ToSet(queue) \intersect popped = {}
  BY <1>1 DEF Counters, TopologicalOrder
<1>5. /\ Tail(queue) \in Seq(T) /\ Len(queue) \in Nat /\ Len(queue) > 0
      /\ Len(Tail(queue)) = Len(queue) - 1
      /\ \A i \in 1..(Len(queue) - 1) : Tail(queue)[i] = queue[i + 1]
      /\ x = queue[1] /\ DOMAIN queue = 1..Len(queue)
  BY <1>4
<1>6. x \in T /\ x \in ToSet(queue) /\ x \notin popped
  <2>1. x \in T /\ x \in ToSet(queue)
    BY <1>4, <1>5 DEF ToSet
  <2> QED BY <2>1, <1>4
<1>7. IsInjective(Tail(queue)) /\ x \notin ToSet(Tail(queue)) /\ ToSet(queue) = ToSet(Tail(queue)) \union {x}
  <2>1. \A i, j \in 1..Len(queue) : queue[i] = queue[j] => i = j
    BY <1>4, <1>5 DEF IsInjective
  <2>2. DOMAIN Tail(queue) = 1..(Len(queue) - 1)
    BY <1>5
  <2>3. IsInjective(Tail(queue))
    BY <1>5, <2>1, <2>2 DEF IsInjective
  <2>4. \A i \in 1..(Len(queue) - 1) : Tail(queue)[i] # x
    BY <1>5, <2>1
  <2>5. x \notin ToSet(Tail(queue))
    BY <2>2, <2>4 DEF ToSet
  <2>6. ASSUME NEW y \in ToSet(queue), y # x PROVE y \in ToSet(Tail(queue))
    <3>1. PICK i \in 1..Len(queue) : queue[i] = y
      BY <1>5 DEF ToSet
    <3>2. i - 1 \in 1..(Len(queue) - 1) /\ queue[(i - 1) + 1] = y
      BY <1>5, <2>6, <3>1
    <3>3. Tail(queue)[i - 1] = y
      BY <1>5, <3>2
    <3> QED BY <2>2, <3>2, <3>3 DEF ToSet
  <2>7. ToSet(Tail(queue)) \subseteq ToSet(queue)
    <3> SUFFICES ASSUME NEW i \in 1..(Len(queue) - 1) PROVE Tail(queue)[i] \in ToSet(queue)
      BY <2>2 DEF ToSet
    <3>1. i + 1 \in 1..Len(queue) /\ Tail(queue)[i] = queue[i + 1]
      BY <1>5
    <3> QED BY <1>5, <3>1 DEF ToSet
  <2> QED BY <1>6, <2>3, <2>5, <2>6, <2>7
<1>8. popped' = popped \union {x} /\ popped' \subseteq T /\ queue' = Tail(queue)
  BY <1>4, <1>6
<1>9. todo' = [t \in T |-> Occurrences(DependsOn(t), x)] /\ in_degree' = in_degree /\ adj' = adj
  BY <1>1, <1>6 DEF Counters
<1>10. \A t \in T : Occurrences(DependsOn(t), x) \in 0..Len(DependsOn(t))
  <2> SUFFICES ASSUME NEW t \in T PROVE Occurrences(DependsOn(t), x) \in 0..Len(DependsOn(t))
    OBVIOUS
  <2>1. {k \in DOMAIN DependsOn(t) : DependsOn(t)[k] = x} \in SUBSET DOMAIN DependsOn(t)
    OBVIOUS
  <2> QED BY <1>3, <2>1, PlacesFinite DEF Occurrences
<1>11. Counters'
  <2>1. todo' \in [T -> Nat]
    <3>1. \A t \in T : Len(DependsOn(t)) \in Nat
      BY <1>3
    <3> QED BY <1>9, <1>10, <3>1
  <2>2. adj' = [d \in T |-> [t \in T |-> Occurrences(DependsOn(t)', d)]]
    BY <1>1, <1>2, <1>9 DEF Counters
  <2> QED BY <1>1, <1>5, <1>8, <1>9, <2>1, <2>2 DEF Counters
<1>12. ToSet(queue') \union popped' = ToSet(queue) \union popped
  BY <1>7, <1>8
<1>13. QueuedAtZero'
  BY <1>1, <1>9, <1>12 DEF QueuedAtZero
<1>14. ToSet(DependsOn(x)) \subseteq popped
  BY <1>1, <1>6 DEF TopologicalOrder
<1>15. VisitedAcyclic'
  <2> SUFFICES ASSUME NEW S \in SUBSET (popped \union {x}), S # {}
               PROVE  \E t \in S : ToSet(DependsOn(t)) \intersect S = {}
    BY <1>2, <1>8 DEF VisitedAcyclic
  <2>1. CASE S = {x}
    BY <1>6, <1>14, <2>1
  <2>2. CASE S # {x}
    <3>1. S \ {x} # {} /\ S \ {x} \in SUBSET popped
      BY <2>2
    <3>2. PICK t \in S \ {x} : ToSet(DependsOn(t)) \intersect (S \ {x}) = {}
      BY <1>1, <3>1 DEF VisitedAcyclic
    <3>3. ToSet(DependsOn(t)) \subseteq popped
      BY <1>1, <3>1, <3>2 DEF TopologicalOrder
    <3> QED BY <1>6, <3>2, <3>3
  <2> QED BY <2>1, <2>2
<1>16. visited' = Cardinality(popped') /\ visited' \in 0..Len(plan.tasks)
  <2>1. IsFiniteSet(T) /\ Cardinality(T) \in 0..Len(plan.tasks) /\ Len(plan.tasks) \in Nat
    BY <1>1, TaskCount, PlanTypes
  <2>2. IsFiniteSet(popped) /\ visited = Cardinality(popped)
    BY <1>1, <1>4, <2>1, FS_Subset DEF TopologicalOrder
  <2>3. Cardinality(popped \union {x}) = Cardinality(popped) + 1
    BY <1>6, <2>2, FS_AddElement
  <2>4. IsFiniteSet(popped') /\ Cardinality(popped') <= Cardinality(T)
    BY <1>8, <2>1, FS_Subset
  <2>5. Cardinality(popped') \in Nat
    BY <2>4, FS_CardinalityType
  <2>6. visited' = Cardinality(popped')
    BY <1>8, <2>2, <2>3
  <2> QED BY <2>1, <2>4, <2>5, <2>6
<1>17. TopologicalOrder'
  <2>1. \A t \in ToSet(queue') \union popped' : ToSet(DependsOn(t)) \subseteq popped'
    BY <1>1, <1>8, <1>12 DEF TopologicalOrder
  <2>2. ToSet(queue') \intersect popped' = {}
    BY <1>4, <1>7, <1>8
  <2> QED BY <1>2, <1>7, <1>8, <1>16, <2>1, <2>2 DEF TopologicalOrder
<1>18. InDegreeExact'
  <2> SUFFICES ASSUME NEW t \in T
               PROVE  in_degree[t] = todo'[t] + Cardinality({k \in DOMAIN DependsOn(t) : DependsOn(t)[k] \notin popped \union {x}})
    BY <1>2, <1>8, <1>9 DEF InDegreeExact
  <2>1. todo[t] = 0
    BY <1>1 DEF Relaxed, Counters
  <2>2. in_degree[t] = todo[t] + Cardinality({k \in DOMAIN DependsOn(t) : DependsOn(t)[k] \notin popped})
    BY <1>1 DEF InDegreeExact
  <2>3. in_degree[t] \in Nat
    BY <1>1 DEF Counters
  <2>4. Cardinality({k \in DOMAIN DependsOn(t) : DependsOn(t)[k] \notin popped}) \in Nat
    <3>1. {k \in DOMAIN DependsOn(t) : DependsOn(t)[k] \notin popped} \in SUBSET DOMAIN DependsOn(t)
      OBVIOUS
    <3>2. IsFiniteSet({k \in DOMAIN DependsOn(t) : DependsOn(t)[k] \notin popped})
      BY <1>3, <3>1, PlacesFinite
    <3> QED BY <3>2, FS_CardinalityType
  <2>5. in_degree[t] = Cardinality({k \in DOMAIN DependsOn(t) : DependsOn(t)[k] \notin popped})
    BY <2>1, <2>2, <2>4
  <2>6. Cardinality({k \in DOMAIN DependsOn(t) : DependsOn(t)[k] \notin popped})
          = Occurrences(DependsOn(t), x) + Cardinality({k \in DOMAIN DependsOn(t) : DependsOn(t)[k] \notin popped \union {x}})
    <3>1. Cardinality(Missing(DependsOn(t), popped))
            = Occurrences(DependsOn(t), x) + Cardinality(Missing(DependsOn(t), popped \union {x}))
      BY <1>3, <1>6, OccurrencesSplit
    <3> QED BY <3>1 DEF Missing
  <2> QED BY <1>9, <2>5, <2>6
<1>19. TypeOK'
  <2>1. \A t \in DOMAIN todo' : todo'[t] \in 0..Len(DependsOn(t)')
    BY <1>2, <1>9, <1>10
  <2>2. \A t \in DOMAIN in_degree' : in_degree'[t] \in Nat
    BY <1>1, <1>9 DEF Counters
  <2>3. ToSet(queue') \union popped' \subseteq T
    BY <1>1, <1>12 DEF TypeOK
  <2> QED BY <1>1, <1>16, <2>1, <2>2, <2>3 DEF TypeOK
<1>20. VerdictExact'
  BY <1>1 DEF VerdictExact
<1>21. WellFormed(plan)' /\ Proven(plan)'
  BY <1>1
<1> QED BY <1>1, <1>11, <1>13, <1>15, <1>17, <1>18, <1>19, <1>20, <1>21 DEF PInv

LEMMA RelaxInv ==
  ASSUME PInv, NEW t \in DOMAIN todo, Relax(t)
  PROVE  PInv'
<1> USE DEF Relax
<1> DEFINE T == TaskIds(plan)
<1>1. /\ plan \in Plans /\ WellFormed(plan) /\ Proven(plan) /\ Walking
      /\ plan' = plan /\ phase' = "walk" /\ phase = "walk" /\ popped' = popped /\ visited' = visited
      /\ Counters /\ QueuedAtZero /\ VisitedAcyclic /\ InDegreeExact /\ TopologicalOrder /\ TypeOK
  BY DEF PInv, Walking
<1>2. \A u : DependsOn(u)' = DependsOn(u)
  BY DEF DependsOn
<1>3. \A u \in T : DependsOn(u) \in Seq(T)
  BY <1>1, DependencyTypes
<1>4. /\ t \in T /\ todo \in [T -> Nat] /\ in_degree \in [T -> Nat] /\ queue \in Seq(T)
      /\ popped \subseteq T
  BY <1>1 DEF Counters
<1>5. /\ in_degree[t] = todo[t] + Cardinality(Waits(t)) /\ Cardinality(Waits(t)) \in Nat
      /\ Cardinality(Waits(t)) = 0 => Waits(t) = {}
  <2>1. Waits(t) \in SUBSET DOMAIN DependsOn(t)
    BY DEF Waits
  <2>2. IsFiniteSet(Waits(t)) /\ Cardinality(Waits(t)) = 0 => Waits(t) = {}
    BY <1>3, <1>4, <2>1, PlacesFinite
  <2>3. IsFiniteSet(Waits(t))
    BY <1>3, <1>4, <2>1, PlacesFinite
  <2>4. Cardinality(Waits(t)) \in Nat
    BY <2>3, FS_CardinalityType
  <2> QED BY <1>1, <1>4, <2>2, <2>3, <2>4 DEF InDegreeExact, Waits
<1>6. in_degree[t] > 0 /\ t \notin ToSet(queue) \union popped
  <2>1. in_degree[t] > 0
    BY <1>4, <1>5
  <2> QED BY <1>1, <1>4, <2>1 DEF QueuedAtZero
<1>7. /\ in_degree' \in [T -> Nat] /\ todo' \in [T -> Nat]
      /\ in_degree'[t] = in_degree[t] - 1 /\ todo'[t] = todo[t] - 1
      /\ \A u \in T \ {t} : in_degree'[u] = in_degree[u] /\ todo'[u] = todo[u]
  BY <1>4, <1>6
<1>8. ToSet(queue') = IF in_degree'[t] = 0 THEN ToSet(queue) \union {t} ELSE ToSet(queue)
  <2>1. CASE in_degree'[t] = 0
    <3>1. /\ queue' = Append(queue, t) /\ DOMAIN queue = 1..Len(queue) /\ Len(queue) \in Nat
          /\ DOMAIN queue' = 1..(Len(queue) + 1) /\ queue'[Len(queue) + 1] = t
          /\ \A i \in 1..Len(queue) : queue'[i] = queue[i]
      BY <1>4, <2>1
    <3>2. \A i \in 1..(Len(queue) + 1) : i = Len(queue) + 1 \/ i \in 1..Len(queue)
      BY <3>1
    <3>3. Len(queue) + 1 \in 1..(Len(queue) + 1) /\ 1..Len(queue) \subseteq 1..(Len(queue) + 1)
      BY <3>1
    <3>4. ToSet(queue') \subseteq ToSet(queue) \union {t}
      BY <3>1, <3>2 DEF ToSet
    <3>5. ToSet(queue) \union {t} \subseteq ToSet(queue')
      <4>1. t \in ToSet(queue')
        BY <3>1, <3>3 DEF ToSet
      <4>2. ToSet(queue) \subseteq ToSet(queue')
        BY <3>1, <3>3 DEF ToSet
      <4> QED BY <4>1, <4>2
    <3> QED BY <2>1, <3>4, <3>5
  <2>2. CASE in_degree'[t] # 0
    BY <2>2
  <2> QED BY <2>1, <2>2
<1>9. queue' \in Seq(T) /\ IsInjective(queue')
  <2>1. CASE in_degree'[t] = 0
    <3>1. /\ queue' = Append(queue, t) /\ DOMAIN queue = 1..Len(queue) /\ Len(queue) \in Nat
          /\ DOMAIN queue' = 1..(Len(queue) + 1) /\ queue'[Len(queue) + 1] = t
          /\ \A i \in 1..Len(queue) : queue'[i] = queue[i]
      BY <1>4, <2>1
    <3>2. \A i \in 1..Len(queue) : queue[i] # t
      BY <1>6, <3>1 DEF ToSet
    <3>3. \A i, j \in 1..Len(queue) : queue[i] = queue[j] => i = j
      BY <1>1, <3>1 DEF TopologicalOrder, IsInjective
    <3>4. \A i \in 1..(Len(queue) + 1) : i = Len(queue) + 1 \/ i \in 1..Len(queue)
      BY <3>1
    <3>5. \A i, j \in 1..(Len(queue) + 1) : queue'[i] = queue'[j] => i = j
      BY <3>1, <3>2, <3>3, <3>4
    <3>6. queue' \in Seq(T)
      BY <1>4, <3>1
    <3> QED BY <3>1, <3>5, <3>6 DEF IsInjective
  <2>2. CASE in_degree'[t] # 0
    BY <1>1, <1>4, <2>2 DEF TopologicalOrder
  <2> QED BY <2>1, <2>2
<1>10. Counters'
  <2>1. adj' = [d \in T |-> [u \in T |-> Occurrences(DependsOn(u)', d)]]
    BY <1>1, <1>2 DEF Counters
  <2> QED BY <1>1, <1>4, <1>7, <1>9, <2>1 DEF Counters
<1>11. QueuedAtZero'
  <2> SUFFICES ASSUME NEW u \in T
               PROVE  in_degree'[u] = 0 <=> u \in ToSet(queue') \union popped
    BY <1>1 DEF QueuedAtZero
  <2>1. CASE u = t
    BY <1>6, <1>8, <2>1
  <2>2. CASE u # t
    <3>1. in_degree[u] = 0 <=> u \in ToSet(queue) \union popped
      BY <1>1 DEF QueuedAtZero
    <3>2. u \in ToSet(queue') <=> u \in ToSet(queue)
      BY <1>8, <2>2
    <3> QED BY <1>7, <2>2, <3>1, <3>2
  <2> QED BY <2>1, <2>2
<1>12. VisitedAcyclic'
  BY <1>1, <1>2 DEF VisitedAcyclic
<1>13. InDegreeExact'
  <2> SUFFICES ASSUME NEW u \in T PROVE in_degree'[u] = todo'[u] + Cardinality(Waits(u))
    BY <1>1, <1>2 DEF InDegreeExact, Waits
  <2>1. CASE u = t
    BY <1>4, <1>5, <1>7, <2>1
  <2>2. CASE u # t
    <3>1. in_degree[u] = todo[u] + Cardinality(Waits(u))
      BY <1>1 DEF InDegreeExact, Waits
    <3> QED BY <1>7, <2>2, <3>1
  <2> QED BY <2>1, <2>2
<1>14. in_degree'[t] = 0 => ToSet(DependsOn(t)) \subseteq popped
  <2> SUFFICES ASSUME in_degree'[t] = 0 PROVE ToSet(DependsOn(t)) \subseteq popped
    OBVIOUS
  <2>1. Waits(t) = {}
    BY <1>4, <1>5, <1>7
  <2> QED BY <2>1 DEF Waits, ToSet
<1>15. TopologicalOrder'
  <2>1. \A u \in ToSet(queue') \union popped : ToSet(DependsOn(u)) \subseteq popped
    <3> SUFFICES ASSUME NEW u \in ToSet(queue') \union popped
                 PROVE  ToSet(DependsOn(u)) \subseteq popped
      OBVIOUS
    <3>1. CASE u \in ToSet(queue) \union popped
      BY <1>1, <3>1 DEF TopologicalOrder
    <3>2. CASE u \notin ToSet(queue) \union popped
      BY <1>8, <1>14, <3>2
    <3> QED BY <3>1, <3>2
  <2>2. ToSet(queue') \intersect popped = {}
    BY <1>1, <1>6, <1>8 DEF TopologicalOrder
  <2> QED BY <1>1, <1>2, <1>9, <2>1, <2>2 DEF TopologicalOrder
<1>16. TypeOK'
  <2>1. \A u \in T : todo'[u] \in 0..Len(DependsOn(u))
    <3> SUFFICES ASSUME NEW u \in T PROVE todo'[u] \in 0..Len(DependsOn(u))
      OBVIOUS
    <3>1. todo[u] \in 0..Len(DependsOn(u)) /\ Len(DependsOn(u)) \in Nat
      BY <1>1, <1>3, <1>4 DEF TypeOK
    <3> QED BY <1>4, <1>7, <3>1
  <2>2. ToSet(queue') \union popped \subseteq T
    BY <1>1, <1>4, <1>8 DEF TypeOK
  <2>3. DOMAIN todo' = T /\ \A u \in DOMAIN in_degree' : in_degree'[u] \in Nat
    BY <1>7
  <2> QED BY <1>1, <1>2, <2>1, <2>2, <2>3 DEF TypeOK
<1>17. VerdictExact'
  BY <1>1 DEF VerdictExact
<1>18. WellFormed(plan)' /\ Proven(plan)'
  BY <1>1
<1> QED BY <1>1, <1>10, <1>11, <1>12, <1>13, <1>15, <1>16, <1>17, <1>18 DEF PInv

\* The queue has run dry: every task was visited, or the others form a set in
\* which each waits for another.
LEMMA WalkDecides ==
  ASSUME PInv, Drained
  PROVE  ~HasCycle <=> Acyclic
<1> DEFINE T == TaskIds(plan)
<1>1. /\ plan \in Plans /\ WellFormed(plan) /\ Walking /\ Relaxed /\ queue = <<>>
      /\ Counters /\ QueuedAtZero /\ VisitedAcyclic /\ InDegreeExact /\ TopologicalOrder
  BY DEF PInv, Walking, Drained
<1>2. popped \subseteq T /\ visited = Cardinality(popped)
  BY <1>1 DEF Counters, TopologicalOrder
<1>3. visited = Len(plan.tasks) <=> popped = T
  <2>1. IsFiniteSet(T) /\ Cardinality(T) = Len(plan.tasks)
    BY <1>1, TaskCount DEF WellFormed
  <2> QED BY <1>2, <2>1, FS_Subset
<1>4. popped = T => Acyclic
  BY <1>1 DEF VisitedAcyclic, Acyclic
<1>5. ASSUME popped # T PROVE ~Acyclic
  <2> DEFINE R == T \ popped
  <2>1. R # {} /\ R \in SUBSET T
    BY <1>2, <1>5
  <2>2. ASSUME NEW t \in R PROVE ToSet(DependsOn(t)) \intersect R # {}
    <3>1. DependsOn(t) \in Seq(T) /\ ToSet(DependsOn(t)) \subseteq T
      BY <1>1, DependencyTypes
    <3>2. ToSet(queue) = {}
      BY <1>1 DEF ToSet
    <3>3. in_degree[t] # 0 /\ todo[t] = 0 /\ in_degree[t] = todo[t] + Cardinality(Waits(t))
      <4>1. in_degree[t] # 0
        BY <1>1, <3>2 DEF QueuedAtZero
      <4>2. todo[t] = 0
        BY <1>1 DEF Relaxed, Counters
      <4>3. in_degree[t] = todo[t] + Cardinality(Waits(t))
        BY <1>1 DEF InDegreeExact, Waits
      <4> QED BY <4>1, <4>2, <4>3
    <3>4. Waits(t) # {}
      BY <3>3, FS_EmptySet
    <3>5. PICK k \in DOMAIN DependsOn(t) : DependsOn(t)[k] \notin popped
      BY <3>4 DEF Waits
    <3>6. DependsOn(t)[k] \in ToSet(DependsOn(t))
      BY DEF ToSet
    <3> QED BY <3>1, <3>5, <3>6
  <2> QED BY <2>1, <2>2 DEF Acyclic
<1> QED BY <1>3, <1>4, <1>5 DEF HasCycle

LEMMA DecideInv ==
  ASSUME PInv, Decide
  PROVE  PInv'
<1> USE DEF Decide, walk
<1>1. plan' = plan /\ phase' \in {"accepted", "rejected"} /\ WellFormed(plan) /\ Proven(plan)
  BY DEF PInv, Drained
<1>2. phase' = "accepted" <=> Acyclic /\ Consistent(plan)
  BY WalkDecides
<1>3. \A t : DependsOn(t)' = DependsOn(t)
  BY DEF DependsOn
<1>4. Acyclic' <=> Acyclic
  BY <1>1, <1>3 DEF Acyclic
<1>5. VerdictExact'
  BY <1>1, <1>2, <1>4 DEF VerdictExact
<1>6. TypeOK'
  BY <1>1, <1>3 DEF PInv, TypeOK
<1>7. ~Walking'
  BY <1>1 DEF Walking
<1> QED BY <1>1, <1>5, <1>6, <1>7 DEF PInv, InDegreeExact, TopologicalOrder, Walking

LEMMA StutterInv ==
  ASSUME PInv, UNCHANGED vars
  PROVE  PInv'
<1> USE DEF vars, walk
<1>1. \A t : DependsOn(t)' = DependsOn(t)
  BY DEF DependsOn
<1>2. TypeOK'
  BY <1>1 DEF PInv, TypeOK
<1>3. Walking' <=> Walking
  BY DEF Walking
<1>4. InDegreeExact'
  BY <1>1, <1>3 DEF PInv, InDegreeExact
<1>5. TopologicalOrder'
  BY <1>1, <1>3 DEF PInv, TopologicalOrder
<1>6. Acyclic' <=> Acyclic
  BY <1>1 DEF Acyclic
<1>7. VerdictExact'
  BY <1>6 DEF PInv, VerdictExact
<1>8. Counters' <=> Counters
  BY <1>1 DEF Counters
<1>9. VisitedAcyclic' <=> VisitedAcyclic
  BY <1>1 DEF VisitedAcyclic
<1>10. (QueuedAtZero' <=> QueuedAtZero) /\ (Fresh' <=> Fresh)
  BY DEF QueuedAtZero, Fresh
<1> QED BY <1>2, <1>3, <1>4, <1>5, <1>7, <1>8, <1>9, <1>10 DEF PInv

LEMMA NextInv == PInv /\ [Next]_vars => PInv'
<1> SUFFICES ASSUME PInv, [Next]_vars PROVE PInv'
  OBVIOUS
<1>1. CASE Check                       BY <1>1, CheckInv
<1>2. CASE Count                       BY <1>2, CountInv
<1>3. CASE Pop                         BY <1>3, PopInv
<1>4. CASE Decide                      BY <1>4, DecideInv
<1>5. ASSUME NEW t \in DOMAIN todo, Relax(t) PROVE PInv'
  BY <1>5, RelaxInv
<1>6. CASE UNCHANGED vars              BY <1>6, StutterInv
<1> QED BY <1>1, <1>2, <1>3, <1>4, <1>5, <1>6 DEF Next

-----------------------------------------------------------------------------
(* The theorems *)

\* For every plan and every order of the walk: no counter of has_cycle goes
\* below zero, each is exactly what its task still waits for, and the queue is
\* a topological order in which no task comes twice.
THEOREM WalkStaysExact == Spec => []WalkExact
<1>1. PInv => WalkExact
  BY DEF PInv, WalkExact
<1> QED BY <1>1, InitInv, NextInv, PTL DEF Spec

\* For every plan and every order of the walk: check_plan accepts exactly the
\* well-formed, proven, acyclic plans of a consistent status.
THEOREM VerdictStaysExact == Spec => []VerdictExact
<1>1. PInv => VerdictExact
  BY DEF PInv
<1> QED BY <1>1, InitInv, NextInv, PTL DEF Spec
=============================================================================
