------------------------- MODULE StandingWalkProofs -------------------------
(***************************************************************************)
(* The walk of derive_standing is right for every lineage: any number of      *)
(* accepted candidates, any derivations and continuations between them, any   *)
(* retractions, and any order of the outer loop and of the dependencies.      *)
(***************************************************************************)
EXTENDS StandingWalk, TLAPS, FiniteSetTheorems, SequenceTheorems

Standings == {"unset", "sound", "compromised"}

\* The facts that the fold collected are those of a candidate at its place.
FactsOK ==
  /\ info \in Seq(UNION {CandInfo(i) : i \in Nat \ {0}})
  /\ \A i \in Candidates : info[i] \in CandInfo(i)

StackOK == stack \in Seq(Candidates \X BOOLEAN)

\* What has no standing yet is still to be visited, or waits on the stack.
Covered ==
  walking => \A i \in Candidates : sound[i] = "unset" =>
    i \in pending \/ \E k \in DOMAIN stack : stack[k][1] = i

\* The inductive invariant.
WInv ==
  /\ FactsOK /\ StackOK
  /\ walking \in BOOLEAN
  /\ ~walking => stack = <<>>
  /\ walking => sound \in [Candidates -> Standings] /\ pending \subseteq Candidates
  /\ PostOrder
  /\ MemoExact
  /\ Covered

-----------------------------------------------------------------------------
(* Lineage *)

Origins(c) == ({info[c].parent} \union info[c].causes) \intersect Candidates

Closed(S) == \A c \in S : Origins(c) \subseteq S

LEMMA LineageDef ==
  \A i : Lineage(i) = {j \in Candidates : \A S \in SUBSET Candidates : i \in S /\ Closed(S) => j \in S}
BY DEF Lineage, Closed, Origins

\* What a candidate came from is what its standing depends on.
LEMMA OriginsAreDeps ==
  ASSUME FactsOK, NEW i \in Candidates
  PROVE  Origins(i) = Deps(i) /\ Deps(i) \subseteq Candidates
<1>1. 0 \notin Candidates /\ i \in Nat /\ i > 0 /\ Candidates = 1..Len(info) /\ Len(info) \in Nat
  BY DEF FactsOK, Candidates
<1>2. info[i] \in CandInfo(i)
  BY DEF FactsOK
<1>3. CASE info[i].basis = "Root"
  <2>1. info[i].parent = 0 /\ info[i].causes = {}
    BY <1>2, <1>3 DEF CandInfo
  <2> QED BY <1>1, <1>3, <2>1 DEF Origins, Deps
<1>4. CASE info[i].basis = "Continuation"
  <2>1. info[i].parent \in 1..(i - 1) /\ info[i].causes = {}
    BY <1>2, <1>4 DEF CandInfo
  <2>2. info[i].parent \in Candidates
    BY <1>1, <2>1
  <2> QED BY <1>4, <2>1, <2>2 DEF Origins, Deps
<1>5. CASE info[i].basis = "Derivation"
  <2>1. info[i].parent = 0
    BY <1>2, <1>5 DEF CandInfo
  <2> QED BY <1>1, <1>5, <2>1 DEF Origins, Deps
<1>6. info[i].basis \in {"Root", "Continuation", "Derivation"}
  BY <1>2 DEF CandInfo
<1> QED BY <1>3, <1>4, <1>5, <1>6

\* The lineage of a candidate is itself and the lineages of its dependencies.
LEMMA LineageUnfolds ==
  ASSUME FactsOK, NEW i \in Candidates
  PROVE  \A j : j \in Lineage(i) <=> j = i \/ \E d \in Deps(i) : j \in Lineage(d)
<1>1. Origins(i) = Deps(i) /\ Deps(i) \subseteq Candidates
  BY OriginsAreDeps
<1>2. \A k \in Candidates : k \in Lineage(k)
  BY LineageDef
<1>3. \A k : Lineage(k) \in SUBSET Candidates /\ Closed(Lineage(k))
  <2> SUFFICES ASSUME NEW k, NEW c \in Lineage(k), NEW o \in Origins(c)
               PROVE  o \in Lineage(k)
    BY LineageDef DEF Closed
  <2>1. o \in Candidates
    BY DEF Origins
  <2>2. ASSUME NEW S \in SUBSET Candidates, k \in S, Closed(S) PROVE o \in S
    <3>1. c \in S
      BY <2>2, LineageDef
    <3> QED BY <2>2, <3>1 DEF Closed
  <2> QED BY <2>1, <2>2, LineageDef
<1>4. ASSUME NEW d \in Deps(i), NEW j \in Lineage(d) PROVE j \in Lineage(i)
  <2>1. j \in Candidates
    BY LineageDef
  <2>2. ASSUME NEW S \in SUBSET Candidates, i \in S, Closed(S) PROVE j \in S
    <3>1. d \in S
      BY <1>1, <2>2 DEF Closed
    <3> QED BY <2>2, <3>1, LineageDef
  <2> QED BY <2>1, <2>2, LineageDef
<1>5. ASSUME NEW j \in Lineage(i) PROVE j = i \/ \E d \in Deps(i) : j \in Lineage(d)
  <2> DEFINE S == {i} \union UNION {Lineage(d) : d \in Deps(i)}
  <2>1. i \in S /\ S \in SUBSET Candidates
    BY <1>3
  <2>2. Closed(S)
    <3> SUFFICES ASSUME NEW c \in S, NEW o \in Origins(c) PROVE o \in S
      BY DEF Closed
    <3>1. CASE c = i
      <4>1. o \in Deps(i) /\ o \in Lineage(o)
        BY <1>1, <1>2, <3>1
      <4> QED BY <4>1
    <3>2. CASE c # i
      <4>1. PICK d \in Deps(i) : c \in Lineage(d)
        BY <3>2
      <4>2. o \in Lineage(d)
        BY <1>3, <4>1 DEF Closed
      <4> QED BY <4>2
    <3> QED BY <3>1, <3>2
  <2>3. j \in S
    <3> HIDE DEF S
    <3> QED BY <2>1, <2>2, LineageDef
  <2> QED BY <2>3
<1> QED BY <1>2, <1>4, <1>5

-----------------------------------------------------------------------------
(* Steps *)

LEMMA InitW == Init => WInv
<1> SUFFICES ASSUME Init PROVE WInv
  OBVIOUS
<1> USE DEF Init
<1>1. FactsOK /\ StackOK
  BY DEF FactsOK, StackOK, Candidates
<1>2. PostOrder
  BY DEF PostOrder
<1> QED BY <1>1, <1>2 DEF WInv, MemoExact, Covered

LEMMA CollectW ==
  ASSUME WInv, NEW fact \in CandInfo(Len(info) + 1), Collect(fact)
  PROVE  WInv'
<1> USE DEF Collect
<1> DEFINE All == UNION {CandInfo(i) : i \in Nat \ {0}}
<1>1. info \in Seq(All) /\ ~walking /\ stack = <<>>
  BY DEF WInv, FactsOK
<1>2. Len(info) \in Nat /\ Len(info) + 1 \in Nat \ {0}
  BY <1>1
<1>3. fact \in All
  BY <1>2
<1> HIDE DEF All
<1>4. /\ info' \in Seq(All) /\ DOMAIN info' = 1..(Len(info) + 1) /\ DOMAIN info = 1..Len(info)
      /\ info'[Len(info) + 1] = fact /\ \A i \in 1..Len(info) : info'[i] = info[i]
  BY <1>1, <1>3
<1>5. FactsOK'
  <2>1. \A i \in DOMAIN info' : info'[i] \in CandInfo(i)
    <3> SUFFICES ASSUME NEW i \in 1..(Len(info) + 1) PROVE info'[i] \in CandInfo(i)
      BY <1>4
    <3>1. CASE i = Len(info) + 1
      BY <1>4, <3>1
    <3>2. CASE i # Len(info) + 1
      <4>1. i \in 1..Len(info)
        BY <1>2, <3>2
      <4> QED BY <1>4, <4>1 DEF WInv, FactsOK, Candidates
    <3> QED BY <3>1, <3>2
  <2>2. \A i : CandInfo(i)' = CandInfo(i)
    BY DEF CandInfo
  <2> QED BY <1>4, <2>1, <2>2 DEF FactsOK, Candidates, All
<1>6. StackOK'
  BY <1>1 DEF StackOK, Candidates
<1>7. PostOrder'
  BY <1>1 DEF PostOrder
<1> QED BY <1>1, <1>5, <1>6, <1>7 DEF WInv, MemoExact, Covered

LEMMA BeginW ==
  ASSUME WInv, Begin
  PROVE  WInv'
<1> USE DEF Begin
<1>1. stack = <<>> /\ FactsOK
  BY DEF WInv
<1>2. FactsOK' /\ StackOK'
  <2>1. FactsOK'
    BY <1>1 DEF FactsOK, Candidates, CandInfo
  <2>2. StackOK'
    BY <1>1 DEF StackOK
  <2> QED BY <2>1, <2>2
<1>3. sound' \in [Candidates' -> Standings] /\ pending' \subseteq Candidates'
      /\ \A i \in Candidates' : sound'[i] = "unset" /\ i \in pending'
  BY DEF Candidates, Standings
<1>4. PostOrder'
  BY <1>1 DEF PostOrder
<1>5. MemoExact' /\ Covered'
  BY <1>3 DEF MemoExact, Covered
<1> QED BY <1>1, <1>2, <1>3, <1>4, <1>5 DEF WInv

\* What the steps of the walk leave alone.
LEMMA InputKept ==
  ASSUME WInv, walking, UNCHANGED <<info, walking>>
  PROVE  /\ FactsOK' /\ walking' = TRUE /\ Candidates' = Candidates
         /\ \A i : Lineage(i)' = Lineage(i) /\ Breaks(i)' = Breaks(i) /\ Deps(i)' = Deps(i)
         /\ Candidates = 1..Len(info) /\ Len(info) \in Nat
<1>1. FactsOK'
  BY DEF WInv, FactsOK, Candidates, CandInfo
<1>2. Candidates' = Candidates /\ walking' = TRUE
  BY DEF Candidates, WInv
<1>3. \A i : Lineage(i)' = Lineage(i)
  BY DEF Lineage, Candidates
<1>4. \A i : Breaks(i)' = Breaks(i) /\ Deps(i)' = Deps(i)
  BY DEF Breaks, Deps, Candidates
<1>5. Candidates = 1..Len(info) /\ Len(info) \in Nat
  BY DEF WInv, FactsOK, Candidates
<1> QED BY <1>1, <1>2, <1>3, <1>4, <1>5

LEMMA VisitW ==
  ASSUME WInv, NEW start \in Candidates, Visit(start)
  PROVE  WInv'
<1> USE DEF Visit
<1>1. /\ FactsOK' /\ walking' = TRUE /\ Candidates' = Candidates
      /\ \A i : Lineage(i)' = Lineage(i) /\ Breaks(i)' = Breaks(i) /\ Deps(i)' = Deps(i)
  BY InputKept
<1>2. StackOK' /\ \A k \in DOMAIN stack' : stack'[k][2] = FALSE
  <2>1. CASE sound[start] = "unset"
    <3> DEFINE e == <<start, FALSE>>
    <3>1. e \in Candidates \X BOOLEAN /\ e[2] = FALSE /\ stack' = <<e>>
      BY <2>1
    <3> HIDE DEF e, Visit
    <3> QED BY <1>1, <3>1 DEF StackOK
  <2>2. CASE sound[start] # "unset"
    BY <1>1, <2>2 DEF StackOK
  <2> QED BY <2>1, <2>2
<1>3. \A k \in DOMAIN stack' : stack'[k][2] = FALSE
  BY <1>2
<1>4. PostOrder'
  BY <1>3 DEF PostOrder
<1>5. MemoExact'
  BY <1>1 DEF WInv, MemoExact
<1>6. Covered'
  <2> SUFFICES ASSUME NEW i \in Candidates, sound[i] = "unset"
               PROVE  i \in pending' \/ \E k \in DOMAIN stack' : stack'[k][1] = i
    BY <1>1 DEF Covered
  <2>1. i \in pending
    BY DEF WInv, Covered
  <2>2. CASE i # start
    BY <2>1, <2>2
  <2>3. CASE i = start
    <3> DEFINE e == <<start, FALSE>>
    <3>1. stack' = <<e>> /\ e[1] = start
      BY <2>3
    <3> HIDE DEF e, Visit
    <3>2. 1 \in DOMAIN stack' /\ stack'[1] = e
      BY <3>1
    <3> QED BY <2>3, <3>1, <3>2
  <2> QED BY <2>2, <2>3
<1> QED BY <1>1, <1>2, <1>4, <1>5, <1>6 DEF WInv

\* The stack and its top.
LEMMA TopFacts ==
  ASSUME WInv, stack # <<>>
  PROVE  /\ walking
         /\ Len(stack) \in Nat /\ Len(stack) >= 1 /\ DOMAIN stack = 1..Len(stack)
         /\ Top \in Candidates \X BOOLEAN /\ Top[1] \in Candidates /\ Top = stack[Len(stack)]
         /\ Rest \in Seq(Candidates \X BOOLEAN) /\ Len(Rest) = Len(stack) - 1
         /\ DOMAIN Rest = 1..(Len(stack) - 1)
         /\ \A k \in 1..(Len(stack) - 1) : Rest[k] = stack[k]
         /\ sound \in [Candidates -> Standings]
<1>1. stack \in Seq(Candidates \X BOOLEAN) /\ walking /\ sound \in [Candidates -> Standings]
  BY DEF WInv, StackOK
<1>2. Len(stack) \in Nat /\ Len(stack) >= 1 /\ DOMAIN stack = 1..Len(stack)
  BY <1>1
<1>3. Top \in Candidates \X BOOLEAN /\ Top = stack[Len(stack)]
  BY <1>1, <1>2 DEF Top
<1>4. /\ Rest \in Seq(Candidates \X BOOLEAN) /\ Len(Rest) = Len(stack) - 1
      /\ DOMAIN Rest = 1..(Len(stack) - 1)
      /\ \A k \in 1..(Len(stack) - 1) : Rest[k] = stack[k]
  BY <1>1, <1>2 DEF Rest
<1> QED BY <1>1, <1>2, <1>3, <1>4

\* How PostOrder reads the stack after a step of the walk.
LEMMA PostOrderNext ==
  ASSUME UNCHANGED info,
         \A k \in DOMAIN stack' : stack'[k][2] =>
           \A d \in Deps(stack'[k][1]) \intersect Candidates : sound'[d] = "unset" =>
             \E j \in (k + 1)..Len(stack') : stack'[j][1] = d
  PROVE  PostOrder'
<1>1. Candidates' = Candidates
  BY DEF Candidates
<1>2. \A k \in DOMAIN stack' : Deps(stack[k][1])' = Deps(stack'[k][1])
  BY <1>1 DEF Deps
<1>3. \A k \in DOMAIN stack' :
        Unresolved(stack[k][1])' = {d \in Deps(stack'[k][1]) \intersect Candidates : sound'[d] = "unset"}
  BY <1>1, <1>2 DEF Unresolved
<1> QED BY <1>3 DEF PostOrder

\* Taking a settled candidate off the stack disturbs neither the order nor the
\* coverage of the others.
LEMMA PopKeepsOrder ==
  ASSUME WInv, stack # <<>>, stack' = Rest, UNCHANGED <<info, walking, pending>>,
         sound' \in [Candidates -> Standings],
         sound'[Top[1]] # "unset",
         \A i \in Candidates : i # Top[1] => sound'[i] = sound[i]
  PROVE  StackOK' /\ PostOrder' /\ Covered'
<1> DEFINE n == Len(stack)
<1>1. /\ walking
      /\ n \in Nat /\ n >= 1 /\ DOMAIN stack = 1..n
      /\ Top[1] \in Candidates /\ Top = stack[n]
      /\ Rest \in Seq(Candidates \X BOOLEAN)
      /\ DOMAIN Rest = 1..(n - 1)
      /\ \A k \in 1..(n - 1) : Rest[k] = stack[k]
      /\ Len(Rest) = n - 1
  BY TopFacts
<1>2. /\ FactsOK' /\ walking' = TRUE /\ Candidates' = Candidates
      /\ \A i : Deps(i)' = Deps(i)
  BY <1>1, InputKept
<1> HIDE DEF n
<1>3. StackOK'
  BY <1>1, <1>2 DEF StackOK
<1>4. PostOrder'
  <2> SUFFICES ASSUME NEW k \in 1..(n - 1), Rest[k][2],
                      NEW d \in Deps(Rest[k][1]) \intersect Candidates, sound'[d] = "unset"
               PROVE  \E j \in (k + 1)..(n - 1) : Rest[j][1] = d
    <3>1. DOMAIN stack' = 1..(n - 1) /\ Len(stack') = n - 1
      BY <1>1
    <3> QED BY <3>1, PostOrderNext
  <2>1. Rest[k] = stack[k] /\ k \in 1..n
    BY <1>1
  <2>2. d \in Unresolved(stack[k][1]) /\ d # Top[1]
    BY <2>1 DEF Unresolved
  <2>3. PICK j \in (k + 1)..n : stack[j][1] = d
    BY <1>1, <2>1, <2>2 DEF WInv, PostOrder, n
  <2>4. j # n
    BY <1>1, <2>2, <2>3
  <2>5. j \in (k + 1)..(n - 1) /\ j \in 1..(n - 1)
    BY <1>1, <2>3, <2>4
  <2> QED BY <1>1, <2>3, <2>5
<1>5. Covered'
  <2> SUFFICES ASSUME NEW i \in Candidates, sound'[i] = "unset"
               PROVE  i \in pending \/ \E k \in 1..(n - 1) : Rest[k][1] = i
    BY <1>1, <1>2 DEF Covered
  <2>1. i # Top[1] /\ sound[i] = "unset"
    OBVIOUS
  <2>2. i \in pending \/ \E k \in 1..n : stack[k][1] = i
    BY <1>1, <2>1 DEF WInv, Covered
  <2>3. CASE \E k \in 1..n : stack[k][1] = i
    <3>1. PICK k \in 1..n : stack[k][1] = i
      BY <2>3
    <3>2. k # n
      BY <1>1, <2>1, <3>1
    <3>3. k \in 1..(n - 1)
      BY <1>1, <3>1, <3>2
    <3> QED BY <1>1, <3>1, <3>3
  <2> QED BY <2>2, <2>3
<1> QED BY <1>3, <1>4, <1>5

LEMMA DropW ==
  ASSUME WInv, Drop
  PROVE  WInv'
<1> USE DEF Drop
<1>1. walking /\ sound \in [Candidates -> Standings]
  BY TopFacts
<1>2. StackOK' /\ PostOrder' /\ Covered'
  BY <1>1, PopKeepsOrder
<1>3. /\ FactsOK' /\ walking' = TRUE /\ Candidates' = Candidates
      /\ \A i : Lineage(i)' = Lineage(i) /\ Breaks(i)' = Breaks(i)
  BY <1>1, InputKept
<1>4. MemoExact'
  BY <1>1, <1>3 DEF WInv, MemoExact
<1> QED BY <1>1, <1>2, <1>3, <1>4 DEF WInv

\* When the walk settles a candidate its dependencies are settled: it comes
\* back to the top last, and its standing follows from theirs.
LEMMA SettledRight ==
  ASSUME WInv, stack # <<>>, info[Top[1]].retracted \/ ~MustWait
  PROVE  Settled(Top[1]) <=> \A j \in Lineage(Top[1]) : ~Breaks(j)
<1> DEFINE i == Top[1]
<1>1. walking /\ i \in Candidates /\ Len(stack) \in 1..Len(stack) /\ DOMAIN stack = 1..Len(stack)
      /\ Top = stack[Len(stack)] /\ sound \in [Candidates -> Standings] /\ FactsOK /\ Len(stack) \in Nat
  BY TopFacts DEF WInv
<1>2. Deps(i) \subseteq Candidates
  BY <1>1, OriginsAreDeps
<1>3. \A j : j \in Lineage(i) <=> j = i \/ \E d \in Deps(i) : j \in Lineage(d)
  BY <1>1, LineageUnfolds
<1>4. CASE info[i].retracted
  <2>1. ~Settled(i) /\ Breaks(i) /\ i \in Lineage(i)
    BY <1>3, <1>4 DEF Settled, Breaks
  <2> QED BY <2>1
<1>5. CASE ~info[i].retracted
  <2>1. Unresolved(i) = {}
    <3>1. CASE Top[2]
      <4>1. \A d \in Unresolved(i) : \E j \in (Len(stack) + 1)..Len(stack) : stack[j][1] = d
        BY <1>1, <3>1 DEF WInv, PostOrder
      <4>2. (Len(stack) + 1)..Len(stack) = {}
        BY <1>1
      <4> QED BY <4>1, <4>2
    <3>2. CASE ~Top[2]
      BY <1>5, <3>2 DEF MustWait
    <3> QED BY <3>1, <3>2
  <2>2. \A d \in Deps(i) : sound[d] # "unset"
    BY <1>2, <2>1 DEF Unresolved
  <2>3. ASSUME NEW d \in Deps(i) PROVE DepSound(d) <=> \A j \in Lineage(d) : ~Breaks(j)
    <3>1. d \in Candidates /\ sound[d] = Value(\A j \in Lineage(d) : ~Breaks(j))
      BY <1>1, <1>2, <2>2 DEF WInv, MemoExact
    <3>2. CASE \A j \in Lineage(d) : ~Breaks(j)
      BY <3>1, <3>2 DEF DepSound, Value
    <3>3. CASE ~\A j \in Lineage(d) : ~Breaks(j)
      BY <3>1, <3>3 DEF DepSound, Value
    <3> QED BY <3>2, <3>3
  <2>4. Settled(i) <=> ~Breaks(i) /\ \A d \in Deps(i) : DepSound(d)
    BY DEF Settled, Breaks
  <2> QED BY <1>3, <2>3, <2>4
<1> QED BY <1>4, <1>5

LEMMA SettleW ==
  ASSUME WInv, Settle
  PROVE  WInv'
<1> USE DEF Settle
<1> DEFINE i == Top[1]
<1>1. walking /\ sound \in [Candidates -> Standings] /\ i \in Candidates
  BY TopFacts
<1>2. Value(Settled(i)) \in Standings /\ Value(Settled(i)) # "unset"
  BY DEF Value, Standings
<1>3. /\ sound' \in [Candidates -> Standings] /\ sound'[i] = Value(Settled(i)) /\ sound'[i] # "unset"
      /\ \A k \in Candidates : k # i => sound'[k] = sound[k]
  BY <1>1, <1>2
<1>4. StackOK' /\ PostOrder' /\ Covered'
  BY <1>3, PopKeepsOrder
<1>5. /\ FactsOK' /\ walking' = TRUE /\ Candidates' = Candidates
      /\ \A k : Lineage(k)' = Lineage(k) /\ Breaks(k)' = Breaks(k)
  BY <1>1, InputKept
<1>6. Settled(i) <=> \A j \in Lineage(i) : ~Breaks(j)
  BY SettledRight
<1>7. sound'[i] = Value(\A j \in Lineage(i) : ~Breaks(j))
  BY <1>3, <1>6 DEF Value
<1>8. MemoExact'
  <2> SUFFICES ASSUME NEW k \in Candidates, sound'[k] # "unset"
               PROVE  sound'[k] = Value(\A j \in Lineage(k) : ~Breaks(j))
    BY <1>5 DEF MemoExact, Value
  <2>1. CASE k = i
    BY <1>7, <2>1
  <2>2. CASE k # i
    BY <1>1, <1>3, <2>2 DEF WInv, MemoExact
  <2> QED BY <2>1, <2>2
<1> QED BY <1>1, <1>3, <1>4, <1>5, <1>8 DEF WInv

\* A sequence of SetToSeqs lists the set.
LEMMA OrderLists ==
  ASSUME NEW S, IsFiniteSet(S), NEW q \in SetToSeqs(S)
  PROVE  q \in Seq(S) /\ \A x \in S : \E k \in DOMAIN q : q[k] = x
<1> DEFINE D == 1..Cardinality(S)
<1>1. Cardinality(S) \in Nat
  BY FS_CardinalityType
<1>2. q \in [D -> S] /\ \A i, j \in D : i # j => q[i] # q[j]
  BY DEF SetToSeqs
<1>3. q \in Seq(S) /\ q \in Injection(D, S)
  BY <1>1, <1>2 DEF IsInjective, Injection
<1>4. Cardinality(D) = Cardinality(S)
  BY <1>1, FS_Interval
<1>5. q \in Surjection(D, S)
  BY <1>3, <1>4, FS_Injection
<1> QED BY <1>2, <1>3, <1>5 DEF Surjection

LEMMA PushW ==
  ASSUME WInv, Push
  PROVE  WInv'
<1> DEFINE n == Len(stack)
           i == Top[1]
           E == Candidates \X BOOLEAN
<1>0. stack # <<>> /\ UNCHANGED <<info, walking, pending, sound>>
  BY DEF Push
<1>1. /\ walking
      /\ n \in Nat /\ n >= 1 /\ DOMAIN stack = 1..n
      /\ i \in Candidates /\ Top = stack[n]
      /\ Rest \in Seq(E) /\ Len(Rest) = n - 1
      /\ \A k \in 1..(n - 1) : Rest[k] = stack[k]
      /\ sound \in [Candidates -> Standings]
  BY <1>0, TopFacts
<1>2. /\ FactsOK' /\ walking' = TRUE /\ Candidates' = Candidates
      /\ \A k : Lineage(k)' = Lineage(k) /\ Breaks(k)' = Breaks(k)
      /\ Candidates = 1..Len(info) /\ Len(info) \in Nat
  BY <1>0, <1>1, InputKept
<1>3. PICK order \in SetToSeqs(Unresolved(i)) :
        stack' = Rest \o <<<<i, TRUE>>>> \o [k \in DOMAIN order |-> <<order[k], FALSE>>]
  BY DEF Push
<1>4. order \in Seq(Unresolved(i)) /\ \A d \in Unresolved(i) : \E k \in DOMAIN order : order[k] = d
  <2>1. IsFiniteSet(Candidates)
    BY <1>2, FS_Interval
  <2>2. IsFiniteSet(Unresolved(i))
    BY <2>1, FS_Subset DEF Unresolved
  <2> QED BY <2>2, OrderLists
<1> DEFINE top == <<i, TRUE>>
           above == [k \in DOMAIN order |-> <<order[k], FALSE>>]
           m == Len(order)
<1>5. /\ m \in Nat /\ DOMAIN order = 1..m /\ DOMAIN above = 1..m
      /\ \A k \in 1..m : above[k] = <<order[k], FALSE>> /\ order[k] \in Candidates
      /\ \A d \in Unresolved(i) : \E k \in 1..m : order[k] = d
  <2>1. m \in Nat /\ DOMAIN order = 1..m /\ \A k \in 1..m : order[k] \in Unresolved(i)
    BY <1>4
  <2>2. DOMAIN above = 1..m /\ \A k \in 1..m : above[k] = <<order[k], FALSE>>
    BY <2>1
  <2>3. Unresolved(i) \subseteq Candidates
    BY DEF Unresolved
  <2> QED BY <1>4, <2>1, <2>2, <2>3
<1>6. /\ above \in Seq(E) /\ Len(above) = m /\ top \in E
      /\ \A k \in 1..m : above[k][1] = order[k] /\ above[k][2] = FALSE
      /\ top[1] = i
  <2>1. /\ \A k \in 1..m : above[k] \in E /\ above[k][1] = order[k] /\ above[k][2] = FALSE
        /\ top \in E /\ top[1] = i
    BY <1>1, <1>5
  <2>2. above = [k \in 1..m |-> above[k]]
    BY <1>5
  <2> HIDE DEF above, top, E
  <2>3. above \in Seq(E) /\ Len(above) = m
    BY <1>5, <2>1, <2>2
  <2> QED BY <2>1, <2>3
<1>7. stack' = Rest \o <<top>> \o above
  BY <1>3
<1> HIDE DEF top, above, m, i, n, E
<1>8. Rest \o <<top>> \in Seq(E) /\ Len(Rest \o <<top>>) = n /\ (Rest \o <<top>>)[n] = top
      /\ \A k \in 1..(n - 1) : (Rest \o <<top>>)[k] = Rest[k]
  BY <1>1, <1>6
<1>9. /\ stack' \in Seq(E) /\ Len(stack') = n + m
      /\ \A k \in 1..n : stack'[k] = (Rest \o <<top>>)[k]
      /\ \A k \in 1..m : stack'[n + k] = above[k]
  <2> DEFINE low == Rest \o <<top>>
  <2> HIDE DEF low
  <2>1. low \in Seq(E) /\ Len(low) = n /\ above \in Seq(E) /\ Len(above) = m /\ stack' = low \o above
        /\ n \in Nat /\ m \in Nat
    BY <1>1, <1>5, <1>6, <1>7, <1>8 DEF low
  <2>2. stack' \in Seq(E) /\ Len(stack') = n + m
    BY <2>1, ConcatProperties
  <2>3. \A k \in 1..n : stack'[k] = low[k]
    BY <2>1
  <2>4. ASSUME NEW k \in 1..m PROVE stack'[n + k] = above[k]
    <3>1. n + k \in 1..(Len(low) + Len(above)) /\ n + k > Len(low) /\ (n + k) - Len(low) = k
      BY <2>1
    <3> QED BY <2>1, <3>1
  <2> QED BY <2>2, <2>3, <2>4 DEF low
<1>10. /\ DOMAIN stack' = 1..(n + m)
       /\ \A k \in 1..(n - 1) : stack'[k] = stack[k]
       /\ stack'[n] = top
  BY <1>1, <1>5, <1>8, <1>9
<1>11. \A k \in 1..n : stack'[k][1] = stack[k][1]
  BY SMTT(60), <1>1, <1>6, <1>10 DEF i
<1>12. \A k \in 1..m : stack'[n + k][1] = order[k] /\ stack'[n + k][2] = FALSE
  BY <1>6, <1>9
<1>13. StackOK'
  BY <1>2, <1>9 DEF StackOK, E
<1>14. MemoExact'
  BY <1>0, <1>1, <1>2 DEF WInv, MemoExact
<1>15. Covered'
  <2> SUFFICES ASSUME NEW c \in Candidates, sound[c] = "unset"
               PROVE  c \in pending \/ \E k \in 1..(n + m) : stack'[k][1] = c
    BY <1>0, <1>2, <1>10 DEF Covered
  <2>1. c \in pending \/ \E k \in 1..n : stack[k][1] = c
    BY <1>1 DEF WInv, Covered
  <2>2. \A k \in 1..n : k \in 1..(n + m)
    BY <1>1, <1>5
  <2> QED BY <1>11, <2>1, <2>2
<1>16. PostOrder'
  <2> SUFFICES ASSUME NEW k \in 1..(n + m), stack'[k][2],
                      NEW d \in Deps(stack'[k][1]) \intersect Candidates, sound[d] = "unset"
               PROVE  \E j \in (k + 1)..(n + m) : stack'[j][1] = d
    BY <1>0, <1>9, <1>10, PostOrderNext
  <2>1. CASE k \in 1..(n - 1)
    <3>1. stack[k][2] /\ d \in Unresolved(stack[k][1]) /\ k \in 1..n
      BY <1>1, <1>10, <2>1 DEF Unresolved
    <3>2. PICK j \in (k + 1)..n : stack[j][1] = d
      BY <1>1, <3>1 DEF WInv, PostOrder, n
    <3>3. j \in 1..n /\ j \in (k + 1)..(n + m)
      BY <1>1, <1>5, <2>1, <3>2
    <3> QED BY <1>11, <3>2, <3>3
  <2>2. CASE k = n
    <3>1. d \in Unresolved(i)
      BY <1>6, <1>10, <2>2 DEF Unresolved
    <3>2. PICK j \in 1..m : order[j] = d
      BY <1>5, <3>1
    <3>3. n + j \in (k + 1)..(n + m)
      BY <1>1, <1>5, <2>2, <3>2
    <3> QED BY <1>12, <3>2, <3>3
  <2>3. CASE k \in (n + 1)..(n + m)
    <3>1. k - n \in 1..m /\ n + (k - n) = k
      BY <1>1, <1>5, <2>3
    <3> QED BY <1>12, <3>1
  <2> QED BY <1>1, <1>5, <2>1, <2>2, <2>3
<1> QED BY <1>0, <1>1, <1>2, <1>13, <1>14, <1>15, <1>16 DEF WInv

LEMMA StutterW ==
  ASSUME WInv, UNCHANGED vars
  PROVE  WInv'
<1> USE DEF vars
<1>1. FactsOK' /\ StackOK'
  BY DEF WInv, FactsOK, StackOK, Candidates, CandInfo
<1>2. PostOrder'
  BY PostOrderNext DEF WInv, PostOrder, Unresolved
<1>3. \A i : Lineage(i)' = Lineage(i) /\ Breaks(i)' = Breaks(i)
  BY DEF Lineage, Breaks, Candidates
<1>4. MemoExact' /\ Covered'
  <2>1. MemoExact'
    BY <1>3 DEF WInv, MemoExact, Candidates
  <2>2. Covered'
    BY DEF WInv, Covered, Candidates
  <2> QED BY <2>1, <2>2
<1> QED BY <1>1, <1>2, <1>4 DEF WInv, Candidates

LEMMA NextW == WInv /\ [Next]_vars => WInv'
<1> SUFFICES ASSUME WInv, [Next]_vars PROVE WInv'
  OBVIOUS
<1>1. ASSUME NEW fact \in CandInfo(Len(info) + 1), Collect(fact) PROVE WInv'
  BY <1>1, CollectW
<1>2. CASE Begin    BY <1>2, BeginW
<1>3. ASSUME NEW start \in Candidates, Visit(start) PROVE WInv'
  BY <1>3, VisitW
<1>4. CASE Drop     BY <1>4, DropW
<1>5. CASE Push     BY <1>5, PushW
<1>6. CASE Settle   BY <1>6, SettleW
<1>7. CASE UNCHANGED vars
  BY <1>7, StutterW
<1> QED BY <1>1, <1>2, <1>3, <1>4, <1>5, <1>6, <1>7 DEF Next

-----------------------------------------------------------------------------
(* The theorems *)

\* For every lineage and every order of the walk: a candidate that comes back to
\* the top of the stack has all its dependencies settled, and every standing in
\* the memo of derive_standing is the one that the whole lineage implies.
THEOREM WalkStaysExact == Spec => []WalkExact
<1>1. WInv => WalkExact
  BY DEF WInv, WalkExact
<1> QED BY <1>1, InitW, NextW, PTL DEF Spec

\* A walk that is over has left no candidate out: each is compromised if its
\* lineage holds a retracted candidate or an unsound anchor, and sound if not.
THEOREM FinishedWalkIsTotal ==
  Spec => [](Done => \A i \in Candidates : sound[i] = Value(\A j \in Lineage(i) : ~Breaks(j)))
<1>1. ASSUME WInv, Done, NEW i \in Candidates
      PROVE  sound[i] = Value(\A j \in Lineage(i) : ~Breaks(j))
  <2>1. sound[i] # "unset"
    BY <1>1 DEF WInv, Covered, Done
  <2> QED BY <1>1, <2>1 DEF WInv, MemoExact, Done
<1>2. WInv => (Done => \A i \in Candidates : sound[i] = Value(\A j \in Lineage(i) : ~Breaks(j)))
  BY <1>1
<1> QED BY <1>2, InitW, NextW, PTL DEF Spec
=============================================================================
