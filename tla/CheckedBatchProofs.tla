------------------------- MODULE CheckedBatchProofs -------------------------
(***************************************************************************)
(* The appender contract for every number of clients and hosts, every set of  *)
(* batches, every verifier and every number of faults and losses: no          *)
(* duplicate append, true answers, and no conflict without a cause.           *)
(***************************************************************************)
EXTENDS CheckedBatch, TLAPS, FiniteSetTheorems, SequenceTheorems, WellFoundedInduction

\* A hypothesis of the theorems: the verifier decides with one of its verdicts.
Decides == \A l \in Seq(Pairs), p \in DOMAIN Rank : Decide(l, p) \in {"Accept", "Reject"}

Props == DOMAIN Rank

-----------------------------------------------------------------------------
(* The order of a batch *)

\* The indexes of s that come no later than i in the order.
Before(s, i) ==
  {j \in DOMAIN s : Rank[s[j]] < Rank[s[i]] \/ (Rank[s[j]] = Rank[s[i]] /\ j <= i)}
Below(s, x) == {j \in DOMAIN s : Rank[s[j]] < x}
UpTo(s, x) == {j \in DOMAIN s : Rank[s[j]] <= x}

LEMMA IndexSets ==
  ASSUME NEW S, NEW s \in Seq(S), NEW T \in SUBSET DOMAIN s
  PROVE  /\ IsFiniteSet(T) /\ Cardinality(T) \in Nat /\ Cardinality(T) <= Len(s)
         /\ IsFiniteSet(DOMAIN s) /\ Cardinality(DOMAIN s) = Len(s)
<1> DEFINE n == Len(s)
<1>1. DOMAIN s = 1..n /\ n \in Nat /\ 1 \in Int /\ n \in Int
  OBVIOUS
<1> HIDE DEF n
<1>2. IsFiniteSet(1..n) /\ Cardinality(1..n) = n
  BY <1>1, FS_Interval
<1>3. IsFiniteSet(T) /\ Cardinality(T) <= n
  BY <1>1, <1>2, FS_Subset
<1> QED BY <1>1, <1>2, <1>3, FS_CardinalityType DEF n

\* Each index has a place of its own, and each place an index.
LEMMA PlaceBijection ==
  ASSUME NEW s \in Seq(Props)
  PROVE  /\ \A i \in DOMAIN s : Place(s, i) \in 1..Len(s)
         /\ \A k \in 1..Len(s) : \E i \in DOMAIN s : Place(s, i) = k
<1> DEFINE D == 1..Len(s)
           f == [i \in D |-> Place(s, i)]
<1>1. DOMAIN s = D /\ Len(s) \in Nat /\ \A i \in D : s[i] \in Props /\ Rank[s[i]] \in Nat
  BY BatchConstants DEF Props
<1>2. \A i \in D : /\ Before(s, i) \in SUBSET D /\ i \in Before(s, i)
                   /\ Place(s, i) = Cardinality(Before(s, i))
  BY <1>1 DEF Before, Place
<1>3. \A i \in D : IsFiniteSet(Before(s, i)) /\ Cardinality(Before(s, i)) \in D
  <2> SUFFICES ASSUME NEW i \in D PROVE IsFiniteSet(Before(s, i)) /\ Cardinality(Before(s, i)) \in D
    OBVIOUS
  <2>1. IsFiniteSet(Before(s, i)) /\ Cardinality(Before(s, i)) \in Nat /\ Cardinality(Before(s, i)) <= Len(s)
    BY <1>1, <1>2, IndexSets
  <2>2. Cardinality(Before(s, i)) # 0
    BY <1>2, <2>1, FS_EmptySet
  <2> QED BY <1>1, <2>1, <2>2
<1>4. ASSUME NEW i \in D, NEW j \in D, i # j, Rank[s[i]] < Rank[s[j]] \/ (Rank[s[i]] = Rank[s[j]] /\ i < j)
      PROVE  Place(s, i) < Place(s, j)
  <2>1. Before(s, i) \subseteq Before(s, j) /\ j \notin Before(s, i)
    BY <1>1, <1>4 DEF Before
  <2>2. Cardinality(Before(s, i)) <= Cardinality(Before(s, j)) /\ Cardinality(Before(s, i)) # Cardinality(Before(s, j))
    BY <1>2, <1>3, <2>1, FS_Subset
  <2> QED BY <1>2, <1>3, <2>2
<1>5. ASSUME NEW i \in D, NEW j \in D, i # j PROVE Place(s, i) # Place(s, j)
  <2>1. Place(s, i) \in Nat /\ Place(s, j) \in Nat
    BY <1>2, <1>3
  <2>2. CASE Rank[s[i]] < Rank[s[j]] \/ (Rank[s[i]] = Rank[s[j]] /\ i < j)
    BY <1>4, <1>5, <2>1, <2>2
  <2>3. CASE Rank[s[j]] < Rank[s[i]] \/ (Rank[s[j]] = Rank[s[i]] /\ j < i)
    BY <1>4, <1>5, <2>1, <2>3
  <2> QED BY <1>1, <1>5, <2>2, <2>3
<1>6. f \in Injection(D, D)
  BY <1>2, <1>3, <1>5 DEF Injection, IsInjective
<1>7. IsFiniteSet(D)
  BY <1>1, IndexSets
<1>8. f \in Surjection(D, D)
  BY <1>6, <1>7, FS_Injection
<1> QED BY <1>1, <1>2, <1>3, <1>8 DEF Surjection

\* What stands at a place is the proposal whose place it is.
LEMMA SortedAt ==
  ASSUME NEW s \in Seq(Props)
  PROVE  /\ SortBatch(s) \in Seq(Props) /\ Len(SortBatch(s)) = Len(s)
         /\ \A k \in 1..Len(s) : \E i \in DOMAIN s : Place(s, i) = k /\ SortBatch(s)[k] = s[i]
<1> DEFINE at(k) == CHOOSE i \in DOMAIN s : Place(s, i) = k
<1>1. \A k \in 1..Len(s) : at(k) \in DOMAIN s /\ Place(s, at(k)) = k
  BY PlaceBijection
<1>2. SortBatch(s) = [k \in 1..Len(s) |-> s[at(k)]]
  BY DEF SortBatch
<1> HIDE DEF at
<1>3. \A k \in 1..Len(s) : s[at(k)] \in Props
  BY <1>1
<1> QED BY <1>1, <1>2, <1>3

\* How many proposals have a hash below, or up to, that of the one at a place.
LEMMA PlaceBounds ==
  ASSUME NEW s \in Seq(Props), NEW i \in DOMAIN s
  PROVE  Cardinality(Below(s, Rank[s[i]])) < Place(s, i) /\ Place(s, i) <= Cardinality(UpTo(s, Rank[s[i]]))
<1> DEFINE x == Rank[s[i]]
<1>1. \A j \in DOMAIN s : s[j] \in Props /\ Rank[s[j]] \in Nat /\ j \in Nat
  BY BatchConstants DEF Props
<1>2. Place(s, i) = Cardinality(Before(s, i))
  BY DEF Place, Before
<1>3. /\ Below(s, x) \in SUBSET Before(s, i) /\ i \in Before(s, i) /\ i \notin Below(s, x)
      /\ Before(s, i) \in SUBSET UpTo(s, x) /\ UpTo(s, x) \in SUBSET DOMAIN s
  BY <1>1 DEF Before, Below, UpTo
<1>4. IsFiniteSet(Before(s, i)) /\ Cardinality(Before(s, i)) \in Nat
  BY <1>3, IndexSets
<1>5. IsFiniteSet(UpTo(s, x)) /\ Cardinality(UpTo(s, x)) \in Nat
  BY <1>3, IndexSets
<1>6. Cardinality(Below(s, x)) <= Cardinality(Before(s, i)) /\ Cardinality(Below(s, x)) # Cardinality(Before(s, i))
  BY <1>3, <1>4, FS_Subset
<1>7. Cardinality(Below(s, x)) \in Nat
  BY <1>3, <1>4, FS_Subset, FS_CardinalityType
<1>8. Cardinality(Before(s, i)) <= Cardinality(UpTo(s, x))
  BY <1>3, <1>5, FS_Subset
<1> QED BY <1>2, <1>4, <1>5, <1>6, <1>7, <1>8

LEMMA ReorderedBy ==
  ASSUME NEW s \in Seq(Props), NEW r \in Reorderings(s)
  PROVE  /\ r \in Seq(Props) /\ Len(r) = Len(s)
         /\ \E p \in Bijection(1..Len(s), 1..Len(s)) : \A i \in 1..Len(s) : r[i] = s[p[i]]
<1>1. DOMAIN s = 1..Len(s) /\ Len(s) \in Nat
  OBVIOUS
<1>2. PICK p \in Bijection(1..Len(s), 1..Len(s)) : r = [i \in 1..Len(s) |-> s[p[i]]]
  BY <1>1 DEF Reorderings
<1>3. \A i \in 1..Len(s) : p[i] \in 1..Len(s) /\ s[p[i]] \in Props
  BY <1>1 DEF Bijection, Injection
<1> QED BY <1>1, <1>2, <1>3

\* Reordering a list changes no count.
LEMMA ReorderCounts ==
  ASSUME NEW s \in Seq(Props), NEW r \in Reorderings(s), NEW x
  PROVE  /\ Cardinality(Below(r, x)) = Cardinality(Below(s, x))
         /\ Cardinality(UpTo(r, x)) = Cardinality(UpTo(s, x))
<1> DEFINE n == Len(s)
<1>1. r \in Seq(Props) /\ Len(r) = n /\ n \in Nat /\ DOMAIN s = 1..n /\ DOMAIN r = 1..n
  BY ReorderedBy
<1>2. PICK p \in Bijection(1..n, 1..n) : \A i \in 1..n : r[i] = s[p[i]]
  BY ReorderedBy
<1>3. /\ \A i \in 1..n : p[i] \in 1..n
      /\ \A i, j \in 1..n : p[i] = p[j] => i = j
      /\ \A j \in 1..n : \E i \in 1..n : p[i] = j
  BY DEF Bijection, Injection, Surjection, IsInjective
<1> DEFINE A == Below(s, x)
           B == Below(r, x)
           C == UpTo(s, x)
           D == UpTo(r, x)
<1>4. A \in SUBSET 1..n /\ B \in SUBSET 1..n /\ C \in SUBSET 1..n /\ D \in SUBSET 1..n
  BY <1>1 DEF Below, UpTo
<1>5. /\ \A i \in B : p[i] \in A
      /\ \A i \in 1..n : p[i] \in A => i \in B
  BY <1>1, <1>2, <1>3 DEF Below
<1>6. /\ \A i \in D : p[i] \in C
      /\ \A i \in 1..n : p[i] \in C => i \in D
  BY <1>1, <1>2, <1>3 DEF UpTo
<1>7. IsFiniteSet(B) /\ IsFiniteSet(D)
  BY <1>1, <1>4, IndexSets
<1> HIDE DEF A, B, C, D, n
<1>8. Cardinality(B) = Cardinality(A)
  <2> DEFINE f == [i \in B |-> p[i]]
  <2>1. f \in [B -> A]
    BY <1>5
  <2>2. \A i, j \in B : f[i] = f[j] => i = j
    BY <1>3, <1>4
  <2>3. \A j \in A : \E i \in B : f[i] = j
    BY <1>3, <1>4, <1>5
  <2>4. f \in Bijection(B, A)
    <3> HIDE DEF f
    <3> QED BY <2>1, <2>2, <2>3 DEF Bijection, Injection, Surjection, IsInjective
  <2> QED BY <1>7, <2>4, FS_Bijection DEF ExistsBijection
<1>9. Cardinality(D) = Cardinality(C)
  <2> DEFINE f == [i \in D |-> p[i]]
  <2>1. f \in [D -> C]
    BY <1>6
  <2>2. \A i, j \in D : f[i] = f[j] => i = j
    BY <1>3, <1>4
  <2>3. \A j \in C : \E i \in D : f[i] = j
    BY <1>3, <1>4, <1>6
  <2>4. f \in Bijection(D, C)
    <3> HIDE DEF f
    <3> QED BY <2>1, <2>2, <2>3 DEF Bijection, Injection, Surjection, IsInjective
  <2> QED BY <1>7, <2>4, FS_Bijection DEF ExistsBijection
<1> QED BY <1>8, <1>9 DEF A, B, C, D

\* The order of the caller does not matter: every order of a batch sorts to the
\* same list.
LEMMA SortCanonical ==
  ASSUME NEW s \in Seq(Props), NEW r \in Reorderings(s)
  PROVE  SortBatch(r) = SortBatch(s)
<1> DEFINE n == Len(s)
<1>1. r \in Seq(Props) /\ Len(r) = n /\ n \in Nat
  BY ReorderedBy
<1>2. /\ SortBatch(s) \in Seq(Props) /\ Len(SortBatch(s)) = n
      /\ \A k \in 1..n : \E i \in DOMAIN s : Place(s, i) = k /\ SortBatch(s)[k] = s[i]
  BY SortedAt
<1>3. /\ SortBatch(r) \in Seq(Props) /\ Len(SortBatch(r)) = n
      /\ \A k \in 1..n : \E i \in DOMAIN r : Place(r, i) = k /\ SortBatch(r)[k] = r[i]
  BY <1>1, SortedAt
<1> HIDE DEF n
<1>4. ASSUME NEW k \in 1..n PROVE SortBatch(r)[k] = SortBatch(s)[k]
  <2>1. PICK i \in DOMAIN s : Place(s, i) = k /\ SortBatch(s)[k] = s[i]
    BY <1>2
  <2>2. PICK j \in DOMAIN r : Place(r, j) = k /\ SortBatch(r)[k] = r[j]
    BY <1>3
  <2> DEFINE x == Rank[s[i]]
             y == Rank[r[j]]
  <2>3. s[i] \in Props /\ r[j] \in Props /\ x \in Nat /\ y \in Nat
    BY <1>1, BatchConstants DEF Props
  <2>4. Cardinality(Below(s, x)) < k /\ k <= Cardinality(UpTo(s, x))
    BY <2>1, PlaceBounds
  <2>5. Cardinality(Below(r, y)) < k /\ k <= Cardinality(UpTo(r, y))
    BY <1>1, <2>2, PlaceBounds
  <2> HIDE DEF x, y
  <2>6. /\ Cardinality(Below(r, y)) = Cardinality(Below(s, y))
        /\ Cardinality(UpTo(r, y)) = Cardinality(UpTo(s, y))
    BY ReorderCounts
  <2>7. \A z \in Nat : /\ Below(s, z) \in SUBSET DOMAIN s /\ UpTo(s, z) \in SUBSET DOMAIN s
    BY DEF Below, UpTo
  <2>8. \A z \in Nat : /\ IsFiniteSet(Below(s, z)) /\ Cardinality(Below(s, z)) \in Nat
                       /\ IsFiniteSet(UpTo(s, z)) /\ Cardinality(UpTo(s, z)) \in Nat
    BY <2>7, IndexSets
  <2>9. \A z, w \in Nat : z < w => UpTo(s, z) \in SUBSET Below(s, w)
    <3>1. \A l \in DOMAIN s : Rank[s[l]] \in Nat
      BY BatchConstants DEF Props
    <3> QED BY <3>1 DEF UpTo, Below
  <2>10. \A z, w \in Nat : z < w => Cardinality(UpTo(s, z)) <= Cardinality(Below(s, w))
    BY <2>8, <2>9, FS_Subset
  <2>11. k \in Nat
    BY <1>1
  <2>12. ~(x < y)
    BY <2>3, <2>4, <2>5, <2>6, <2>8, <2>10, <2>11
  <2>13. ~(y < x)
    BY <2>3, <2>4, <2>5, <2>6, <2>8, <2>10, <2>11
  <2>14. x = y
    BY <2>3, <2>12, <2>13
  <2> QED BY <2>1, <2>2, <2>3, <2>14, BatchConstants DEF Props, x, y
<1> QED BY <1>1, <1>2, <1>3, <1>4

-----------------------------------------------------------------------------
(* The landed prefix *)

\* A bounded set of naturals that is not empty has a greatest member.
LEMMA GreatestOf ==
  ASSUME NEW n \in Nat, NEW S \in SUBSET (0..n), S # {}
  PROVE  Max(S) \in S /\ \A y \in S : y <= Max(S)
<1> DEFINE T == {n - x : x \in S}
<1>0. \A x \in S : x \in Nat /\ x <= n /\ n - x \in Nat
  OBVIOUS
<1>1. T \subseteq Nat /\ T # {}
  <2>1. T \subseteq Nat
    BY <1>0
  <2>2. PICK x \in S : TRUE
    OBVIOUS
  <2>3. n - x \in T
    OBVIOUS
  <2> QED BY <2>1, <2>3
<1>2. PICK m \in T : \A y \in T : ~(<<y, m>> \in OpToRel(<, Nat))
  <2> HIDE DEF T
  <2> QED BY <1>1, NatLessThanWellFounded, WFMin
<1>3. \A y \in T : m <= y
  <2> HIDE DEF T
  <2> SUFFICES ASSUME NEW y \in T PROVE m <= y
    OBVIOUS
  <2>1. y \in Nat /\ m \in Nat
    BY <1>1
  <2>2. ~(y < m)
    BY <1>2, <2>1 DEF OpToRel
  <2> QED BY <2>1, <2>2
<1>4. PICK x \in S : m = n - x
  OBVIOUS
<1>5. \A y \in S : x >= y
  <2> SUFFICES ASSUME NEW y \in S PROVE x >= y
    OBVIOUS
  <2>1. n - y \in T
    OBVIOUS
  <2>2. n - x <= n - y
    BY <1>3, <1>4, <2>1
  <2> QED BY <1>0, <2>2
<1>6. \E z \in S : \A y \in S : z >= y
  BY <1>5
<1>7. Max(S) \in S /\ \A y \in S : Max(S) >= y
  BY <1>6 DEF Max
<1> QED BY <1>7

\* Landed is the longest prefix that stands behind the head.
LEMMA LandedLongest ==
  ASSUME NEW l, NEW t, NEW b \in Seq(Props)
  PROVE  /\ Landed(l, t, b) \in 0..Len(b) /\ LandedAt(l, t, b, Landed(l, t, b))
         /\ \A n \in 0..Len(b) : LandedAt(l, t, b, n) => n <= Landed(l, t, b)
<1> DEFINE S == {n \in 0..Len(b) : LandedAt(l, t, b, n)}
<1>1. Len(b) \in Nat /\ 0 \in S /\ S \in SUBSET (0..Len(b))
  BY DEF LandedAt
<1>2. Landed(l, t, b) = Max(S)
  BY DEF Landed
<1>3. Max(S) \in S /\ \A y \in S : y <= Max(S)
  <2> HIDE DEF S
  <2> QED BY <1>1, GreatestOf
<1> QED BY <1>2, <1>3

-----------------------------------------------------------------------------
(* The inductive invariant, in terms of a log l, heads h and batches b *)

BaseOf(h, c) == h[c][1] \div 2

\* The first n proposals of s stand behind the first base pairs of l.
Stands(l, base, s, n) == base + n <= Len(l) /\ \A j \in 1..n : l[base + j].prop = s[j]

\* A client that has a head has a batch for it.
HeadsOK(h, b) ==
  /\ h = [c \in Clients |-> h[c]]
  /\ b \in [Clients -> {<<>>} \union Batches]
  /\ \A c \in Clients : h[c] # NoHead => h[c][1] \in Nat /\ b[c] \in Batches

\* Pair i of l is where client c wants it.
OwnAt(l, h, b, c, i) ==
  /\ h[c] # NoHead
  /\ i - BaseOf(h, c) \in 1..Len(b[c])
  /\ Stands(l, BaseOf(h, c), SortBatch(b[c]), i - BaseOf(h, c))

Owns(l, h, b) == \A c \in Clients, i \in 1..Len(l) : l[i].by = c => OwnAt(l, h, b, c, i)

CallTypes == [by : Clients \union Hosts, props : Seq(Props), start : Nat, next : Nat]

\* A call of a client is where the landed part of its batch ends, which is the
\* end of the log.
CallOK(k, l, h, b) ==
  k # NoCall =>
    /\ k \in CallTypes
    /\ k.next \in 1..Len(k.props) + 1
    /\ k.by \in Clients =>
         /\ h[k.by] # NoHead
         /\ k.props = SortBatch(b[k.by])
         /\ k.start = 2 * BaseOf(h, k.by)
         /\ Len(l) + 1 = BaseOf(h, k.by) + k.next
         /\ Stands(l, BaseOf(h, k.by), k.props, k.next - 1)

\* The whole batch of client c stands in l, and that is what answer x says.
Answers(l, h, b, c, x) ==
  /\ h[c] # NoHead
  /\ Stands(l, BaseOf(h, c), SortBatch(b[c]), Len(b[c]))
  /\ x = BatchAppend(l, 2 * BaseOf(h, c), Len(b[c]))

\* Without a loss the first success stays true, and later ones repeat it.
Kept(l, h, b, f, a) ==
  \A c \in Clients : /\ Ok(f[c]) => Answers(l, h, b, c, f[c])
                     /\ Ok(a[c]) => a[c] = f[c]

BInv ==
  /\ TypeOK
  /\ HeadsOK(head, batch)
  /\ answer = [c \in Clients |-> answer[c]]
  /\ first = [c \in Clients |-> first[c]]
  /\ Owns(log, head, batch)
  /\ CallOK(call, log, head, batch)
  /\ losses = 0 => Kept(log, head, batch, first, answer)

-----------------------------------------------------------------------------
(* Logs that agree on their first pairs *)

LEMMA BaseTypes ==
  ASSUME NEW h, NEW b, HeadsOK(h, b), NEW c \in Clients, h[c] # NoHead
  PROVE  /\ BaseOf(h, c) \in Nat
         /\ b[c] \in Seq(Props) /\ Len(b[c]) \in Nat /\ Len(b[c]) > 0
         /\ SortBatch(b[c]) \in Seq(Props) /\ Len(SortBatch(b[c])) = Len(b[c])
<1>1. h[c][1] \in Nat /\ b[c] \in Batches
  BY DEF HeadsOK
<1>2. BaseOf(h, c) \in Nat
  BY <1>1 DEF BaseOf
<1>3. b[c] \in Seq(Props) /\ b[c] # <<>>
  BY <1>1, BatchConstants DEF Props
<1>4. SortBatch(b[c]) \in Seq(Props) /\ Len(SortBatch(b[c])) = Len(b[c])
  BY <1>3, SortedAt
<1>5. Len(b[c]) \in Nat /\ Len(b[c]) > 0
  BY <1>3
<1> QED BY <1>2, <1>3, <1>4, <1>5

LEMMA StandsAgree ==
  ASSUME NEW l, NEW m, NEW base \in Nat, NEW n \in Nat, NEW s, Len(m) \in Nat,
         Stands(l, base, s, n), base + n <= Len(m), \A i \in 1..(base + n) : m[i] = l[i]
  PROVE  Stands(m, base, s, n)
<1>1. ASSUME NEW j \in 1..n PROVE m[base + j].prop = s[j]
  <2>1. base + j \in 1..(base + n)
    OBVIOUS
  <2> QED BY <2>1 DEF Stands
<1> QED BY <1>1 DEF Stands

LEMMA OwnsAgree ==
  ASSUME NEW l \in Seq(Pairs), NEW m \in Seq(Pairs), NEW k \in Nat, k <= Len(l), k <= Len(m),
         \A i \in 1..k : m[i] = l[i], NEW h, NEW b, HeadsOK(h, b), Owns(l, h, b)
  PROVE  \A c \in Clients, i \in 1..k : m[i].by = c => OwnAt(m, h, b, c, i)
<1> SUFFICES ASSUME NEW c \in Clients, NEW i \in 1..k, m[i].by = c
             PROVE  OwnAt(m, h, b, c, i)
  OBVIOUS
<1>1. i \in 1..Len(l) /\ l[i].by = c
  OBVIOUS
<1>2. OwnAt(l, h, b, c, i)
  BY <1>1 DEF Owns
<1> DEFINE base == BaseOf(h, c)
           n == i - base
<1>3. h[c] # NoHead /\ n \in 1..Len(b[c]) /\ Stands(l, base, SortBatch(b[c]), n)
  BY <1>2 DEF OwnAt
<1>4. base \in Nat /\ Len(b[c]) \in Nat
  BY <1>3, BaseTypes
<1> HIDE DEF base
<1>5. n \in Nat /\ base + n = i
  BY <1>3, <1>4
<1>6. \A j \in 1..(base + n) : m[j] = l[j]
  BY <1>5
<1> HIDE DEF n
<1>7. Len(m) \in Nat /\ base + n <= Len(m)
  BY <1>5
<1> DEFINE s == SortBatch(b[c])
<1>8. Stands(l, base, s, n)
  BY <1>3
<1> HIDE DEF s
<1>9. Stands(m, base, s, n)
  BY ONLY <1>4, <1>5, <1>6, <1>7, <1>8, StandsAgree
<1> QED BY <1>3, <1>9 DEF OwnAt, base, n, s

LEMMA AppendAgree ==
  ASSUME NEW l, NEW m, NEW base \in Nat, NEW n \in Nat,
         \A i \in 1..(base + n) : m[i] = l[i]
  PROVE  BatchAppend(m, 2 * base, n) = BatchAppend(l, 2 * base, n)
<1>1. (2 * base) \div 2 = base
  OBVIOUS
<1>2. \A j \in 1..n : base + j \in 1..(base + n)
  OBVIOUS
<1>3. Results(m, 2 * base, n) = Results(l, 2 * base, n)
  BY <1>1, <1>2 DEF Results
<1>4. ASSUME 2 * base + 2 * n # 0 PROVE RecordId(m, 2 * base + 2 * n) = RecordId(l, 2 * base + 2 * n)
  <2>1. ((2 * base + 2 * n) + 1) \div 2 = base + n /\ base + n \in 1..(base + n)
    BY <1>4
  <2>2. m[base + n] = l[base + n]
    BY <2>1
  <2> QED BY <2>1, <2>2 DEF RecordId
<1> QED BY <1>3, <1>4 DEF BatchAppend

LEMMA KeptGrows ==
  ASSUME NEW l \in Seq(Pairs), NEW e \in Pairs, NEW h, NEW b, NEW f, NEW a,
         HeadsOK(h, b), Kept(l, h, b, f, a)
  PROVE  Kept(Append(l, e), h, b, f, a)
<1> DEFINE m == Append(l, e)
<1>1. Len(m) = Len(l) + 1 /\ Len(l) \in Nat /\ \A i \in 1..Len(l) : m[i] = l[i]
  OBVIOUS
<1> HIDE DEF m
<1> SUFFICES ASSUME NEW c \in Clients, Ok(f[c]), Answers(l, h, b, c, f[c])
             PROVE  Answers(m, h, b, c, f[c])
  BY DEF Kept, m
<1> DEFINE base == BaseOf(h, c)
           n == Len(b[c])
<1>2. h[c] # NoHead /\ Stands(l, base, SortBatch(b[c]), n) /\ f[c] = BatchAppend(l, 2 * base, n)
  BY DEF Answers
<1>3. base \in Nat /\ n \in Nat
  BY <1>2, BaseTypes
<1>4. base + n <= Len(l)
  BY <1>2 DEF Stands
<1> HIDE DEF base, n
<1>5. base + n <= Len(m) /\ \A i \in 1..(base + n) : m[i] = l[i]
  BY <1>1, <1>3, <1>4
<1>6. Stands(m, base, SortBatch(b[c]), n)
  BY <1>1, <1>2, <1>3, <1>5, StandsAgree
<1>7. BatchAppend(m, 2 * base, n) = BatchAppend(l, 2 * base, n)
  BY <1>3, <1>5, AppendAgree
<1> QED BY <1>2, <1>6, <1>7 DEF Answers, base, n

\* What an answer leaves of Kept.
LEMMA AnswerKeeps ==
  ASSUME NEW c \in Clients, NEW x, Answer(c, x),
         answer = [d \in Clients |-> answer[d]], first = [d \in Clients |-> first[d]],
         Kept(log, head, batch, first, answer),
         Ok(x) => Answers(log, head, batch, c, x)
  PROVE  Kept(log, head, batch, first', answer')
<1>1. /\ answer'[c] = x /\ \A d \in Clients : d # c => answer'[d] = answer[d]
      /\ first'[c] = (IF Ok(x) /\ ~Ok(first[c]) THEN x ELSE first[c])
      /\ \A d \in Clients : d # c => first'[d] = first[d]
  BY DEF Answer
<1> SUFFICES ASSUME NEW d \in Clients
             PROVE  /\ Ok(first'[d]) => Answers(log, head, batch, d, first'[d])
                    /\ Ok(answer'[d]) => answer'[d] = first'[d]
  BY DEF Kept
<1>2. CASE d # c
  BY <1>1, <1>2 DEF Kept
<1>3. CASE d = c
  <2>1. CASE Ok(x) /\ ~Ok(first[c])
    BY <1>1, <1>3, <2>1
  <2>2. CASE Ok(x) /\ Ok(first[c])
    <3>1. Answers(log, head, batch, c, x) /\ Answers(log, head, batch, c, first[c])
      BY <2>2 DEF Kept
    <3>2. x = first[c]
      BY <3>1 DEF Answers
    <3> QED BY <1>1, <1>3, <2>2, <3>1, <3>2
  <2>3. CASE ~Ok(x)
    <3>1. first'[c] = first[c] /\ answer'[c] = x
      BY <1>1, <2>3
    <3> QED BY <1>3, <2>3, <3>1 DEF Kept
  <2> QED BY <2>1, <2>2, <2>3
<1> QED BY <1>2, <1>3

LEMMA AnswerTypes ==
  ASSUME NEW c \in Clients, NEW x, Answer(c, x),
         answer = [d \in Clients |-> answer[d]], first = [d \in Clients |-> first[d]]
  PROVE  answer' = [d \in Clients |-> answer'[d]] /\ first' = [d \in Clients |-> first'[d]]
BY DEF Answer

-----------------------------------------------------------------------------
(* Steps *)

\* A step that leaves the file and the handle alone leaves them in order.
LEMMA SameFile ==
  ASSUME log \in Seq(Pairs), FileOK, UNCHANGED file, up' = up
  PROVE  log' = log /\ FileOK'
BY DEF file, FileOK, Stored

LEMMA StoredIs ==
  /\ owed => Stored = 2 * Len(log) - 1
  /\ ~owed => Stored = 2 * Len(log) - 0
BY Zenon DEF Stored

LEMMA StoredIsThen ==
  /\ owed' => Stored' = 2 * Len(log') - 1
  /\ ~owed' => Stored' = 2 * Len(log') - 0
BY Zenon DEF Stored

LEMMA FileOKThen ==
  ASSUME owed' \in BOOLEAN, torn' \in BOOLEAN, up' \in BOOLEAN, owed' => log' # <<>>,
         up' => ~owed' /\ ~torn', durable' \in 0..Stored'
  PROVE  FileOK'
BY Zenon DEF FileOK

LEMMA InitB == Init => BInv
<1> SUFFICES ASSUME Init PROVE BInv
  OBVIOUS
<1> USE DEF Init
<1>1. TypeOK
  <2>1. durable \in 0..Stored
    <3>1. Stored = 2 * Len(log) - 0
      BY StoredIs, Zenon
    <3> QED BY <3>1
  <2>2. FileOK
    BY <2>1, Zenon DEF FileOK
  <2> QED BY <2>2, BatchConstants DEF TypeOK, InCall
<1>2. HeadsOK(head, batch)
  BY DEF HeadsOK
<1>3. Owns(log, head, batch) /\ CallOK(call, log, head, batch)
  BY DEF Owns, CallOK
<1>4. Kept(log, head, batch, first, answer)
  BY DEF Kept, Ok, NoAnswer
<1>5. answer = [c \in Clients |-> answer[c]] /\ first = [c \in Clients |-> first[c]]
  OBVIOUS
<1> QED BY <1>1, <1>2, <1>3, <1>4, <1>5 DEF BInv

\* The time of a record is part of its id.
LEMMA PositionIsTime ==
  ASSUME NEW l \in Seq(Pairs), NEW hd, NEW t \in Positions(l, hd)
  PROVE  t = hd[1] /\ t \in 0..2 * Len(l)
<1>1. CASE hd = EMPTY_HEAD
  BY <1>1 DEF Positions, EMPTY_HEAD
<1>2. CASE hd # EMPTY_HEAD
  <2>1. t \in 1..2 * Len(l) /\ RecordId(l, t) = hd
    BY <1>2 DEF Positions
  <2>2. RecordId(l, t)[1] = t
    BY DEF RecordId
  <2> QED BY <2>1, <2>2
<1> QED BY <1>1, <1>2

LEMMA BuildB ==
  ASSUME BInv, NEW c \in Clients, NEW b \in Batches, Build(c, b)
  PROVE  BInv'
<1> USE DEF Build
<1>0. log' = log /\ FileOK'
  BY SameFile DEF BInv, TypeOK
<1>1. PICK t \in {EMPTY_HEAD} \union RecordIds(log) : head' = [head EXCEPT ![c] = t]
  OBVIOUS
<1>2. t # NoHead /\ t[1] \in Nat
  <2>1. CASE t = EMPTY_HEAD
    BY <2>1 DEF EMPTY_HEAD, NoHead
  <2>2. CASE t \in RecordIds(log)
    <3>1. PICK u \in 1..2 * Len(log) : t = RecordId(log, u)
      BY <2>2 DEF RecordIds
    <3>2. u \in Nat
      BY DEF BInv, TypeOK
    <3>3. RecordId(log, u)[1] = u /\ RecordId(log, u) # <<>>
      BY DEF RecordId
    <3> QED BY <3>1, <3>2, <3>3 DEF NoHead
  <2> QED BY <2>1, <2>2
<1>3. /\ HeadsOK(head, batch) /\ head = [d \in Clients |-> head[d]]
      /\ batch \in [Clients -> {<<>>} \union Batches]
  BY DEF BInv, HeadsOK
<1>4. /\ head'[c] = t /\ batch'[c] = b
      /\ \A d \in Clients : d # c => head'[d] = head[d] /\ batch'[d] = batch[d]
      /\ head' = [d \in Clients |-> head'[d]]
      /\ batch' \in [Clients -> {<<>>} \union Batches]
  BY <1>1, <1>3
<1>5. HeadsOK(head', batch')
  BY <1>2, <1>3, <1>4 DEF HeadsOK
<1>6. Owns(log', head', batch')
  <2> SUFFICES ASSUME NEW d \in Clients, NEW i \in 1..Len(log), log[i].by = d
               PROVE  OwnAt(log, head', batch', d, i)
    BY <1>0 DEF Owns
  <2>1. OwnAt(log, head, batch, d, i)
    BY DEF BInv, Owns
  <2>2. d # c
    BY <2>1 DEF OwnAt
  <2> QED BY <1>4, <2>1, <2>2 DEF OwnAt, BaseOf
<1>7. CallOK(call', log', head', batch')
  BY DEF CallOK
<1>8. losses' = 0 => Kept(log', head', batch', first', answer')
  <2> SUFFICES ASSUME losses = 0, NEW d \in Clients, Ok(first[d])
               PROVE  Answers(log, head', batch', d, first[d])
    BY <1>0 DEF BInv, Kept
  <2>1. Answers(log, head, batch, d, first[d])
    BY DEF BInv, Kept
  <2>2. d # c
    BY <2>1 DEF Answers
  <2> QED BY <1>4, <2>1, <2>2 DEF Answers, BaseOf
<1>9. TypeOK'
  <2>1. \A d \in Clients : batch'[d] \in {<<>>} \union Batches
    BY <1>4
  <2> QED BY <1>0, <2>1 DEF BInv, TypeOK, InCall
<1> QED BY <1>5, <1>6, <1>7, <1>8, <1>9 DEF BInv

\* The cases of checked_batch_commit.
LEMMA CheckedCases ==
  ASSUME NEW c \in Clients, NEW b, CheckedBatchCommit(c, b)
  PROVE  /\ up /\ call = NoCall /\ head[c] # NoHead
         /\ UNCHANGED <<file, up, head, batch, hostCalls, faults, losses>>
         /\ \/ Positions(log, head[c]) = {} /\ Answer(c, HeadConflict) /\ call' = call
            \/ \E t \in Positions(log, head[c]) :
                 \/ NoOp(c, SortBatch(b), t, Landed(log, t, SortBatch(b)))
                 \/ Diverged(c, SortBatch(b), t, Landed(log, t, SortBatch(b)))
                 \/ /\ t + 2 * Landed(log, t, SortBatch(b)) = 2 * Len(log)
                    /\ Resume(c, SortBatch(b), t, Landed(log, t, SortBatch(b)))
BY DEF CheckedBatchCommit, Positioned

\* A prefix that landed stands where the client wants it.
LEMMA LandedStands ==
  ASSUME NEW l \in Seq(Pairs), NEW t \in Nat, NEW s, NEW n \in Nat
  PROVE  /\ n > 0 /\ LandedAt(l, t, s, n) => Stands(l, t \div 2, s, n) /\ t = 2 * (t \div 2)
         /\ t % 2 = 0 /\ Stands(l, t \div 2, s, n) => LandedAt(l, t, s, n)
<1>1. t \div 2 \in Nat /\ (t % 2 = 0 => t = 2 * (t \div 2)) /\ Len(l) \in Nat
  OBVIOUS
<1>2. ASSUME n > 0, LandedAt(l, t, s, n) PROVE Stands(l, t \div 2, s, n) /\ t = 2 * (t \div 2)
  <2>1. t % 2 = 0 /\ \A j \in 1..n : t \div 2 + j <= Len(l) /\ l[t \div 2 + j].prop = s[j]
    BY <1>2 DEF LandedAt
  <2>2. n \in 1..n
    BY <1>2
  <2> QED BY <1>1, <2>1, <2>2 DEF Stands
<1>3. ASSUME t % 2 = 0, Stands(l, t \div 2, s, n) PROVE LandedAt(l, t, s, n)
  <2>1. \A j \in 1..n : t \div 2 + j <= Len(l)
    BY <1>1, <1>3 DEF Stands
  <2> QED BY <1>3, <2>1 DEF LandedAt, Stands
<1> QED BY <1>2, <1>3

LEMMA EvenTime ==
  ASSUME NEW t \in Nat, NEW n \in Nat, NEW k \in Nat, t + 2 * n = 2 * k
  PROVE  t = 2 * (t \div 2) /\ t \div 2 \in Nat /\ k = (t \div 2) + n
OBVIOUS

\* What a success of checked_batch_commit, without a commit, says.
LEMMA NoOpTrue ==
  ASSUME BInv, NEW c \in Clients, NEW b, SortBatch(b) = SortBatch(batch[c]), head[c] # NoHead,
         NEW t \in Positions(log, head[c]),
         NoOp(c, SortBatch(b), t, Landed(log, t, SortBatch(b)))
  PROVE  /\ Answer(c, BatchAppend(log, t, Len(batch[c])))
         /\ Answers(log, head, batch, c, BatchAppend(log, t, Len(batch[c])))
<1> DEFINE s == SortBatch(batch[c])
           n == Len(batch[c])
<1>1. log \in Seq(Pairs) /\ HeadsOK(head, batch)
  BY DEF BInv, TypeOK
<1>2. s \in Seq(Props) /\ Len(s) = n /\ n \in Nat /\ n > 0
  BY <1>1, BaseTypes
<1>3. t = head[c][1] /\ t \in Nat
  BY <1>1, PositionIsTime DEF HeadsOK
<1> HIDE DEF s, n
<1>4. Landed(log, t, s) = n /\ Answer(c, BatchAppend(log, t, n))
  BY <1>2 DEF NoOp, s
<1>5. LandedAt(log, t, s, n)
  BY <1>2, <1>4, LandedLongest
<1>6. Stands(log, t \div 2, s, n) /\ t = 2 * (t \div 2)
  BY <1>1, <1>2, <1>3, <1>5, LandedStands
<1> QED BY <1>3, <1>4, <1>6 DEF Answers, BaseOf, s, n

LEMMA NotOk == ~Ok(HeadConflict) /\ ~Ok(Failed)
BY DEF Ok, HeadConflict, Failed

LEMMA CheckedB ==
  ASSUME BInv, NEW c \in Clients, NEW b \in Reorderings(batch[c]), CheckedBatchCommit(c, b)
  PROVE  BInv'
<1> DEFINE s == SortBatch(b)
<1>1. /\ up /\ call = NoCall /\ head[c] # NoHead
      /\ UNCHANGED <<file, up, head, batch, hostCalls, faults, losses>>
      /\ \/ Positions(log, head[c]) = {} /\ Answer(c, HeadConflict) /\ call' = call
         \/ \E t \in Positions(log, head[c]) :
              \/ NoOp(c, s, t, Landed(log, t, s))
              \/ Diverged(c, s, t, Landed(log, t, s))
              \/ t + 2 * Landed(log, t, s) = 2 * Len(log) /\ Resume(c, s, t, Landed(log, t, s))
  BY CheckedCases
<1>2. /\ log \in Seq(Pairs) /\ HeadsOK(head, batch) /\ TypeOK
      /\ answer = [d \in Clients |-> answer[d]] /\ first = [d \in Clients |-> first[d]]
      /\ log' = log /\ FileOK'
  BY <1>1, SameFile DEF BInv, TypeOK
<1>3. batch[c] \in Seq(Props) /\ SortBatch(batch[c]) \in Seq(Props)
  BY <1>1, <1>2, BaseTypes
<1>4. s = SortBatch(batch[c])
  BY <1>3, SortCanonical
<1>5. ASSUME NEW x, Answer(c, x), call' = call, Ok(x) => Answers(log, head, batch, c, x)
      PROVE  BInv'
  <2>1. answer' = [d \in Clients |-> answer'[d]] /\ first' = [d \in Clients |-> first'[d]]
    BY <1>2, <1>5, AnswerTypes
  <2>2. losses = 0 => Kept(log, head, batch, first', answer')
    BY <1>2, <1>5, AnswerKeeps DEF BInv
  <2>3. TypeOK'
    BY <1>1, <1>2, <1>5 DEF TypeOK, InCall
  <2> QED BY <1>1, <1>2, <1>5, <2>1, <2>2, <2>3 DEF BInv
<1>6. CASE Positions(log, head[c]) = {} /\ Answer(c, HeadConflict) /\ call' = call
  BY <1>5, <1>6, NotOk
<1>7. ASSUME NEW t \in Positions(log, head[c]), NoOp(c, s, t, Landed(log, t, s)) PROVE BInv'
  <2>1. /\ Answer(c, BatchAppend(log, t, Len(batch[c])))
        /\ Answers(log, head, batch, c, BatchAppend(log, t, Len(batch[c])))
    BY <1>1, <1>4, <1>7, NoOpTrue
  <2>2. call' = call
    BY <1>7 DEF NoOp
  <2> QED BY <1>5, <2>1, <2>2
<1>8. ASSUME NEW t \in Positions(log, head[c]), Diverged(c, s, t, Landed(log, t, s)) PROVE BInv'
  BY <1>5, <1>8, NotOk DEF Diverged
<1>9. ASSUME NEW t \in Positions(log, head[c]), t + 2 * Landed(log, t, s) = 2 * Len(log),
             Resume(c, s, t, Landed(log, t, s))
      PROVE  BInv'
  <2> DEFINE n == Landed(log, t, s)
             base == BaseOf(head, c)
  <2>1. s \in Seq(Props) /\ Len(log) \in Nat
    BY <1>2, <1>3, <1>4
  <2>2. n \in 0..Len(s) /\ LandedAt(log, t, s, n) /\ n < Len(s) /\ Len(s) \in Nat
    BY <1>9, <2>1, LandedLongest DEF Resume
  <2>3. t = head[c][1] /\ t \in Nat
    BY <1>1, <1>2, PositionIsTime DEF HeadsOK
  <2>4. call' = [by |-> c, props |-> s, start |-> t, next |-> n + 1] /\ UNCHANGED <<answer, first>>
    BY <1>9 DEF Resume
  <2>5. base = t \div 2
    BY <2>3 DEF BaseOf
  <2> HIDE DEF n, base
  <2>6. t = 2 * base /\ base \in Nat /\ Len(log) = base + n
    <3>1. t + 2 * n = 2 * Len(log) /\ n \in Nat
      BY <1>9, <2>2 DEF n
    <3> QED BY <2>1, <2>3, <2>5, <3>1, EvenTime
  <2>7. Stands(log, base, s, n)
    <3>1. CASE n > 0
      BY <1>2, <2>2, <2>3, <2>5, <3>1, LandedStands
    <3>2. CASE n = 0
      BY <2>1, <2>6, <3>2 DEF Stands
    <3> QED BY <2>2, <3>1, <3>2
  <2> HIDE DEF s
  <2>8. /\ call' \in CallTypes /\ call'.by = c /\ call'.props = s /\ call'.start = t
        /\ call'.next = n + 1 /\ call'.next \in 1..Len(s) + 1 /\ call'.next - 1 = n
    BY <2>1, <2>2, <2>3, <2>4 DEF CallTypes
  <2>9. CallOK(call', log, head, batch)
    BY <1>1, <1>4, <2>6, <2>7, <2>8 DEF CallOK, base
  <2>10. TypeOK'
    BY <1>1, <1>2, <2>8 DEF TypeOK, CallTypes
  <2> QED BY <1>1, <1>2, <2>4, <2>9, <2>10 DEF BInv
<1> QED BY <1>1, <1>6, <1>7, <1>8, <1>9

LEMMA HostB ==
  ASSUME BInv, NEW w \in Hosts, NEW b \in Batches, BatchCommit(w, b)
  PROVE  BInv'
<1> USE DEF BatchCommit
<1> DEFINE s == SortBatch(b)
<1>1. log \in Seq(Pairs) /\ Len(log) \in Nat /\ TypeOK /\ w \notin Clients
  BY BatchConstants DEF BInv, TypeOK
<1>0. log' = log /\ FileOK'
  BY <1>1, SameFile DEF TypeOK
<1>2. s \in Seq(Props) /\ Len(s) \in Nat
  <2>1. b \in Seq(Props)
    BY BatchConstants DEF Props
  <2> QED BY <2>1, SortedAt
<1>3. call' = [by |-> w, props |-> s, start |-> 2 * Len(log), next |-> 1]
  OBVIOUS
<1> HIDE DEF s
<1>4. /\ call' \in CallTypes /\ call'.by = w /\ call'.props = s /\ call'.next = 1
      /\ 1 \in 1..Len(s) + 1
  BY <1>1, <1>2, <1>3 DEF CallTypes
<1>5. CallOK(call', log, head, batch)
  BY <1>1, <1>4 DEF CallOK
<1>6. hostCalls' \in 0..MaxHostCalls
  BY <1>1, BatchConstants DEF TypeOK
<1>7. TypeOK'
  BY <1>0, <1>1, <1>4, <1>6 DEF TypeOK
<1> QED BY <1>0, <1>5, <1>7 DEF BInv

\* The pair that a call commits next.
LEMMA NextPair ==
  ASSUME Decides, BInv, InCall, ~Done
  PROVE  LET e == Pair(Current, call.by)
         IN  /\ e \in Pairs /\ e.by = call.by /\ e.prop = call.props[call.next]
             /\ call \in CallTypes /\ call.next \in 1..Len(call.props)
             /\ Len(call.props) \in Nat
<1> DEFINE e == Pair(Current, call.by)
<1>1. call \in CallTypes /\ call.next \in 1..Len(call.props) + 1
  BY DEF BInv, CallOK, InCall
<1>2. call.by \in Clients \union Hosts /\ call.props \in Seq(Props) /\ call.next \in Nat
  BY <1>1 DEF CallTypes
<1>3. Len(call.props) \in Nat /\ ~(call.next > Len(call.props))
  BY <1>2 DEF Done
<1>4. call.next \in 1..Len(call.props)
  BY <1>1, <1>2, <1>3
<1>5. Current \in Props
  BY <1>2, <1>4 DEF Current
<1>6. Decide(log, Current) \in {"Accept", "Reject"}
  BY <1>5 DEF Decides, BInv, TypeOK, Props
<1>7. e \in Pairs /\ e.by = call.by /\ e.prop = call.props[call.next]
  BY <1>2, <1>5, <1>6 DEF Pair, Pairs, Props, Current
<1> QED BY <1>1, <1>3, <1>4, <1>7

\* Appending the next pair of a call keeps every pair in its place.
LEMMA GrowOwns ==
  ASSUME Decides, BInv, InCall, ~Done
  PROVE  LET m == Append(log, Pair(Current, call.by))
         IN  /\ m \in Seq(Pairs) /\ Len(m) = Len(log) + 1
             /\ Owns(m, head, batch)
             /\ losses = 0 => Kept(m, head, batch, first, answer)
             /\ call.by \in Clients => Stands(m, BaseOf(head, call.by), call.props, call.next)
<1> DEFINE e == Pair(Current, call.by)
           m == Append(log, e)
           c == call.by
           base == BaseOf(head, c)
<1>1. /\ e \in Pairs /\ e.by = c /\ e.prop = call.props[call.next]
      /\ call.next \in 1..Len(call.props) /\ Len(call.props) \in Nat
  BY NextPair
<1>2. log \in Seq(Pairs) /\ Len(log) \in Nat /\ HeadsOK(head, batch) /\ Owns(log, head, batch)
  BY DEF BInv, TypeOK
<1>3. c \in Clients =>
        /\ head[c] # NoHead
        /\ call.props = SortBatch(batch[c])
        /\ Len(log) + 1 = base + call.next
        /\ Stands(log, base, call.props, call.next - 1)
  BY DEF BInv, CallOK, InCall
<1> HIDE DEF e
<1>4. /\ m \in Seq(Pairs) /\ Len(m) = Len(log) + 1 /\ m[Len(log) + 1] = e
      /\ \A i \in 1..Len(log) : m[i] = log[i]
  BY <1>1, <1>2
<1>5. losses = 0 => Kept(m, head, batch, first, answer)
  BY <1>1, <1>2, KeptGrows DEF BInv
<1> HIDE DEF m, c, base
<1>6. ASSUME c \in Clients PROVE Stands(m, base, call.props, call.next)
  <2>1. base \in Nat
    BY <1>2, <1>3, <1>6, BaseTypes DEF base
  <2>2. base + call.next = Len(log) + 1 /\ call.next \in Nat /\ call.next - 1 \in Nat
        /\ base + (call.next - 1) = Len(log)
    BY <1>1, <1>2, <1>3, <1>6, <2>1
  <2>3. ASSUME NEW j \in 1..call.next PROVE m[base + j].prop = call.props[j]
    <3>1. CASE j = call.next
      BY <1>1, <1>4, <2>2, <3>1
    <3>2. CASE j # call.next
      <4>1. j \in 1..(call.next - 1) /\ base + j \in 1..Len(log)
        BY <1>2, <2>1, <2>2, <3>2
      <4>2. log[base + j].prop = call.props[j]
        BY <1>3, <1>6, <4>1 DEF Stands
      <4> QED BY <1>4, <4>1, <4>2
    <3> QED BY <3>1, <3>2
  <2> QED BY <1>4, <2>2, <2>3 DEF Stands
<1>7. Owns(m, head, batch)
  <2> SUFFICES ASSUME NEW d \in Clients, NEW i \in 1..Len(m), m[i].by = d
               PROVE  OwnAt(m, head, batch, d, i)
    BY DEF Owns
  <2>1. CASE i \in 1..Len(log)
    <3>1. \A x \in Clients, k \in 1..Len(log) : m[k].by = x => OwnAt(m, head, batch, x, k)
      BY <1>2, <1>4, OwnsAgree
    <3> QED BY <2>1, <3>1
  <2>2. CASE i = Len(log) + 1
    <3>1. d = c
      BY <1>1, <1>4, <2>2
    <3>2. c \in Clients
      BY <3>1
    <3>3. base \in Nat /\ Len(SortBatch(batch[c])) = Len(batch[c])
      BY <1>2, <1>3, <3>2, BaseTypes DEF base
    <3>4. i - base = call.next
      BY <1>1, <1>2, <1>3, <2>2, <3>2, <3>3
    <3>5. i - base \in 1..Len(batch[c]) /\ Stands(m, base, SortBatch(batch[c]), i - base)
      BY <1>1, <1>3, <1>6, <3>2, <3>3, <3>4
    <3> QED BY <1>3, <3>1, <3>2, <3>5 DEF OwnAt, base
  <2> QED BY <1>2, <1>4, <2>1, <2>2
<1> QED BY <1>4, <1>5, <1>6, <1>7 DEF m, e, c, base

LEMMA CommitOneB ==
  ASSUME Decides, BInv, CommitOne
  PROVE  BInv'
<1> USE DEF CommitOne
<1> DEFINE c == call.by
           base == BaseOf(head, c)
<1>1. /\ log' \in Seq(Pairs) /\ Len(log') = Len(log) + 1
      /\ Owns(log', head, batch)
      /\ losses = 0 => Kept(log', head, batch, first, answer)
      /\ call.by \in Clients => Stands(log', base, call.props, call.next)
  BY GrowOwns
<1>2. call \in CallTypes /\ call.next \in 1..Len(call.props) /\ Len(call.props) \in Nat
  BY NextPair
<1>3. /\ call' \in CallTypes /\ call'.by = c /\ call'.props = call.props /\ call'.start = call.start
      /\ call'.next = call.next + 1
  <2>1. call' = [call EXCEPT !.next = @ + 1]
    OBVIOUS
  <2> HIDE DEF CommitOne
  <2>2. call.next + 1 \in Nat
    BY <1>2
  <2> QED BY <1>2, <2>1, <2>2 DEF CallTypes
<1>4. /\ call'.next \in 1..Len(call'.props) + 1 /\ call'.next - 1 = call.next
      /\ call.next \in Nat
  BY <1>2, <1>3
<1>5. TypeOK /\ Len(log) \in Nat /\ HeadsOK(head, batch)
  BY DEF BInv, TypeOK
<1>6. ASSUME c \in Clients
      PROVE  /\ head[c] # NoHead /\ call.props = SortBatch(batch[c]) /\ call.start = 2 * base
             /\ Len(log) + 1 = base + call.next
  BY <1>6 DEF BInv, CallOK, InCall
<1>7. ASSUME c \in Clients PROVE Len(log') + 1 = base + call'.next
  <2>1. base \in Nat
    BY <1>5, <1>6, <1>7, BaseTypes
  <2> QED BY <1>1, <1>3, <1>4, <1>5, <1>6, <1>7, <2>1
<1>8. CallOK(call', log', head, batch)
  <2> HIDE DEF CommitOne
  <2> QED BY <1>1, <1>3, <1>4, <1>6, <1>7 DEF CallOK
<1>9. TypeOK'
  <2>1. Len(log') <= MaxPairs /\ log' # <<>>
    BY <1>1, <1>5, BatchConstants
  <2>2. call'.by \in Clients \union Hosts
    BY <1>3 DEF CallTypes
  <2>3. up /\ ~owed /\ ~torn
    BY <1>5 DEF TypeOK, FileOK
  <2>4. durable' = 2 * Len(log') /\ 2 * Len(log') \in Nat
    BY <1>1, <1>5
  <2>5. ~owed' /\ ~torn' /\ up' = TRUE /\ owed' \in BOOLEAN /\ torn' \in BOOLEAN
    BY <1>5, <2>3, Zenon DEF TypeOK, FileOK
  <2>6. durable' \in 0..Stored'
    <3>1. Stored' = 2 * Len(log') - 0
      BY <2>5, StoredIsThen, Zenon
    <3> HIDE DEF CommitOne
    <3> QED BY <2>4, <3>1
  <2>7. FileOK'
    BY <2>5, <2>6, FileOKThen, Zenon
  <2> QED BY <1>1, <1>4, <1>5, <2>1, <2>2, <2>3, <2>7 DEF TypeOK
<1> QED BY <1>1, <1>8, <1>9 DEF BInv

\* A call that fails for its client changes no success.
LEMMA FailB ==
  ASSUME BInv, Fail, InCall
  PROVE  /\ answer' = [d \in Clients |-> answer'[d]] /\ first' = [d \in Clients |-> first'[d]]
         /\ \A l : Kept(l, head, batch, first, answer) => Kept(l, head, batch, first', answer')
<1>1. CASE call.by \in Clients
  <2> DEFINE c == call.by
  <2>1. Answer(c, Failed)
    BY <1>1 DEF Fail
  <2>2. answer' = [d \in Clients |-> answer'[d]] /\ first' = [d \in Clients |-> first'[d]]
    BY <1>1, <2>1, AnswerTypes DEF BInv
  <2>3. first' = first /\ ~Ok(answer'[c]) /\ \A d \in Clients : d # c => answer'[d] = answer[d]
    BY <1>1, <2>1, NotOk DEF Answer, BInv
  <2> QED BY <2>2, <2>3 DEF Kept
<1>2. CASE call.by \notin Clients
  BY <1>2 DEF Fail, BInv
<1> QED BY <1>1, <1>2

LEMMA RefusedB ==
  ASSUME BInv, CommitRefused
  PROVE  BInv'
<1> USE DEF CommitRefused
<1>1. /\ answer' = [d \in Clients |-> answer'[d]] /\ first' = [d \in Clients |-> first'[d]]
      /\ \A l : Kept(l, head, batch, first, answer) => Kept(l, head, batch, first', answer')
  BY FailB
<1>2. log' = log /\ FileOK'
  BY SameFile DEF BInv, TypeOK
<1>3. TypeOK' /\ CallOK(call', log', head', batch')
  BY <1>2 DEF BInv, TypeOK, CallOK, InCall
<1> QED BY <1>1, <1>2, <1>3 DEF BInv

\* What the end of a call tells a client.
LEMMA ReturnTrue ==
  ASSUME BInv, Done, call.by \in Clients
  PROVE  /\ Answers(log, head, batch, call.by, BatchAppend(log, call.start, Len(call.props)))
         /\ Len(call.props) = Len(batch[call.by]) /\ call.start = 2 * BaseOf(head, call.by)
<1> DEFINE c == call.by
           base == BaseOf(head, c)
<1>1. /\ call \in CallTypes /\ call.next \in 1..Len(call.props) + 1 /\ call.next > Len(call.props)
      /\ head[c] # NoHead /\ call.props = SortBatch(batch[c]) /\ call.start = 2 * base
      /\ Stands(log, base, call.props, call.next - 1)
  BY DEF BInv, CallOK, InCall, Done
<1>2. Len(call.props) = Len(batch[c]) /\ Len(batch[c]) \in Nat
  BY <1>1, BaseTypes DEF BInv
<1>3. call.next - 1 = Len(batch[c])
  BY <1>1, <1>2
<1> QED BY <1>1, <1>2, <1>3 DEF Answers

LEMMA ReturnB ==
  ASSUME BInv, Return
  PROVE  BInv'
<1> USE DEF Return
<1>0. log' = log /\ FileOK'
  BY SameFile DEF BInv, TypeOK
<1>1. TypeOK' /\ CallOK(call', log', head', batch')
  BY <1>0 DEF BInv, TypeOK, CallOK, InCall
<1>2. CASE call.by \in Clients
  <2> DEFINE x == BatchAppend(log, call.start, Len(call.props))
  <2>1. Answer(call.by, x) /\ Answers(log, head, batch, call.by, x)
    BY <1>2, ReturnTrue
  <2> HIDE DEF x
  <2>2. answer' = [d \in Clients |-> answer'[d]] /\ first' = [d \in Clients |-> first'[d]]
    BY <1>2, <2>1, AnswerTypes DEF BInv
  <2>3. losses = 0 => Kept(log, head, batch, first', answer')
    BY <1>2, <2>1, AnswerKeeps DEF BInv
  <2> QED BY <1>0, <1>1, <2>2, <2>3 DEF BInv
<1>3. CASE call.by \notin Clients
  BY <1>0, <1>1, <1>3 DEF BInv
<1> QED BY <1>2, <1>3

LEMMA InterruptB ==
  ASSUME Decides, BInv, Interrupt
  PROVE  BInv'
<1> USE DEF Interrupt
<1>1. /\ answer' = [d \in Clients |-> answer'[d]] /\ first' = [d \in Clients |-> first'[d]]
      /\ \A l : Kept(l, head, batch, first, answer) => Kept(l, head, batch, first', answer')
  BY FailB
<1>2. /\ TypeOK /\ log \in Seq(Pairs) /\ Len(log) \in Nat /\ faults' \in 0..MaxFaults
      /\ call' = NoCall /\ ~owed /\ ~torn /\ durable \in Nat /\ durable <= 2 * Len(log)
  BY BatchConstants DEF BInv, TypeOK, FileOK, Stored
<1>3. CallOK(call', log', head', batch') /\ ~InCall'
  BY <1>2 DEF CallOK, InCall
<1>4. CASE LeaveNothing
  <2>1. log' = log /\ FileOK'
    <3>1. /\ log' = log /\ durable' = durable /\ owed' = owed /\ torn' \in BOOLEAN /\ up' \in BOOLEAN
          /\ (torn' => ~up') /\ durable \in 0..Stored /\ owed \in BOOLEAN
      BY <1>2, <1>4, Zenon DEF LeaveNothing, TypeOK, FileOK
    <3>2. Stored' = Stored
      BY <3>1 DEF Stored
    <3> QED BY <1>2, <3>1, <3>2, FileOKThen, Zenon
  <2>2. TypeOK'
    BY <1>2, <1>3, <2>1 DEF TypeOK
  <2> QED BY <1>1, <1>3, <2>1, <2>2 DEF BInv
<1>5. CASE LeaveSubject
  <2>1. /\ log' \in Seq(Pairs) /\ Len(log') = Len(log) + 1
        /\ Owns(log', head, batch)
        /\ losses = 0 => Kept(log', head, batch, first, answer)
    BY <1>5, GrowOwns DEF LeaveSubject
  <2> HIDE DEF Interrupt
  <2>2. Len(log') <= MaxPairs /\ log' # <<>>
    BY <1>2, <1>5, <2>1, BatchConstants DEF LeaveSubject
  <2>3. FileOK'
    <3>1. 2 * Len(log') = 2 * Len(log) + 2
      BY <1>2, <2>1
    <3>2. /\ owed' \in BOOLEAN /\ torn' \in BOOLEAN /\ up' \in BOOLEAN /\ ~up'
          /\ \/ owed' /\ durable' = durable
             \/ owed' /\ durable' = 2 * Len(log) + 1
             \/ ~owed' /\ durable' \in 2 * Len(log) + 1..2 * Len(log) + 2
      BY <1>5, Zenon DEF LeaveSubject
    <3>3. CASE owed'
      <4>1. Stored' = 2 * Len(log') - 1
        BY <3>3, StoredIsThen, Zenon
      <4>2. durable' = durable \/ durable' = 2 * Len(log) + 1
        BY <3>2, <3>3, Zenon
      <4>3. durable' \in 0..Stored'
        BY <1>2, <3>1, <4>1, <4>2
      <4> QED BY <2>2, <3>2, <4>3, FileOKThen, Zenon
    <3>4. CASE ~owed'
      <4>1. Stored' = 2 * Len(log') - 0
        BY <3>4, StoredIsThen, Zenon
      <4>2. durable' \in 2 * Len(log) + 1..2 * Len(log) + 2
        BY <3>2, <3>4, Zenon
      <4>3. durable' \in 0..Stored'
        BY <1>2, <3>1, <4>1, <4>2
      <4> QED BY <3>2, <3>4, <4>3, FileOKThen, Zenon
    <3> QED BY <3>3, <3>4
  <2>4. TypeOK'
    BY <1>2, <1>3, <2>1, <2>2, <2>3 DEF TypeOK, Interrupt
  <2> QED BY <1>1, <1>3, <2>1, <2>4 DEF BInv, Interrupt
<1> QED BY <1>4, <1>5

\* What is stored when the file is out of order.
LEMMA StoredTypes ==
  ASSUME TypeOK
  PROVE  /\ Len(log) \in Nat /\ Stored \in Nat /\ durable \in 0..Stored /\ SyncedByCut \in 0..Stored
         /\ Stored <= 2 * Len(log) /\ (owed => Stored = 2 * Len(log) - 1)
         /\ (~owed => Stored = 2 * Len(log))
<1>1. log \in Seq(Pairs) /\ Len(log) \in Nat
  BY DEF TypeOK
<1>2. durable \in 0..Stored /\ (owed => log # <<>>)
  BY Zenon DEF TypeOK, FileOK
<1>3. SyncedByCut = Stored \/ SyncedByCut = durable
  BY Zenon DEF SyncedByCut
<1>4. CASE owed
  <2>1. Stored = 2 * Len(log) - 1 /\ log # <<>>
    BY <1>2, <1>4, StoredIs, Zenon
  <2>2. Len(log) # 0
    BY <1>1, <2>1
  <2> QED BY <1>1, <1>2, <1>3, <1>4, <2>1, <2>2
<1>5. CASE ~owed
  <2>1. Stored = 2 * Len(log) - 0
    BY <1>5, StoredIs, Zenon
  <2> QED BY <1>1, <1>2, <1>3, <1>5, <2>1
<1> QED BY <1>4, <1>5

LEMMA ReopenB ==
  ASSUME BInv, Reopen \/ InterruptReopen
  PROVE  BInv'
<1>1. /\ ~up /\ log' = log /\ TypeOK /\ log \in Seq(Pairs)
      /\ UNCHANGED <<call, head, batch, answer, first, hostCalls, losses>>
  BY DEF BInv, TypeOK, Reopen, InterruptReopen
<1>2. /\ Len(log) \in Nat /\ Stored \in Nat /\ durable \in 0..Stored /\ SyncedByCut \in 0..Stored
      /\ Stored <= 2 * Len(log) /\ (owed => Stored = 2 * Len(log) - 1)
      /\ (~owed => Stored = 2 * Len(log))
  BY <1>1, StoredTypes
<1>3. FileOK' /\ faults' \in 0..MaxFaults
  <2>1. faults' \in 0..MaxFaults
    BY <1>1, BatchConstants DEF TypeOK, Reopen, InterruptReopen
  <2>2. (owed' => owed) /\ owed' \in BOOLEAN /\ torn' \in BOOLEAN /\ up' \in BOOLEAN /\ (up' => ~owed' /\ ~torn')
    <3>1. owed \in BOOLEAN /\ torn \in BOOLEAN /\ up \in BOOLEAN
      BY <1>1, Zenon DEF TypeOK, FileOK
    <3>2. CASE Reopen
      BY <3>1, <3>2, Zenon DEF Reopen
    <3>3. CASE InterruptReopen
      <4>1. up' = up
        BY <3>3 DEF InterruptReopen
      <4>2. /\ torn' = TRUE \/ torn' = FALSE
            /\ owed' = owed \/ owed' = FALSE
        BY <3>3, Zenon DEF InterruptReopen
      <4>3. torn' \in BOOLEAN
        BY <4>2, Zenon
      <4>4. owed' \in BOOLEAN /\ (owed' => owed)
        <5>1. CASE owed' = owed
          BY <3>1, <5>1
        <5>2. CASE owed' = FALSE
          BY <5>2, Zenon
        <5> QED BY <4>2, <5>1, <5>2
      <4> QED BY <1>1, <3>1, <4>1, <4>3, <4>4, Zenon
    <3> QED BY <3>2, <3>3
  <2>3. (owed' => Stored' = 2 * Len(log) - 1) /\ (~owed' => Stored' = 2 * Len(log) - 0)
    BY <1>1, StoredIsThen, Zenon
  <2>4. durable' \in 0..Stored'
    <3>1. CASE owed'
      <4>1. owed /\ (durable' = durable \/ durable' = SyncedByCut)
        <5>1. CASE Reopen
          BY <3>1, <5>1, Zenon DEF Reopen
        <5>2. CASE InterruptReopen
          BY <2>2, <3>1, <5>2, Zenon DEF InterruptReopen
        <5> QED BY <5>1, <5>2
      <4>2. Stored' = Stored
        BY <1>2, <2>3, <3>1, <4>1
      <4> QED BY <1>2, <4>1, <4>2
    <3>2. CASE ~owed'
      <4>1. durable' = durable \/ durable' = SyncedByCut \/ durable' = 2 * Len(log)
        <5>1. CASE Reopen
          BY <5>1, Zenon DEF Reopen
        <5>2. CASE InterruptReopen
          BY <5>2, Zenon DEF InterruptReopen
        <5> QED BY <5>1, <5>2
      <4>2. Stored' = 2 * Len(log)
        <5>1. Stored' = 2 * Len(log) - 0
          BY <2>3, <3>2, Zenon
        <5> QED BY <1>2, <5>1
      <4> QED BY <1>2, <4>1, <4>2
    <3> QED BY <3>1, <3>2
  <2>5. owed' => log' # <<>>
    BY <1>1, <2>2, Zenon DEF TypeOK, FileOK
  <2> QED BY <2>1, <2>2, <2>4, <2>5, FileOKThen, Zenon
<1>4. ~InCall
  BY <1>1 DEF TypeOK
<1>5. TypeOK'
  BY <1>1, <1>3, <1>4 DEF TypeOK, InCall
<1> QED BY <1>1, <1>5 DEF BInv

\* The pair of the n-th record.
LEMMA PairOf ==
  ASSUME NEW n \in Nat, NEW k \in Nat, n <= 2 * k
  PROVE  /\ (n + 1) \div 2 \in 0..k
         /\ n % 2 = 1 => 2 * ((n + 1) \div 2) - 1 = n /\ (n + 1) \div 2 > 0
         /\ n % 2 # 1 => 2 * ((n + 1) \div 2) = n
OBVIOUS

LEMMA PowerLossB ==
  ASSUME BInv, PowerLoss
  PROVE  BInv'
<1>1. PICK n \in durable..Stored : /\ log' = SubSeq(log, 1, (n + 1) \div 2)
                                   /\ owed' = (n % 2 = 1) /\ torn' \in BOOLEAN
  BY DEF PowerLoss
<1>2. TypeOK /\ log \in Seq(Pairs) /\ HeadsOK(head, batch) /\ Owns(log, head, batch)
  BY DEF BInv, TypeOK
<1>3. Len(log) \in Nat /\ durable \in Nat /\ n \in Nat /\ n <= 2 * Len(log) /\ durable <= n
  BY <1>2, StoredTypes
<1> DEFINE k == (n + 1) \div 2
<1>4. /\ k \in 0..Len(log)
      /\ n % 2 = 1 => 2 * k - 1 = n /\ k > 0
      /\ n % 2 # 1 => 2 * k = n
  BY <1>3, PairOf
<1>5. log' = SubSeq(log, 1, k)
  BY <1>1
<1> HIDE DEF k
<1>6. log' \in Seq(Pairs) /\ Len(log') = k /\ \A i \in 1..k : log'[i] = log[i]
  BY <1>2, <1>4, <1>5
<1>7. Owns(log', head, batch)
  <2>1. \A c \in Clients, i \in 1..k : log'[i].by = c => OwnAt(log', head, batch, c, i)
    <3>1. k <= Len(log') /\ k <= Len(log) /\ k \in Nat
      BY <1>3, <1>4, <1>6
    <3> QED BY <1>2, <1>6, <3>1, OwnsAgree
  <2> QED BY <1>6, <2>1 DEF Owns
<1>8. /\ losses' \in 0..MaxLosses /\ losses' # 0 /\ up' = FALSE /\ call' = NoCall
      /\ UNCHANGED <<durable, head, batch, answer, first, hostCalls, faults>>
  BY <1>2, BatchConstants DEF TypeOK, PowerLoss
<1>9. FileOK'
  <2>1. CASE n % 2 = 1
    <3>1. owed' /\ owed' \in BOOLEAN
      BY <1>1, <2>1, Zenon
    <3>2. Stored' = 2 * Len(log') - 1
      BY <3>1, StoredIsThen, Zenon
    <3>3. Stored' = n /\ log' # <<>>
      BY <1>3, <1>4, <1>6, <2>1, <3>2
    <3>4. durable' \in 0..Stored'
      BY <1>3, <1>8, <3>3
    <3> QED BY <1>1, <1>8, <3>1, <3>3, <3>4, FileOKThen, Zenon
  <2>2. CASE n % 2 # 1
    <3>1. ~owed' /\ owed' \in BOOLEAN
      BY <1>1, <2>2, Zenon
    <3>2. Stored' = 2 * Len(log') - 0
      BY <3>1, StoredIsThen, Zenon
    <3>3. Stored' = n
      BY <1>3, <1>4, <1>6, <2>2, <3>2
    <3>4. durable' \in 0..Stored'
      BY <1>3, <1>8, <3>3
    <3> QED BY <1>1, <1>8, <3>1, <3>4, FileOKThen, Zenon
  <2> QED BY <2>1, <2>2
<1>10. TypeOK'
  <2>1. Len(log') <= MaxPairs
    BY <1>2, <1>3, <1>4, <1>6, BatchConstants DEF TypeOK
  <2> QED BY <1>2, <1>6, <1>8, <1>9, <2>1 DEF TypeOK, InCall
<1>11. CallOK(call', log', head', batch')
  BY <1>8 DEF CallOK
<1> QED BY <1>7, <1>8, <1>10, <1>11 DEF BInv

LEMMA NextB == Decides /\ BInv /\ [Next]_vars => BInv'
<1> SUFFICES ASSUME Decides, BInv, [Next]_vars PROVE BInv'
  OBVIOUS
<1>1. ASSUME NEW c \in Clients, NEW b \in Batches, Build(c, b) PROVE BInv'
  BY <1>1, BuildB
<1>2. ASSUME NEW c \in Clients, NEW b \in Reorderings(batch[c]), CheckedBatchCommit(c, b)
      PROVE  BInv'
  BY <1>2, CheckedB
<1>3. ASSUME NEW w \in Hosts, NEW b \in Batches, BatchCommit(w, b) PROVE BInv'
  BY <1>3, HostB
<1>4. CASE CommitOne        BY <1>4, CommitOneB
<1>5. CASE CommitRefused    BY <1>5, RefusedB
<1>6. CASE Return           BY <1>6, ReturnB
<1>7. CASE Interrupt        BY <1>7, InterruptB
<1>8. CASE Reopen \/ InterruptReopen
  BY <1>8, ReopenB
<1>9. CASE PowerLoss        BY <1>9, PowerLossB
<1>10. CASE UNCHANGED vars
  <2>1. log' = log /\ FileOK'
    BY <1>10, SameFile DEF vars, BInv, TypeOK
  <2> QED BY <1>10, <2>1 DEF vars, BInv, TypeOK, InCall
<1> QED BY <1>1, <1>2, <1>3, <1>4, <1>5, <1>6, <1>7, <1>8, <1>9, <1>10 DEF Next

-----------------------------------------------------------------------------
(* What a step tells a client *)

LEMMA BatchAppendOk == \A l, t, n : Ok(BatchAppend(l, t, n))
BY DEF Ok, BatchAppend

LEMMA AnswerOthers ==
  ASSUME BInv, NEW c \in Clients, NEW x, Answer(c, x)
  PROVE  answer'[c] = x /\ \A d \in Clients : d # c => answer'[d] = answer[d]
BY DEF BInv, Answer

\* A new answer is a failure, a success that is true, or a conflict that
\* checked_batch_commit found.
LEMMA NewAnswer ==
  ASSUME BInv, Next, NEW c \in Clients, answer'[c] # answer[c]
  PROVE  \/ answer'[c] = Failed
         \/ Answers(log, head, batch, c, answer'[c]) /\ Ok(answer'[c])
         \/ /\ answer'[c] = HeadConflict
            /\ \/ Positions(log, head[c]) = {}
               \/ \E t \in Positions(log, head[c]) :
                    LET s == SortBatch(batch[c]) IN Diverged(c, s, t, Landed(log, t, s))
            /\ head[c] # NoHead
<1> DEFINE Goal ==
      \/ answer'[c] = Failed
      \/ Answers(log, head, batch, c, answer'[c]) /\ Ok(answer'[c])
      \/ /\ answer'[c] = HeadConflict
         /\ \/ Positions(log, head[c]) = {}
            \/ \E t \in Positions(log, head[c]) :
                 LET s == SortBatch(batch[c]) IN Diverged(c, s, t, Landed(log, t, s))
         /\ head[c] # NoHead
<1> SUFFICES Goal
  OBVIOUS
<1>1. ASSUME NEW d \in Clients, NEW b \in Batches, Build(d, b) PROVE Goal
  BY <1>1 DEF Build
<1>2. ASSUME NEW w \in Hosts, NEW b \in Batches, BatchCommit(w, b) PROVE Goal
  BY <1>2 DEF BatchCommit
<1>3. CASE CommitOne \/ Reopen \/ InterruptReopen \/ PowerLoss
  BY <1>3 DEF CommitOne, Reopen, InterruptReopen, PowerLoss
<1>4. CASE CommitRefused \/ Interrupt
  <2>1. Fail
    BY <1>4 DEF CommitRefused, Interrupt
  <2>2. CASE call.by \in Clients
    BY <2>1, <2>2, AnswerOthers DEF Fail
  <2>3. CASE call.by \notin Clients
    BY <2>1, <2>3 DEF Fail
  <2> QED BY <2>2, <2>3
<1>5. CASE Return
  <2>1. CASE call.by \in Clients
    <3> DEFINE x == BatchAppend(log, call.start, Len(call.props))
    <3>1. Answer(call.by, x)
      BY <1>5, <2>1 DEF Return
    <3>2. Answers(log, head, batch, call.by, x)
      BY <1>5, <2>1, ReturnTrue DEF Return
    <3>3. call.by = c /\ answer'[c] = x
      BY <2>1, <3>1, AnswerOthers
    <3>4. Ok(x)
      BY BatchAppendOk
    <3> QED BY <3>2, <3>3, <3>4
  <2>2. CASE call.by \notin Clients
    BY <1>5, <2>2 DEF Return
  <2> QED BY <2>1, <2>2
<1>6. ASSUME NEW d \in Clients, NEW b \in Reorderings(batch[d]), CheckedBatchCommit(d, b)
      PROVE  Goal
  <2> DEFINE s == SortBatch(b)
  <2>1. /\ head[d] # NoHead
        /\ \/ Positions(log, head[d]) = {} /\ Answer(d, HeadConflict) /\ call' = call
           \/ \E t \in Positions(log, head[d]) :
                \/ NoOp(d, s, t, Landed(log, t, s))
                \/ Diverged(d, s, t, Landed(log, t, s))
                \/ t + 2 * Landed(log, t, s) = 2 * Len(log) /\ Resume(d, s, t, Landed(log, t, s))
    BY <1>6, CheckedCases
  <2>2. s = SortBatch(batch[d])
    <3>1. batch[d] \in Seq(Props)
      BY <2>1, BaseTypes DEF BInv
    <3> QED BY <3>1, SortCanonical
  <2>3. CASE Positions(log, head[d]) = {} /\ Answer(d, HeadConflict) /\ call' = call
    <3>1. d = c /\ answer'[c] = HeadConflict
      BY <2>3, AnswerOthers
    <3> QED BY <2>1, <2>3, <3>1
  <2>4. ASSUME NEW t \in Positions(log, head[d]), NoOp(d, s, t, Landed(log, t, s)) PROVE Goal
    <3> DEFINE x == BatchAppend(log, t, Len(batch[d]))
    <3>1. Answer(d, x) /\ Answers(log, head, batch, d, x)
      BY <2>1, <2>2, <2>4, NoOpTrue
    <3>2. d = c /\ answer'[c] = x
      BY <3>1, AnswerOthers
    <3>3. Ok(x)
      BY BatchAppendOk
    <3> QED BY <3>1, <3>2, <3>3
  <2>5. ASSUME NEW t \in Positions(log, head[d]), Diverged(d, s, t, Landed(log, t, s)) PROVE Goal
    <3>1. Answer(d, HeadConflict)
      BY <2>5 DEF Diverged
    <3>2. d = c /\ answer'[c] = HeadConflict
      BY <3>1, AnswerOthers
    <3> QED BY <2>1, <2>2, <2>5, <3>2
  <2>6. ASSUME NEW t \in Positions(log, head[d]), Resume(d, s, t, Landed(log, t, s)) PROVE Goal
    BY <2>6 DEF Resume
  <2> HIDE DEF Goal
  <2> QED BY <2>1, <2>3, <2>4, <2>5, <2>6
<1> HIDE DEF Goal
<1> QED BY <1>1, <1>2, <1>3, <1>4, <1>5, <1>6 DEF Next

LEMMA Doubled ==
  ASSUME NEW a \in Nat, NEW n \in Nat, NEW k \in Nat, 2 * a + 2 * n # 2 * k
  PROVE  a + n # k
OBVIOUS

\* A diverged batch has somebody else's pair behind its head.
LEMMA DivergedHasCause ==
  ASSUME BInv, NEW c \in Clients, head[c] # NoHead, NEW t \in Positions(log, head[c]),
         Diverged(c, SortBatch(batch[c]), t, Landed(log, t, SortBatch(batch[c]))),
         head[c][1] % 2 # 1
  PROVE  \E i \in Base(c) + 1..Len(log) : log[i].by # c
<1> DEFINE s == SortBatch(batch[c])
           n == Landed(log, t, s)
           base == Base(c)
<1>1. log \in Seq(Pairs) /\ HeadsOK(head, batch) /\ Owns(log, head, batch) /\ Len(log) \in Nat
  BY DEF BInv, TypeOK
<1>2. s \in Seq(Props) /\ Len(s) = Len(batch[c]) /\ Len(s) \in Nat /\ base = BaseOf(head, c) /\ base \in Nat
  BY <1>1, BaseTypes DEF Base, BaseOf
<1>3. t = head[c][1] /\ t \in 0..2 * Len(log) /\ t \in Nat
  BY <1>1, PositionIsTime
<1>4. t % 2 = 0 /\ t = 2 * base /\ t \div 2 = base
  BY <1>3 DEF Base
<1> HIDE DEF s
<1>5. /\ n \in 0..Len(s) /\ LandedAt(log, t, s, n)
      /\ \A k \in 0..Len(s) : LandedAt(log, t, s, k) => k <= n
  BY <1>2, LandedLongest
<1>6. t + 2 * n # 2 * Len(log)
  BY DEF Diverged, s
<1> HIDE DEF n, base
<1>7. base + n <= Len(log)
  <2>1. CASE n = 0
    BY <1>1, <1>2, <1>3, <1>4, <2>1
  <2>2. CASE n > 0
    <3>1. Stands(log, base, s, n)
      BY <1>1, <1>2, <1>3, <1>4, <1>5, <2>2, LandedStands
    <3> QED BY <3>1 DEF Stands
  <2> QED BY <1>2, <1>5, <2>1, <2>2
<1>8. base + n < Len(log)
  <2>1. n \in Nat /\ 2 * base + 2 * n # 2 * Len(log)
    BY <1>2, <1>4, <1>5, <1>6
  <2>2. base + n # Len(log)
    BY <1>1, <1>2, <2>1, Doubled
  <2> QED BY <1>1, <1>2, <1>7, <2>1, <2>2
<1>9. SUFFICES ASSUME \A i \in base + 1..Len(log) : log[i].by = c PROVE FALSE
  BY DEF base
<1>10. Len(log) \in base + 1..Len(log) /\ Len(log) \in 1..Len(log)
  BY <1>1, <1>2, <1>5, <1>8
<1>11. OwnAt(log, head, batch, c, Len(log))
  BY <1>1, <1>9, <1>10 DEF Owns
<1> DEFINE k == Len(log) - base
<1>12. k \in 1..Len(s) /\ Stands(log, base, s, k)
  BY <1>2, <1>11 DEF OwnAt, s
<1>13. k \in 0..Len(s) /\ k \in Nat /\ k > n
  BY <1>1, <1>2, <1>5, <1>8, <1>12
<1> HIDE DEF k
<1>14. LandedAt(log, t, s, k)
  BY <1>1, <1>3, <1>4, <1>12, <1>13, LandedStands
<1> QED BY <1>2, <1>5, <1>13, <1>14

-----------------------------------------------------------------------------
(* The theorems *)

LEMMA Invariance == Decides => (Spec => []BInv)
<1> SUFFICES ASSUME Decides PROVE Spec => []BInv
  OBVIOUS
<1>1. BInv /\ [Next]_vars => BInv'
  BY NextB
<1> QED BY <1>1, InitB, PTL DEF Spec

LEMMA OwnsIsOwnPlace ==
  ASSUME BInv
  PROVE  OwnPlace
BY DEF BInv, Owns, OwnAt, OwnPlace, InPlace, Stands, Base, BaseOf

\* The log keeps within max_file_bytes, its durable part is a prefix of what is
\* stored, a usable writer has nothing to recover, and a call runs on a usable
\* writer and stays within its batch, for every number of clients, faults and
\* losses.
THEOREM TypeCorrect == Decides => (Spec => []TypeOK)
<1>1. BInv => TypeOK
  BY DEF BInv
<1> QED BY <1>1, Invariance, PTL

\* However often clients retry, in whatever order they resend a batch, whoever
\* else appends and whatever fails or is lost: a proposal of a batch is in the
\* log at most once, in its own place behind the expected head.  And until a
\* power loss every success of a retry repeats the first.
THEOREM RetriesStayIdempotent == Decides => (Spec => []RetriesIdempotent)
<1>1. BInv => OwnPlace
  BY OwnsIsOwnPlace
<1>2. BInv => SameAnswer
  BY DEF BInv, SameAnswer, Kept
<1>3. BInv => RetriesIdempotent
  BY <1>1, <1>2 DEF RetriesIdempotent
<1> QED BY <1>3, Invariance, PTL

\* A success that checked_batch_commit returns is true when it is returned: the
\* whole batch stands in place, with the verdicts and the head of the answer.
THEOREM AnswersAreTrue == Decides => (Spec => AnswerTrue)
<1>1. ASSUME BInv, [Next]_vars, NEW c \in Clients, Ok(answer'[c]), answer'[c] # answer[c]
      PROVE  /\ InPlace(log, c, Len(batch[c]))
             /\ answer'[c] = BatchAppend(log, 2 * Base(c), Len(batch[c]))
  <2>1. Next
    BY <1>1 DEF vars
  <2>2. Answers(log, head, batch, c, answer'[c])
    BY <1>1, <2>1, NewAnswer, NotOk
  <2> QED BY <2>2 DEF Answers, Stands, InPlace, Base, BaseOf
<1>2. BInv /\ [Next]_vars =>
        [\A c \in Clients : Ok(answer'[c]) /\ answer'[c] # answer[c] =>
           /\ InPlace(log, c, Len(batch[c]))
           /\ answer'[c] = BatchAppend(log, 2 * Base(c), Len(batch[c]))]_vars
  BY <1>1
<1> QED BY <1>2, Invariance, PTL DEF Spec, AnswerTrue

\* A client is turned away with HeadConflict only because the head it built on
\* is a subject's, is gone, or has a pair of somebody else behind it; its own
\* landed prefix, or the order in which it resends the batch, is no conflict.
THEOREM ConflictsHaveCauses == Decides => (Spec => ConflictHasCause)
<1>1. ASSUME BInv, [Next]_vars, NEW c \in Clients,
             answer'[c] = HeadConflict, answer[c] # HeadConflict
      PROVE  \/ head[c][1] % 2 = 1
             \/ Positions(log, head[c]) = {}
             \/ \E i \in Base(c) + 1..Len(log) : log[i].by # c
  <2>1. Next /\ answer'[c] # answer[c]
    BY <1>1 DEF vars
  <2>2. Failed # HeadConflict
    BY DEF Failed, HeadConflict
  <2>3. /\ head[c] # NoHead
        /\ \/ Positions(log, head[c]) = {}
           \/ \E t \in Positions(log, head[c]) :
                LET s == SortBatch(batch[c]) IN Diverged(c, s, t, Landed(log, t, s))
    BY <1>1, <2>1, <2>2, NewAnswer, NotOk
  <2> QED BY <1>1, <2>3, DivergedHasCause
<1>2. BInv /\ [Next]_vars =>
        [\A c \in Clients : answer'[c] = HeadConflict /\ answer[c] # HeadConflict =>
           \/ head[c][1] % 2 = 1
           \/ Positions(log, head[c]) = {}
           \/ \E i \in Base(c) + 1..Len(log) : log[i].by # c]_vars
  BY <1>1
<1> QED BY <1>2, Invariance, PTL DEF Spec, ConflictHasCause
=============================================================================
