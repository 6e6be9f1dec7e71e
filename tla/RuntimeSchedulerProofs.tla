----------------------- MODULE RuntimeSchedulerProofs -----------------------
(***************************************************************************)
(* Proofs about the desktop's scheduler, for any tasks, workspaces and     *)
(* capacity: what taking tasks out of the queue leaves, that drain() leaves*)
(* nobody waiting who could start, that its loop is the closed form the    *)
(* model uses, and that the scheduler implements the abstract leases.      *)
(***************************************************************************)
EXTENDS RuntimeScheduler, FiniteSetTheorems, TLAPS

-----------------------------------------------------------------------------
(* The position of a number in a finite set of numbers.                    *)
Rank(K, i) == Cardinality(UpTo(K, i))

LEMMA RankGrows ==
  ASSUME NEW n \in Nat, NEW K \in SUBSET (1 .. n), NEW i \in K, NEW j \in K, i < j
  PROVE  Rank(K, i) < Rank(K, j)
<1>1. IsFiniteSet(1 .. n) BY FS_Interval
<1>2. IsFiniteSet(UpTo(K, j)) BY <1>1, FS_Subset DEF UpTo
<1>a. \A k \in K : k \in Int OBVIOUS
<1>3. UpTo(K, i) \subseteq UpTo(K, j) /\ j \in UpTo(K, j) /\ j \notin UpTo(K, i)
  <2>1. i \in Int /\ j \in Int BY <1>a
  <2>2. \A k \in K : k <= i => k <= j BY <1>a, <2>1
  <2>3. ~(j <= i) /\ j <= j BY <2>1
  <2> QED BY <2>2, <2>3 DEF UpTo
<1>4. IsFiniteSet(UpTo(K, i)) /\ Rank(K, i) <= Rank(K, j) /\ Rank(K, i) # Rank(K, j)
  BY <1>2, <1>3, FS_Subset DEF Rank
<1>5. Rank(K, i) \in Nat /\ Rank(K, j) \in Nat BY <1>2, <1>4, FS_CardinalityType DEF Rank
<1> QED BY <1>4, <1>5

LEMMA RankRange ==
  ASSUME NEW n \in Nat, NEW K \in SUBSET (1 .. n), NEW i \in K
  PROVE  Rank(K, i) \in 1 .. Cardinality(K)
<1>1. IsFiniteSet(1 .. n) BY FS_Interval
<1>2. IsFiniteSet(K) BY <1>1, FS_Subset
<1>3. Cardinality(K) \in Nat BY <1>2, FS_CardinalityType
<1>4. UpTo(K, i) \subseteq K /\ i \in UpTo(K, i) BY DEF UpTo
<1>5. IsFiniteSet(UpTo(K, i)) /\ Rank(K, i) <= Cardinality(K) BY <1>2, <1>4, FS_Subset DEF Rank
<1>6. Rank(K, i) \in Nat BY <1>5, FS_CardinalityType DEF Rank
<1>7. Rank(K, i) # 0 BY <1>4, <1>5, FS_EmptySet DEF Rank
<1> QED BY <1>3, <1>5, <1>6, <1>7

(* Each position is taken once.                                            *)
LEMMA RankOnce ==
  ASSUME NEW n \in Nat, NEW K \in SUBSET (1 .. n), NEW i \in K, NEW j \in K,
         Rank(K, i) = Rank(K, j)
  PROVE  i = j
<1>1. i < j \/ j < i \/ i = j OBVIOUS
<1>2. Rank(K, i) \in Int
  <2>1. IsFiniteSet(1 .. n) BY FS_Interval
  <2>2. Cardinality(K) \in Nat BY <2>1, FS_Subset, FS_CardinalityType
  <2>3. Rank(K, i) \in 1 .. Cardinality(K) BY RankRange
  <2> QED BY <2>2, <2>3
<1>3. ~(i < j)
  <2>1. i < j => Rank(K, i) < Rank(K, j) BY RankGrows
  <2> QED BY <1>2, <2>1
<1>4. ~(j < i)
  <2>1. j < i => Rank(K, j) < Rank(K, i) BY RankGrows
  <2> QED BY <1>2, <2>1
<1> QED BY <1>1, <1>3, <1>4

LEMMA RankFull ==
  ASSUME NEW n \in Nat, NEW K \in SUBSET (1 .. n), NEW m \in 1 .. Cardinality(K)
  PROVE  \E i \in K : Rank(K, i) = m
<1> DEFINE T == 1 .. Cardinality(K)
           f == [i \in K |-> Rank(K, i)]
<1>1. IsFiniteSet(1 .. n) BY FS_Interval
<1>2. IsFiniteSet(K) BY <1>1, FS_Subset
<1>3. Cardinality(K) \in Nat BY <1>2, FS_CardinalityType
<1>4. IsFiniteSet(T) /\ Cardinality(T) = Cardinality(K) BY <1>3, FS_Interval
<1>5. f \in [K -> T] BY RankRange
<1>6. \A i, j \in K : f[i] = f[j] => i = j BY RankOnce
<1>7. f \in Injection(K, T) BY <1>5, <1>6 DEF Injection, IsInjective
<1>8. f \in Surjection(K, T) BY <1>4, <1>7, FS_Injection
<1> QED BY <1>8 DEF Surjection

-----------------------------------------------------------------------------
(* What Without() returns: the kept members, in their order.               *)
LEMMA WithoutKeeps ==
  ASSUME NEW T, NEW q \in Seq(T), NEW S
  PROVE  \E at \in [1 .. Cardinality(Kept(q, S)) -> Kept(q, S)] :
           /\ Without(q, S) \in Seq(T)
           /\ Len(Without(q, S)) = Cardinality(Kept(q, S))
           /\ \A m \in 1 .. Cardinality(Kept(q, S)) : Without(q, S)[m] = q[at[m]]
           /\ \A m, k \in 1 .. Cardinality(Kept(q, S)) : m < k => at[m] < at[k]
           /\ \A i \in Kept(q, S) : \E m \in 1 .. Cardinality(Kept(q, S)) : at[m] = i
<1> DEFINE K == Kept(q, S)
           c == Cardinality(K)
           at == [m \in 1 .. c |-> CHOOSE i \in K : Rank(K, i) = m]
           r == Without(q, S)
<1>1. Len(q) \in Nat /\ K \in SUBSET (1 .. Len(q)) /\ DOMAIN q = 1 .. Len(q) BY DEF Kept
<1>2. c \in Nat
  <2>1. IsFiniteSet(1 .. Len(q)) BY <1>1, FS_Interval
  <2> QED BY <1>1, <2>1, FS_Subset, FS_CardinalityType
<1>3. \A m \in 1 .. c : at[m] \in K /\ Rank(K, at[m]) = m BY <1>1, RankFull
<1>4. r = [m \in 1 .. c |-> q[at[m]]] BY DEF Without, Rank
<1> HIDE DEF at, r, c, K
<1>5. at \in [1 .. c -> K] BY <1>3 DEF at
<1>6. \A m \in 1 .. c : q[at[m]] \in T
  <2>1. \A i \in K : i \in 1 .. Len(q) BY <1>1
  <2>2. \A i \in 1 .. Len(q) : q[i] \in T OBVIOUS
  <2> QED BY <1>3, <2>1, <2>2
<1>7. r \in Seq(T) /\ Len(r) = c BY <1>2, <1>4, <1>6
<1>8. \A m \in 1 .. c : r[m] = q[at[m]] BY <1>4
<1>9. ASSUME NEW m \in 1 .. c, NEW k \in 1 .. c, m < k PROVE at[m] < at[k]
  <2>1. at[m] \in K /\ at[k] \in K /\ Rank(K, at[m]) = m /\ Rank(K, at[k]) = k BY <1>3
  <2>a. \A i \in K : i \in Int BY <1>1
  <2>2. at[m] \in Int /\ at[k] \in Int BY <2>1, <2>a
  <2>3. at[m] # at[k] BY <1>2, <1>9, <2>1
  <2>4. ~(at[k] < at[m])
    <3>1. at[k] < at[m] => Rank(K, at[k]) < Rank(K, at[m]) BY <1>1, <2>1, RankGrows
    <3> QED BY <1>2, <1>9, <2>1, <3>1
  <2> QED BY <2>2, <2>3, <2>4
<1>10. ASSUME NEW i \in K PROVE \E m \in 1 .. c : at[m] = i
  <2>1. Rank(K, i) \in 1 .. c BY <1>1, RankRange DEF c
  <2>2. at[Rank(K, i)] \in K /\ Rank(K, at[Rank(K, i)]) = Rank(K, i) BY <1>3, <2>1
  <2> QED BY <1>1, <2>1, <2>2, RankOnce
<1> QED BY <1>5, <1>7, <1>8, <1>9, <1>10 DEF at, r, c, K

(* Those within the first d positions: no more than d, and d if there are  *)
(* that many.                                                              *)
LEMMA RankCut ==
  ASSUME NEW n \in Nat, NEW K \in SUBSET (1 .. n), NEW d \in Nat,
         NEW L, \A k : k \in L <=> k \in K /\ Rank(K, k) <= d
  PROVE  /\ IsFiniteSet(L)
         /\ Cardinality(L) <= d
         /\ d <= Cardinality(K) => Cardinality(L) = d
<1> DEFINE f == [k \in L |-> Rank(K, k)]
<1>1. IsFiniteSet(K) /\ Cardinality(K) \in Nat
  <2>1. IsFiniteSet(1 .. n) BY FS_Interval
  <2> QED BY <2>1, FS_Subset, FS_CardinalityType
<1>2. IsFiniteSet(1 .. d) /\ Cardinality(1 .. d) = d BY FS_Interval
<1>3. f \in [L -> 1 .. d]
  <2>1. \A k \in K : Rank(K, k) \in 1 .. Cardinality(K) BY RankRange
  <2>2. \A k \in K : Rank(K, k) <= d => Rank(K, k) \in 1 .. d BY <1>1, <2>1
  <2> QED BY <2>2
<1>4. \A i, j \in L : f[i] = f[j] => i = j BY RankOnce
<1>5. f \in Injection(L, 1 .. d) BY <1>3, <1>4 DEF Injection, IsInjective
<1>6. /\ IsFiniteSet(L)
      /\ Cardinality(L) <= d
      /\ f \in Surjection(L, 1 .. d) => Cardinality(L) = d
  <2> HIDE DEF f
  <2> QED BY <1>2, <1>5, FS_Injection
<1>7. ASSUME d <= Cardinality(K) PROVE f \in Surjection(L, 1 .. d)
  <2>1. ASSUME NEW m \in 1 .. d PROVE \E k \in L : f[k] = m
    <3>1. m \in 1 .. Cardinality(K) BY <1>1, <1>7
    <3>2. PICK k \in K : Rank(K, k) = m BY <3>1, RankFull
    <3>3. k \in L BY <3>2
    <3> QED BY <3>2, <3>3
  <2> QED BY <1>3, <2>1 DEF Surjection
<1> QED BY <1>6, <1>7

-----------------------------------------------------------------------------
(* A queue without repetitions.                                            *)
Once(q) == \A i, j \in DOMAIN q : q[i] = q[j] => i = j

(* Taking tasks out leaves the others, each once.                          *)
LEMMA WithoutMembers ==
  ASSUME NEW T, NEW q \in Seq(T), NEW S, Once(q)
  PROVE  /\ Without(q, S) \in Seq(T)
         /\ Once(Without(q, S))
         /\ Members(Without(q, S)) = Members(q) \ S
<1> DEFINE K == Kept(q, S)
           c == Cardinality(K)
           r == Without(q, S)
<1>1. PICK at \in [1 .. c -> K] :
        /\ r \in Seq(T)
        /\ Len(r) = c
        /\ \A m \in 1 .. c : r[m] = q[at[m]]
        /\ \A m, k \in 1 .. c : m < k => at[m] < at[k]
        /\ \A i \in K : \E m \in 1 .. c : at[m] = i
  BY WithoutKeeps
<1>2. DOMAIN r = 1 .. c BY <1>1
<1>3. \A i \in K : i \in DOMAIN q /\ q[i] \notin S BY DEF Kept
<1>4. DOMAIN q = 1 .. Len(q) /\ Len(q) \in Nat OBVIOUS
<1> HIDE DEF K, r, c
<1>5. ASSUME NEW m \in DOMAIN r, NEW k \in DOMAIN r, r[m] = r[k] PROVE m = k
  <2>1. m \in 1 .. c /\ k \in 1 .. c BY <1>2
  <2>2. at[m] \in DOMAIN q /\ at[k] \in DOMAIN q BY <1>3, <2>1
  <2>3. q[at[m]] = q[at[k]] BY <1>1, <1>5, <2>1
  <2>4. at[m] = at[k] BY <2>2, <2>3 DEF Once
  <2>5. at[m] \in Int BY <1>4, <2>2
  <2>6. ~(m < k) BY <1>1, <2>1, <2>4, <2>5
  <2>7. ~(k < m) BY <1>1, <2>1, <2>4, <2>5
  <2>8. m \in Int /\ k \in Int BY <2>1
  <2> QED BY <2>6, <2>7, <2>8
<1>6. Members(r) \subseteq Members(q) \ S
  <2> SUFFICES ASSUME NEW m \in DOMAIN r PROVE r[m] \in Members(q) \ S BY DEF Members
  <2>1. m \in 1 .. c BY <1>2
  <2>2. at[m] \in K /\ r[m] = q[at[m]] BY <1>1, <2>1
  <2> QED BY <1>3, <2>2 DEF Members
<1>7. Members(q) \ S \subseteq Members(r)
  <2> SUFFICES ASSUME NEW i \in DOMAIN q, q[i] \notin S PROVE q[i] \in Members(r) BY DEF Members
  <2>1. i \in K BY DEF K, Kept
  <2>2. PICK m \in 1 .. c : at[m] = i BY <1>1, <2>1
  <2>3. r[m] = q[i] /\ m \in DOMAIN r BY <1>1, <1>2, <2>2
  <2> QED BY <2>3 DEF Members
<1> QED BY <1>1, <1>5, <1>6, <1>7 DEF Once, r

-----------------------------------------------------------------------------
ClearOnes(q, a) == {k \in DOMAIN q : Clear(q, a, k)}

(* The loop of drain() lets the first clear ones through, as many as there *)
(* is capacity for.                                                        *)
Chosen(q, a) == {k \in ClearOnes(q, a) : Rank(ClearOnes(q, a), k) <= Capacity - Cardinality(a)}

LEMMA DrainTakesFirst ==
  ASSUME NEW q \in Seq(Tasks), NEW a, IsFiniteSet(a)
  PROVE  LetThrough(q, a) = {q[i] : i \in Chosen(q, a)}
<1> DEFINE K == ClearOnes(q, a)
           P(k) == {j \in 1 .. k - 1 : Clear(q, a, j)}
<1>1. DOMAIN q = 1 .. Len(q) /\ Len(q) \in Nat OBVIOUS
<1>2. Cardinality(a) \in Nat BY FS_CardinalityType
<1>3. Capacity \in Nat BY SchedulerAssumption
<1>4. ASSUME NEW k \in K
      PROVE  Cardinality(a) + Cardinality(P(k)) < Capacity
               <=> Rank(K, k) <= Capacity - Cardinality(a)
  <2>1. k \in DOMAIN q /\ Clear(q, a, k) BY DEF ClearOnes
  <2>2. k \in 1 .. Len(q) BY <1>1, <2>1
  <2>3. UpTo(K, k) = P(k) \cup {k}
    <3>1. ASSUME NEW j PROVE j \in UpTo(K, k) <=> j \in P(k) \cup {k}
      <4>1. j \in UpTo(K, k) <=> j \in 1 .. Len(q) /\ Clear(q, a, j) /\ j <= k
        BY <1>1 DEF UpTo, ClearOnes
      <4>2. j \in P(k) <=> j \in 1 .. k - 1 /\ Clear(q, a, j) OBVIOUS
      <4>3. j \in 1 .. Len(q) /\ j <= k <=> j \in 1 .. k - 1 \/ j = k BY <1>1, <2>2
      <4>4. j \in {k} <=> j = k OBVIOUS
      <4>5. j \in P(k) \cup {k} <=> j \in P(k) \/ j = k BY <4>4
      <4> HIDE DEF P, K
      <4>6. CASE j = k BY <2>1, <2>2, <4>1, <4>5, <4>6, <4>3
      <4>7. CASE j # k BY <4>1, <4>2, <4>3, <4>5, <4>7
      <4> QED BY <4>6, <4>7
    <3> QED BY <3>1
  <2>4. IsFiniteSet(P(k)) /\ k \notin P(k)
    <3>1. IsFiniteSet(1 .. k - 1) BY <2>2, FS_Interval
    <3>2. k \notin 1 .. k - 1 BY <2>2
    <3> QED BY <3>1, <3>2, FS_Subset
  <2>5. Cardinality(P(k)) \in Nat BY <2>4, FS_CardinalityType
  <2>6. Rank(K, k) = Cardinality(P(k)) + 1 BY <2>3, <2>4, FS_AddElement DEF Rank
  <2> QED BY <1>2, <1>3, <2>5, <2>6
<1> QED BY <1>4 DEF LetThrough, Chosen, ClearOnes

(* drain() never goes over the capacity, and stops below it only when no   *)
(* task is left that could start.                                          *)
LEMMA DrainFills ==
  ASSUME NEW q \in Seq(Tasks), Once(q), NEW a, IsFiniteSet(a), a \cap Members(q) = {},
         Cardinality(a) <= Capacity
  PROVE  /\ IsFiniteSet(a \cup LetThrough(q, a))
         /\ Cardinality(a \cup LetThrough(q, a)) <= Capacity
         /\ \A i \in ClearOnes(q, a) :
              q[i] \notin LetThrough(q, a) => Cardinality(a \cup LetThrough(q, a)) = Capacity
<1> DEFINE K == ClearOnes(q, a)
           L == Chosen(q, a)
           d == Capacity - Cardinality(a)
           X == LetThrough(q, a)
           f == [i \in L |-> q[i]]
<1>1. DOMAIN q = 1 .. Len(q) /\ Len(q) \in Nat OBVIOUS
<1>2. Cardinality(a) \in Nat /\ Capacity \in Nat BY FS_CardinalityType, SchedulerAssumption
<1>3. d \in Nat BY <1>2
<1>4. K \in SUBSET (1 .. Len(q)) BY <1>1 DEF ClearOnes
<1>5. \A k : k \in L <=> k \in K /\ Rank(K, k) <= d BY DEF Chosen
<1>6. /\ IsFiniteSet(L)
      /\ Cardinality(L) <= d
      /\ d <= Cardinality(K) => Cardinality(L) = d
  <2> HIDE DEF d, K, L
  <2> QED BY <1>1, <1>3, <1>4, <1>5, RankCut
<1>7. X = {q[i] : i \in L} BY DrainTakesFirst
<1>8. IsFiniteSet(X) /\ Cardinality(X) = Cardinality(L)
  <2>1. L \subseteq DOMAIN q BY DEF Chosen, ClearOnes
  <2> HIDE DEF L, X
  <2>2. f \in [L -> X] BY <1>7
  <2>3. \A i, j \in L : f[i] = f[j] => i = j BY <2>1 DEF Once
  <2>4. \A x \in X : \E i \in L : f[i] = x BY <1>7
  <2>5. f \in Bijection(L, X)
    BY <2>2, <2>3, <2>4 DEF Bijection, Injection, IsInjective, Surjection
  <2>6. ExistsBijection(L, X) BY <2>5 DEF ExistsBijection
  <2> QED BY <1>6, <2>6, FS_Bijection
<1>9. X \subseteq Members(q) BY DEF LetThrough, Members
<1>10. IsFiniteSet(a \cup X) /\ Cardinality(a \cup X) = Cardinality(a) + Cardinality(X)
  <2>1. a \cap X = {} BY <1>9
  <2>2. Cardinality(a \cap X) = 0 BY <2>1, FS_EmptySet
  <2>3. Cardinality(X) \in Nat BY <1>8, FS_CardinalityType
  <2> HIDE DEF X
  <2>4. /\ IsFiniteSet(a \cup X)
        /\ Cardinality(a \cup X) = Cardinality(a) + Cardinality(X) - Cardinality(a \cap X)
    BY <1>8, FS_Union
  <2> QED BY <1>2, <2>2, <2>3, <2>4
<1>11. Cardinality(L) \in Nat BY <1>6, FS_CardinalityType
<1>12. ASSUME NEW i \in K, q[i] \notin X PROVE d <= Cardinality(K)
  <2>1. i \notin L BY <1>7, <1>12
  <2>2. ~(Rank(K, i) <= d) BY <1>5, <2>1
  <2>3. Rank(K, i) \in 1 .. Cardinality(K) BY <1>1, <1>4, RankRange
  <2>4. Cardinality(K) \in Nat
    <3>1. IsFiniteSet(1 .. Len(q)) BY <1>1, FS_Interval
    <3> QED BY <1>4, <3>1, FS_Subset, FS_CardinalityType
  <2> HIDE DEF K, d
  <2> QED BY <1>3, <2>2, <2>3, <2>4
<1> QED
  <2>1. Cardinality(a \cup X) <= Capacity BY <1>2, <1>6, <1>8, <1>10, <1>11
  <2>2. ASSUME NEW i \in K, q[i] \notin X PROVE Cardinality(a \cup X) = Capacity
    <3>1. Cardinality(L) = d BY <1>6, <1>12, <2>2
    <3> QED BY <1>2, <1>8, <1>10, <3>1
  <2> QED BY <1>10, <2>1, <2>2

-----------------------------------------------------------------------------
(* No two of a set of tasks conflict.                                      *)
Apart(S) == \A t, u \in S : t # u => ~LeasesConflict(t, u)

(* What the scheduler needs of a queue and its holders before it drains.   *)
Undrained(q, a) ==
  /\ q \in Seq(Tasks)
  /\ Once(q)
  /\ a \in SUBSET Tasks
  /\ a \cap Members(q) = {}
  /\ Cardinality(a) <= Capacity
  /\ Apart(a)

Drained(q, a) == Undrained(q, a) /\ LetThrough(q, a) = {}

LEMMA ConflictSymmetric ==
  \A t, u \in Tasks : LeasesConflict(t, u) <=> LeasesConflict(u, t)
BY DEF LeasesConflict, SharesResource

LEMMA FiniteHolders ==
  ASSUME NEW a \in SUBSET Tasks
  PROVE  IsFiniteSet(a) /\ Cardinality(a) \in Nat
BY SchedulerAssumption, FS_Subset, FS_CardinalityType

(* Those let through conflict with no holder and not with each other.      *)
LEMMA DrainKeepsApart ==
  ASSUME NEW q, NEW a, Undrained(q, a)
  PROVE  Apart(a \cup LetThrough(q, a))
<1> DEFINE X == LetThrough(q, a)
<1>1. \A x \in X : \E k \in DOMAIN q : q[k] = x /\ Clear(q, a, k) BY DEF LetThrough
<1>2. DOMAIN q = 1 .. Len(q) /\ Len(q) \in Nat /\ \A k \in DOMAIN q : q[k] \in Tasks
  BY DEF Undrained
<1> HIDE DEF X
<1>3. ASSUME NEW t \in a, NEW u \in X
      PROVE  ~LeasesConflict(t, u) /\ ~LeasesConflict(u, t)
  <2>1. PICK k \in DOMAIN q : q[k] = u /\ Clear(q, a, k) BY <1>1, <1>3
  <2>2. ~LeasesConflict(t, u) BY <2>1 DEF Clear
  <2>3. t \in Tasks /\ u \in Tasks BY <1>2, <2>1 DEF Undrained
  <2> QED BY <2>2, <2>3, ConflictSymmetric
<1>4. ASSUME NEW t \in X, NEW u \in X, t # u PROVE ~LeasesConflict(t, u)
  <2>1. PICK i \in DOMAIN q : q[i] = t /\ Clear(q, a, i) BY <1>1
  <2>2. PICK k \in DOMAIN q : q[k] = u /\ Clear(q, a, k) BY <1>1
  <2>3. i # k BY <1>4, <2>1, <2>2
  <2>4. i \in 1 .. Len(q) /\ k \in 1 .. Len(q) BY <1>2
  <2>5. i \in 1 .. k - 1 \/ k \in 1 .. i - 1 BY <1>2, <2>3, <2>4
  <2>6. CASE i \in 1 .. k - 1 BY <2>1, <2>2, <2>6 DEF Clear
  <2>7. CASE k \in 1 .. i - 1
    <3>1. ~LeasesConflict(u, t) BY <2>1, <2>2, <2>7 DEF Clear
    <3>2. t \in Tasks /\ u \in Tasks BY <1>2, <2>1, <2>2
    <3> QED BY <3>1, <3>2, ConflictSymmetric
  <2> QED BY <2>5, <2>6, <2>7
<1>5. \A t, u \in a : t # u => ~LeasesConflict(t, u) BY DEF Undrained, Apart
<1> QED BY <1>3, <1>4, <1>5 DEF Apart, X

(* A task that is clear after the drain was clear before it: what stood in *)
(* its way still does, in the queue or as a holder.                        *)
LEMMA DrainClearsNobody ==
  ASSUME NEW q, NEW a, Undrained(q, a), NEW n \in DOMAIN Without(q, LetThrough(q, a)),
         Clear(Without(q, LetThrough(q, a)), a \cup LetThrough(q, a), n)
  PROVE  \E i \in ClearOnes(q, a) : q[i] \notin LetThrough(q, a)
<1> DEFINE X == LetThrough(q, a)
           K == Kept(q, X)
           c == Cardinality(K)
           r == Without(q, X)
<1>1. q \in Seq(Tasks) BY DEF Undrained
<1>2. PICK at \in [1 .. c -> K] :
        /\ r \in Seq(Tasks)
        /\ Len(r) = c
        /\ \A m \in 1 .. c : r[m] = q[at[m]]
        /\ \A m, k \in 1 .. c : m < k => at[m] < at[k]
        /\ \A i \in K : \E m \in 1 .. c : at[m] = i
  BY <1>1, WithoutKeeps
<1>3. DOMAIN r = 1 .. c /\ c \in Nat BY <1>2
<1>4. DOMAIN q = 1 .. Len(q) /\ Len(q) \in Nat BY <1>1
<1>5. \A i \in K : i \in DOMAIN q /\ q[i] \notin X BY DEF Kept
<1>6. n \in 1 .. c /\ Clear(r, a \cup X, n) BY <1>3
<1> HIDE DEF X, K, c, r
<1>7. at[n] \in K /\ r[n] = q[at[n]] BY <1>2, <1>6
<1>8. at[n] \in DOMAIN q /\ q[at[n]] \notin X BY <1>5, <1>7
<1>9. \A u \in a : ~LeasesConflict(u, q[at[n]]) BY <1>6, <1>7 DEF Clear
<1>10. ASSUME NEW j \in 1 .. at[n] - 1 PROVE ~LeasesConflict(q[j], q[at[n]])
  <2>1. at[n] \in 1 .. Len(q) BY <1>4, <1>8
  <2>2. j \in DOMAIN q /\ j < at[n] /\ j \in Int /\ at[n] \in Int BY <1>4, <2>1
  <2>3. CASE q[j] \in X BY <1>6, <1>7, <2>3 DEF Clear
  <2>4. CASE q[j] \notin X
    <3>1. j \in K BY <2>2, <2>4 DEF K, Kept
    <3>2. PICK m \in 1 .. c : at[m] = j BY <1>2, <3>1
    <3>3. m # n /\ ~(n < m)
      <4>1. n < m => at[n] < at[m] BY <1>2, <1>6
      <4> QED BY <2>2, <3>2, <4>1
    <3>4. m \in 1 .. n - 1 BY <1>3, <1>6, <3>2, <3>3
    <3>5. r[m] = q[j] BY <1>2, <3>2
    <3> QED BY <1>6, <1>7, <3>4, <3>5 DEF Clear
  <2> QED BY <2>3, <2>4
<1>11. at[n] \in ClearOnes(q, a) BY <1>8, <1>9, <1>10 DEF ClearOnes, Clear
<1> QED BY <1>8, <1>11 DEF X

LEMMA DrainDrains ==
  ASSUME NEW q, NEW a, Undrained(q, a)
  PROVE  Drained(Without(q, LetThrough(q, a)), a \cup LetThrough(q, a))
<1> DEFINE X == LetThrough(q, a)
           r == Without(q, X)
           b == a \cup X
<1>1. /\ q \in Seq(Tasks)
      /\ Once(q)
      /\ a \in SUBSET Tasks
      /\ a \cap Members(q) = {}
      /\ Cardinality(a) <= Capacity
  BY DEF Undrained
<1>2. IsFiniteSet(a) BY <1>1, FiniteHolders
<1>3. X \subseteq Members(q) BY DEF LetThrough, Members
<1>4. Members(q) \subseteq Tasks BY <1>1 DEF Members
<1>5. r \in Seq(Tasks) /\ Once(r) /\ Members(r) = Members(q) \ X BY <1>1, WithoutMembers
<1>6. /\ Cardinality(b) <= Capacity
      /\ \A i \in ClearOnes(q, a) : q[i] \notin X => Cardinality(b) = Capacity
  BY <1>1, <1>2, DrainFills
<1>7. Apart(b) BY DrainKeepsApart
<1>8. b \in SUBSET Tasks BY <1>1, <1>3, <1>4
<1>9. b \cap Members(r) = {} BY <1>1, <1>5
<1>10. LetThrough(r, b) = {}
  <2> SUFFICES ASSUME NEW x \in LetThrough(r, b) PROVE FALSE OBVIOUS
  <2>1. PICK n \in DOMAIN r :
          /\ Clear(r, b, n)
          /\ Cardinality(b) + Cardinality({j \in 1 .. n - 1 : Clear(r, b, j)}) < Capacity
    BY DEF LetThrough
  <2>2. Cardinality(b) = Capacity BY <1>6, <2>1, DrainClearsNobody
  <2>3. Cardinality({j \in 1 .. n - 1 : Clear(r, b, j)}) \in Nat
    <3>1. DOMAIN r = 1 .. Len(r) /\ Len(r) \in Nat BY <1>5
    <3>2. n \in Int BY <3>1
    <3>3. IsFiniteSet(1 .. n - 1) BY <3>2, FS_Interval
    <3>4. {j \in 1 .. n - 1 : Clear(r, b, j)} \in SUBSET (1 .. n - 1) OBVIOUS
    <3> QED BY <3>3, <3>4, FS_Subset, FS_CardinalityType
  <2>4. Capacity \in Nat BY SchedulerAssumption
  <2> QED BY <2>1, <2>2, <2>3, <2>4
<1> QED BY <1>5, <1>6, <1>7, <1>8, <1>9, <1>10 DEF Drained, Undrained

-----------------------------------------------------------------------------
(* The methods.  Each drains a queue and holders fit for it.               *)
LEMMA DrainFromDrains ==
  ASSUME NEW q, NEW a, Undrained(q, a), DrainFrom(q, a)
  PROVE  Drained(queue', active')
BY DrainDrains DEF DrainFrom

LEMMA AppendUndrained ==
  ASSUME NEW t \in Tasks, Drained(queue, active), ~Scheduled(t)
  PROVE  Undrained(Append(queue, t), active)
<1> DEFINE q == Append(queue, t)
<1>1. /\ queue \in Seq(Tasks)
      /\ Once(queue)
      /\ active \in SUBSET Tasks
      /\ active \cap Members(queue) = {}
      /\ Cardinality(active) <= Capacity
      /\ Apart(active)
  BY DEF Drained, Undrained
<1>2. t \notin active /\ t \notin Members(queue) BY DEF Scheduled
<1>3. /\ q \in Seq(Tasks)
      /\ DOMAIN q = 1 .. Len(queue) + 1
      /\ Len(queue) \in Nat
      /\ \A i \in 1 .. Len(queue) : q[i] = queue[i]
      /\ q[Len(queue) + 1] = t
  BY <1>1
<1>4. DOMAIN queue = 1 .. Len(queue) BY <1>1
<1>5. \A i \in 1 .. Len(queue) : queue[i] # t BY <1>2, <1>4 DEF Members
<1> HIDE DEF q
<1>6. \A i \in DOMAIN q : i \in 1 .. Len(queue) \/ i = Len(queue) + 1 BY <1>3
<1>7. Once(q)
  <2> SUFFICES ASSUME NEW i \in DOMAIN q, NEW j \in DOMAIN q, q[i] = q[j] PROVE i = j
    BY DEF Once
  <2>1. CASE i \in 1 .. Len(queue) /\ j \in 1 .. Len(queue)
    BY <1>1, <1>3, <1>4, <2>1 DEF Once
  <2>2. CASE i \in 1 .. Len(queue) /\ j = Len(queue) + 1 BY <1>3, <1>5, <2>2
  <2>3. CASE i = Len(queue) + 1 /\ j \in 1 .. Len(queue) BY <1>3, <1>5, <2>3
  <2> QED BY <1>6, <2>1, <2>2, <2>3
<1>8. Members(q) \subseteq Members(queue) \cup {t} BY <1>3, <1>4, <1>6 DEF Members
<1>9. active \cap Members(q) = {} BY <1>1, <1>2, <1>8
<1> QED BY <1>1, <1>3, <1>7, <1>9 DEF Undrained, q

LEMMA WithoutUndrained ==
  ASSUME NEW t, Drained(queue, active)
  PROVE  Undrained(Without(queue, {t}), active)
<1>1. queue \in Seq(Tasks) /\ Once(queue) BY DEF Drained, Undrained
<1>2. /\ Without(queue, {t}) \in Seq(Tasks)
      /\ Once(Without(queue, {t}))
      /\ Members(Without(queue, {t})) \subseteq Members(queue)
  BY <1>1, WithoutMembers
<1> QED BY <1>2 DEF Drained, Undrained

LEMMA ReturnUndrained ==
  ASSUME NEW t, Drained(queue, active)
  PROVE  Undrained(queue, active \ {t})
<1>1. active \in SUBSET Tasks /\ Cardinality(active) <= Capacity BY DEF Drained, Undrained
<1>2. /\ IsFiniteSet(active)
      /\ Cardinality(active) \in Nat
      /\ Cardinality(active \ {t}) \in Nat
      /\ Cardinality(active \ {t}) <= Cardinality(active)
  <2>1. IsFiniteSet(active) /\ Cardinality(active) \in Nat BY <1>1, FiniteHolders
  <2>2. Cardinality(active \ {t}) \in Nat BY <1>1, FiniteHolders
  <2>3. Cardinality(active \ {t}) <= Cardinality(active)
    <3>1. active \ {t} \in SUBSET active OBVIOUS
    <3> QED BY <2>1, <3>1, FS_Subset
  <2> QED BY <2>1, <2>2, <2>3
<1>3. Cardinality(active \ {t}) <= Capacity BY <1>1, <1>2, SchedulerAssumption
<1> QED BY <1>3 DEF Drained, Undrained, Apart

LEMMA MethodsKeepDrained ==
  ASSUME NEW t \in Tasks, Drained(queue, active)
  PROVE  /\ Enqueue(t) => Drained(queue', active')
         /\ Cancel(t) => Drained(queue', active')
         /\ Release(t) => Drained(queue', active')
         /\ StartRejected(t) => Drained(queue', active')
<1>1. Enqueue(t) => Drained(queue', active')
  BY AppendUndrained, DrainFromDrains DEF Enqueue, MayEnqueue
<1>2. Cancel(t) => Drained(queue', active') BY WithoutUndrained, DrainFromDrains DEF Cancel
<1>3. Undrained(queue, active \ {t}) BY ReturnUndrained
<1>4. DrainFrom(queue, active \ {t}) => Drained(queue', active')
  BY <1>3, DrainFromDrains
<1>5. Release(t) => Drained(queue', active') BY <1>4 DEF Release
<1>6. StartRejected(t) => Drained(queue', active') BY <1>4 DEF StartRejected
<1> QED BY <1>1, <1>2, <1>5, <1>6

-----------------------------------------------------------------------------
SchedulerInv == Drained(queue, active) /\ starting \subseteq Tasks

LEMMA SchedulerStarts == SchedulerInit => SchedulerInv
<1> SUFFICES ASSUME SchedulerInit PROVE SchedulerInv OBVIOUS
<1>1. queue = <<>> /\ active = {} /\ starting = {} BY DEF SchedulerInit
<1>2. DOMAIN queue = {} /\ queue \in Seq(Tasks) BY <1>1
<1>3. Cardinality(active) = 0 BY <1>1, FS_EmptySet
<1>4. LetThrough(queue, active) = {} BY <1>2 DEF LetThrough
<1>5. Once(queue) /\ Members(queue) = {} BY <1>2 DEF Once, Members
<1>6. 0 <= Capacity BY SchedulerAssumption
<1> QED BY <1>1, <1>2, <1>3, <1>4, <1>5, <1>6
        DEF SchedulerInv, Drained, Undrained, Apart

LEMMA SchedulerSteps == SchedulerInv /\ [SchedulerNext]_schedulerVars => SchedulerInv'
<1> SUFFICES ASSUME SchedulerInv, [SchedulerNext]_schedulerVars PROVE SchedulerInv'
  OBVIOUS
<1> USE DEF SchedulerInv
<1>1. ASSUME NEW t \in Tasks, Drained(queue', active'),
             starting' \subseteq starting \cup active'
      PROVE  SchedulerInv'
  <2>1. active' \subseteq Tasks BY <1>1 DEF Drained, Undrained
  <2>2. Drained(queue, active)' BY <1>1 DEF Drained, Undrained, Once, Members, Apart,
          LetThrough, Clear, LeasesConflict, SharesResource
  <2> QED BY <1>1, <2>1, <2>2
<1>2. ASSUME UNCHANGED <<queue, active>>, starting' \subseteq starting PROVE SchedulerInv'
  <2>1. Drained(queue', active') /\ starting' \subseteq starting \cup active' BY <1>2
  <2>2. Drained(queue, active)' BY <2>1 DEF Drained, Undrained, Once, Members, Apart,
          LetThrough, Clear, LeasesConflict, SharesResource
  <2> QED BY <1>2, <2>2
<1>3. ASSUME NEW t \in Tasks, Enqueue(t), CallStart PROVE SchedulerInv'
  BY <1>1, <1>3, MethodsKeepDrained DEF CallStart
<1>4. ASSUME NEW t \in Tasks, Cancel(t), CallStart PROVE SchedulerInv'
  BY <1>1, <1>4, MethodsKeepDrained DEF CallStart
<1>5. ASSUME NEW t \in Tasks, Release(t), CallStart PROVE SchedulerInv'
  BY <1>1, <1>5, MethodsKeepDrained DEF CallStart
<1>6. ASSUME NEW t \in Tasks, StartRejected(t),
             starting' = (starting \ {t}) \cup (active' \ active)
      PROVE  SchedulerInv'
  BY <1>1, <1>6, MethodsKeepDrained
<1>7. ASSUME NEW t \in Tasks, starting' = starting \ {t}, UNCHANGED <<queue, active>>
      PROVE  SchedulerInv'
  BY <1>2, <1>7
<1>8. CASE UNCHANGED schedulerVars BY <1>2, <1>8 DEF schedulerVars
<1> QED BY <1>3, <1>4, <1>5, <1>6, <1>7, <1>8 DEF SchedulerNext

THEOREM SchedulerCorrect == SchedulerSpec => []SchedulerInv
<1> QED BY SchedulerStarts, SchedulerSteps, PTL DEF SchedulerSpec

(* After every method each queued task is held up by the capacity, by a    *)
(* holder or by an earlier task: drain() of runtime-scheduler.ts loses no  *)
(* wake-up.                                                                *)
THEOREM WakeupsKept == SchedulerSpec => []NoLostWakeup
<1>1. SchedulerInv => NoLostWakeup BY DEF SchedulerInv, Drained, NoLostWakeup
<1> QED BY <1>1, SchedulerCorrect, PTL

-----------------------------------------------------------------------------
(* The loop of drain().  Without(q, S) holds the members of q at places    *)
(* at[1], at[2], ... of q.                                                 *)
Places(q, S, at) ==
  /\ at \in [1 .. Cardinality(Kept(q, S)) -> Kept(q, S)]
  /\ Len(Without(q, S)) = Cardinality(Kept(q, S))
  /\ \A m \in 1 .. Cardinality(Kept(q, S)) : Without(q, S)[m] = q[at[m]]
  /\ \A m, k \in 1 .. Cardinality(Kept(q, S)) : m < k => at[m] < at[k]
  /\ \A i \in Kept(q, S) : \E m \in 1 .. Cardinality(Kept(q, S)) : at[m] = i

LEMMA WithoutPlaces ==
  ASSUME NEW q \in Seq(Tasks), NEW S
  PROVE  Without(q, S) \in Seq(Tasks) /\ \E at : Places(q, S, at)
<1> DEFINE r == Without(q, S)
           K == Kept(q, S)
           c == Cardinality(K)
<1>1. PICK at \in [1 .. c -> K] :
        /\ r \in Seq(Tasks)
        /\ Len(r) = c
        /\ \A m \in 1 .. c : r[m] = q[at[m]]
        /\ \A m, k \in 1 .. c : m < k => at[m] < at[k]
        /\ \A i \in K : \E m \in 1 .. c : at[m] = i
  BY WithoutKeeps
<1>2. Places(q, S, at)
  <2> USE DEF Places
  <2> HIDE DEF r, K, c
  <2> QED BY <1>1 DEF r, K, c
<1> QED BY <1>1, <1>2

(* What at is, in a form to work with.                                     *)
LEMMA PlacesOf ==
  ASSUME NEW q \in Seq(Tasks), NEW S, NEW at, Places(q, S, at)
  PROVE  /\ DOMAIN Without(q, S) = 1 .. Len(Without(q, S))
         /\ Len(Without(q, S)) \in Nat
         /\ \A m \in DOMAIN Without(q, S) :
              /\ at[m] \in DOMAIN q
              /\ q[at[m]] \notin S
              /\ Without(q, S)[m] = q[at[m]]
         /\ \A m, k \in DOMAIN Without(q, S) : m < k <=> at[m] < at[k]
         /\ \A i \in DOMAIN q : q[i] \notin S => \E m \in DOMAIN Without(q, S) : at[m] = i
<1> DEFINE r == Without(q, S)
           K == Kept(q, S)
           c == Cardinality(K)
<1>1. r \in Seq(Tasks) BY WithoutPlaces
<1>2. DOMAIN r = 1 .. c /\ Len(r) = c /\ c \in Nat /\ DOMAIN r = 1 .. Len(r) BY <1>1 DEF Places
<1>3. \A i : i \in K <=> i \in DOMAIN q /\ q[i] \notin S BY DEF Kept
<1>4. /\ at \in [1 .. c -> K]
      /\ \A m \in 1 .. c : r[m] = q[at[m]]
      /\ \A m, k \in 1 .. c : m < k => at[m] < at[k]
      /\ \A i \in K : \E m \in 1 .. c : at[m] = i
  BY DEF Places
<1>5. DOMAIN q = 1 .. Len(q) /\ Len(q) \in Nat OBVIOUS
<1> HIDE DEF r, K, c
<1>6. \A m \in 1 .. c : at[m] \in K BY <1>4
<1>7. ASSUME NEW m \in 1 .. c, NEW k \in 1 .. c, at[m] < at[k] PROVE m < k
  <2>1. at[m] \in Int /\ at[k] \in Int BY <1>3, <1>5, <1>6
  <2>2. k < m => at[k] < at[m] BY <1>4
  <2>3. k # m BY <1>7, <2>1
  <2>4. ~(k < m) BY <1>7, <2>1, <2>2
  <2> QED BY <1>2, <2>3, <2>4
<1> QED BY <1>2, <1>3, <1>4, <1>6, <1>7 DEF r

(* Taking out one set of tasks and then another is taking out both.        *)
LEMMA WithoutTwice ==
  ASSUME NEW q \in Seq(Tasks), NEW S, NEW T
  PROVE  Without(Without(q, S), T) = Without(q, S \cup T)
<1> DEFINE r == Without(q, S)
           A == Kept(r, T)
           B == Kept(q, S \cup T)
<1>1. r \in Seq(Tasks) /\ DOMAIN r = 1 .. Len(r) /\ Len(r) \in Nat BY WithoutPlaces
<1>2. PICK at : Places(q, S, at) BY WithoutPlaces
<1>3. /\ \A m \in DOMAIN r : at[m] \in DOMAIN q /\ q[at[m]] \notin S /\ r[m] = q[at[m]]
      /\ \A m, k \in DOMAIN r : m < k <=> at[m] < at[k]
      /\ \A i \in DOMAIN q : q[i] \notin S => \E m \in DOMAIN r : at[m] = i
  BY <1>2, PlacesOf
<1>4. DOMAIN q = 1 .. Len(q) /\ Len(q) \in Nat OBVIOUS
<1>5. /\ \A m : m \in A <=> m \in DOMAIN r /\ r[m] \notin T
      /\ \A i : i \in B <=> i \in DOMAIN q /\ q[i] \notin S \cup T
  BY DEF Kept
<1>6. A \in SUBSET (1 .. Len(r)) /\ B \in SUBSET (1 .. Len(q)) BY <1>1, <1>4, <1>5
<1>a. /\ Without(r, T) = [n \in 1 .. Cardinality(A) |-> r[CHOOSE i \in A : Rank(A, i) = n]]
      /\ Without(q, S \cup T) = [n \in 1 .. Cardinality(B) |-> q[CHOOSE i \in B : Rank(B, i) = n]]
  BY DEF Without, Rank
<1> HIDE DEF r, A, B
<1>7. /\ \A m \in A : at[m] \in B
      /\ \A i \in B : \E m \in A : at[m] = i
  BY <1>3, <1>5
<1>8. \A m, k \in A : at[m] <= at[k] <=> m <= k
  <2> TAKE m, k \in A
  <2>1. m \in DOMAIN r /\ k \in DOMAIN r /\ m \in Int /\ k \in Int BY <1>1, <1>5
  <2>2. at[m] \in Int /\ at[k] \in Int BY <1>3, <1>4, <2>1
  <2>3. (m < k <=> at[m] < at[k]) /\ (k < m <=> at[k] < at[m]) BY <1>3, <2>1
  <2> QED BY <2>1, <2>2, <2>3
<1>9. \A m, k \in A : at[m] = at[k] => m = k
  <2> TAKE m, k \in A
  <2>1. at[m] = at[k] => m <= k /\ k <= m
    <3>1. at[m] \in Int BY <1>3, <1>4, <1>5
    <3> QED BY <1>8, <3>1
  <2> QED BY <1>6, <2>1
<1>10. IsFiniteSet(A) /\ IsFiniteSet(B)
  <2>1. IsFiniteSet(1 .. Len(r)) /\ IsFiniteSet(1 .. Len(q)) BY <1>1, <1>4, FS_Interval
  <2> QED BY <1>6, <2>1, FS_Subset
<1>11. ASSUME NEW C \in SUBSET A, NEW D \in SUBSET B,
              \A m \in C : at[m] \in D, \A i \in D : \E m \in C : at[m] = i
       PROVE  Cardinality(C) = Cardinality(D)
  <2> DEFINE f == [m \in C |-> at[m]]
  <2>1. f \in Bijection(C, D)
    BY <1>9, <1>11 DEF Bijection, Injection, IsInjective, Surjection
  <2>2. ExistsBijection(C, D) BY <2>1 DEF ExistsBijection
  <2>3. IsFiniteSet(C) BY <1>10, FS_Subset
  <2> QED BY <2>2, <2>3, FS_Bijection
<1>12. Cardinality(A) = Cardinality(B) BY <1>7, <1>11
<1>13. ASSUME NEW m \in A PROVE Rank(A, m) = Rank(B, at[m])
  <2>1. UpTo(A, m) \in SUBSET A /\ UpTo(B, at[m]) \in SUBSET B BY DEF UpTo
  <2>2. \A k \in UpTo(A, m) : at[k] \in UpTo(B, at[m]) BY <1>7, <1>8 DEF UpTo
  <2>3. \A i \in UpTo(B, at[m]) : \E k \in UpTo(A, m) : at[k] = i BY <1>7, <1>8 DEF UpTo
  <2> QED BY <1>11, <2>1, <2>2, <2>3 DEF Rank
<1>14. ASSUME NEW n \in 1 .. Cardinality(A)
       PROVE  r[CHOOSE i \in A : Rank(A, i) = n] = q[CHOOSE i \in B : Rank(B, i) = n]
  <2>1. PICK m \in A : m = CHOOSE i \in A : Rank(A, i) = n
    <3>1. \E i \in A : Rank(A, i) = n BY <1>1, <1>6, RankFull
    <3> QED BY <3>1
  <2>2. Rank(A, m) = n
    <3>1. \E i \in A : Rank(A, i) = n BY <1>1, <1>6, RankFull
    <3> QED BY <2>1, <3>1
  <2>3. at[m] \in B /\ Rank(B, at[m]) = n BY <1>7, <1>13, <2>2
  <2>4. \A i \in B : Rank(B, i) = n => i = at[m] BY <1>4, <1>6, <2>3, RankOnce
  <2>5. (CHOOSE i \in B : Rank(B, i) = n) = at[m] BY <2>3, <2>4
  <2>6. r[m] = q[at[m]] BY <1>3, <1>5
  <2> QED BY <2>1, <2>5, <2>6
<1> QED BY <1>a, <1>12, <1>14 DEF r

(* While the loop runs, a task of the queue is clear if and only if it was *)
(* clear before: those it let through stand where they stood, as holders.  *)
LEMMA ClearStays ==
  ASSUME NEW q \in Seq(Tasks), Once(q), NEW a \in SUBSET Tasks, NEW S,
         \A x \in S : \E i \in ClearOnes(q, a) : q[i] = x,
         NEW at, Places(q, S, at), NEW n \in DOMAIN Without(q, S)
  PROVE  Clear(Without(q, S), a \cup S, n) <=> Clear(q, a, at[n])
<1> DEFINE r == Without(q, S)
<1>1. /\ DOMAIN r = 1 .. Len(r)
      /\ Len(r) \in Nat
      /\ \A m \in DOMAIN r : at[m] \in DOMAIN q /\ q[at[m]] \notin S /\ r[m] = q[at[m]]
      /\ \A m, k \in DOMAIN r : m < k <=> at[m] < at[k]
      /\ \A i \in DOMAIN q : q[i] \notin S => \E m \in DOMAIN r : at[m] = i
  BY PlacesOf
<1>2. DOMAIN q = 1 .. Len(q) /\ Len(q) \in Nat OBVIOUS
<1>3. n \in DOMAIN r OBVIOUS
<1> HIDE DEF r
<1>4. at[n] \in DOMAIN q /\ at[n] \in Int /\ n \in Int BY <1>1, <1>2, <1>3
<1>5. ASSUME Clear(r, a \cup S, n) PROVE Clear(q, a, at[n])
  <2>1. \A u \in a \cup S : ~LeasesConflict(u, q[at[n]]) BY <1>1, <1>3, <1>5 DEF Clear
  <2>2. ASSUME NEW j \in 1 .. at[n] - 1, q[j] \notin S PROVE ~LeasesConflict(q[j], q[at[n]])
    <3>1. j \in DOMAIN q /\ j \in Int /\ j < at[n] BY <1>2, <1>4
    <3>2. PICK m \in DOMAIN r : at[m] = j BY <1>1, <2>2, <3>1
    <3>3. m < n /\ r[m] = q[j] BY <1>1, <1>3, <3>1, <3>2
    <3>4. m \in 1 .. n - 1 BY <1>1, <1>4, <3>2, <3>3
    <3> QED BY <1>1, <1>3, <1>5, <3>3, <3>4 DEF Clear
  <2> QED BY <2>1, <2>2 DEF Clear
<1>6. ASSUME Clear(q, a, at[n]) PROVE Clear(r, a \cup S, n)
  <2>1. \A u \in a : ~LeasesConflict(u, r[n]) BY <1>1, <1>3, <1>6 DEF Clear
  <2>2. ASSUME NEW u \in S PROVE ~LeasesConflict(u, r[n])
    <3>1. PICK i \in ClearOnes(q, a) : q[i] = u OBVIOUS
    <3>2. i \in DOMAIN q /\ Clear(q, a, i) BY <3>1 DEF ClearOnes
    <3>3. i # at[n] BY <1>1, <1>3, <2>2, <3>1
    <3>4. i \in 1 .. at[n] - 1 \/ at[n] \in 1 .. i - 1 BY <1>2, <1>4, <3>2, <3>3
    <3>5. CASE i \in 1 .. at[n] - 1 BY <1>1, <1>3, <1>6, <3>1, <3>5 DEF Clear
    <3>6. CASE at[n] \in 1 .. i - 1
      <4>1. ~LeasesConflict(r[n], u) BY <1>1, <1>3, <3>1, <3>2, <3>6 DEF Clear
      <4>2. r[n] \in Tasks /\ u \in Tasks BY <1>1, <1>2, <1>3, <3>1, <3>2
      <4> QED BY <4>1, <4>2, ConflictSymmetric
    <3> QED BY <3>4, <3>5, <3>6
  <2>3. ASSUME NEW j \in 1 .. n - 1 PROVE ~LeasesConflict(r[j], r[n])
    <3>1. j \in DOMAIN r /\ j < n BY <1>1, <1>3
    <3>2. at[j] \in DOMAIN q /\ at[j] < at[n] BY <1>1, <1>3, <3>1
    <3>3. at[j] \in 1 .. at[n] - 1 BY <1>2, <1>4, <3>2
    <3> QED BY <1>1, <1>3, <1>6, <3>1, <3>3 DEF Clear
  <2> QED BY <2>1, <2>2, <2>3 DEF Clear
<1> QED BY <1>5, <1>6 DEF r

-----------------------------------------------------------------------------
(* The tasks that n rounds start: the first n clear ones, if the capacity  *)
(* allows that many.                                                       *)
FirstOnes(q, a, n) ==
  {k \in ClearOnes(q, a) :
     Rank(ClearOnes(q, a), k) <= n /\ Rank(ClearOnes(q, a), k) <= Capacity - Cardinality(a)}

Started(q, a, n) == {q[k] : k \in FirstOnes(q, a, n)}

Reached(q, a, n) == [queue |-> Without(q, Started(q, a, n)), held |-> a \cup Started(q, a, n)]

LEMMA StartedCount ==
  ASSUME NEW q, NEW a, Undrained(q, a), NEW n \in Nat
  PROVE  /\ Cardinality(a \cup Started(q, a, n))
              = Cardinality(a) + Cardinality(FirstOnes(q, a, n))
         /\ Cardinality(FirstOnes(q, a, n)) \in Nat
<1> DEFINE L == FirstOnes(q, a, n)
           X == Started(q, a, n)
           f == [i \in L |-> q[i]]
<1>1. q \in Seq(Tasks) /\ Once(q) /\ a \in SUBSET Tasks /\ a \cap Members(q) = {}
  BY DEF Undrained
<1>2. DOMAIN q = 1 .. Len(q) /\ Len(q) \in Nat BY <1>1
<1>3. L \in SUBSET DOMAIN q BY DEF FirstOnes, ClearOnes
<1>4. IsFiniteSet(DOMAIN q) BY <1>2, FS_Interval
<1>5. IsFiniteSet(L) /\ Cardinality(L) \in Nat BY <1>3, <1>4, FS_Subset, FS_CardinalityType
<1>6. X = {q[i] : i \in L} BY DEF Started
<1>7. IsFiniteSet(a) /\ Cardinality(a) \in Nat BY <1>1, FiniteHolders
<1> HIDE DEF L, X
<1>8. f \in Bijection(L, X)
  <2>1. f \in [L -> X] BY <1>6
  <2>2. \A i, j \in L : f[i] = f[j] => i = j BY <1>1, <1>3 DEF Once
  <2>3. \A x \in X : \E i \in L : f[i] = x BY <1>6
  <2> QED BY <2>1, <2>2, <2>3 DEF Bijection, Injection, IsInjective, Surjection
<1>9. IsFiniteSet(X) /\ Cardinality(X) = Cardinality(L)
  <2>1. ExistsBijection(L, X) BY <1>8 DEF ExistsBijection
  <2> QED BY <1>5, <2>1, FS_Bijection
<1>10. a \cap X = {} BY <1>1, <1>3, <1>6 DEF Members
<1>11. Cardinality(a \cap X) = 0 BY <1>10, FS_EmptySet
<1>12. Cardinality(a \cup X) = Cardinality(a) + Cardinality(X) - Cardinality(a \cap X)
  BY <1>7, <1>9, FS_Union
<1> QED BY <1>5, <1>7, <1>9, <1>11, <1>12 DEF L, X

(* A round that finds a task to start it starts the next of the clear ones.*)
LEMMA RoundStarts ==
  ASSUME NEW q, NEW a, Undrained(q, a), NEW n \in Nat,
         NEW k \in ClearOnes(q, a), Rank(ClearOnes(q, a), k) = n + 1,
         n + 1 <= Capacity - Cardinality(a)
  PROVE  DrainRound(Reached(q, a, n)) = Reached(q, a, n + 1)
<1> DEFINE K == ClearOnes(q, a)
           d == Capacity - Cardinality(a)
           S == Started(q, a, n)
           r == Without(q, S)
           b == a \cup S
           fit == {m \in DOMAIN r : CanStart(r, b, m)}
<1>1. q \in Seq(Tasks) /\ Once(q) /\ a \in SUBSET Tasks BY DEF Undrained
<1>2. DOMAIN q = 1 .. Len(q) /\ Len(q) \in Nat /\ K \in SUBSET (1 .. Len(q))
  BY <1>1 DEF ClearOnes
<1>3. PICK at : Places(q, S, at) BY <1>1, WithoutPlaces
<1>4. /\ DOMAIN r = 1 .. Len(r)
      /\ Len(r) \in Nat
      /\ \A m \in DOMAIN r : at[m] \in DOMAIN q /\ q[at[m]] \notin S /\ r[m] = q[at[m]]
      /\ \A m, j \in DOMAIN r : m < j <=> at[m] < at[j]
      /\ \A i \in DOMAIN q : q[i] \notin S => \E m \in DOMAIN r : at[m] = i
  BY <1>1, <1>3, PlacesOf
<1>5. \A x \in S : \E i \in ClearOnes(q, a) : q[i] = x BY DEF Started, FirstOnes
<1>6. \A m \in DOMAIN r : Clear(r, b, m) <=> Clear(q, a, at[m])
  BY <1>1, <1>3, <1>5, ClearStays
<1>7. Cardinality(a) \in Nat /\ Capacity \in Nat /\ d \in Int
  BY <1>1, FiniteHolders, SchedulerAssumption
<1>8. \A i \in K : Rank(K, i) \in 1 .. Cardinality(K) BY <1>2, RankRange
<1>9. Cardinality(K) \in Nat
  <2>1. IsFiniteSet(1 .. Len(q)) BY <1>2, FS_Interval
  <2> QED BY <1>2, <2>1, FS_Subset, FS_CardinalityType
<1>10. \A i \in K : q[i] \in S <=> Rank(K, i) <= n
  <2> TAKE i \in K
  <2>1. q[i] \in S <=> \E j \in FirstOnes(q, a, n) : q[j] = q[i] BY DEF Started
  <2>2. \A j \in FirstOnes(q, a, n) : q[j] = q[i] => j = i
    BY <1>1, <1>2 DEF FirstOnes, ClearOnes, Once
  <2>3. q[i] \in S <=> i \in FirstOnes(q, a, n) BY <2>1, <2>2
  <2>4. Rank(K, i) <= n => Rank(K, i) <= d BY <1>7, <1>8, <1>9
  <2> QED BY <2>3, <2>4 DEF FirstOnes
<1>11. Cardinality(b) < Capacity
  <2>1. Cardinality(b) = Cardinality(a) + Cardinality(FirstOnes(q, a, n)) BY StartedCount
  <2>2. Cardinality(FirstOnes(q, a, n)) <= n
    <3>1. \A i : i \in FirstOnes(q, a, n) <=> i \in K /\ Rank(K, i) <= n
      <4>1. \A i \in K : Rank(K, i) <= n => Rank(K, i) <= d BY <1>7, <1>8, <1>9
      <4> QED BY <4>1 DEF FirstOnes
    <3> HIDE DEF K
    <3> QED BY <1>2, <3>1, RankCut
  <2>3. Cardinality(FirstOnes(q, a, n)) \in Nat BY StartedCount
  <2> QED BY <1>7, <2>1, <2>2, <2>3
<1>a. k \in K /\ Rank(K, k) = n + 1 /\ K = ClearOnes(q, a) OBVIOUS
<1>12. k \in DOMAIN q /\ Clear(q, a, k) BY DEF ClearOnes
<1>13. \A i \in DOMAIN q : Clear(q, a, i) <=> i \in K BY DEF ClearOnes
<1>b. \A m : m \in fit <=> m \in DOMAIN r /\ CanStart(r, b, m) OBVIOUS
<1>c. DrainRound(Reached(q, a, n)) =
        IF fit = {} THEN [queue |-> r, held |-> b]
        ELSE [queue |-> Without(r, {r[CHOOSE i \in fit : \A j \in fit : i <= j]}),
              held |-> b \cup {r[CHOOSE i \in fit : \A j \in fit : i <= j]}]
  BY DEF DrainRound, Reached
<1>d. Reached(q, a, n + 1)
        = [queue |-> Without(q, Started(q, a, n + 1)), held |-> a \cup Started(q, a, n + 1)]
  BY DEF Reached
<1> HIDE DEF K, d, r, b, fit
<1>14. q[k] \notin S BY <1>10, <1>a
<1>15. PICK m \in DOMAIN r : at[m] = k BY <1>4, <1>12, <1>14
<1>16. m \in fit BY <1>6, <1>11, <1>12, <1>15, <1>b DEF CanStart
<1>17. ASSUME NEW j \in fit PROVE m <= j
  <2>1. j \in DOMAIN r /\ Clear(r, b, j) BY <1>b DEF CanStart
  <2>2. at[j] \in K /\ q[at[j]] \notin S BY <1>4, <1>6, <1>13, <2>1
  <2>3. ~(Rank(K, at[j]) <= n) BY <1>10, <2>2
  <2>4. Rank(K, at[j]) \in Nat BY <1>8, <1>9, <2>2
  <2>5. ~(at[j] < k)
    <3>1. at[j] < k => Rank(K, at[j]) < Rank(K, k) BY <1>2, <1>a, <2>2, RankGrows
    <3> QED BY <1>a, <2>3, <2>4, <3>1
  <2>6. ~(j < m) BY <1>4, <1>15, <2>1, <2>5
  <2> QED BY <1>4, <2>1, <2>6
<1>18. (CHOOSE i \in fit : \A j \in fit : i <= j) = m
  <2>1. \A i \in fit : (\A j \in fit : i <= j) => i = m
    <3> TAKE i \in fit
    <3> HAVE \A j \in fit : i <= j
    <3>1. i <= m /\ m <= i BY <1>16, <1>17
    <3>2. i \in Int /\ m \in Int BY <1>4, <1>b
    <3> QED BY <3>1, <3>2
  <2> QED BY <1>16, <1>17, <2>1
<1>19. r[m] = q[k] BY <1>4, <1>15
<1>20. Started(q, a, n + 1) = S \cup {q[k]}
  <2>1. ASSUME NEW i PROVE i \in FirstOnes(q, a, n + 1) <=> i \in FirstOnes(q, a, n) \/ i = k
    <3>1. i \in FirstOnes(q, a, n + 1) <=> i \in K /\ Rank(K, i) <= n + 1 /\ Rank(K, i) <= d
      BY <1>a DEF FirstOnes, d
    <3>2. i \in FirstOnes(q, a, n) <=> i \in K /\ Rank(K, i) <= n /\ Rank(K, i) <= d
      BY <1>a DEF FirstOnes, d
    <3>3. i \in K /\ Rank(K, i) = n + 1 => i = k BY <1>2, <1>a, RankOnce
    <3>4. i \in K => Rank(K, i) \in Nat BY <1>8, <1>9
    <3>5. n + 1 <= d BY DEF d
    <3> QED BY <1>7, <1>a, <3>1, <3>2, <3>3, <3>4, <3>5
  <2> QED BY <2>1 DEF Started
<1>21. Without(r, {q[k]}) = Without(q, S \cup {q[k]}) BY <1>1, WithoutTwice DEF r
<1> QED
  <2>1. fit # {} BY <1>16
  <2>2. DrainRound(Reached(q, a, n)) = [queue |-> Without(r, {q[k]}), held |-> b \cup {q[k]}]
    BY <1>c, <1>18, <1>19, <2>1
  <2>3. b \cup {q[k]} = a \cup (S \cup {q[k]}) BY DEF b
  <2> HIDE DEF S
  <2> QED BY <1>20, <1>21, <1>d, <2>2, <2>3

(* A round after the last of them starts nobody.                           *)
LEMMA RoundStops ==
  ASSUME NEW q, NEW a, Undrained(q, a), NEW n \in Nat,
         \A k \in ClearOnes(q, a) : Rank(ClearOnes(q, a), k) = n + 1
                                      => ~(n + 1 <= Capacity - Cardinality(a))
  PROVE  /\ DrainRound(Reached(q, a, n)) = Reached(q, a, n)
         /\ Reached(q, a, n + 1) = Reached(q, a, n)
<1> DEFINE K == ClearOnes(q, a)
           d == Capacity - Cardinality(a)
           S == Started(q, a, n)
           L == FirstOnes(q, a, n)
           r == Without(q, S)
           b == a \cup S
           fit == {m \in DOMAIN r : CanStart(r, b, m)}
<1>1. q \in Seq(Tasks) /\ Once(q) /\ a \in SUBSET Tasks BY DEF Undrained
<1>2. DOMAIN q = 1 .. Len(q) /\ Len(q) \in Nat /\ K \in SUBSET (1 .. Len(q))
  BY <1>1 DEF ClearOnes
<1>3. PICK at : Places(q, S, at) BY <1>1, WithoutPlaces
<1>4. \A m \in DOMAIN r : at[m] \in DOMAIN q /\ q[at[m]] \notin S
  BY <1>1, <1>3, PlacesOf
<1>5. \A x \in S : \E i \in ClearOnes(q, a) : q[i] = x BY DEF Started, FirstOnes
<1>6. \A m \in DOMAIN r : Clear(r, b, m) <=> Clear(q, a, at[m])
  BY <1>1, <1>3, <1>5, ClearStays
<1>7. Cardinality(a) \in Nat /\ Capacity \in Nat /\ d \in Nat
  <2>1. Cardinality(a) <= Capacity BY DEF Undrained
  <2> QED BY <1>1, <2>1, FiniteHolders, SchedulerAssumption
<1>8. \A i \in K : Rank(K, i) \in 1 .. Cardinality(K) BY <1>2, RankRange
<1>9. Cardinality(K) \in Nat
  <2>1. IsFiniteSet(1 .. Len(q)) BY <1>2, FS_Interval
  <2> QED BY <1>2, <2>1, FS_Subset, FS_CardinalityType
<1>10. \A i : i \in L <=> i \in K /\ Rank(K, i) <= n /\ Rank(K, i) <= d BY DEF FirstOnes
<1>11. \A i \in DOMAIN q : Clear(q, a, i) <=> i \in K BY DEF ClearOnes
<1>12. \A k \in K : Rank(K, k) = n + 1 => ~(n + 1 <= d) OBVIOUS
<1>13. Cardinality(b) = Cardinality(a) + Cardinality(L) BY StartedCount
<1>14. \A i \in L : q[i] \in S BY DEF Started
<1>15. Reached(q, a, n) = [queue |-> r, held |-> b] BY DEF Reached
<1>16. fit = {} => DrainRound(Reached(q, a, n)) = Reached(q, a, n) BY DEF DrainRound, Reached
<1>17. ASSUME NEW m \in fit PROVE FALSE
  <2>1. m \in DOMAIN r /\ Clear(r, b, m) /\ Cardinality(b) < Capacity BY <1>17 DEF CanStart
  <2>2. at[m] \in K /\ q[at[m]] \notin S BY <1>4, <1>6, <1>11, <2>1
  <2> DEFINE k == Rank(K, at[m])
  <2>3. k \in 1 .. Cardinality(K) /\ ~(k <= n /\ k <= d)
    BY <1>8, <1>10, <1>14, <2>2
  <2> HIDE DEF K, d, S, L, r, b, fit, k
  <2>4. CASE n + 1 <= d
    <3>1. n + 1 \in 1 .. Cardinality(K) BY <1>7, <1>9, <2>3, <2>4
    <3>2. \E i \in K : Rank(K, i) = n + 1 BY <1>2, <3>1, RankFull
    <3> QED BY <1>12, <2>4, <3>2
  <2>5. CASE ~(n + 1 <= d)
    <3>1. d <= n /\ ~(k <= d) BY <1>7, <1>9, <2>3, <2>5
    <3>2. d <= Cardinality(K) BY <1>7, <1>9, <2>3, <3>1
    <3>3. \A i : i \in L <=> i \in K /\ Rank(K, i) <= d
      <4>1. \A i \in K : Rank(K, i) <= d => Rank(K, i) <= n BY <1>7, <1>8, <1>9, <3>1
      <4> QED BY <1>10, <4>1
    <3>4. Cardinality(L) = d BY <1>2, <1>7, <3>2, <3>3, RankCut
    <3>5. Cardinality(b) = Capacity BY <1>7, <1>13, <3>4 DEF d
    <3> QED BY <1>7, <2>1, <3>5
  <2> QED BY <2>4, <2>5
<1>18. FirstOnes(q, a, n + 1) = FirstOnes(q, a, n)
  <2>1. \A i : i \in FirstOnes(q, a, n + 1) <=> i \in K /\ Rank(K, i) <= n + 1 /\ Rank(K, i) <= d
    BY DEF FirstOnes
  <2> HIDE DEF K, d
  <2>2. \A i \in K : Rank(K, i) <= n + 1 /\ Rank(K, i) <= d <=> Rank(K, i) <= n /\ Rank(K, i) <= d
    BY <1>7, <1>8, <1>9, <1>12
  <2> QED BY <1>10, <2>1, <2>2
<1> QED
  <2>1. fit = {} BY <1>17
  <2>2. Reached(q, a, n + 1) = Reached(q, a, n) BY <1>18 DEF Reached, Started
  <2> QED BY <1>16, <2>1, <2>2

LEMMA RoundReaches ==
  ASSUME NEW q, NEW a, Undrained(q, a), NEW n \in Nat
  PROVE  DrainRound(Reached(q, a, n)) = Reached(q, a, n + 1)
<1>1. CASE \E k \in ClearOnes(q, a) : Rank(ClearOnes(q, a), k) = n + 1
                                        /\ n + 1 <= Capacity - Cardinality(a)
  BY <1>1, RoundStarts
<1>2. CASE \A k \in ClearOnes(q, a) : Rank(ClearOnes(q, a), k) = n + 1
                                        => ~(n + 1 <= Capacity - Cardinality(a))
  BY <1>2, RoundStops
<1> QED BY <1>1, <1>2

(* After as many rounds as the queue has tasks, all that can have started. *)
LEMMA RoundsEnd ==
  ASSUME NEW q, NEW a, Undrained(q, a)
  PROVE  /\ Reached(q, a, 0) = [queue |-> q, held |-> a]
         /\ Started(q, a, Len(q)) = LetThrough(q, a)
<1> DEFINE K == ClearOnes(q, a)
<1>1. q \in Seq(Tasks) /\ a \in SUBSET Tasks BY DEF Undrained
<1>2. DOMAIN q = 1 .. Len(q) /\ Len(q) \in Nat /\ K \in SUBSET (1 .. Len(q))
  BY <1>1 DEF ClearOnes
<1>3. IsFiniteSet(1 .. Len(q)) /\ Cardinality(1 .. Len(q)) = Len(q) BY <1>2, FS_Interval
<1>4. Cardinality(K) \in Nat /\ Cardinality(K) <= Len(q)
  BY <1>2, <1>3, FS_Subset, FS_CardinalityType
<1>5. \A i \in K : Rank(K, i) \in 1 .. Cardinality(K) BY <1>2, RankRange
<1>6. Started(q, a, Len(q)) = LetThrough(q, a)
  <2>1. LetThrough(q, a) = {q[i] : i \in Chosen(q, a)} BY <1>1, FiniteHolders, DrainTakesFirst
  <2>2. \A i \in K : Rank(K, i) <= Len(q) BY <1>2, <1>4, <1>5
  <2>3. FirstOnes(q, a, Len(q)) = Chosen(q, a) BY <2>2 DEF FirstOnes, Chosen
  <2> QED BY <2>1, <2>3 DEF Started
<1>7. Started(q, a, 0) = {}
  <2>1. \A i \in K : ~(Rank(K, i) <= 0) BY <1>4, <1>5
  <2>2. FirstOnes(q, a, 0) = {} BY <2>1 DEF FirstOnes
  <2> QED BY <2>2 DEF Started
<1>8. Without(q, {}) = q
  <2> DEFINE G(L, n) == CHOOSE i \in L : Rank(L, i) = n
             F(L) == [n \in 1 .. Cardinality(L) |-> q[G(L, n)]]
  <2>1. Kept(q, {}) = 1 .. Len(q) BY <1>2 DEF Kept
  <2>2. \A n \in 1 .. Len(q) : Rank(1 .. Len(q), n) = n
    <3> TAKE n \in 1 .. Len(q)
    <3>1. UpTo(1 .. Len(q), n) = 1 .. n BY <1>2 DEF UpTo
    <3>2. Cardinality(1 .. n) = n BY <1>2, FS_Interval
    <3> QED BY <3>1, <3>2 DEF Rank
  <2>3. \A n \in 1 .. Len(q) : G(1 .. Len(q), n) = n BY <2>2
  <2>4. Without(q, {}) = F(Kept(q, {})) BY DEF Without, Rank
  <2>5. F(Kept(q, {})) = F(1 .. Len(q))
    <3> HIDE DEF F
    <3> QED BY <2>1
  <2>6. F(1 .. Len(q)) = [n \in 1 .. Len(q) |-> q[n]]
    <3> HIDE DEF G
    <3> QED BY <1>3, <2>3
  <2>7. q = [n \in 1 .. Len(q) |-> q[n]] BY <1>1
  <2> HIDE DEF F
  <2> QED BY <2>4, <2>5, <2>6, <2>7
<1> QED BY <1>6, <1>7, <1>8 DEF Reached

(* So the loop is the closed form.  A function that takes the rounds is    *)
(* what Reached() is: there is no least number of rounds where they differ.*)
LEMMA LoopIsClosedForm ==
  ASSUME NEW q, NEW a, Undrained(q, a)
  PROVE  LoopDrains(q, a)
<1> DEFINE N == Len(q)
           s == [queue |-> q, held |-> a]
           Takes(f) == f = [n \in 0 .. N |-> IF n = 0 THEN s ELSE DrainRound(f[n - 1])]
           g == [n \in 0 .. N |-> Reached(q, a, n)]
<1>1. N \in Nat BY DEF Undrained
<1>2. Takes(g)
  <2>1. ASSUME NEW n \in 0 .. N
        PROVE  g[n] = IF n = 0 THEN s ELSE DrainRound(g[n - 1])
    <3>1. CASE n = 0 BY <1>1, <3>1, RoundsEnd
    <3>2. CASE n # 0
      <4>1. n - 1 \in Nat /\ n - 1 \in 0 .. N /\ n - 1 + 1 = n BY <1>1, <3>2
      <4>2. DrainRound(Reached(q, a, n - 1)) = Reached(q, a, n) BY <4>1, RoundReaches
      <4> QED BY <3>2, <4>1, <4>2
    <3> QED BY <3>1, <3>2
  <2> QED BY <2>1
<1>3. ASSUME NEW f, Takes(f) PROVE f[N] = g[N]
  <2> DEFINE D == {n \in 1 .. N : f[n] # g[n]}
  <2> SUFFICES ASSUME f[N] # g[N] PROVE FALSE OBVIOUS
  <2>1. f[0] = s /\ g[0] = s
    <3>1. 0 \in 0 .. N BY <1>1
    <3>2. f[0] = s BY <1>3, <3>1
    <3> HIDE DEF g
    <3>3. g[0] = s BY <1>2, <3>1
    <3> QED BY <3>2, <3>3
  <2>2. N # 0 BY <2>1
  <2>3. N \in D BY <1>1, <2>2
  <2>4. \A n \in 1 .. N : f[n] = DrainRound(f[n - 1]) /\ g[n] = DrainRound(g[n - 1])
    <3> TAKE n \in 1 .. N
    <3>1. n \in 0 .. N /\ n # 0 BY <1>1
    <3>2. f[n] = DrainRound(f[n - 1]) BY <1>3, <3>1
    <3> HIDE DEF g
    <3>3. g[n] = DrainRound(g[n - 1]) BY <1>2, <3>1
    <3> QED BY <3>2, <3>3
  <2>5. PICK n \in D : Rank(D, n) = 1
    <3>1. IsFiniteSet(1 .. N) BY <1>1, FS_Interval
    <3>2. D \in SUBSET (1 .. N) /\ IsFiniteSet(D) BY <3>1, FS_Subset
    <3>3. Cardinality(D) \in Nat /\ Cardinality(D) # 0
      <4> HIDE DEF D
      <4> QED BY <2>3, <3>2, FS_CardinalityType, FS_EmptySet
    <3>4. 1 \in 1 .. Cardinality(D) BY <3>3
    <3> HIDE DEF D
    <3> QED BY <1>1, <3>2, <3>4, RankFull
  <2>6. \A m \in D : ~(m < n)
    <3> TAKE m \in D
    <3>1. D \in SUBSET (1 .. N) OBVIOUS
    <3> HIDE DEF D
    <3>2. m < n => Rank(D, m) < Rank(D, n) BY <1>1, <3>1, RankGrows
    <3>3. Rank(D, m) \in 1 .. Cardinality(D) BY <1>1, <3>1, RankRange
    <3> QED BY <2>5, <3>2, <3>3
  <2>7. n \in 1 .. N /\ f[n] # g[n] OBVIOUS
  <2>8. f[n - 1] = g[n - 1]
    <3>1. CASE n = 1 BY <2>1, <3>1
    <3>2. CASE n # 1
      <4>1. n - 1 \in 1 .. N /\ n - 1 < n BY <1>1, <2>7, <3>2
      <4>2. n - 1 \notin D BY <2>6, <4>1
      <4> HIDE DEF g
      <4> QED BY <4>1, <4>2
    <3> QED BY <3>1, <3>2
  <2> HIDE DEF g, D
  <2> QED BY <2>4, <2>7, <2>8
<1>4. DrainLoop(q, a) = (CHOOSE f : Takes(f))[N] BY DEF DrainLoop
<1>5. Takes(CHOOSE f : Takes(f))
  <2> HIDE DEF Takes
  <2> QED BY <1>2
<1>6. DrainLoop(q, a) = g[N]
  <2> HIDE DEF Takes, g
  <2> QED BY <1>3, <1>4, <1>5
<1>7. g[N] = Reached(q, a, N) BY <1>1
<1>8. Reached(q, a, N) = [queue |-> Without(q, LetThrough(q, a)), held |-> a \cup LetThrough(q, a)]
  BY RoundsEnd DEF Reached
<1> HIDE DEF g
<1> QED BY <1>6, <1>7, <1>8 DEF LoopDrains

(* Whatever the methods of runtime-scheduler.ts call drain() with, its     *)
(* loop starts the tasks of LetThrough() and no other, and leaves the rest *)
(* in the queue in their order.                                            *)
THEOREM DrainLoopExact == SchedulerSpec => []DrainIsLoop
<1>1. ASSUME SchedulerInv PROVE DrainIsLoop
  <2>1. Drained(queue, active) BY <1>1 DEF SchedulerInv
  <2>2. \A t \in Tasks : ~Scheduled(t) => LoopDrains(Append(queue, t), active)
    BY <2>1, AppendUndrained, LoopIsClosedForm
  <2>3. \A t : LoopDrains(Without(queue, {t}), active)
    BY <2>1, WithoutUndrained, LoopIsClosedForm
  <2>4. \A t : LoopDrains(queue, active \ {t}) BY <2>1, ReturnUndrained, LoopIsClosedForm
  <2> QED BY <2>2, <2>3, <2>4 DEF DrainIsLoop
<1> QED BY <1>1, SchedulerCorrect, PTL

-----------------------------------------------------------------------------
(* A drain grants leases as the abstract specification lets it.            *)
LEMMA SameCardinality == \A S : Leases!Cardinality(S) = Cardinality(S)
BY DEF Leases!Cardinality, Cardinality

LEMMA SameQueues ==
  /\ \A q, S : Leases!Without(q, S) = Without(q, S)
  /\ \A q : Leases!Members(q) = Members(q)
<1>1. \A q, S : Leases!Kept(q, S) = Kept(q, S) BY DEF Leases!Kept, Kept
<1>2. \A K, i : Leases!UpTo(K, i) = UpTo(K, i) BY DEF Leases!UpTo, UpTo
<1>3. \A q, S : Leases!Without(q, S) = Without(q, S)
  <2> TAKE q, S
  <2> DEFINE G(K, n) == CHOOSE i \in K : Leases!Cardinality(Leases!UpTo(K, i)) = n
             H(K, n) == CHOOSE i \in K : Cardinality(UpTo(K, i)) = n
             F(K) == [n \in 1 .. Leases!Cardinality(K) |-> q[G(K, n)]]
             K1 == Kept(q, S)
  <2>1. Leases!Without(q, S) = F(Leases!Kept(q, S)) BY DEF Leases!Without
  <2>2. F(Leases!Kept(q, S)) = F(K1)
    <3> HIDE DEF F
    <3> QED BY <1>1
  <2>3. Without(q, S) = [n \in 1 .. Cardinality(K1) |-> q[H(K1, n)]] BY DEF Without
  <2>4. \A n : G(K1, n) = H(K1, n)
    <3> TAKE n
    <3>1. \A i : Leases!Cardinality(Leases!UpTo(K1, i)) = Cardinality(UpTo(K1, i))
      BY <1>2, SameCardinality
    <3> HIDE DEF K1
    <3> QED BY <3>1
  <2>5. Leases!Cardinality(K1) = Cardinality(K1) BY SameCardinality
  <2>6. F(K1) = [n \in 1 .. Cardinality(K1) |-> q[H(K1, n)]]
    <3> HIDE DEF G, H, K1
    <3> QED BY <2>4, <2>5
  <2> QED BY <2>1, <2>2, <2>3, <2>6
<1>4. \A q : Leases!Members(q) = Members(q) BY DEF Leases!Members, Members
<1> QED BY <1>3, <1>4

LEMMA DrainGrants ==
  ASSUME NEW q, NEW a, Undrained(q, a), DrainFrom(q, a)
  PROVE  Leases!Granting(q, a)
<1> DEFINE X == LetThrough(q, a)
<1>1. X \in SUBSET Leases!Members(q) BY SameQueues DEF LetThrough, Members
<1>2. Leases!Cardinality(a \cup X) <= Capacity BY SameCardinality, DrainDrains DEF Drained, Undrained
<1>3. ASSUME NEW i \in DOMAIN q, q[i] \in X
      PROVE  ~Leases!Excludes(q[i], a \cup Leases!Before(q, i))
  <2>1. PICK k \in DOMAIN q : q[k] = q[i] /\ Clear(q, a, k) BY <1>3 DEF LetThrough
  <2>2. k = i BY <2>1 DEF Undrained, Once
  <2>3. \A u \in a : ~LeasesConflict(u, q[i]) BY <2>1 DEF Clear
  <2>4. \A j \in 1 .. i - 1 : ~LeasesConflict(q[j], q[i]) BY <2>1, <2>2 DEF Clear
  <2>5. \A u \in a \cup Leases!Before(q, i) : ~LeasesConflict(u, q[i])
    BY <2>3, <2>4 DEF Leases!Before
  <2>6. ASSUME NEW u \in a \cup Leases!Before(q, i),
               <<q[i], u>> \in {p \in Tasks \X Tasks : LeasesConflict(p[1], p[2])}
        PROVE  FALSE
    <3>1. q[i] \in Tasks /\ u \in Tasks /\ LeasesConflict(q[i], u) BY <2>6
    <3>2. LeasesConflict(u, q[i]) BY <3>1, ConflictSymmetric
    <3> QED BY <2>5, <3>2
  <2> QED BY <2>6 DEF Leases!Excludes
<1>4. active' = a \cup X /\ queue' = Leases!Without(q, X) BY SameQueues DEF DrainFrom
<1> HIDE DEF X
<1>5. X # {} => Leases!Cardinality(a \cup X) <= Capacity BY <1>2
<1>6. \A i \in DOMAIN q : q[i] \in X => ~Leases!Excludes(q[i], a \cup Leases!Before(q, i))
  BY <1>3
<1> QED BY <1>1, <1>4, <1>5, <1>6, Zenon DEF Leases!Granting

LEMMA MethodsAreLeases ==
  ASSUME NEW t \in Tasks, Drained(queue, active)
  PROVE  /\ Enqueue(t) => Leases!Ask(t)
         /\ Cancel(t) => Leases!Withdraw(t)
         /\ Release(t) => Leases!Return(t)
         /\ StartRejected(t) => Leases!Return(t) \/ UNCHANGED <<queue, active>>
<1>1. ASSUME Enqueue(t) PROVE Leases!Ask(t)
  <2>1. ~Scheduled(t) /\ DrainFrom(Append(queue, t), active)
    BY <1>1 DEF Enqueue, MayEnqueue
  <2>2. Leases!Granting(Append(queue, t), active) BY <2>1, AppendUndrained, DrainGrants
  <2> QED BY <2>1, <2>2, SameQueues DEF Scheduled, Leases!Ask
<1>2. ASSUME Cancel(t) PROVE Leases!Withdraw(t)
  <2>1. Leases!Granting(Without(queue, {t}), active)
    BY <1>2, WithoutUndrained, DrainGrants DEF Cancel
  <2> QED BY <1>2, <2>1, SameQueues DEF Cancel, Leases!Withdraw
<1>3. ASSUME t \in active, DrainFrom(queue, active \ {t}) PROVE Leases!Return(t)
  <2>1. Leases!Granting(queue, active \ {t}) BY <1>3, ReturnUndrained, DrainGrants
  <2> QED BY <1>3, <2>1 DEF Leases!Return
<1>4. Release(t) => Leases!Return(t) BY <1>3 DEF Release
<1>5. StartRejected(t) => Leases!Return(t) \/ UNCHANGED <<queue, active>>
  BY <1>3 DEF StartRejected
<1> QED BY <1>1, <1>2, <1>4, <1>5

(* runtime-scheduler.ts implements the leases of WorkspaceLeases: those    *)
(* that conflict are never held together, no more than the capacity are    *)
(* held, and a task is never overtaken by a later one it conflicts with.   *)
THEOREM SchedulerImplementsLeases == SchedulerSpec => ImplementsLeases
<1>1. SchedulerInit => Leases!Init BY DEF SchedulerInit, Leases!Init
<1>2. SchedulerInv /\ [SchedulerNext]_schedulerVars => [Leases!Next]_<<queue, active>>
  <2> SUFFICES ASSUME SchedulerInv, [SchedulerNext]_schedulerVars
               PROVE  Leases!Next \/ UNCHANGED <<queue, active>>
    OBVIOUS
  <2>1. ASSUME NEW t \in Tasks,
               Enqueue(t) \/ Cancel(t) \/ Release(t) \/ StartRejected(t)
        PROVE  Leases!Next \/ UNCHANGED <<queue, active>>
    <3>1. Leases!Ask(t) \/ Leases!Withdraw(t) \/ Leases!Return(t) \/ UNCHANGED <<queue, active>>
      BY <2>1, MethodsAreLeases DEF SchedulerInv
    <3> QED BY <3>1 DEF Leases!Next
  <2>2. CASE UNCHANGED schedulerVars BY <2>2 DEF schedulerVars
  <2> QED BY <2>1, <2>2 DEF SchedulerNext
<1> QED BY <1>1, <1>2, SchedulerCorrect, PTL DEF SchedulerSpec, ImplementsLeases, Leases!Spec

(* Two holders never have conflicting leases, and there are never more     *)
(* holders than the capacity: what WorkspaceLeases calls exclusive.        *)
THEOREM HoldersExclusive == SchedulerSpec => []Leases!Exclusive
<1>1. SchedulerInv => Leases!Exclusive
  BY SameCardinality DEF SchedulerInv, Drained, Undrained, Apart, Leases!Exclusive
<1> QED BY <1>1, SchedulerCorrect, PTL
=============================================================================
