-------------------------- MODULE InductionLemmas --------------------------
(***************************************************************************)
(* Induction over the numbers, and what the proofs need of least and         *)
(* greatest elements and of counting.                                       *)
(***************************************************************************)
EXTENDS Integers, FiniteSetsExt, FiniteSetTheorems, WellFoundedInduction, TLAPS

(* Induction over the numbers, for a set: what is in it is what a proof is    *)
(* about, so no operator has to be instantiated.                            *)
LEMMA SetInduction ==
    ASSUME NEW T, 0 \in T, \A k \in Nat : k \in T => k + 1 \in T
    PROVE  Nat \subseteq T
<1> DEFINE Out == Nat \ T
<1>1. SUFFICES ASSUME Out # {} PROVE FALSE
  OBVIOUS
<1>2. PICK m \in Out : \A y \in Out : ~(<<y, m>> \in OpToRel(<, Nat))
  BY <1>1, NatLessThanWellFounded, WFMin
<1>3. \A y \in Out : ~(y < m)
  BY <1>2 DEF OpToRel
<1>4. m # 0 /\ m - 1 \in Nat
  OBVIOUS
<1>5. m - 1 \in T
  BY <1>3, <1>4
<1> QED
  BY <1>4, <1>5

(* A set of numbers up to n has its largest one.                            *)
LEMMA MaxExists ==
    ASSUME NEW n \in Nat, NEW s \in SUBSET (1..n), s # {}
    PROVE  Max(s) \in s /\ \A i \in s : i <= Max(s)
<1> DEFINE T == {k \in Nat : (\E y \in s : y <= k)
                              => \E x \in s : x <= k /\ \A y \in s : y <= k => x >= y}
<1>1. 0 \in T
  OBVIOUS
<1>2. ASSUME NEW k \in Nat, k \in T
      PROVE  k + 1 \in T
  BY <1>2
<1> HIDE DEF T
<1>3. n \in T
  BY <1>1, <1>2, SetInduction
<1>4. \E x \in s : \A y \in s : x >= y
  <2>1. \A y \in s : y \in Int /\ y <= n
    OBVIOUS
  <2> QED
    BY <1>3, <2>1 DEF T
<1>5. Max(s) \in s /\ \A y \in s : Max(s) >= y
  BY <1>4, Zenon DEF Max
<1> QED
  BY <1>5

(* A set of natural numbers has its least one.                              *)
LEMMA MinIs ==
    ASSUME NEW s \in SUBSET Nat, s # {}
    PROVE  Min(s) \in s /\ \A i \in s : Min(s) <= i
<1> DEFINE T == {k \in Nat : (\E y \in s : y <= k) => \E x \in s : \A y \in s : x <= y}
<1>1. 0 \in T
  OBVIOUS
<1>2. ASSUME NEW k \in Nat, k \in T
      PROVE  k + 1 \in T
  <2>1. CASE \E y \in s : y <= k
    BY <1>2, <2>1
  <2>2. CASE \A y \in s : y > k
    <3>1. \A y \in s : y \in Nat /\ y >= k + 1
      BY <2>2
    <3>2. ASSUME NEW y \in s, y <= k + 1
          PROVE  \A z \in s : y <= z
      BY <3>1, <3>2
    <3> QED
      BY <3>2
  <2> QED
    BY <2>1, <2>2
<1> HIDE DEF T
<1>3. Nat \subseteq T
  BY <1>1, <1>2, SetInduction
<1>4. \E x \in s : \A y \in s : x <= y
  <2>1. PICK y \in s : y \in Nat
    OBVIOUS
  <2>2. y \in T /\ y <= y
    BY <1>3, <2>1
  <2> QED
    BY <2>1, <2>2 DEF T
<1> QED
  BY <1>4, Zenon DEF Min

(* And a set with a bound its greatest.                                     *)
LEMMA MaxIs ==
    ASSUME NEW n \in Nat, NEW s \in SUBSET (-1..n), s # {}
    PROVE  Max(s) \in s /\ \A i \in s : i <= Max(s)
<1> DEFINE gap == {n - y : y \in s}
<1>1. gap \in SUBSET Nat /\ gap # {}
  <2>1. \A y \in s : n - y \in Nat
    OBVIOUS
  <2> QED
    BY <2>1
<1>2. PICK g \in gap : \A h \in gap : g <= h
  BY <1>1, MinIs
<1>3. PICK x \in s : g = n - x
  BY <1>2
<1>4. \A y \in s : x >= y
  BY <1>2, <1>3
<1> QED
  BY <1>4, Zenon DEF Max

-----------------------------------------------------------------------------
(* FUNCTIONS GIVEN BY AN EQUATION ON THEMSELVES.                            *)

(* f goes up from 0, each value from the one before.                        *)
Ascends(f, n, base, G) ==
    \A i \in 0..n : f[i] = IF i = 0 THEN base ELSE G[<<f[i - 1], i>>]

LEMMA RecursionExists ==
    ASSUME NEW n \in Nat, NEW V, NEW base \in V, NEW G \in [V \X (1..n) -> V]
    PROVE  \E f \in [0..n -> V] : Ascends(f, n, base, G)
<1> DEFINE P(k) == \E f \in [0..k -> V] :
                      \A i \in 0..k : f[i] = IF i = 0 THEN base ELSE G[<<f[i - 1], i>>]
           T == {k \in Nat : k <= n => P(k)}
<1>1. P(0)
  <2> DEFINE f == [i \in 0..0 |-> base]
  <2>1. f \in [0..0 -> V] /\ \A i \in 0..0 : i = 0 /\ f[i] = base
    OBVIOUS
  <2> HIDE DEF f
  <2> QED
    BY <2>1
<1>2. ASSUME NEW k \in Nat, k + 1 <= n, P(k)
      PROVE  P(k + 1)
  <2>1. PICK old \in [0..k -> V] :
           \A i \in 0..k : old[i] = IF i = 0 THEN base ELSE G[<<old[i - 1], i>>]
    BY <1>2
  <2> DEFINE f == [i \in 0..(k + 1) |-> IF i = k + 1 THEN G[<<old[k], k + 1>>] ELSE old[i]]
  <2>2. k \in 0..k /\ k + 1 \in 1..n
    BY <1>2
  <2>3. G[<<old[k], k + 1>>] \in V
    BY <2>1, <2>2
  <2>4. f \in [0..(k + 1) -> V] /\ \A i \in 0..k : f[i] = old[i]
    BY <2>1, <2>3
  <2>5. f[k + 1] = G[<<old[k], k + 1>>]
    OBVIOUS
  <2> HIDE DEF f
  <2>6. ASSUME NEW i \in 0..(k + 1)
        PROVE  f[i] = IF i = 0 THEN base ELSE G[<<f[i - 1], i>>]
    <3>1. CASE i = k + 1
      <4>1. i # 0 /\ i - 1 = k /\ f[k] = old[k]
        BY <2>2, <2>4, <3>1
      <4> QED
        BY <2>5, <3>1, <4>1
    <3>2. CASE i # k + 1
      <4>1. i \in 0..k /\ (i # 0 => i - 1 \in 0..k)
        BY <3>2
      <4> QED
        BY <2>1, <2>4, <4>1
    <3> QED
      BY <3>1, <3>2
  <2> QED
    BY <2>4, <2>6
<1> HIDE DEF P
<1>3. n \in T
  <2>1. 0 \in T
    BY <1>1
  <2>2. ASSUME NEW k \in Nat, k \in T
        PROVE  k + 1 \in T
    BY <1>2, <2>2
  <2> HIDE DEF T
  <2> QED
    BY <2>1, <2>2, SetInduction
<1> QED
  BY <1>3 DEF P, Ascends

(* f comes down: where it does not stop, from its value at a later place.   *)
Descends(f, S, Stop, base, next, G) ==
    \A i \in S : f[i] = IF i \in Stop THEN base[i] ELSE G[<<i, f[next[i]]>>]

LEMMA DescentExists ==
    ASSUME NEW n \in Nat, NEW S \in SUBSET (0..n), NEW V, NEW Stop \in SUBSET S,
           NEW base \in [Stop -> V], NEW next \in [S \ Stop -> S],
           \A i \in S \ Stop : next[i] > i,
           NEW G \in [(S \ Stop) \X V -> V]
    PROVE  \E f \in [S -> V] : Descends(f, S, Stop, base, next, G)
<1> DEFINE Top(k) == {i \in S : i + k >= n + 1}
           P(k) == \E f \in [Top(k) -> V] :
                      \A i \in Top(k) : f[i] = IF i \in Stop THEN base[i] ELSE G[<<i, f[next[i]]>>]
           T == {k \in Nat : P(k)}
<1>0. /\ \A i \in S : i \in Int /\ 0 <= i /\ i <= n
      /\ \A i \in S : i \notin Stop => next[i] \in S /\ next[i] > i
  <2>1. \A i \in S : i \in 0..n
    OBVIOUS
  <2> QED
    BY <2>1
<1>1. P(0)
  <2>1. ASSUME NEW i \in Top(0) PROVE FALSE
    BY <1>0
  <2>2. Top(0) = {}
    BY <2>1
  <2> DEFINE f == [i \in {} |-> i]
  <2>3. f \in [{} -> V]
    OBVIOUS
  <2> HIDE DEF f, Top
  <2> QED
    BY <2>2, <2>3
<1>2. ASSUME NEW k \in Nat, P(k)
      PROVE  P(k + 1)
  <2>1. PICK old \in [Top(k) -> V] :
           \A i \in Top(k) : old[i] = IF i \in Stop THEN base[i] ELSE G[<<i, old[next[i]]>>]
    BY <1>2
  <2> DEFINE f == [i \in Top(k + 1) |->
                     IF i \in Stop THEN base[i] ELSE G[<<i, old[next[i]]>>]]
  <2>2. ASSUME NEW i \in Top(k + 1), i \notin Stop
        PROVE  next[i] \in Top(k)
    <3>1. i \in S /\ i + (k + 1) >= n + 1
      OBVIOUS
    <3>2. next[i] \in S /\ next[i] > i /\ next[i] \in Int /\ i \in Int
      BY <1>0, <2>2, <3>1
    <3> QED
      BY <3>1, <3>2
  <2>3. \A i \in Top(k + 1) : i \in S
    OBVIOUS
  <2>4. ASSUME NEW i \in Top(k)
        PROVE  i \in Top(k + 1)
    BY <1>0
  <2>5. f = [i \in Top(k + 1) |-> IF i \in Stop THEN base[i] ELSE G[<<i, old[next[i]]>>]]
    OBVIOUS
  <2> HIDE DEF Top, f
  <2>6. ASSUME NEW i \in Top(k + 1)
        PROVE  (IF i \in Stop THEN base[i] ELSE G[<<i, old[next[i]]>>]) \in V
    BY <2>1, <2>2, <2>3
  <2>7. f \in [Top(k + 1) -> V]
    BY <2>5, <2>6
  <2>8. ASSUME NEW i \in Top(k)
        PROVE  f[i] = old[i]
    BY <2>1, <2>4, <2>5
  <2>9. ASSUME NEW i \in Top(k + 1)
        PROVE  f[i] = IF i \in Stop THEN base[i] ELSE G[<<i, f[next[i]]>>]
    BY <2>2, <2>5, <2>8
  <2> QED
    BY <2>7, <2>9
<1> HIDE DEF P
<1>3. n + 1 \in T
  <2>1. 0 \in T
    BY <1>1
  <2>2. ASSUME NEW k \in Nat, k \in T
        PROVE  k + 1 \in T
    BY <1>2, <2>2
  <2> HIDE DEF T
  <2> QED
    BY <2>1, <2>2, SetInduction
<1>4. Top(n + 1) = S
  <2>1. ASSUME NEW i \in S PROVE i \in Top(n + 1)
    BY <1>0
  <2> HIDE DEF T
  <2> QED
    BY <2>1
<1>5. P(n + 1)
  BY <1>3
<1> HIDE DEF Top, T
<1> QED
  BY <1>4, <1>5 DEF P, Descends

-----------------------------------------------------------------------------
(* COUNTING.                                                                *)

(* How many of A come up to i, and the k-th of A.                           *)
UpTo(A, i) == {j \in A : j <= i}
Rank(A, i) == Cardinality(UpTo(A, i))
Nth(A, k)  == CHOOSE i \in A : Rank(A, i) = k

LEMMA CountingIs ==
    ASSUME NEW n \in Nat, NEW A \in SUBSET (1..n)
    PROVE  /\ IsFiniteSet(A) /\ Cardinality(A) \in Nat
           /\ \A i \in A : i \in Int
           /\ \A i : IsFiniteSet(UpTo(A, i)) /\ Rank(A, i) \in Nat /\ Rank(A, i) <= Cardinality(A)
<1>1. IsFiniteSet(1..n)
  BY FS_Interval
<1>2. IsFiniteSet(A) /\ Cardinality(A) \in Nat
  BY <1>1, FS_Subset, FS_CardinalityType
<1>3. ASSUME NEW i
      PROVE  IsFiniteSet(UpTo(A, i)) /\ Rank(A, i) \in Nat /\ Rank(A, i) <= Cardinality(A)
  <2>1. UpTo(A, i) \in SUBSET A
    BY DEF UpTo
  <2> QED
    BY <1>2, <2>1, FS_Subset, FS_CardinalityType DEF Rank
<1> QED
  BY <1>2, <1>3

LEMMA RankGrows ==
    ASSUME NEW n \in Nat, NEW A \in SUBSET (1..n), NEW i \in A, NEW j \in A, i < j
    PROVE  Rank(A, i) < Rank(A, j)
<1>1. i \in Int /\ j \in Int /\ \A a \in A : a \in Int
  OBVIOUS
<1>2. UpTo(A, i) \in SUBSET UpTo(A, j) /\ j \in UpTo(A, j) /\ j \notin UpTo(A, i)
  <2>1. \A a \in UpTo(A, i) : a \in UpTo(A, j)
    BY <1>1 DEF UpTo
  <2>2. j \in UpTo(A, j) /\ j \notin UpTo(A, i)
    BY <1>1 DEF UpTo
  <2> QED
    BY <2>1, <2>2
<1>3. IsFiniteSet(UpTo(A, j)) /\ Rank(A, i) \in Nat /\ Rank(A, j) \in Nat
  BY CountingIs, Zenon
<1> QED
  BY <1>2, <1>3, FS_Subset DEF Rank

(* The ranks are the numbers from 1 to the size of A.                       *)
LEMMA RankIn ==
    ASSUME NEW n \in Nat, NEW A \in SUBSET (1..n), NEW i \in A
    PROVE  Rank(A, i) \in 1..Cardinality(A)
<1>1. i \in UpTo(A, i)
  <2>1. i \in Int
    OBVIOUS
  <2> QED
    BY <2>1 DEF UpTo
<1>2. /\ IsFiniteSet(UpTo(A, i)) /\ Cardinality(A) \in Nat
      /\ Rank(A, i) \in Nat /\ Rank(A, i) <= Cardinality(A)
  BY CountingIs, Zenon
<1>3. Rank(A, i) # 0
  BY <1>1, <1>2, FS_EmptySet, Zenon DEF Rank
<1> QED
  BY <1>2, <1>3

LEMMA NthIs ==
    ASSUME NEW n \in Nat, NEW A \in SUBSET (1..n)
    PROVE  /\ \A k \in 1..Cardinality(A) : Nth(A, k) \in A /\ Rank(A, Nth(A, k)) = k
           /\ \A i \in A : Nth(A, Rank(A, i)) = i
<1> DEFINE T == 1..Cardinality(A)
<1>1. \A i, j \in A : i # j => Rank(A, i) # Rank(A, j)
  <2> SUFFICES ASSUME NEW i \in A, NEW j \in A, i # j
               PROVE  Rank(A, i) # Rank(A, j)
    OBVIOUS
  <2>1. i < j \/ j < i
    OBVIOUS
  <2>2. Rank(A, i) < Rank(A, j) \/ Rank(A, j) < Rank(A, i)
    BY <2>1, RankGrows, Zenon
  <2>3. Rank(A, i) \in Nat /\ Rank(A, j) \in Nat
    BY CountingIs, Zenon
  <2> QED
    BY <2>2, <2>3
<1>0. PICK f \in [A -> T] : \A i \in A : f[i] = Rank(A, i)
  <2>1. \A i \in A : Rank(A, i) \in T
    BY RankIn, Zenon
  <2> HIDE DEF T
  <2>2. [i \in A |-> Rank(A, i)] \in [A -> T]
    BY <2>1
  <2> QED
    BY <2>2
<1>2. f \in Injection(A, T)
  <2> HIDE DEF T
  <2>1. DOMAIN f = A
    OBVIOUS
  <2>2. \A i, j \in A : f[i] = f[j] => i = j
    BY <1>0, <1>1, Zenon
  <2> QED
    BY <2>1, <2>2, Zenon DEF Injection, IsInjective
<1>3. IsFiniteSet(T) /\ Cardinality(T) = Cardinality(A)
  <2>1. Cardinality(A) \in Nat
    BY CountingIs, Zenon
  <2> QED
    BY <2>1, FS_Interval
<1>4. f \in Surjection(A, T)
  <2> HIDE DEF T
  <2> QED
    BY <1>2, <1>3, FS_Injection
<1>5. \A k \in T : \E i \in A : Rank(A, i) = k
  <2> HIDE DEF T
  <2>1. \A k \in T : \E i \in A : f[i] = k
    BY <1>4 DEF Surjection
  <2> QED
    BY <1>0, <2>1
<1>6. \A k \in T : Nth(A, k) \in A /\ Rank(A, Nth(A, k)) = k
  BY <1>5, Zenon DEF Nth
<1>7. ASSUME NEW i \in A
      PROVE  Nth(A, Rank(A, i)) = i
  <2>1. Rank(A, i) \in T
    BY RankIn
  <2> HIDE DEF T
  <2> QED
    BY <1>1, <1>6, <2>1
<1> QED
  BY <1>6, <1>7

(* Without its largest element the others keep their ranks.                 *)
LEMMA RankWithoutTop ==
    ASSUME NEW n \in Nat, NEW A \in SUBSET (1..n), NEW m \in A, \A i \in A : i <= m
    PROVE  /\ Rank(A, m) = Cardinality(A)
           /\ Cardinality(A \ {m}) = Cardinality(A) - 1
           /\ \A i \in A \ {m} : Rank(A \ {m}, i) = Rank(A, i)
<1>1. UpTo(A, m) = A
  BY DEF UpTo
<1>2. \A i \in A \ {m} : UpTo(A \ {m}, i) = UpTo(A, i)
  BY DEF UpTo
<1>3. Cardinality(A \ {m}) = Cardinality(A) - 1
  BY CountingIs, FS_RemoveElement
<1> QED
  BY <1>1, <1>2, <1>3 DEF Rank

(* Without some element, those above it come one earlier.                   *)
LEMMA RankWithout ==
    ASSUME NEW n \in Nat, NEW A \in SUBSET (1..n), NEW m \in A
    PROVE  /\ Cardinality(A \ {m}) = Cardinality(A) - 1
           /\ \A i \in A \ {m} : Rank(A \ {m}, i) = IF i < m THEN Rank(A, i) ELSE Rank(A, i) - 1
<1>1. \A i \in A : i \in Int
  OBVIOUS
<1>2. ASSUME NEW i \in A \ {m}
      PROVE  Rank(A \ {m}, i) = IF i < m THEN Rank(A, i) ELSE Rank(A, i) - 1
  <2>1. CASE i < m
    <3>1. UpTo(A \ {m}, i) = UpTo(A, i)
      BY <1>1, <2>1 DEF UpTo
    <3> QED
      BY <2>1, <3>1 DEF Rank
  <2>2. CASE ~(i < m)
    <3>1. UpTo(A \ {m}, i) = UpTo(A, i) \ {m} /\ m \in UpTo(A, i)
      BY <1>1, <2>2 DEF UpTo
    <3>2. IsFiniteSet(UpTo(A, i))
      BY CountingIs
    <3> QED
      BY <2>2, <3>1, <3>2, FS_RemoveElement DEF Rank
  <2> QED
    BY <2>1, <2>2
<1>3. Cardinality(A \ {m}) = Cardinality(A) - 1
  BY CountingIs, FS_RemoveElement
<1> QED
  BY <1>2, <1>3

(* Where nothing is missing below it, the rank of a number is the number.    *)
LEMMA RankOfFull ==
    ASSUME NEW n \in Nat, NEW A \in SUBSET (1..n), NEW m \in 0..n, 1..m \subseteq A, NEW i \in 1..m
    PROVE  Rank(A, i) = i
<1>1. UpTo(A, i) = 1..i
  <2>1. \A a \in 1..i : a \in A
    OBVIOUS
  <2>2. \A a \in 1..i : a \in UpTo(A, i)
    BY <2>1 DEF UpTo
  <2>3. \A a \in UpTo(A, i) : a \in 1..i
    BY DEF UpTo
  <2> QED
    BY <2>2, <2>3
<1> QED
  BY <1>1, FS_Interval DEF Rank

(* A set moved up keeps its ranks.                                          *)
LEMMA RankMoved ==
    ASSUME NEW n \in Nat, NEW A \in SUBSET (1..n), NEW h \in [A -> 1..(n + 1)],
           \A i, j \in A : i < j => h[i] < h[j]
    PROVE  LET B == {h[i] : i \in A} IN
           /\ B \in SUBSET (1..(n + 1)) /\ Cardinality(B) = Cardinality(A)
           /\ \A i \in A : Rank(B, h[i]) = Rank(A, i)
<1> DEFINE B == {h[i] : i \in A}
<1>1. B \in SUBSET (1..(n + 1))
  OBVIOUS
<1>2. \A i, j \in A : (i <= j <=> h[i] <= h[j]) /\ (h[i] = h[j] => i = j)
  <2> SUFFICES ASSUME NEW i \in A, NEW j \in A
               PROVE  (i <= j <=> h[i] <= h[j]) /\ (h[i] = h[j] => i = j)
    OBVIOUS
  <2>1. i \in Int /\ j \in Int /\ h[i] \in Int /\ h[j] \in Int
    OBVIOUS
  <2> QED
    BY <2>1
<1>3. ASSUME NEW S \in SUBSET A
      PROVE  Cardinality({h[i] : i \in S}) = Cardinality(S)
  <2> DEFINE g == [i \in S |-> h[i]]
             T == {h[i] : i \in S}
  <2>1. g \in [S -> T] /\ (\A i \in S : g[i] = h[i]) /\ \A t \in T : \E i \in S : g[i] = t
    OBVIOUS
  <2>5. g \in Bijection(S, T)
    <3>1. \A i, j \in S : h[i] = h[j] => i = j
      BY <1>2
    <3> HIDE DEF g, T
    <3>2. \A i, j \in S : g[i] = g[j] => i = j
      BY <2>1, <3>1, Zenon
    <3>3. DOMAIN g = S
      BY <2>1
    <3> QED
      BY <2>1, <3>2, <3>3, Zenon DEF Bijection, Injection, Surjection, IsInjective
  <2>2. IsFiniteSet(S)
    BY CountingIs, FS_Subset
  <2>3. ExistsBijection(S, T)
    BY <2>5, Zenon DEF ExistsBijection
  <2> HIDE DEF T
  <2>4. Cardinality(T) = Cardinality(S)
    BY <2>2, <2>3, FS_Bijection
  <2> QED
    BY <2>4 DEF T
<1>4. Cardinality(B) = Cardinality(A)
  BY <1>3
<1>5. ASSUME NEW i \in A
      PROVE  Rank(B, h[i]) = Rank(A, i)
  <2>1. UpTo(B, h[i]) = {h[j] : j \in UpTo(A, i)}
    BY <1>2 DEF UpTo
  <2>2. UpTo(A, i) \in SUBSET A
    BY DEF UpTo
  <2> QED
    BY <1>3, <2>1, <2>2 DEF Rank
<1> QED
  BY <1>1, <1>4, <1>5
=============================================================================
