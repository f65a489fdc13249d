--------------------------- MODULE SectionsProofs ---------------------------
(***************************************************************************)
(* The section tree of a markdown document, the addresses in it, and what    *)
(* the edits of its sections do to blocks and anchors, for documents of any  *)
(* length and shape.                                                        *)
(***************************************************************************)
EXTENDS DocEdits, SequenceTheorems, InductionLemmas

-----------------------------------------------------------------------------
(* THE TREE.                                                                *)

LEMMA BlockIs ==
    ASSUME NEW d \in Seq(Block)
    PROVE  /\ Len(d) \in Nat /\ DOMAIN d = 1..Len(d)
           /\ \A i \in 1..Len(d) : d[i] \in Block /\ d[i].level \in 0..6
           /\ HeadsIn(d) = {i \in 1..Len(d) : d[i].level > 0}
           /\ HeadsIn(d) \in SUBSET (1..Len(d))
           /\ \A i \in HeadsIn(d) : i \in 1..Len(d) /\ d[i].level \in Int
<1>1. Len(d) \in Nat /\ DOMAIN d = 1..Len(d) /\ \A i \in 1..Len(d) : d[i] \in Block
  OBVIOUS
<1>2. \A b \in Block : b.level \in 0..6
  BY DEF Block
<1>3. HeadsIn(d) = {i \in 1..Len(d) : d[i].level > 0}
  BY <1>1 DEF HeadsIn
<1> QED
  BY <1>1, <1>2, <1>3

(* A stack of open sections after block i: deeper and deeper headings, and   *)
(* of every heading so far it holds that one or a later, not deeper one.     *)
StackOf(d, i, s) ==
    /\ s \in Seq(HeadsIn(d))
    /\ \A k \in DOMAIN s : s[k] <= i
    /\ \A k, m \in DOMAIN s : k < m => s[k] < s[m] /\ d[s[k]].level < d[s[m]].level
    /\ \A j \in HeadsIn(d) : j <= i => \E k \in DOMAIN s : s[k] >= j /\ d[s[k]].level <= d[j].level

(* Popping leaves a part from the bottom, with the smaller levels.           *)
LEMMA PoppedIs ==
    ASSUME NEW d \in Seq(Block), NEW s \in Seq(HeadsIn(d)), NEW l \in Int
    PROVE  \E k \in 0..Len(s) :
              /\ Popped(d, s, l) = SubSeq(s, 1, k)
              /\ Popped(d, s, l) \in Seq(HeadsIn(d)) /\ Len(Popped(d, s, l)) = k
              /\ \A m \in 1..k : Popped(d, s, l)[m] = s[m]
              /\ k # 0 => d[s[k]].level < l
              /\ \A m \in (k + 1)..Len(s) : d[s[m]].level >= l
<1> DEFINE small == {0} \union {m \in DOMAIN s : d[s[m]].level < l}
           k == Max(small)
<1>1. Len(s) \in Nat /\ DOMAIN s = 1..Len(s) /\ \A m \in 1..Len(s) : s[m] \in HeadsIn(d)
  OBVIOUS
<1>2. small \in SUBSET (0..Len(s)) /\ small # {}
  BY <1>1
<1>3. k \in small /\ \A m \in small : m <= k
  <2>1. small \in SUBSET (-1..Len(s))
    BY <1>1, <1>2
  <2> HIDE DEF small
  <2> QED
    BY <1>1, <1>2, <2>1, MaxIs, Zenon
<1>4. Popped(d, s, l) = SubSeq(s, 1, k)
  BY DEF Popped
<1> HIDE DEF k
<1>5. \A m \in 1..Len(s) : d[s[m]].level \in Int
  <2>1. \A i \in HeadsIn(d) : d[i].level \in Int
    BY BlockIs
  <2> QED
    BY <1>1, <2>1
<1>6. k \in 0..Len(s)
  BY <1>2, <1>3
<1>7. /\ SubSeq(s, 1, k) \in Seq(HeadsIn(d)) /\ Len(SubSeq(s, 1, k)) = k
      /\ \A m \in 1..k : SubSeq(s, 1, k)[m] = s[m]
  BY <1>1, <1>6
<1>8. k # 0 => d[s[k]].level < l
  BY <1>3
<1>9. ASSUME NEW m \in (k + 1)..Len(s)
      PROVE  d[s[m]].level >= l
  <2>1. m \in DOMAIN s /\ ~(m <= k)
    BY <1>1, <1>6
  <2>2. m \notin small
    BY <1>3, <2>1
  <2> QED
    BY <1>1, <1>5, <2>1, <2>2
<1> QED
  BY <1>4, <1>6, <1>7, <1>8, <1>9

(* The walk over the blocks is what its definition says.                    *)
LEMMA OpenIs ==
    ASSUME NEW d \in Seq(Block)
    PROVE  LET open == OpenSections(d) IN
           /\ open \in [0..Len(d) -> Seq(HeadsIn(d))]
           /\ open[0] = <<>>
           /\ \A i \in 1..Len(d) :
                open[i] = IF d[i].level = 0 THEN open[i - 1]
                          ELSE Append(Popped(d, open[i - 1], d[i].level), i)
<1> DEFINE n == Len(d)
           V == Seq(HeadsIn(d))
           Step(s, i) == IF d[i].level = 0 THEN s ELSE Append(Popped(d, s, d[i].level), i)
           G == [x \in V \X (1..n) |-> Step(x[1], x[2])]
           Eq(f) == f = [i \in 0..n |->
                           IF i = 0 THEN <<>>
                           ELSE IF d[i].level = 0 THEN f[i - 1]
                           ELSE Append(Popped(d, f[i - 1], d[i].level), i)]
           open == CHOOSE f : Eq(f)
<1>1. OpenSections(d) = open
  BY Zenon DEF OpenSections
<1>2. ASSUME NEW s \in V, NEW i \in 1..n
      PROVE  Step(s, i) \in V
  <2>2. CASE d[i].level = 0
    BY <2>2
  <2>3. CASE d[i].level # 0
    <3>1. d[i].level \in Int /\ i \in HeadsIn(d)
      <4>1. d[i].level \in 0..6 /\ HeadsIn(d) = {j \in 1..Len(d) : d[j].level > 0}
        BY BlockIs
      <4> QED
        BY <2>3, <4>1
    <3>2. Popped(d, s, d[i].level) \in V
      BY <3>1, PoppedIs
    <3> QED
      BY <2>3, <3>1, <3>2
  <2> QED
    BY <2>2, <2>3
<1>3. n \in Nat /\ <<>> \in V /\ G \in [V \X (1..n) -> V]
  BY <1>2
<1>4. PICK f \in [0..n -> V] : Ascends(f, n, <<>>, G)
  <2> HIDE DEF G, V, n
  <2> QED
    BY <1>3, RecursionExists, Zenon
<1>5. ASSUME NEW i \in 0..n, i # 0
      PROVE  G[<<f[i - 1], i>>] = Step(f[i - 1], i)
  <2>1. i \in 1..n /\ i - 1 \in 0..n
    BY <1>3, <1>5
  <2> HIDE DEF Step, n
  <2>2. f[i - 1] \in V
    BY <1>4, <2>1
  <2> QED
    BY <2>1, <2>2
<1>6. Eq(f)
  <2> HIDE DEF G, V
  <2>1. f = [i \in 0..n |-> f[i]]
    BY <1>4
  <2>2. ASSUME NEW i \in 0..n
        PROVE  f[i] = IF i = 0 THEN <<>> ELSE Step(f[i - 1], i)
    <3> HIDE DEF Step, n
    <3> QED
      BY <1>4, <1>5 DEF Ascends
  <2> QED
    BY <2>1, <2>2
<1>7. Eq(open)
  BY <1>6, Zenon
<1> HIDE DEF open
<1>8. /\ DOMAIN open = 0..n /\ open = [i \in 0..n |-> open[i]] /\ open[0] = <<>>
      /\ \A i \in 1..n : open[i] = Step(open[i - 1], i)
  <2>1. /\ DOMAIN open = 0..n /\ open = [i \in 0..n |-> open[i]]
        /\ \A i \in 0..n : open[i] = IF i = 0 THEN <<>> ELSE Step(open[i - 1], i)
    BY <1>7
  <2>2. 0 \in 0..n /\ \A i \in 1..n : i \in 0..n /\ i # 0
    BY <1>3
  <2> HIDE DEF n, Step
  <2> QED
    BY <2>1, <2>2
<1> DEFINE T == {k \in Nat : k <= n => open[k] \in V}
<1>9. n \in Nat /\ \A k \in Nat : k <= n => open[k] \in V
  <2>1. 0 \in T
    BY <1>3, <1>8
  <2>2. ASSUME NEW k \in Nat, k \in T PROVE k + 1 \in T
    <3>1. SUFFICES ASSUME k + 1 <= n PROVE open[k + 1] \in V
      OBVIOUS
    <3>2. k + 1 \in 1..n /\ (k + 1) - 1 = k /\ open[k] \in V
      BY <1>3, <2>2, <3>1
    <3> HIDE DEF V, Step
    <3> QED
      BY <1>2, <1>8, <3>2
  <2> HIDE DEF T
  <2>3. Nat \subseteq T
    BY <2>1, <2>2, SetInduction
  <2> QED
    BY <1>3, <2>3 DEF T
<1>10. open \in [0..n -> V]
  <2>1. \A k \in 0..n : open[k] \in V
    BY <1>9
  <2> QED
    BY <1>8, <2>1
<1> QED
  BY <1>1, <1>8, <1>10

(* A heading comes: the deeper ones and its equals go, and it is open.       *)
LEMMA StackGrows ==
    ASSUME NEW d \in Seq(Block), NEW i \in 1..Len(d), d[i].level > 0,
           NEW s, StackOf(d, i - 1, s)
    PROVE  StackOf(d, i, Append(Popped(d, s, d[i].level), i))
<1> DEFINE l == d[i].level
<1>1. /\ s \in Seq(HeadsIn(d)) /\ i \in HeadsIn(d) /\ l \in Int /\ i \in Int /\ Len(s) \in Nat
      /\ \A j \in HeadsIn(d) : j \in Int /\ d[j].level \in Int
  <2>1. \A j \in HeadsIn(d) : j \in Int /\ d[j].level \in Int
    BY BlockIs
  <2>2. i \in HeadsIn(d)
    BY BlockIs
  <2>3. s \in Seq(HeadsIn(d))
    BY DEF StackOf
  <2> QED
    BY <2>1, <2>2, <2>3
<1>2. PICK k \in 0..Len(s) :
              /\ Popped(d, s, l) \in Seq(HeadsIn(d)) /\ Len(Popped(d, s, l)) = k
              /\ \A m \in 1..k : Popped(d, s, l)[m] = s[m]
              /\ k # 0 => d[s[k]].level < l
              /\ \A m \in (k + 1)..Len(s) : d[s[m]].level >= l
  BY <1>1, PoppedIs
<1> DEFINE p == Popped(d, s, l)
           q == Append(p, i)
<1>3. /\ q \in Seq(HeadsIn(d)) /\ DOMAIN q = 1..(k + 1) /\ q[k + 1] = i
      /\ \A m \in 1..k : q[m] = s[m]
  <2> HIDE DEF p
  <2>1. /\ q \in Seq(HeadsIn(d)) /\ DOMAIN q = 1..(k + 1) /\ q[k + 1] = i
        /\ \A m \in 1..k : q[m] = p[m]
    BY <1>1, <1>2 DEF p
  <2> QED
    BY <1>2, <2>1 DEF p
<1> HIDE DEF p, q, l
<1>4. /\ DOMAIN s = 1..Len(s) /\ \A m \in DOMAIN s : s[m] \in HeadsIn(d) /\ s[m] <= i - 1
      /\ \A m, r \in DOMAIN s : m < r => s[m] < s[r] /\ d[s[m]].level < d[s[r]].level
      /\ \A j \in HeadsIn(d) : j <= i - 1 =>
            \E m \in DOMAIN s : s[m] >= j /\ d[s[m]].level <= d[j].level
  <2>1. DOMAIN s = 1..Len(s) /\ \A m \in DOMAIN s : s[m] \in HeadsIn(d)
    BY <1>1
  <2> QED
    BY <2>1 DEF StackOf
<1>5. \A m \in 1..k : m \in DOMAIN s /\ s[m] < i /\ d[s[m]].level < l
  <2>1. ASSUME NEW m \in 1..k
        PROVE  m \in DOMAIN s /\ s[m] < i /\ d[s[m]].level < l
    <3>1. m \in DOMAIN s /\ k \in DOMAIN s /\ k # 0 /\ m \in Int
      BY <1>1, <1>2, <1>4
    <3>2. s[m] \in Int /\ d[s[m]].level \in Int /\ d[s[k]].level \in Int
      BY <1>1, <1>4, <3>1
    <3>3. m < k => d[s[m]].level < d[s[k]].level
      BY <1>4, <3>1
    <3>4. s[m] < i
      <4>1. s[m] <= i - 1 /\ i \in Int
        BY <1>1, <1>4, <3>1
      <4> QED
        BY <3>2, <4>1
    <3>5. m < k \/ m = k
      BY <1>1, <1>2, <3>1
    <3>6. d[s[k]].level < l
      BY <1>2, <3>1
    <3> QED
      BY <1>1, <3>1, <3>2, <3>3, <3>4, <3>5, <3>6, SMTT(40)
  <2> QED
    BY <2>1
<1>6. \A m \in DOMAIN q : q[m] <= i
  <2>1. \A m \in DOMAIN q : m \in 1..k \/ m = k + 1
    BY <1>2, <1>3
  <2>2. \A m \in 1..k : s[m] \in Int
    BY <1>1, <1>4, <1>5
  <2>3. ASSUME NEW m \in 1..k PROVE q[m] <= i
    BY <1>1, <1>3, <1>5, <2>2
  <2> QED
    BY <1>1, <1>3, <2>1, <2>3
<1>7. ASSUME NEW m \in DOMAIN q, NEW r \in DOMAIN q, m < r
      PROVE  q[m] < q[r] /\ d[q[m]].level < d[q[r]].level
  <2>1. m \in 1..k /\ (r \in 1..k \/ r = k + 1)
    BY <1>2, <1>3, <1>7
  <2>2. CASE r \in 1..k
    BY <1>3, <1>4, <1>5, <1>7, <2>1, <2>2
  <2>3. CASE r = k + 1
    BY <1>3, <1>5, <2>1, <2>3 DEF l
  <2> QED
    BY <2>1, <2>2, <2>3
<1>8. ASSUME NEW j \in HeadsIn(d), j <= i
      PROVE  \E m \in DOMAIN q : q[m] >= j /\ d[q[m]].level <= d[j].level
  <2>0. j \in Int /\ k + 1 \in DOMAIN q
    <3>1. k \in Nat
      BY <1>1
    <3>2. j \in Int
      BY <1>1, Zenon
    <3> QED
      BY <1>3, <3>1, <3>2
  <2>1. CASE j = i
    <3>1. q[k + 1] >= j /\ d[q[k + 1]].level <= d[j].level
      BY <1>1, <1>3, <2>1
    <3> QED
      BY <2>0, <3>1
  <2>2. CASE j # i
    <3>1. PICK m \in DOMAIN s : s[m] >= j /\ d[s[m]].level <= d[j].level
      BY <1>1, <1>4, <1>8, <2>0, <2>2
    <3>2. CASE m <= k
      <4>1. m \in 1..k /\ m \in DOMAIN q
        BY <1>2, <1>3, <1>4, <3>2
      <4> QED
        BY <1>3, <3>1, <4>1
    <3>3. CASE ~(m <= k)
      <4>1. m \in (k + 1)..Len(s)
        BY <1>1, <1>2, <1>4, <3>3
      <4>2. d[s[m]].level >= l /\ d[s[m]].level \in Int /\ d[j].level \in Int
        BY <1>1, <1>2, <1>4, <4>1
      <4>3. i >= j /\ d[i].level <= d[j].level
        <5>1. l <= d[j].level
          BY <1>1, <3>1, <4>2
        <5> QED
          BY <1>1, <1>8, <2>0, <5>1 DEF l
      <4> QED
        BY <1>3, <2>0, <4>3
    <3> QED
      BY <3>2, <3>3
  <2> QED
    BY <2>1, <2>2
<1>9. StackOf(d, i, q)
  BY <1>3, <1>6, <1>7, <1>8 DEF StackOf
<1> QED
  BY <1>9 DEF q, p, l

(* Every open section is on top of the stack its own heading left.           *)
Layered(open, s) == \A k \in DOMAIN s : SubSeq(s, 1, k) = open[s[k]]

LEMMA OpensIs ==
    ASSUME NEW d \in Seq(Block)
    PROVE  LET open == OpenSections(d) IN
           /\ \A i \in 0..Len(d) : StackOf(d, i, open[i]) /\ Layered(open, open[i])
           /\ \A i \in HeadsIn(d) : Len(open[i]) \in Nat \ {0} /\ open[i][Len(open[i])] = i
<1> DEFINE open == OpenSections(d)
           n == Len(d)
<1>1. /\ open \in [0..n -> Seq(HeadsIn(d))] /\ open[0] = <<>>
      /\ \A i \in 1..n :
            open[i] = IF d[i].level = 0 THEN open[i - 1]
                      ELSE Append(Popped(d, open[i - 1], d[i].level), i)
  BY OpenIs
<1> HIDE DEF open
<1>2. n \in Nat /\ \A i \in 1..n : d[i].level \in 0..6
  BY BlockIs
<1>3. ASSUME NEW i \in 1..n, i \notin HeadsIn(d)
      PROVE  open[i] = open[i - 1]
  <2>1. d[i].level = 0
    BY <1>2, <1>3, BlockIs
  <2> QED
    BY <1>1, <2>1
<1>4. ASSUME NEW i \in 1..n, i \in HeadsIn(d)
      PROVE  \E k \in 0..Len(open[i - 1]) :
               /\ open[i] = Append(SubSeq(open[i - 1], 1, k), i)
               /\ open[i] = Append(Popped(d, open[i - 1], d[i].level), i)
               /\ open[i - 1] \in Seq(HeadsIn(d)) /\ d[i].level > 0
  <2>1. d[i].level > 0 /\ d[i].level \in Int /\ d[i].level # 0
    BY <1>2, <1>4, BlockIs
  <2>2. i - 1 \in 0..n
    BY <1>2
  <2>3. open[i - 1] \in Seq(HeadsIn(d))
    BY <1>1, <2>2
  <2>4. open[i] = Append(Popped(d, open[i - 1], d[i].level), i)
    BY <1>1, <2>1
  <2>5. \E k \in 0..Len(open[i - 1]) : Popped(d, open[i - 1], d[i].level) = SubSeq(open[i - 1], 1, k)
    BY <2>1, <2>3, PoppedIs
  <2> QED
    BY <2>1, <2>3, <2>4, <2>5
<1> DEFINE Good(i) == StackOf(d, i, open[i]) /\ Layered(open, open[i])
           T == {i \in Nat : i <= n => Good(i)}
<1>5. Good(0)
  <2>1. StackOf(d, 0, <<>>)
    <3>1. \A j \in HeadsIn(d) : ~(j <= 0)
      <4>1. \A j \in HeadsIn(d) : j \in 1..Len(d)
        BY BlockIs
      <4> QED
        BY <1>2, <4>1
    <3> QED
      BY <3>1 DEF StackOf
  <2>2. Layered(open, <<>>)
    BY DEF Layered
  <2> QED
    BY <1>1, <2>1, <2>2
<1>6. ASSUME NEW i \in 1..n, Good(i - 1)
      PROVE  Good(i)
  <2>1. CASE i \notin HeadsIn(d)
    <3>1. open[i] = open[i - 1]
      BY <1>3, <2>1
    <3>2. StackOf(d, i, open[i - 1])
      <4>1. \A j \in HeadsIn(d) : j \in Int /\ (j <= i => j <= i - 1)
        BY <2>1, BlockIs
      <4>2. \A m \in DOMAIN open[i - 1] : open[i - 1][m] \in HeadsIn(d)
        BY <1>6 DEF StackOf
      <4> HIDE DEF n
      <4>3. \A m \in DOMAIN open[i - 1] : open[i - 1][m] <= i
        BY <1>6, <4>1, <4>2 DEF StackOf
      <4> QED
        BY <1>6, <4>1, <4>3 DEF StackOf
    <3> QED
      BY <1>6, <3>1, <3>2
  <2>2. CASE i \in HeadsIn(d)
    <3>1. PICK k \in 0..Len(open[i - 1]) :
             /\ open[i] = Append(SubSeq(open[i - 1], 1, k), i)
             /\ open[i] = Append(Popped(d, open[i - 1], d[i].level), i)
             /\ open[i - 1] \in Seq(HeadsIn(d)) /\ d[i].level > 0
      BY <1>4, <2>2
    <3>2. StackOf(d, i, open[i])
      BY <1>6, <3>1, StackGrows
    <3>3. Layered(open, open[i])
      <4> DEFINE s == open[i - 1]
                 q == open[i]
      <4>1. s \in Seq(HeadsIn(d)) /\ q = Append(SubSeq(s, 1, k), i) /\ k \in 0..Len(s)
        BY <3>1
      <4> HIDE DEF s, q
      <4>2. Len(s) \in Nat /\ k \in Nat /\ k <= Len(s)
        BY <4>1
      <4>3. /\ DOMAIN q = 1..(k + 1) /\ q[k + 1] = i /\ \A m \in 1..k : q[m] = s[m]
            /\ Len(q) = k + 1 /\ SubSeq(q, 1, k + 1) = q
        BY <4>1, <4>2
      <4>4. ASSUME NEW m \in 1..k PROVE SubSeq(q, 1, m) = SubSeq(s, 1, m)
        BY <4>1, <4>2, <4>3
      <4>5. ASSUME NEW m \in 1..k PROVE m \in DOMAIN s
        BY <4>1, <4>2
      <4>6. ASSUME NEW m \in DOMAIN q PROVE SubSeq(q, 1, m) = open[q[m]]
        <5>1. CASE m = k + 1
          BY <4>3, <5>1 DEF q
        <5>2. CASE m # k + 1
          <6>1. m \in 1..k
            BY <4>2, <4>3, <5>2
          <6>2. SubSeq(s, 1, m) = open[s[m]]
            BY <1>6, <4>5, <6>1 DEF Layered, s
          <6> QED
            BY <4>3, <4>4, <6>1, <6>2
        <5> QED
          BY <5>1, <5>2
      <4> QED
        BY <4>6 DEF Layered, q
    <3> QED
      BY <3>2, <3>3
  <2> QED
    BY <2>1, <2>2
<1> HIDE DEF Good
<1>7. 0 \in T
  BY <1>5
<1>8. ASSUME NEW k \in Nat, k \in T
      PROVE  k + 1 \in T
  <2>1. SUFFICES ASSUME k + 1 <= n PROVE Good(k + 1)
    OBVIOUS
  <2>2. k + 1 \in 1..n /\ (k + 1) - 1 = k /\ Good(k)
    BY <1>2, <1>8, <2>1
  <2>3. Good((k + 1) - 1)
    BY <2>2
  <2> QED
    BY <1>6, <2>2, <2>3
<1>9. \A i \in 0..n : Good(i)
  <2> HIDE DEF T
  <2>1. Nat \subseteq T
    BY <1>7, <1>8, SetInduction
  <2>2. \A i \in 0..n : i \in T /\ i <= n
    BY <1>2, <2>1
  <2> QED
    BY <2>2 DEF T
<1>10. ASSUME NEW i \in HeadsIn(d)
       PROVE  Len(open[i]) \in Nat \ {0} /\ open[i][Len(open[i])] = i
  <2>1. i \in 1..n
    BY BlockIs
  <2>2. PICK k \in 0..Len(open[i - 1]) :
             /\ open[i] = Append(SubSeq(open[i - 1], 1, k), i)
             /\ open[i - 1] \in Seq(HeadsIn(d))
    BY <1>4, <2>1
  <2> DEFINE s == SubSeq(open[i - 1], 1, k)
  <2>3. s \in Seq(HeadsIn(d))
    BY <2>2
  <2>4. open[i] = Append(s, i)
    BY <2>2
  <2> HIDE DEF s
  <2> QED
    BY <2>3, <2>4
<1> QED
  BY <1>9, <1>10 DEF open, Good

LEMMA GreatestIs ==
    ASSUME NEW s \in SUBSET Int, NEW x \in s, \A y \in s : y <= x
    PROVE  Max(s) = x
<1>1. Max(s) \in s /\ \A y \in s : Max(s) >= y
  <2>1. \E z \in s : \A y \in s : z >= y
    OBVIOUS
  <2> QED
    BY <2>1, Zenon DEF Max
<1>2. Max(s) \in Int /\ x \in Int
  BY <1>1
<1> QED
  BY <1>1, <1>2

LEMMA LeastIs ==
    ASSUME NEW s \in SUBSET Int, NEW x \in s, \A y \in s : x <= y
    PROVE  Min(s) = x
<1>1. Min(s) \in s /\ \A y \in s : Min(s) <= y
  <2>1. \E z \in s : \A y \in s : z <= y
    OBVIOUS
  <2> QED
    BY <2>1, Zenon DEF Min
<1>2. Min(s) \in Int /\ x \in Int
  BY <1>1
<1> QED
  BY <1>1, <1>2

(* The nodes, and the parent of each: what lies under it on its stack.       *)
LEMMA ParentsIs ==
    ASSUME NEW d \in Seq(Block)
    PROVE  LET open == OpenSections(d)
               up   == Parents(d)
           IN  /\ Nodes(d) \in SUBSET (0..Len(d)) /\ HeadsIn(d) = Nodes(d) \ {0}
               /\ DOMAIN up = Nodes(d)
               /\ 0 \in Nodes(d) => up[0] = Root
               /\ \A n \in HeadsIn(d) :
                    up[n] = IF Len(open[n]) = 1 THEN Root ELSE open[n][Len(open[n]) - 1]
<1>1. HeadsIn(d) \in SUBSET (1..Len(d)) /\ Len(d) \in Nat
  BY BlockIs
<1>2. Nodes(d) \in SUBSET (0..Len(d)) /\ HeadsIn(d) = Nodes(d) \ {0}
  <2>1. \A i \in HeadsIn(d) : i \in 0..Len(d) /\ i # 0
    BY <1>1
  <2>2. 0 \in 0..Len(d)
    BY <1>1
  <2> QED
    BY <2>1, <2>2 DEF Nodes
<1>3. Parents(d) = [n \in Nodes(d) |->
            IF n = 0 THEN Root
            ELSE IF Len(OpenSections(d)[n]) = 1 THEN Root
                 ELSE OpenSections(d)[n][Len(OpenSections(d)[n]) - 1]]
  BY DEF Parents
<1> QED
  BY <1>2, <1>3

(* The parent of a heading is the nearest heading above of a smaller level.  *)
LEMMA ParentIsNearest ==
    ASSUME NEW d \in Seq(Block), NEW n \in HeadsIn(d)
    PROVE  LET above == {j \in HeadsIn(d) : j < n /\ d[j].level < d[n].level}
           IN  /\ Parents(d)[n] = Max(above \union {Root})
               /\ above = {} => Parents(d)[n] = Root
               /\ above # {} => Parents(d)[n] \in above /\ \A j \in above : j <= Parents(d)[n]
<1> DEFINE above == {j \in HeadsIn(d) : j < n /\ d[j].level < d[n].level}
           q == OpenSections(d)[n]
           len == Len(q)
<1>1. \A j \in HeadsIn(d) : j \in Int /\ j > 0 /\ d[j].level \in Int
  BY BlockIs
<1>2. /\ StackOf(d, n, q) /\ len \in Nat \ {0} /\ q[len] = n
      /\ Parents(d)[n] = IF len = 1 THEN Root ELSE q[len - 1]
  <2>1. n \in 0..Len(d)
    BY BlockIs
  <2> QED
    BY <2>1, OpensIs, ParentsIs
<1> HIDE DEF q, len
<1>3. /\ DOMAIN q = 1..len /\ \A k \in 1..len : q[k] \in HeadsIn(d)
      /\ \A k, m \in 1..len : k < m => q[k] < q[m] /\ d[q[k]].level < d[q[m]].level
      /\ \A j \in HeadsIn(d) : j <= n => \E k \in 1..len : q[k] >= j /\ d[q[k]].level <= d[j].level
  <2>1. q \in Seq(HeadsIn(d))
    BY <1>2 DEF StackOf
  <2>2. DOMAIN q = 1..len /\ \A k \in 1..len : q[k] \in HeadsIn(d)
    BY <2>1 DEF len
  <2> QED
    BY <1>2, <2>2 DEF StackOf
<1>4. ASSUME NEW j \in above
      PROVE  len > 1 /\ j <= q[len - 1]
  <2>1. j \in HeadsIn(d) /\ j < n /\ d[j].level < d[n].level
    OBVIOUS
  <2>2. PICK k \in 1..len : q[k] >= j /\ d[q[k]].level <= d[j].level
    <3>1. j <= n
      BY <1>1, <2>1
    <3> QED
      BY <1>3, <2>1, <3>1
  <2>3. q[k] \in Int /\ d[q[k]].level \in Int /\ k \in Int
    BY <1>1, <1>3
  <2>4. k # len
    BY <1>1, <1>2, <2>1, <2>2, <2>3
  <2>5. len - 1 \in 1..len /\ (k = len - 1 \/ k < len - 1)
    BY <1>2, <2>4
  <2>6. q[len - 1] \in Int /\ q[k] <= q[len - 1]
    BY <1>1, <1>3, <2>3, <2>5
  <2> QED
    <3>1. j \in Int /\ d[j].level \in Int /\ n \in Int
      BY <1>1, <2>1
    <3> QED
      BY <1>2, <2>1, <2>2, <2>3, <2>4, <2>5, <2>6, <3>1
<1>5. ASSUME len # 1
      PROVE  q[len - 1] \in above
  <2>1. len - 1 \in 1..len /\ len \in 1..len /\ len - 1 < len
    BY <1>2, <1>5
  <2> QED
    BY <1>2, <1>3, <2>1
<1>6. above \in SUBSET Int /\ \A j \in above : j > 0
  BY <1>1
<1> HIDE DEF above
<1>7. CASE len = 1
  <2>1. above = {} /\ Parents(d)[n] = Root
    BY <1>2, <1>4, <1>7
  <2>2. Max({Root}) = Root
    BY GreatestIs DEF Root
  <2> QED
    BY <2>1, <2>2 DEF above
<1>8. CASE len # 1
  <2>1. Parents(d)[n] \in above /\ \A j \in above : j <= Parents(d)[n]
    BY <1>2, <1>4, <1>5, <1>8
  <2>2. Max(above \union {Root}) = Parents(d)[n]
    <3> DEFINE all == above \union {Root}
    <3>1. /\ all \in SUBSET Int /\ Parents(d)[n] \in all
          /\ \A j \in all : j <= Parents(d)[n]
      <4>1. Parents(d)[n] \in Int /\ Parents(d)[n] > 0 /\ Root = -1
        BY <1>6, <2>1 DEF Root
      <4> QED
        BY <1>6, <2>1, <4>1
    <3> HIDE DEF all
    <3>2. Max(all) = Parents(d)[n]
      BY <3>1, GreatestIs
    <3> QED
      BY <3>2 DEF all
  <2> QED
    BY <2>1, <2>2 DEF above
<1> QED
  BY <1>7, <1>8

LEMMA KidsAreBelow ==
    ASSUME NEW d \in Seq(Block), NEW i \in Nodes(d), NEW k \in DOMAIN Parents(d),
           Parents(d)[k] = i
    PROVE  /\ k \in HeadsIn(d) /\ i \in HeadsIn(d) /\ i < k
           /\ d[i].level < d[k].level
           /\ \A j \in HeadsIn(d) : i < j /\ j < k => d[j].level >= d[k].level
<1>1. \A j \in HeadsIn(d) : j \in Int /\ d[j].level \in Int
  BY BlockIs
<1>2. i \in 0..Len(d) /\ k \in Nodes(d) /\ (k # 0 => k \in HeadsIn(d)) /\ i # Root
  <2>1. i \in 0..Len(d) /\ k \in Nodes(d) /\ (k # 0 => k \in HeadsIn(d))
    BY ParentsIs
  <2> QED
    BY <2>1 DEF Root
<1>3. k \in HeadsIn(d)
  <2>1. k = 0 => Parents(d)[k] = Root
    BY <1>2, ParentsIs
  <2> QED
    BY <1>2, <2>1
<1> DEFINE above == {j \in HeadsIn(d) : j < k /\ d[j].level < d[k].level}
<1>4. above # {} /\ i \in above /\ \A j \in above : j <= i
  BY <1>2, <1>3, ParentIsNearest
<1>5. ASSUME NEW j \in HeadsIn(d), i < j, j < k
      PROVE  d[j].level >= d[k].level
  <2>1. j \notin above
    BY <1>1, <1>4, <1>5
  <2> QED
    BY <1>1, <1>3, <1>5, <2>1
<1> QED
  BY <1>3, <1>4, <1>5

(* The ends of the sections are what their definition says.                 *)
LEMMA EndsAre ==
    ASSUME NEW d \in Seq(Block)
    PROVE  \E end \in [Nodes(d) -> 1..(Len(d) + 1)] :
              \A i \in Nodes(d) :
                /\ SectionEnd(d, i) = end[i]
                /\ Children(d, i) = {} => end[i] = BodyEnd(d, i)
                /\ Children(d, i) # {} =>
                      /\ Max(Children(d, i)) \in Children(d, i)
                      /\ \A k \in Children(d, i) : k <= Max(Children(d, i))
                      /\ end[i] = end[Max(Children(d, i))]
<1> DEFINE S == Nodes(d)
           n == Len(d)
           V == 1..(n + 1)
           up == Parents(d)
           Kids(i) == {k \in DOMAIN up : up[k] = i}
           Stop == {i \in S : Kids(i) = {}}
           base == [i \in Stop |-> BodyEnd(d, i)]
           next == [i \in S \ Stop |-> Max(Kids(i))]
           G == [x \in (S \ Stop) \X V |-> x[2]]
           Eq(f) == f = [i \in S |-> IF Kids(i) = {} THEN BodyEnd(d, i) ELSE f[Max(Kids(i))]]
           end == CHOOSE f : Eq(f)
<1>1. /\ n \in Nat /\ S \in SUBSET (0..n) /\ DOMAIN up = S
      /\ HeadsIn(d) \in SUBSET (1..n) /\ Len(d) = n
  BY BlockIs, ParentsIs
<1>2. \A i \in S : SectionEnd(d, i) = end[i]
  BY Zenon DEF SectionEnd
<1>3. \A i \in S : Children(d, i) = Kids(i)
  BY DEF Children
<1>4. ASSUME NEW i \in S, Kids(i) # {}
      PROVE  /\ Max(Kids(i)) \in Kids(i) /\ \A k \in Kids(i) : k <= Max(Kids(i))
             /\ Max(Kids(i)) \in S /\ Max(Kids(i)) > i
  <2>1. Kids(i) \in SUBSET (-1..n)
    <3>1. \A k \in Kids(i) : k \in S /\ k \in 0..n
      BY <1>1
    <3> HIDE DEF Kids
    <3> QED
      BY <1>1, <3>1
  <2>2. Max(Kids(i)) \in Kids(i) /\ \A k \in Kids(i) : k <= Max(Kids(i))
    <3> HIDE DEF Kids, n
    <3> QED
      BY <1>1, <1>4, <2>1, MaxIs, Zenon
  <2>3. ASSUME NEW k \in Kids(i) PROVE k \in S /\ i < k /\ i \in Int /\ k \in Int
    <3>1. k \in S /\ i < k
      BY <1>1, KidsAreBelow
    <3>2. k \in 0..n /\ i \in 0..n
      BY <1>1, <3>1
    <3> QED
      BY <3>1, <3>2
  <2>4. Max(Kids(i)) \in S /\ i < Max(Kids(i)) /\ i \in Int /\ Max(Kids(i)) \in Int
    <3> HIDE DEF Kids, S
    <3> QED
      BY <2>2, <2>3
  <2> QED
    BY <2>2, <2>4
<1>5. ASSUME NEW i \in S PROVE BodyEnd(d, i) \in V
  <2> DEFINE s == {j \in HeadsIn(d) : j > i} \union {Len(d) + 1}
  <2>1. s \in SUBSET V /\ s # {}
    BY <1>1
  <2>2. s \in SUBSET Nat
    BY <1>1
  <2> HIDE DEF s
  <2>3. Min(s) \in s
    BY <2>1, <2>2, MinIs
  <2> QED
    BY <2>1, <2>3 DEF BodyEnd, s
<1>6. /\ Stop \in SUBSET S /\ base \in [Stop -> V] /\ next \in [S \ Stop -> S]
      /\ \A i \in S \ Stop : next[i] > i
      /\ G \in [(S \ Stop) \X V -> V]
  <2>1. base \in [Stop -> V]
    BY <1>5
  <2>2. next \in [S \ Stop -> S] /\ \A i \in S \ Stop : next[i] > i
    BY <1>4
  <2> QED
    BY <2>1, <2>2
<1>7. PICK f \in [S -> V] : Descends(f, S, Stop, base, next, G)
  <2> HIDE DEF S, V, n, Stop, base, next, G
  <2> QED
    BY <1>1, <1>6, DescentExists, Zenon
<1>8. Eq(f)
  <2>1. f = [i \in S |-> f[i]]
    BY <1>7
  <2>2. ASSUME NEW i \in S
        PROVE  f[i] = IF Kids(i) = {} THEN BodyEnd(d, i) ELSE f[Max(Kids(i))]
    <3>0. f[i] = IF i \in Stop THEN base[i] ELSE G[<<i, f[next[i]]>>]
      <4> HIDE DEF S, Stop, base, next, G
      <4> QED
        BY <1>7 DEF Descends
    <3>1. CASE Kids(i) = {}
      <4>1. i \in Stop /\ base[i] = BodyEnd(d, i)
        BY <3>1
      <4> HIDE DEF S, Stop, base, next, G
      <4> QED
        BY <3>0, <3>1, <4>1
    <3>2. CASE Kids(i) # {}
      <4>1. i \in S \ Stop /\ next[i] = Max(Kids(i)) /\ next[i] \in S
        BY <1>4, <3>2
      <4>2. f[next[i]] \in V
        BY <1>7, <4>1
      <4>3. G[<<i, f[next[i]]>>] = f[next[i]]
        <5> HIDE DEF S, V, Stop, next, Kids
        <5> QED
          BY <4>1, <4>2
      <4> HIDE DEF S, V, Stop, base, next, G
      <4> QED
        BY <3>0, <3>2, <4>1, <4>3
    <3> QED
      BY <3>1, <3>2
  <2> HIDE DEF S, Kids
  <2> QED
    BY <2>1, <2>2
<1>9. Eq(end)
  BY <1>8, Zenon
<1> HIDE DEF end
<1>10. /\ DOMAIN end = S /\ end = [i \in S |-> end[i]]
       /\ \A i \in S : end[i] = IF Kids(i) = {} THEN BodyEnd(d, i) ELSE end[Max(Kids(i))]
  <2> HIDE DEF S, Kids
  <2> QED
    BY <1>9
<1> HIDE DEF Stop, base, next, G
<1> DEFINE T == {k \in Nat : \A i \in S : i + k >= n + 1 => end[i] \in V}
<1>11. \A i \in S : i \in Int /\ i <= n
  <2>1. \A i \in S : i \in 0..n
    BY <1>1
  <2> HIDE DEF S
  <2> QED
    BY <1>1, <2>1
<1>12. 0 \in T
  <2>1. ASSUME NEW i \in S PROVE ~(i + 0 >= n + 1)
    BY <1>1, <1>11
  <2> HIDE DEF S, V
  <2> QED
    BY <2>1
<1>13. ASSUME NEW k \in Nat, k \in T
       PROVE  k + 1 \in T
  <2>1. ASSUME NEW i \in S, i + (k + 1) >= n + 1
        PROVE  end[i] \in V
    <3>1. CASE Kids(i) = {}
      <4> HIDE DEF S, V, Kids
      <4> QED
        BY <1>5, <1>10, <3>1
    <3>2. CASE Kids(i) # {}
      <4> DEFINE m == Max(Kids(i))
      <4>1. m \in S /\ m > i /\ end[i] = end[m]
        BY <1>4, <1>10, <3>2
      <4> HIDE DEF m, V, S
      <4>2. m + k >= n + 1
        BY <1>1, <1>11, <2>1, <4>1
      <4> QED
        BY <1>13, <4>1, <4>2
    <3> QED
      BY <3>1, <3>2
  <2> HIDE DEF S, V, n
  <2> QED
    BY <2>1
<1>14. \A i \in S : end[i] \in V
  <2> HIDE DEF T, S, V
  <2>1. n + 1 \in T
    BY <1>1, <1>12, <1>13, SetInduction
  <2>2. \A i \in S : i + (n + 1) >= n + 1 => end[i] \in V
    BY <2>1 DEF T
  <2>3. ASSUME NEW i \in S PROVE i + (n + 1) >= n + 1
    <3>1. i \in 0..n
      BY <1>1
    <3> QED
      BY <1>1, <3>1
  <2> QED
    BY <2>2, <2>3
<1>15. end \in [S -> V]
  <2> HIDE DEF S, V
  <2> QED
    BY <1>10, <1>14
<1>16. ASSUME NEW i \in Nodes(d)
       PROVE  /\ SectionEnd(d, i) = end[i]
              /\ Children(d, i) = {} => end[i] = BodyEnd(d, i)
              /\ Children(d, i) # {} =>
                    /\ Max(Children(d, i)) \in Children(d, i)
                    /\ \A k \in Children(d, i) : k <= Max(Children(d, i))
                    /\ end[i] = end[Max(Children(d, i))]
  <2>1. Children(d, i) = Kids(i) /\ SectionEnd(d, i) = end[i]
    BY <1>2, <1>3
  <2>2. Kids(i) # {} => Max(Kids(i)) \in Kids(i) /\ \A k \in Kids(i) : k <= Max(Kids(i))
    BY <1>4
  <2>3. end[i] = IF Kids(i) = {} THEN BodyEnd(d, i) ELSE end[Max(Kids(i))]
    BY <1>10
  <2> HIDE DEF Kids
  <2> QED
    BY <2>1, <2>2, <2>3
<1> QED
  BY <1>15, <1>16

(* x is where the section of heading n ends: the next heading that is not    *)
(* deeper, or the end of the document.                                      *)
Ends(d, n, x) ==
    /\ n < x /\ x <= Len(d) + 1
    /\ x = Len(d) + 1 \/ (x \in HeadsIn(d) /\ d[x].level <= d[n].level)
    /\ \A j \in HeadsIn(d) : n < j /\ j < x => d[j].level > d[n].level

(* A heading without children reaches to the next heading.                  *)
LEMMA LeafEnds ==
    ASSUME NEW d \in Seq(Block), NEW n \in HeadsIn(d), Children(d, n) = {}
    PROVE  Ends(d, n, BodyEnd(d, n))
<1> DEFINE s == {j \in HeadsIn(d) : j > n} \union {Len(d) + 1}
           x == BodyEnd(d, n)
<1>1. /\ Len(d) \in Nat /\ \A j \in HeadsIn(d) : j \in 1..Len(d) /\ d[j].level \in Int
  BY BlockIs
<1>2. x \in s /\ \A j \in s : x <= j
  <2>1. s \in SUBSET Nat /\ s # {}
    BY <1>1
  <2> HIDE DEF s
  <2> QED
    BY <2>1, MinIs DEF BodyEnd, s
<1>3. ASSUME NEW j \in HeadsIn(d), n < j PROVE ~(j < x)
  <2>1. x <= j
    BY <1>2, <1>3
  <2>2. x \in Int /\ j \in Int
    BY <1>1, <1>2
  <2> QED
    BY <2>1, <2>2
<1>4. ASSUME x \in HeadsIn(d), n < x
      PROVE  d[x].level <= d[n].level
  <2>1. SUFFICES ASSUME d[n].level < d[x].level PROVE FALSE
    BY <1>1, <1>4
  <2> DEFINE above == {j \in HeadsIn(d) : j < x /\ d[j].level < d[x].level}
  <2>2. n \in above
    BY <1>4, <2>1
  <2>3. Parents(d)[x] \in above /\ \A j \in above : j <= Parents(d)[x]
    BY <1>4, <2>2, ParentIsNearest
  <2>4. Parents(d)[x] = n
    <3>1. n <= Parents(d)[x] /\ Parents(d)[x] \in HeadsIn(d) /\ Parents(d)[x] < x
      BY <2>2, <2>3
    <3>2. ~(n < Parents(d)[x])
      BY <1>3, <3>1
    <3>3. Parents(d)[x] \in Int /\ n \in Int
      BY <1>1, <3>1
    <3> QED
      BY <3>1, <3>2, <3>3
  <2>5. x \in DOMAIN Parents(d)
    BY <1>4, ParentsIs
  <2> QED
    BY <2>4, <2>5 DEF Children
<1>5. n < x /\ x <= Len(d) + 1 /\ (x = Len(d) + 1 \/ x \in HeadsIn(d))
  <2>1. \A j \in s : n < j /\ j <= Len(d) + 1 /\ (j = Len(d) + 1 \/ j \in HeadsIn(d))
    BY <1>1
  <2> HIDE DEF s, x
  <2> QED
    BY <1>2, <2>1
<1> HIDE DEF x
<1>6. Ends(d, n, x)
  BY <1>3, <1>4, <1>5 DEF Ends
<1> QED
  BY <1>6 DEF x

(* And one with children to where the last of them ends.                    *)
LEMMA LastChildEnds ==
    ASSUME NEW d \in Seq(Block), NEW n \in HeadsIn(d), NEW k \in Children(d, n),
           \A m \in Children(d, n) : m <= k,
           NEW x, Ends(d, k, x)
    PROVE  Ends(d, n, x)
<1>1. /\ Len(d) \in Nat /\ \A j \in HeadsIn(d) : j \in 1..Len(d) /\ j \in Int /\ d[j].level \in Int
  BY BlockIs
<1>2. /\ k \in HeadsIn(d) /\ n < k /\ d[n].level < d[k].level
      /\ \A j \in HeadsIn(d) : n < j /\ j < k => d[j].level >= d[k].level
  <2>1. n \in Nodes(d) /\ k \in DOMAIN Parents(d) /\ Parents(d)[k] = n
    BY ParentsIs DEF Children
  <2> QED
    BY <2>1, KidsAreBelow
<1>3. /\ k < x /\ x <= Len(d) + 1 /\ x \in Int
      /\ x = Len(d) + 1 \/ (x \in HeadsIn(d) /\ d[x].level <= d[k].level)
      /\ \A j \in HeadsIn(d) : k < j /\ j < x => d[j].level > d[k].level
  <2>1. x \in Int
    BY <1>1 DEF Ends
  <2> QED
    BY <2>1 DEF Ends
<1>4. ASSUME NEW j \in HeadsIn(d), n < j, j < x
      PROVE  d[j].level > d[n].level /\ d[j].level >= d[k].level
  <2>1. j \in Int /\ k \in Int /\ d[j].level \in Int /\ d[k].level \in Int /\ d[n].level \in Int
    BY <1>1, <1>2
  <2>2. d[j].level >= d[k].level
    <3>1. j < k \/ j = k \/ k < j
      BY <2>1
    <3> QED
      BY <1>2, <1>3, <1>4, <2>1, <3>1
  <2> QED
    BY <1>2, <2>1, <2>2
<1>5. ASSUME x \in HeadsIn(d), d[x].level <= d[k].level
      PROVE  d[x].level <= d[n].level
  <2>1. SUFFICES ASSUME d[n].level < d[x].level PROVE FALSE
    BY <1>1, <1>5
  <2>2. /\ x \in Int /\ k \in Int /\ n \in Int
        /\ d[x].level \in Int /\ d[k].level \in Int /\ d[n].level \in Int
    BY <1>1, <1>2, <1>5
  <2> DEFINE above == {j \in HeadsIn(d) : j < x /\ d[j].level < d[x].level}
  <2>3. n \in above
    BY <1>2, <1>3, <2>1, <2>2
  <2>4. Parents(d)[x] \in above /\ \A j \in above : j <= Parents(d)[x]
    BY <1>5, <2>3, ParentIsNearest
  <2>5. Parents(d)[x] = n
    <3> DEFINE p == Parents(d)[x]
    <3>1. n <= p /\ p \in HeadsIn(d) /\ p < x /\ d[p].level < d[x].level
      BY <2>3, <2>4
    <3> HIDE DEF p
    <3>2. p \in Int /\ d[p].level \in Int
      BY <1>1, <3>1
    <3>3. ~(n < p)
      <4>1. SUFFICES ASSUME n < p PROVE FALSE
        OBVIOUS
      <4>2. d[p].level >= d[k].level
        BY <1>4, <3>1, <4>1
      <4> QED
        BY <1>5, <2>2, <3>1, <3>2, <4>2
    <3>4. p = n
      BY <2>2, <3>1, <3>2, <3>3
    <3> QED
      BY <3>4 DEF p
  <2>6. x \in DOMAIN Parents(d)
    BY <1>5, ParentsIs
  <2>7. x \in Children(d, n)
    BY <2>5, <2>6 DEF Children
  <2> QED
    BY <1>3, <2>2, <2>7
<1>6. n < x
  BY <1>1, <1>2, <1>3
<1>7. x = Len(d) + 1 \/ (x \in HeadsIn(d) /\ d[x].level <= d[n].level)
  BY <1>3, <1>5
<1>8. \A j \in HeadsIn(d) : n < j /\ j < x => d[j].level > d[n].level
  BY <1>4
<1> QED
  BY <1>3, <1>6, <1>7, <1>8 DEF Ends

LEMMA SectionEnds ==
    ASSUME NEW d \in Seq(Block)
    PROVE  \A n \in HeadsIn(d) : Ends(d, n, SectionEnd(d, n))
<1>1. PICK end \in [Nodes(d) -> 1..(Len(d) + 1)] :
              \A i \in Nodes(d) :
                /\ SectionEnd(d, i) = end[i]
                /\ Children(d, i) = {} => end[i] = BodyEnd(d, i)
                /\ Children(d, i) # {} =>
                      /\ Max(Children(d, i)) \in Children(d, i)
                      /\ \A k \in Children(d, i) : k <= Max(Children(d, i))
                      /\ end[i] = end[Max(Children(d, i))]
  BY EndsAre
<1> DEFINE T == {k \in Nat : \A i \in HeadsIn(d) : i + k >= Len(d) + 1 => Ends(d, i, end[i])}
<1>2. /\ Len(d) \in Nat
      /\ \A i \in HeadsIn(d) : i \in Int /\ 1 <= i /\ i <= Len(d) /\ i \in Nodes(d)
  <2>1. \A i \in HeadsIn(d) : i \in 1..Len(d) /\ i \in Nodes(d)
    BY BlockIs, ParentsIs
  <2>2. Len(d) \in Nat
    BY BlockIs
  <2> QED
    BY <2>1, <2>2
<1>3. 0 \in T
  BY <1>2
<1>4. ASSUME NEW k \in Nat, k \in T
      PROVE  k + 1 \in T
  <2>1. ASSUME NEW i \in HeadsIn(d), i + (k + 1) >= Len(d) + 1
        PROVE  Ends(d, i, end[i])
    <3>1. CASE Children(d, i) = {}
      BY <1>1, <1>2, <3>1, LeafEnds
    <3>2. CASE Children(d, i) # {}
      <4> DEFINE m == Max(Children(d, i))
      <4>1. m \in Children(d, i) /\ (\A j \in Children(d, i) : j <= m) /\ end[i] = end[m]
        BY <1>1, <1>2, <3>2
      <4> HIDE DEF m
      <4>2. m \in HeadsIn(d) /\ i < m
        <5>1. m \in DOMAIN Parents(d) /\ Parents(d)[m] = i /\ i \in Nodes(d)
          BY <1>2, <4>1 DEF Children
        <5> QED
          BY <5>1, KidsAreBelow
      <4>3. m + k >= Len(d) + 1
        BY <1>2, <2>1, <4>2
      <4>4. Ends(d, m, end[m])
        BY <1>4, <4>2, <4>3
      <4> QED
        BY <4>1, <4>4, LastChildEnds
    <3> QED
      BY <3>1, <3>2
  <2> QED
    BY <2>1
<1> HIDE DEF T
<1>5. Len(d) + 1 \in T
  BY <1>2, <1>3, <1>4, SetInduction
<1>6. ASSUME NEW i \in HeadsIn(d)
      PROVE  Ends(d, i, SectionEnd(d, i))
  <2>1. i + (Len(d) + 1) >= Len(d) + 1
    BY <1>2
  <2>2. Ends(d, i, end[i])
    BY <1>5, <2>1 DEF T
  <2> QED
    BY <1>1, <1>2, <2>2
<1> QED
  BY <1>6

(* The tree the parser builds with a stack is the nesting of the headings,   *)
(* for every document.                                                      *)
Nested(d) ==
    LET up == Parents(d) IN
    \A n \in HeadsIn(d) :
        LET above == {j \in HeadsIn(d) : j < n /\ d[j].level < d[n].level}
            below == {j \in HeadsIn(d) : j > n /\ d[j].level <= d[n].level}
        IN  /\ up[n] = Max(above \union {Root})
            /\ SectionEnd(d, n) = Min(below \union {Len(d) + 1})

THEOREM TreeIsNesting ==
    ASSUME NEW d \in Seq(Block)
    PROVE  Nested(d)
<1>1. /\ Len(d) \in Nat
      /\ \A i \in HeadsIn(d) : i \in 1..Len(d) /\ i \in Int /\ i <= Len(d) /\ d[i].level \in Int
  BY BlockIs
<1>2. ASSUME NEW n \in HeadsIn(d)
      PROVE  SectionEnd(d, n) =
                Min({j \in HeadsIn(d) : j > n /\ d[j].level <= d[n].level} \union {Len(d) + 1})
  <2> DEFINE x == SectionEnd(d, n)
             s == {j \in HeadsIn(d) : j > n /\ d[j].level <= d[n].level} \union {Len(d) + 1}
  <2>1. Ends(d, n, x)
    BY SectionEnds
  <2> HIDE DEF x
  <2>2. s \in SUBSET Int
    BY <1>1
  <2>3. x \in s
    BY <1>1, <2>1 DEF Ends
  <2>4. ASSUME NEW j \in s PROVE x <= j
    <3>1. CASE j = Len(d) + 1
      BY <2>1, <3>1 DEF Ends
    <3>2. CASE j # Len(d) + 1
      <4>1. j \in HeadsIn(d) /\ n < j /\ d[j].level <= d[n].level
        BY <3>2
      <4>2. j \in Int /\ x \in Int /\ d[j].level \in Int /\ d[n].level \in Int
        BY <1>1, <2>2, <2>3, <4>1
      <4>3. ~(j < x)
        BY <2>1, <4>1, <4>2 DEF Ends
      <4> QED
        BY <4>2, <4>3
    <3> QED
      BY <3>1, <3>2
  <2> HIDE DEF s
  <2>5. Min(s) = x
    BY <2>2, <2>3, <2>4, LeastIs
  <2> QED
    BY <2>5 DEF x, s
<1> QED
  BY <1>2, ParentIsNearest DEF Nested

-----------------------------------------------------------------------------
(* ADDRESSES BY INDEX.                                                      *)

(* The siblings before a node.                                              *)
Before(d, n) == {m \in DOMAIN Parents(d) : Parents(d)[m] = Parents(d)[n] /\ m < n}

LEMMA BeforeIsFinite ==
    ASSUME NEW d \in Seq(Block), NEW n \in Nodes(d)
    PROVE  /\ IsFiniteSet(Before(d, n)) /\ Cardinality(Before(d, n)) \in Nat
           /\ n \in Int /\ n \in DOMAIN Parents(d)
<1>1. Len(d) \in Nat /\ DOMAIN Parents(d) = Nodes(d) /\ Nodes(d) \in SUBSET (0..Len(d))
  BY BlockIs, ParentsIs
<1>2. IsFiniteSet(0..Len(d))
  BY <1>1, FS_Interval
<1>3. Before(d, n) \in SUBSET (0..Len(d))
  BY <1>1 DEF Before
<1>4. IsFiniteSet(Before(d, n))
  BY <1>2, <1>3, FS_Subset
<1> QED
  BY <1>1, <1>4, FS_CardinalityType

(* The index of a node is the number of its siblings before it, the preamble *)
(* among them.                                                              *)
LEMMA IndexIsRank ==
    ASSUME NEW d \in Seq(Block), NEW n \in Nodes(d)
    PROVE  IndexOf(d, n) = Cardinality(Before(d, n))
<1> DEFINE others == {m \in Siblings(d, n) \ {0} : m < n}
<1>1. /\ DOMAIN Parents(d) = Nodes(d) /\ Nodes(d) \in SUBSET (0..Len(d))
      /\ \A m \in Nodes(d) : m \in Int /\ m >= 0
      /\ 0 \in Nodes(d) => Parents(d)[0] = Root
  <2>1. DOMAIN Parents(d) = Nodes(d) /\ Nodes(d) \in SUBSET (0..Len(d)) /\ Len(d) \in Nat
    BY BlockIs, ParentsIs
  <2> QED
    BY <2>1, ParentsIs
<1>2. 0 \in Nodes(d) <=> HasPreamble(d)
  <2>1. 0 \notin HeadsIn(d)
    BY ParentsIs
  <2> QED
    BY <2>1 DEF Nodes
<1>3. others = Before(d, n) \ {0}
  BY DEF Before, Siblings, Children
<1>4. IsFiniteSet(Before(d, n)) /\ IsFiniteSet(others) /\ Cardinality(others) \in Nat
  <2>1. IsFiniteSet(Before(d, n))
    BY BeforeIsFinite
  <2>2. others \in SUBSET Before(d, n)
    BY <1>3
  <2> HIDE DEF others
  <2>3. IsFiniteSet(others)
    BY <2>1, <2>2, FS_Subset
  <2> QED
    BY <2>1, <2>3, FS_CardinalityType
<1>5. IndexOf(d, n) = Cardinality(others)
         + (IF n # 0 /\ HasPreamble(d) /\ Parents(d)[n] = Root THEN 1 ELSE 0)
  BY DEF IndexOf
<1> HIDE DEF others
<1>6. 0 \in Before(d, n) <=> n # 0 /\ HasPreamble(d) /\ Parents(d)[n] = Root
  <2>1. n \in Int /\ n >= 0
    BY <1>1
  <2> QED
    BY <1>1, <1>2, <2>1 DEF Before
<1>7. CASE 0 \in Before(d, n)
  <2>1. Before(d, n) = others \union {0} /\ 0 \notin others
    BY <1>3, <1>7
  <2>2. Cardinality(Before(d, n)) = Cardinality(others) + 1
    BY <1>4, <2>1, FS_AddElement
  <2> QED
    BY <1>5, <1>6, <1>7, <2>2
<1>8. CASE 0 \notin Before(d, n)
  <2>1. Before(d, n) = others
    BY <1>3, <1>8
  <2> QED
    BY <1>4, <1>5, <1>6, <1>8, <2>1
<1> QED
  BY <1>7, <1>8

(* Siblings of the same rank are one.                                       *)
LEMMA RanksDiffer ==
    ASSUME NEW d \in Seq(Block), NEW n \in Nodes(d), NEW m \in Nodes(d),
           Parents(d)[n] = Parents(d)[m],
           Cardinality(Before(d, n)) = Cardinality(Before(d, m))
    PROVE  n = m
<1>1. ASSUME NEW a \in Nodes(d), NEW b \in Nodes(d), a < b, Parents(d)[a] = Parents(d)[b]
      PROVE  Cardinality(Before(d, a)) # Cardinality(Before(d, b))
  <2>1. /\ IsFiniteSet(Before(d, b)) /\ a \in Int /\ b \in Int /\ a \in DOMAIN Parents(d)
        /\ \A c \in Nodes(d) : c \in Int
        /\ DOMAIN Parents(d) = Nodes(d)
    BY BeforeIsFinite, ParentsIs
  <2>2. a \in Before(d, b) /\ a \notin Before(d, a)
    BY <1>1, <2>1 DEF Before
  <2>3. Before(d, a) \in SUBSET Before(d, b)
    BY <1>1, <2>1 DEF Before
  <2> QED
    BY <2>1, <2>2, <2>3, FS_Subset
<1>2. n \in Int /\ m \in Int
  BY BeforeIsFinite
<1> QED
  BY <1>1, <1>2

(* The chain of a node: a root first, each node under the one before, and    *)
(* the node itself last.                                                    *)
LEMMA ChainIs ==
    ASSUME NEW d \in Seq(Block), NEW n \in Nodes(d)
    PROVE  LET c == Chain(d, n) IN
           /\ c \in Seq(Nodes(d)) /\ Len(c) \in Nat \ {0} /\ c[Len(c)] = n
           /\ \A i \in 1..Len(c) : Parents(d)[c[i]] = IF i = 1 THEN Root ELSE c[i - 1]
<1> DEFINE c == Chain(d, n)
           open == OpenSections(d)
<1>1. CASE n = 0
  <2>1. c = <<0>> /\ 0 \in Nodes(d) /\ Parents(d)[0] = Root
    BY <1>1, ParentsIs DEF Chain
  <2> HIDE DEF c
  <2>2. c \in Seq(Nodes(d)) /\ Len(c) = 1 /\ c[1] = 0
    BY <2>1
  <2>3. \A i \in 1..Len(c) : i = 1 /\ Parents(d)[c[i]] = Root
    BY <2>1, <2>2
  <2>4. Len(c) \in Nat \ {0} /\ c[Len(c)] = n
    BY <1>1, <2>2
  <2> QED
    BY <2>2, <2>3, <2>4 DEF c
<1>2. CASE n # 0
  <2>1. n \in HeadsIn(d) /\ c = open[n] /\ n \in 0..Len(d) /\ HeadsIn(d) \in SUBSET Nodes(d)
    BY <1>2, ParentsIs, BlockIs DEF Chain
  <2>2. /\ c \in Seq(HeadsIn(d)) /\ Layered(open, c)
        /\ Len(c) \in Nat \ {0} /\ c[Len(c)] = n
    <3>1. StackOf(d, n, open[n]) /\ Layered(open, open[n])
      BY <2>1, OpensIs
    <3>2. Len(open[n]) \in Nat \ {0} /\ open[n][Len(open[n])] = n
      BY <2>1, OpensIs
    <3> QED
      BY <2>1, <3>1, <3>2 DEF StackOf
  <2> HIDE DEF c, open
  <2>3. c \in Seq(Nodes(d))
    BY <2>1, <2>2
  <2>4. ASSUME NEW i \in 1..Len(c)
        PROVE  Parents(d)[c[i]] = IF i = 1 THEN Root ELSE c[i - 1]
    <3> DEFINE s == SubSeq(c, 1, i)
    <3>1. i \in DOMAIN c /\ c[i] \in HeadsIn(d)
      BY <2>2
    <3>2. s = open[c[i]]
      BY <2>2, <3>1 DEF Layered
    <3>3. Len(s) = i /\ \A k \in 1..i : s[k] = c[k]
      BY <2>2
    <3>4. Parents(d)[c[i]] = IF Len(open[c[i]]) = 1 THEN Root ELSE open[c[i]][Len(open[c[i]]) - 1]
      BY <3>1, ParentsIs DEF open
    <3> HIDE DEF s
    <3>5. i # 1 => i - 1 \in 1..i
      BY <2>2
    <3> QED
      BY <3>2, <3>3, <3>4, <3>5
  <2> QED
    BY <2>2, <2>3, <2>4 DEF c
<1> QED
  BY <1>1, <1>2

(* The index path of a node leads to that node and no other.                *)
THEOREM IndexPathResolves ==
    ASSUME NEW d \in Seq(Block), NEW n \in Nodes(d)
    PROVE  Addresses(d, [by |-> "index", at |-> IndexPath(d, n)], n)
<1> DEFINE c == Chain(d, n)
           idx == IndexPath(d, n)
           up == Parents(d)
           before(m) == {k \in DOMAIN up : up[k] = up[m] /\ k < m}
           Eq(f) == f = [i \in 0..Len(idx) |->
                           IF i = 0 THEN {Root}
                           ELSE {m \in DOMAIN up : /\ up[m] \in f[i - 1]
                                                   /\ Cardinality(before(m)) = idx[i]}]
           reached == CHOOSE f : Eq(f)
           w == [i \in 0..Len(c) |-> IF i = 0 THEN {Root} ELSE {c[i]}]
<1>1. /\ c \in Seq(Nodes(d)) /\ Len(c) \in Nat \ {0} /\ c[Len(c)] = n
      /\ \A i \in 1..Len(c) : c[i] \in Nodes(d) /\ up[c[i]] = IF i = 1 THEN Root ELSE c[i - 1]
  <2>1. /\ c \in Seq(Nodes(d)) /\ Len(c) \in Nat \ {0} /\ c[Len(c)] = n
        /\ \A i \in 1..Len(c) : up[c[i]] = IF i = 1 THEN Root ELSE c[i - 1]
    BY ChainIs, Zenon
  <2>2. \A i \in 1..Len(c) : c[i] \in Nodes(d)
    <3> HIDE DEF c, idx, up, Eq, reached, w
    <3> QED
      BY <2>1
  <2> QED
    BY <2>1, <2>2
<1>2. idx = [i \in DOMAIN c |-> IndexOf(d, c[i])]
  BY DEF IndexPath
<1>3. Len(idx) = Len(c) /\ idx # <<>> /\ \A i \in 1..Len(c) : idx[i] = Cardinality(Before(d, c[i]))
  <2> HIDE DEF c, idx
  <2>1. DOMAIN c = 1..Len(c)
    BY <1>1
  <2>2. idx = [i \in 1..Len(c) |-> IndexOf(d, c[i])]
    BY <1>2, <2>1
  <2>3. Len(idx) = Len(c) /\ idx # <<>>
    BY <1>1, <2>2
  <2> QED
    BY <1>1, <2>2, <2>3, IndexIsRank
<1>4. Resolve(d, [by |-> "index", at |-> idx]) = reached[Len(idx)]
  <2>1. AtIndices(d, idx) = reached[Len(idx)]
    <3>1. AtIndices(d, idx) = IF idx = <<>> THEN {} ELSE reached[Len(idx)]
      BY Zenon DEF AtIndices
    <3> HIDE DEF idx, reached
    <3> QED
      BY <1>3, <3>1
  <2>2. Resolve(d, [by |-> "index", at |-> idx]) = AtIndices(d, idx)
    <3> HIDE DEF idx
    <3> QED
      BY DEF Resolve
  <2> QED
    BY <2>1, <2>2
<1>5. \A m : before(m) = Before(d, m)
  BY DEF Before
<1> HIDE DEF c, idx, before
<1>6. DOMAIN up = Nodes(d)
  BY ParentsIs
<1>7. ASSUME NEW i \in 1..Len(c)
      PROVE  w[i] = {m \in DOMAIN up : /\ up[m] \in w[i - 1] /\ Cardinality(before(m)) = idx[i]}
  <2>1. i - 1 \in 0..Len(c) /\ i \in 0..Len(c) /\ i # 0 /\ (i - 1 = 0 <=> i = 1)
    BY <1>1
  <2>2. w[i] = {c[i]} /\ w[i - 1] = {IF i = 1 THEN Root ELSE c[i - 1]}
    BY <2>1
  <2> HIDE DEF w, up
  <2>3. w[i - 1] = {up[c[i]]} /\ c[i] \in Nodes(d) /\ idx[i] = Cardinality(Before(d, c[i]))
    BY <1>1, <1>3, <2>2
  <2>4. ASSUME NEW m \in DOMAIN up, up[m] \in w[i - 1], Cardinality(before(m)) = idx[i]
        PROVE  m = c[i]
    <3>1. m \in Nodes(d) /\ up[m] = up[c[i]]
      BY <1>6, <2>3, <2>4
    <3>2. Cardinality(Before(d, m)) = Cardinality(Before(d, c[i]))
      BY <1>5, <2>3, <2>4
    <3> QED
      BY <2>3, <3>1, <3>2, RanksDiffer DEF up
  <2> QED
    BY <1>5, <1>6, <2>2, <2>3, <2>4
<1>8. Eq(w)
  <2>1. w[0] = {Root} /\ \A i \in 0..Len(c) : i # 0 => i \in 1..Len(c)
    BY <1>1
  <2>2. w = [i \in 0..Len(c) |-> w[i]]
    OBVIOUS
  <2> HIDE DEF w
  <2> QED
    BY <1>3, <1>7, <2>1, <2>2
<1>9. Eq(reached)
  BY <1>8, Zenon
<1> HIDE DEF reached
<1>10. /\ reached[0] = {Root}
       /\ \A i \in 1..Len(c) :
            reached[i] = {m \in DOMAIN up : /\ up[m] \in reached[i - 1]
                                            /\ Cardinality(before(m)) = idx[i]}
  <2>1. 0 \in 0..Len(idx) /\ \A i \in 1..Len(c) : i \in 0..Len(idx) /\ i # 0
    BY <1>1, <1>3
  <2> QED
    BY <1>9, <2>1
<1> DEFINE T == {k \in Nat : k <= Len(c) => reached[k] = w[k]}
<1>11. 0 \in T
  <2>1. w[0] = {Root}
    BY <1>1
  <2> HIDE DEF w
  <2> QED
    BY <1>10, <2>1
<1>12. ASSUME NEW k \in Nat, k \in T PROVE k + 1 \in T
  <2> HIDE DEF w
  <2>1. SUFFICES ASSUME k + 1 <= Len(c) PROVE reached[k + 1] = w[k + 1]
    OBVIOUS
  <2>2. k + 1 \in 1..Len(c) /\ (k + 1) - 1 = k /\ reached[k] = w[k]
    BY <1>1, <1>12, <2>1
  <2> QED
    BY <1>7, <1>10, <2>2
<1>13. reached[Len(c)] = {n}
  <2> HIDE DEF T, w
  <2>1. Len(c) \in T
    BY <1>1, <1>11, <1>12, SetInduction
  <2>2. reached[Len(c)] = w[Len(c)]
    BY <1>1, <2>1 DEF T
  <2>3. w[Len(c)] = {c[Len(c)]}
    BY <1>1 DEF w
  <2> QED
    BY <1>1, <2>2, <2>3
<1> QED
  BY <1>3, <1>4, <1>13 DEF Addresses, idx

-----------------------------------------------------------------------------
(* THE OPERATIONS LEAVE BLOCKS.                                             *)

LEMMA BlockParts ==
    /\ \A b \in Block : /\ b.level \in 0..6 /\ b.text \in Seq(Vocabulary) /\ b.id \in Ids
                        /\ b.level = 0 => b.id = NoId
                        /\ b = [level |-> b.level, text |-> b.text, id |-> b.id]
    /\ \A l \in 0..6, t \in Seq(Vocabulary), a \in Ids :
            (l = 0 => a = NoId) => [level |-> l, text |-> t, id |-> a] \in Block
    /\ NoId \in Ids
<1>1. NoId \in Ids
  BY DEF Ids
<1> HIDE DEF Ids
<1> QED
  BY <1>1 DEF Block

LEMMA BlocksMade ==
    /\ \A t \in Seq(Vocabulary) : Body(t) \in Block
    /\ \A l \in Int, t \in Seq(Vocabulary), a \in Ids : Rendered(l, t, a) \in Block
<1>1. ASSUME NEW t \in Seq(Vocabulary) PROVE Body(t) \in Block
  BY BlockParts DEF Body
<1>2. ASSUME NEW l \in Int, NEW t \in Seq(Vocabulary), NEW a \in Ids
      PROVE  Rendered(l, t, a) \in Block
  BY <1>1, BlockParts DEF Rendered, Heading
<1> QED
  BY <1>1, <1>2

LEMMA BlockChanged ==
    ASSUME NEW b \in Block
    PROVE  /\ \A x : [b EXCEPT !.id = x] = [level |-> b.level, text |-> b.text, id |-> x]
           /\ \A x : [b EXCEPT !.text = x] = [level |-> b.level, text |-> x, id |-> b.id]
           /\ \A x : [b EXCEPT !.level = x] = [level |-> x, text |-> b.text, id |-> b.id]
<1> DEFINE R == [level : 0..6, text : Seq(Vocabulary), id : Ids]
<1>1. b \in R
  BY DEF Block
<1>2. ASSUME NEW x PROVE [b EXCEPT !.id = x] = [level |-> b.level, text |-> b.text, id |-> x]
  BY <1>1
<1>3. ASSUME NEW x PROVE [b EXCEPT !.text = x] = [level |-> b.level, text |-> x, id |-> b.id]
  BY <1>1
<1>4. ASSUME NEW x PROVE [b EXCEPT !.level = x] = [level |-> x, text |-> b.text, id |-> b.id]
  BY <1>1
<1> QED
  BY <1>2, <1>3, <1>4

LEMMA JoinIs ==
    ASSUME NEW S, NEW a \in Seq(S), NEW b \in Seq(S)
    PROVE  a \o b \in Seq(S)
  OBVIOUS

LEMMA SliceIs ==
    ASSUME NEW S, NEW d \in Seq(S), NEW from \in 1..(Len(d) + 1), NEW to \in 0..(Len(d) + 1)
    PROVE  /\ Slice(d, from, to) \in Seq(S)
           /\ Len(Slice(d, from, to)) = IF from <= to THEN to - from ELSE 0
           /\ \A i \in 1..Len(Slice(d, from, to)) : Slice(d, from, to)[i] = d[from + i - 1]
<1>1. Len(d) \in Nat
  OBVIOUS
<1> QED
  BY <1>1 DEF Slice

(* Where the operations cut is in the document.                             *)
LEMMA PlacesIn ==
    ASSUME NEW d \in Seq(Block), NEW n \in Nodes(d)
    PROVE  /\ Len(d) \in Nat /\ n \in 0..Len(d)
           /\ Start(d, n) \in 1..(Len(d) + 1) /\ BodyStart(d, n) \in 1..(Len(d) + 1)
           /\ BodyEnd(d, n) \in 1..(Len(d) + 1) /\ SectionEnd(d, n) \in 1..(Len(d) + 1)
           /\ \A c : ReplaceEnd(d, n, c) \in 1..(Len(d) + 1)
           /\ \A p : InsertAtPos(d, n, p) \in 1..(Len(d) + 1)
           /\ Level(d, n) \in 0..6 /\ \A p : DestLevel(d, n, p) \in Int
           /\ n # 0 => n \in HeadsIn(d) /\ d[n] \in Block /\ d[n].level > 0
<1>1. /\ Len(d) \in Nat /\ n \in 0..Len(d)
      /\ n # 0 => n \in HeadsIn(d) /\ d[n] \in Block /\ d[n].level > 0 /\ d[n].level \in 0..6
  <2>1. n \in 0..Len(d) /\ (n # 0 => n \in HeadsIn(d))
    BY ParentsIs
  <2>2. \A i \in HeadsIn(d) : i \in 1..Len(d) /\ d[i].level > 0
    BY BlockIs
  <2> QED
    BY <2>1, <2>2, BlockIs
<1>2. Start(d, n) \in 1..(Len(d) + 1) /\ BodyStart(d, n) \in 1..(Len(d) + 1)
  BY <1>1 DEF Start, BodyStart
<1>3. SectionEnd(d, n) \in 1..(Len(d) + 1)
  BY EndsAre
<1>4. BodyEnd(d, n) \in 1..(Len(d) + 1)
  <2> DEFINE s == {j \in HeadsIn(d) : j > n} \union {Len(d) + 1}
  <2>1. \A j \in HeadsIn(d) : j \in 1..Len(d)
    BY BlockIs
  <2>2. s \in SUBSET (1..(Len(d) + 1)) /\ s \in SUBSET Nat /\ s # {}
    BY <1>1, <2>1
  <2> HIDE DEF s
  <2>3. Min(s) \in s
    BY <2>2, MinIs
  <2> QED
    BY <2>2, <2>3 DEF BodyEnd, s
<1>5. Level(d, n) \in 0..6 /\ \A p : DestLevel(d, n, p) \in Int
  BY <1>1 DEF Level, DestLevel
<1>6. \A c : ReplaceEnd(d, n, c) \in 1..(Len(d) + 1)
  BY <1>3, <1>4 DEF ReplaceEnd
<1>7. ASSUME NEW p PROVE InsertAtPos(d, n, p) \in 1..(Len(d) + 1)
  <2>1. \/ InsertAtPos(d, n, p) = Start(d, n) \/ InsertAtPos(d, n, p) = BodyStart(d, n)
        \/ InsertAtPos(d, n, p) = SectionEnd(d, n)
    BY DEF InsertAtPos
  <2> QED
    BY <1>2, <1>3, <2>1
<1> QED
  BY <1>1, <1>2, <1>3, <1>4, <1>5, <1>6, <1>7

LEMMA FirstHeadIn ==
    ASSUME NEW c \in Seq(Block)
    PROVE  /\ Len(c) \in Nat /\ FirstHead(c) \in 1..(Len(c) + 1)
           /\ FirstHead(c) <= Len(c) => FirstHead(c) \in AtxIn(c) /\ FirstHead(c) \in HeadsIn(c)
                                      /\ FirstHead(c) \in DOMAIN c
<1> DEFINE s == AtxIn(c) \union {Len(c) + 1}
<1>1. Len(c) \in Nat /\ DOMAIN c = 1..Len(c) /\ \A j \in AtxIn(c) : j \in HeadsIn(c) /\ j \in 1..Len(c)
  BY BlockIs DEF AtxIn
<1>2. s \in SUBSET (1..(Len(c) + 1)) /\ s \in SUBSET Nat /\ s # {}
  BY <1>1
<1> HIDE DEF s
<1>3. FirstHead(c) \in s
  BY <1>2, MinIs DEF FirstHead, s
<1> QED
  BY <1>1, <1>2, <1>3 DEF s

LEMMA RemoveAtIs ==
    ASSUME NEW S, NEW c \in Seq(S), NEW i \in 1..Len(c)
    PROVE  RemoveAt(c, i) \in Seq(S)
<1>1. Len(c) \in Nat
  OBVIOUS
<1> QED
  BY <1>1 DEF RemoveAt

LEMMA StrippedTyped ==
    ASSUME NEW c \in Seq(Block), NEW t
    PROVE  Stripped(c, t) \in Seq(Block)
<1>1. Repeats(c, t) => FirstHead(c) \in 1..Len(c)
  BY FirstHeadIn DEF Repeats
<1> HIDE DEF Block
<1> QED
  BY <1>1, RemoveAtIs DEF Stripped

LEMMA ReplaceTyped ==
    ASSUME NEW d \in Seq(Block), NEW n \in Nodes(d), NEW c \in Seq(Block)
    PROVE  /\ ReplaceBody(d, n, c) \in Seq(Block)
           /\ ReplaceWhole(d, n, c) \in Seq(Block)
           /\ AppendBody(d, n, c) \in Seq(Block)
           /\ DeleteNode(d, n) \in Seq(Block)
<1> DEFINE L == Len(d) + 1
<1>0. /\ \A f \in 1..L, t \in 1..L : Slice(d, f, t) \in Seq(Block)
      /\ 1 \in 1..L /\ L \in 1..L
      /\ Start(d, n) \in 1..L /\ BodyStart(d, n) \in 1..L /\ BodyEnd(d, n) \in 1..L
      /\ SectionEnd(d, n) \in 1..L /\ \A e : ReplaceEnd(d, n, e) \in 1..L
  <2>1. Len(d) \in Nat
    BY PlacesIn
  <2>2. ASSUME NEW f \in 1..L, NEW t \in 1..L
        PROVE  Slice(d, f, t) \in Seq(Block)
    BY <2>1, SliceIs
  <2>3. 1 \in 1..L /\ L \in 1..L
    BY <2>1
  <2>4. /\ Start(d, n) \in 1..L /\ BodyStart(d, n) \in 1..L /\ BodyEnd(d, n) \in 1..L
        /\ SectionEnd(d, n) \in 1..L /\ \A e : ReplaceEnd(d, n, e) \in 1..L
    BY PlacesIn
  <2> HIDE DEF L
  <2> QED
    BY <2>2, <2>3, <2>4
<1> HIDE DEF L
<1>1. ReplaceBody(d, n, c) \in Seq(Block)
  <2> DEFINE new == Stripped(c, Title(d, n))
             a == Slice(d, 1, BodyStart(d, n))
             b == Slice(d, ReplaceEnd(d, n, new), L)
  <2>1. new \in Seq(Block) /\ a \in Seq(Block) /\ b \in Seq(Block)
    BY <1>0, StrippedTyped
  <2>2. ReplaceBody(d, n, c) = a \o new \o b
    BY DEF ReplaceBody, L
  <2> HIDE DEF new, a, b
  <2> QED
    BY <2>1, <2>2, JoinIs
<1>2. WithAnchorOf(d, n, c) \in Seq(Block)
  <2> DEFINE f == FirstHead(c)
  <2>1. SUFFICES ASSUME f <= Len(c), n # 0, c[f].id = NoId
                 PROVE  [c EXCEPT ![f].id = d[n].id] \in Seq(Block)
    BY DEF WithAnchorOf
  <2>2. f \in HeadsIn(c) /\ f \in DOMAIN c /\ c[f] \in Block /\ c[f].level > 0
    <3>1. f \in HeadsIn(c) /\ f \in DOMAIN c
      BY <2>1, FirstHeadIn
    <3> QED
      BY <3>1, BlockIs
  <2>3. d[n].id \in Ids
    BY <2>1, PlacesIn, BlockParts
  <2>4. [c[f] EXCEPT !.id = d[n].id] \in Block
    <3>1. [c[f] EXCEPT !.id = d[n].id] = [level |-> c[f].level, text |-> c[f].text, id |-> d[n].id]
      BY <2>2, BlockChanged
    <3>2. c[f].level \in 0..6 /\ c[f].text \in Seq(Vocabulary) /\ c[f].level # 0
      BY <2>2, BlockParts
    <3> QED
      BY <2>3, <3>1, <3>2, BlockParts
  <2>5. [c EXCEPT ![f].id = d[n].id] = [c EXCEPT ![f] = [c[f] EXCEPT !.id = d[n].id]]
    BY <2>2
  <2> HIDE DEF f
  <2> QED
    BY <2>2, <2>4, <2>5
<1>3. ReplaceWhole(d, n, c) \in Seq(Block)
  <2> DEFINE a1 == Slice(d, 1, Start(d, n))
             b1 == Slice(d, ReplaceEnd(d, n, Tail(c)), L)
             a2 == Slice(d, 1, BodyStart(d, n))
             b2 == Slice(d, ReplaceEnd(d, n, c), L)
             w  == WithAnchorOf(d, n, c)
  <2>1. /\ a1 \in Seq(Block) /\ b1 \in Seq(Block) /\ a2 \in Seq(Block) /\ b2 \in Seq(Block)
        /\ w \in Seq(Block)
    BY <1>0, <1>2
  <2>2. ReplaceWhole(d, n, c) = IF StartsWithHash(c) THEN a1 \o w \o b1 ELSE a2 \o c \o b2
    BY DEF ReplaceWhole, L
  <2> HIDE DEF a1, b1, a2, b2, w
  <2> QED
    BY <2>1, <2>2, JoinIs
<1>4. AppendBody(d, n, c) \in Seq(Block)
  <2> DEFINE a == Slice(d, 1, BodyEnd(d, n))
             b == Slice(d, BodyEnd(d, n), L)
  <2>1. a \in Seq(Block) /\ b \in Seq(Block)
    BY <1>0
  <2>2. AppendBody(d, n, c) = a \o c \o b
    BY DEF AppendBody, L
  <2> HIDE DEF a, b
  <2> QED
    BY <2>1, <2>2, JoinIs
<1>5. DeleteNode(d, n) \in Seq(Block)
  <2> DEFINE a == Slice(d, 1, Start(d, n))
             b == Slice(d, SectionEnd(d, n), L)
  <2>1. a \in Seq(Block) /\ b \in Seq(Block)
    BY <1>0
  <2>2. DeleteNode(d, n) = a \o b
    BY DEF DeleteNode, L
  <2> HIDE DEF a, b
  <2> QED
    BY <2>1, <2>2, JoinIs
<1> QED
  BY <1>1, <1>3, <1>4, <1>5

LEMMA RenameTyped ==
    ASSUME NEW d \in Seq(Block), NEW n \in Nodes(d), n # 0,
           NEW t \in Seq(Vocabulary), NEW a \in Ids
    PROVE  RenameHeading(d, n, t, a) \in Seq(Block)
<1>1. n \in DOMAIN d /\ d[n] \in Block /\ d[n].level > 0
  BY PlacesIn, BlockIs
<1>2. d[n].id \in Ids /\ d[n] = [level |-> d[n].level, text |-> d[n].text, id |-> d[n].id]
      /\ d[n].level \in 0..6
  BY <1>1, BlockParts
<1> DEFINE b == [level |-> d[n].level, text |-> t, id |-> IF a = NoId THEN d[n].id ELSE a]
<1>3. b \in Block
  <2>1. (IF a = NoId THEN d[n].id ELSE a) \in Ids /\ d[n].level # 0
    BY <1>1, <1>2
  <2> DEFINE x == IF a = NoId THEN d[n].id ELSE a
  <2>2. x \in Ids
    BY <2>1
  <2> HIDE DEF x
  <2>3. [level |-> d[n].level, text |-> t, id |-> x] \in Block
    BY <1>2, <2>1, <2>2, BlockParts
  <2> QED
    BY <2>3 DEF x
<1>4. RenameHeading(d, n, t, a) = [d EXCEPT ![n] = b]
  BY DEF RenameHeading, Heading
<1> HIDE DEF b
<1> QED
  BY <1>1, <1>3, <1>4

LEMMA IdsAreFinite ==
    ASSUME NEW d \in Seq(Block)
    PROVE  IsFiniteSet(IdsIn(d)) /\ IdsIn(d) \in SUBSET (Ids \ {NoId})
<1> DEFINE S == HeadsIn(d)
           T == {d[i].id : i \in S}
           f == [i \in S |-> d[i].id]
<1>1. S \in SUBSET (1..Len(d)) /\ Len(d) \in Nat /\ \A i \in S : d[i].id \in Ids
  <2>1. \A i \in S : i \in 1..Len(d) /\ d[i] \in Block
    BY BlockIs
  <2> QED
    BY <2>1, BlockIs, BlockParts
<1>2. IsFiniteSet(S)
  <2>1. IsFiniteSet(1..Len(d))
    BY <1>1, FS_Interval
  <2> QED
    BY <1>1, <2>1, FS_Subset
<1> HIDE DEF S
<1>3. f \in Surjection(S, T)
  BY DEF Surjection
<1> HIDE DEF f
<1>4. IsFiniteSet(T)
  BY <1>2, <1>3, FS_Surjection
<1>5. T \in SUBSET Ids
  BY <1>1
<1>6. IdsIn(d) = T \ {NoId}
  BY DEF IdsIn, S
<1> HIDE DEF T
<1> QED
  BY <1>4, <1>5, <1>6, FS_Subset

(* There is always a free number for a slug.                                *)
LEMMA FreshIdIsFree ==
    ASSUME NEW t \in Seq(Vocabulary), NEW taken, IsFiniteSet(taken)
    PROVE  FreshId(t, taken) \in Ids /\ FreshId(t, taken) \notin taken
           /\ FreshId(t, taken) # NoId
<1> DEFINE N == Cardinality(taken)
           S == 1..(N + 1)
           free == {k \in S : <<t, k>> \notin taken}
           f == [k \in S |-> <<t, k>>]
<1>1. N \in Nat
  BY FS_CardinalityType
<1>2. free # {}
  <2>1. SUFFICES ASSUME \A k \in S : <<t, k>> \in taken PROVE FALSE
    OBVIOUS
  <2>2. f \in [S -> taken]
    BY <2>1
  <2>3. IsFiniteSet(S) /\ Cardinality(S) = N + 1
    <3> DEFINE M == N + 1
    <3>1. M \in Int /\ 1 \in Int /\ ~(1 > M) /\ M - 1 + 1 = N + 1
      BY <1>1
    <3> HIDE DEF M, N
    <3>2. IsFiniteSet(1..M) /\ Cardinality(1..M) = M - 1 + 1
      BY <3>1, FS_Interval
    <3> QED
      BY <3>1, <3>2 DEF M
  <2>4. \A x, y \in S : x # y => f[x] # f[y]
    OBVIOUS
  <2>5. Cardinality(taken) < Cardinality(S)
    BY <1>1, <2>3
  <2> HIDE DEF f, S
  <2> QED
    BY <2>2, <2>3, <2>4, <2>5, FS_PigeonHole
<1>3. free \in SUBSET Nat
  BY <1>1
<1>4. Min(free) \in free
  <2> HIDE DEF free
  <2> QED
    BY <1>2, <1>3, MinIs
<1>5. FreshId(t, taken) = <<t, Min(free)>>
  BY DEF FreshId
<1>6. <<t, Min(free)>> \notin taken /\ Min(free) \in Nat
  BY <1>3, <1>4
<1> HIDE DEF free
<1> QED
  BY <1>5, <1>6 DEF Ids, NoId

LEMMA InsertTyped ==
    ASSUME NEW d \in Seq(Block), NEW n \in Nodes(d), NEW p, NEW t \in Seq(Vocabulary),
           NEW c \in Seq(Block), NEW l \in Int
    PROVE  InsertNode(d, n, p, t, c, l) \in Seq(Block)
<1> DEFINE at == InsertAtPos(d, n, p)
           lev == IF l = 0 THEN DestLevel(d, n, p) ELSE l
           new == Rendered(lev, t, NewId(d, t, c))
           a == Slice(d, 1, at)
           b == Slice(d, at, Len(d) + 1)
           s == Stripped(c, t)
<1>1. NewId(d, t, c) \in Ids
  <2>1. CASE KeepsId(d, t, c)
    <3>1. FirstHead(c) \in HeadsIn(c)
      BY <2>1, FirstHeadIn DEF KeepsId, Repeats
    <3>2. c[FirstHead(c)] \in Block
      BY <3>1, BlockIs
    <3> QED
      BY <2>1, <3>2, BlockParts DEF NewId
  <2>2. CASE ~KeepsId(d, t, c)
    BY <2>2, FreshIdIsFree, IdsAreFinite DEF NewId
  <2> QED
    BY <2>1, <2>2
<1>2. new \in Block
  <2>1. lev \in Int
    BY PlacesIn
  <2> HIDE DEF lev
  <2> QED
    BY <1>1, <2>1, BlocksMade
<1>3. a \in Seq(Block) /\ b \in Seq(Block) /\ s \in Seq(Block)
  <2>1. at \in 1..(Len(d) + 1) /\ Len(d) \in Nat
    BY PlacesIn
  <2> HIDE DEF at
  <2> QED
    BY <2>1, SliceIs, StrippedTyped
<1>4. InsertNode(d, n, p, t, c, l) = a \o <<new>> \o s \o b
  BY DEF InsertNode
<1> HIDE DEF a, b, s, new
<1>5. <<new>> \in Seq(Block)
  BY <1>2
<1> QED
  BY <1>3, <1>4, <1>5, JoinIs

(* Moving: the section to move is on no chain of the place it goes to, so    *)
(* that place is not inside it.                                             *)
LEMMA PlaceIsOutside ==
    ASSUME NEW d \in Seq(Block), NEW n \in Nodes(d), NEW m \in Nodes(d), NEW p,
           n \notin Range(Chain(d, m)), Start(d, n) < InsertAtPos(d, m, p)
    PROVE  /\ SectionEnd(d, n) <= InsertAtPos(d, m, p)
           /\ p = "child_start" => SectionEnd(d, n) <= m
<1> DEFINE at == InsertAtPos(d, m, p)
<1>1. /\ Len(d) \in Nat /\ n \in Int /\ m \in Int /\ 0 <= n /\ 0 <= m /\ at \in Int
      /\ \A i \in HeadsIn(d) : i \in Int /\ i > 0 /\ d[i].level \in Int
      /\ n # 0 => n \in HeadsIn(d) /\ Start(d, n) = n
      /\ m # 0 => m \in HeadsIn(d) /\ Start(d, m) = m /\ BodyStart(d, m) = m + 1
      /\ SectionEnd(d, n) \in Int /\ SectionEnd(d, m) \in Int
  <2>1. \A i \in HeadsIn(d) : i \in 1..Len(d) /\ d[i].level \in Int
    BY BlockIs
  <2> QED
    BY <2>1, PlacesIn DEF Start, BodyStart
<1>2. /\ at = Start(d, m) \/ at = BodyStart(d, m) \/ at = SectionEnd(d, m)
      /\ p = "child_start" => at = BodyStart(d, m)
  BY DEF InsertAtPos
<1>3. n # m
  <2>1. Chain(d, m) \in Seq(Nodes(d)) /\ Len(Chain(d, m)) \in Nat \ {0}
        /\ Chain(d, m)[Len(Chain(d, m))] = m
    BY ChainIs
  <2>2. Len(Chain(d, m)) \in DOMAIN Chain(d, m)
    BY <2>1
  <2> QED
    BY <2>1, <2>2 DEF Range
<1>4. ASSUME NEW h \in HeadsIn(d), SectionEnd(d, n) <= h, h = m
      PROVE  SectionEnd(d, n) <= at /\ (p = "child_start" => SectionEnd(d, n) <= m)
  <2>1. m # 0 /\ m < SectionEnd(d, m)
    BY <1>1, <1>4, SectionEnds DEF Ends
  <2>2. m <= at
    BY <1>1, <1>2, <2>1
  <2> QED
    BY <1>1, <1>4, <2>2
<1> DEFINE first == {j \in HeadsIn(d) : j > 0} \union {Len(d) + 1}
<1>5. 0 \in Nodes(d) => SectionEnd(d, 0) = BodyEnd(d, 0)
                        /\ \A h \in HeadsIn(d) : SectionEnd(d, 0) <= h
  <2>1. SUFFICES ASSUME 0 \in Nodes(d)
                 PROVE  SectionEnd(d, 0) = BodyEnd(d, 0) /\ \A h \in HeadsIn(d) : SectionEnd(d, 0) <= h
    OBVIOUS
  <2>2. Children(d, 0) = {}
    <3>1. ASSUME NEW k \in DOMAIN Parents(d), Parents(d)[k] = 0 PROVE FALSE
      <4>1. 0 \in HeadsIn(d)
        BY <2>1, <3>1, KidsAreBelow
      <4> QED
        BY <1>1, <4>1
    <3> QED
      BY <3>1 DEF Children
  <2>3. SectionEnd(d, 0) = BodyEnd(d, 0)
    BY <2>1, <2>2, EndsAre
  <2>4. first \in SUBSET Nat /\ first # {} /\ \A h \in HeadsIn(d) : h \in first
    BY <1>1
  <2> HIDE DEF first
  <2>5. \A h \in first : Min(first) <= h
    BY <2>4, MinIs
  <2>6. BodyEnd(d, 0) = Min(first)
    BY DEF BodyEnd, first
  <2> QED
    BY <2>3, <2>4, <2>5, <2>6
<1>6. CASE n = 0
  BY <1>1, <1>3, <1>4, <1>5, <1>6
<1>7. CASE m = 0
  <2>1. n \in HeadsIn(d) /\ Start(d, n) = n /\ SectionEnd(d, 0) <= n
    BY <1>1, <1>3, <1>5, <1>7
  <2>2. Start(d, 0) = 1 /\ BodyStart(d, 0) = 1 /\ n >= 1
    BY <1>1, <2>1 DEF Start, BodyStart
  <2>3. at <= n
    BY <1>1, <1>2, <1>7, <2>1, <2>2
  <2> QED
    BY <1>1, <2>1, <2>3
<1>8. CASE n # 0 /\ m # 0 /\ m < n
  <2> DEFINE en == SectionEnd(d, n)
             em == SectionEnd(d, m)
  <2>1. at = em /\ n < em /\ p # "child_start"
    BY <1>1, <1>2, <1>8
  <2>2. Ends(d, m, em) /\ Ends(d, n, en) /\ n \in HeadsIn(d) /\ m \in HeadsIn(d)
    BY <1>1, <1>8, SectionEnds
  <2> HIDE DEF en, em
  <2>3. em \in Int /\ en \in Int
    BY <1>1 DEF em, en
  <2>4. d[n].level > d[m].level
    BY <1>8, <2>1, <2>2 DEF Ends
  <2>5. ~(em < en)
    <3>1. SUFFICES ASSUME em < en PROVE FALSE
      OBVIOUS
    <3>2. em \in HeadsIn(d) /\ d[em].level <= d[m].level
      <4>1. em # Len(d) + 1
        BY <1>1, <2>2, <2>3, <3>1 DEF Ends
      <4> QED
        BY <2>2, <4>1 DEF Ends
    <3>3. d[em].level > d[n].level
      BY <2>1, <2>2, <3>1, <3>2 DEF Ends
    <3> QED
      BY <1>1, <2>2, <2>4, <3>2, <3>3
  <2>6. en <= at
    BY <2>1, <2>3, <2>5
  <2> QED
    BY <2>1, <2>6 DEF en
<1>9. CASE n # 0 /\ m # 0 /\ n < m
  <2> DEFINE en == SectionEnd(d, n)
             s == Chain(d, m)
  <2>1. n \in HeadsIn(d) /\ m \in HeadsIn(d) /\ Ends(d, n, en) /\ en \in Int
    BY <1>1, <1>9, SectionEnds
  <2>2. ~(m < en)
    <3>1. SUFFICES ASSUME m < en PROVE FALSE
      OBVIOUS
    <3>2. s = OpenSections(d)[m] /\ m \in 0..Len(d)
      BY <1>9, PlacesIn DEF Chain
    <3>3. StackOf(d, m, s)
      BY <3>2, OpensIs
    <3>4. PICK k \in DOMAIN s : s[k] >= n /\ d[s[k]].level <= d[n].level /\ s[k] <= m
      <4>1. n <= m
        BY <1>1, <1>9
      <4> HIDE DEF s
      <4> QED
        BY <2>1, <3>3, <4>1 DEF StackOf
    <3>5. s[k] \in HeadsIn(d)
      <4>1. s \in Seq(HeadsIn(d))
        BY <3>3 DEF StackOf
      <4> HIDE DEF s
      <4> QED
        BY <3>4, <4>1
    <3>6. s[k] = n
      <4> DEFINE x == s[k]
      <4>1. x \in Int /\ d[x].level \in Int /\ d[n].level \in Int /\ x >= n /\ x <= m
            /\ d[x].level <= d[n].level /\ x \in HeadsIn(d)
        BY <1>1, <2>1, <3>4, <3>5
      <4> HIDE DEF x, en
      <4>2. n < x => d[x].level > d[n].level
        BY <1>1, <2>1, <3>1, <4>1 DEF Ends
      <4>3. x = n
        BY <1>1, <4>1, <4>2
      <4> QED
        BY <4>3 DEF x
    <3> QED
      BY <3>4, <3>6 DEF Range
  <2>3. SectionEnd(d, n) <= m
    BY <1>1, <2>1, <2>2
  <2> QED
    BY <1>4, <2>1, <2>3
<1> QED
  BY <1>1, <1>3, <1>6, <1>7, <1>8, <1>9

(* Two lines that became one.                                               *)
LEMMA GluedTyped ==
    ASSUME NEW b \in Block, NEW f \in Block
    PROVE  Glued(b, f) \in Block /\ Glued(b, f).id \in {f.id, NoId}
<1> DEFINE l == b.level
           t == b.text
           u == f.text
           i == f.id
           w == t \o <<"+">> \o u
           v == w \o (IF i = NoId THEN <<>> ELSE <<"^">>)
<1>1. l \in 0..6 /\ t \in Seq(Vocabulary) /\ u \in Seq(Vocabulary) /\ i \in Ids
  BY BlockParts
<1>2. Glued(b, f) = IF l > 0 THEN Heading(l, w, i) ELSE Body(v)
  BY DEF Glued
<1> HIDE DEF l, t, u, i
<1>3. w \in Seq(Vocabulary) /\ v \in Seq(Vocabulary)
  <2>1. <<"+">> \in Seq(Vocabulary) /\ <<"^">> \in Seq(Vocabulary) /\ <<>> \in Seq(Vocabulary)
    BY DEF Vocabulary
  <2>2. w \in Seq(Vocabulary)
    BY <1>1, <2>1, JoinIs
  <2> HIDE DEF w
  <2>3. (IF i = NoId THEN <<>> ELSE <<"^">>) \in Seq(Vocabulary)
    BY <2>1
  <2> QED
    BY <2>2, <2>3, JoinIs
<1> HIDE DEF w, v
<1>4. CASE l > 0
  <2>1. Glued(b, f) = [level |-> l, text |-> w, id |-> i]
    BY <1>2, <1>4 DEF Heading
  <2>2. [level |-> l, text |-> w, id |-> i] \in Block
    BY <1>1, <1>3, <1>4, BlockParts
  <2> QED
    BY <2>1, <2>2 DEF i
<1>5. CASE ~(l > 0)
  <2>1. Glued(b, f) = Body(v)
    BY <1>2, <1>5
  <2>2. Body(v).id = NoId
    BY DEF Body
  <2>3. Body(v) \in Block
    BY <1>3, BlocksMade
  <2> QED
    BY <2>1, <2>2, <2>3
<1> QED
  BY <1>4, <1>5

LEMMA SplicedTyped ==
    ASSUME NEW e \in Seq(Block), NEW at \in 1..(Len(e) + 1), NEW s \in Seq(Block), NEW glue,
           glue => at - 1 \in 1..Len(e)
    PROVE  Spliced(e, at, s, glue) \in Seq(Block)
<1>1. Len(e) \in Nat /\ at \in 1..(Len(e) + 1) /\ Len(e) + 1 \in 1..(Len(e) + 1)
  OBVIOUS
<1>2. CASE glue /\ s # <<>>
  <2> DEFINE a == Slice(e, 1, at - 1)
             g == Glued(e[at - 1], s[1])
             b == Slice(e, at, Len(e) + 1)
  <2>1. at - 1 \in 0..(Len(e) + 1) /\ 1 \in 1..(Len(e) + 1)
    BY <1>1
  <2>2. a \in Seq(Block) /\ b \in Seq(Block)
    <3>1. a \in Seq(Block)
      BY <2>1, SliceIs, Zenon
    <3>2. Len(e) + 1 \in 0..(Len(e) + 1)
      BY <1>1
    <3>3. b \in Seq(Block)
      BY <1>1, <3>2, SliceIs, Zenon
    <3> QED
      BY <3>1, <3>3
  <2>3. e[at - 1] \in Block /\ s[1] \in Block /\ Tail(s) \in Seq(Block)
    <3> HIDE DEF Block
    <3> QED
      BY <1>2
  <2>4. g \in Block
    BY <2>3, GluedTyped
  <2>5. Spliced(e, at, s, glue) = a \o <<g>> \o Tail(s) \o b
    BY <1>2 DEF Spliced
  <2> HIDE DEF a, b, g
  <2>6. <<g>> \in Seq(Block)
    BY <2>4
  <2> QED
    BY <2>2, <2>3, <2>5, <2>6, JoinIs
<1>3. CASE ~(glue /\ s # <<>>)
  <2> DEFINE a == Slice(e, 1, at)
             b == Slice(e, at, Len(e) + 1)
  <2>1. at \in 0..(Len(e) + 1) /\ 1 \in 1..(Len(e) + 1)
    BY <1>1
  <2>2. a \in Seq(Block) /\ b \in Seq(Block)
    <3>1. a \in Seq(Block)
      BY <2>1, SliceIs, Zenon
    <3>2. Len(e) + 1 \in 0..(Len(e) + 1)
      BY <1>1
    <3>3. b \in Seq(Block)
      BY <1>1, <3>2, SliceIs, Zenon
    <3> QED
      BY <3>1, <3>3
  <2>3. Spliced(e, at, s, glue) = a \o s \o b
    BY <1>3 DEF Spliced
  <2> HIDE DEF a, b
  <2> QED
    BY <2>2, <2>3, JoinIs
<1> QED
  BY <1>2, <1>3

LEMMA ShiftedTyped ==
    ASSUME NEW s \in Seq(Block), NEW delta \in Int,
           \A i \in HeadsIn(s) : s[i].level + delta \in 1..6
    PROVE  Shifted(s, delta) \in Seq(Block)
<1> DEFINE b(i) == IF s[i].level = 0 THEN s[i] ELSE [s[i] EXCEPT !.level = @ + delta]
<1>1. Len(s) \in Nat /\ DOMAIN s = 1..Len(s)
  BY BlockIs
<1>2. ASSUME NEW i \in 1..Len(s)
      PROVE  b(i) \in Block
  <2>1. s[i] \in Block
    BY BlockIs
  <2>2. CASE s[i].level = 0
    BY <2>1, <2>2
  <2>3. CASE s[i].level # 0
    <3>1. s[i].level + delta \in 1..6 /\ s[i].text \in Seq(Vocabulary) /\ s[i].id \in Ids
      <4>1. s[i].level \in 0..6 /\ s[i].text \in Seq(Vocabulary) /\ s[i].id \in Ids
        BY <2>1, BlockParts
      <4>2. i \in HeadsIn(s)
        BY <2>3, <4>1, BlockIs
      <4> QED
        BY <4>1, <4>2
    <3>2. b(i) = [level |-> s[i].level + delta, text |-> s[i].text, id |-> s[i].id]
      BY <2>1, <2>3, BlockChanged
    <3>3. s[i].level + delta \in 0..6 /\ s[i].level + delta # 0
      BY <3>1
    <3> HIDE DEF b
    <3> QED
      BY <3>1, <3>2, <3>3, BlockParts
  <2> QED
    BY <2>2, <2>3
<1>3. Shifted(s, delta) = [i \in 1..Len(s) |-> b(i)]
  BY <1>1 DEF Shifted
<1> HIDE DEF b
<1>4. [i \in 1..Len(s) |-> b(i)] \in Seq(Block)
  BY <1>1, <1>2
<1> QED
  BY <1>3, <1>4

(* Moving cuts a section out and puts its blocks, their levels shifted, into *)
(* what is left.                                                            *)
LEMMA MoveIs ==
    ASSUME NEW d \in Seq(Block), NEW n \in Nodes(d), NEW m \in Nodes(d), NEW p,
           NEW glue \in Gluings(d, n, m, p), MoveAllowed(d, n, m, p)
    PROVE  /\ Moved(d, n) \in Seq(Block)
           /\ Len(Moved(d, n)) = SectionEnd(d, n) - Start(d, n)
           /\ Shifted(Moved(d, n), MoveDelta(d, n, m, p)) \in Seq(Block)
           /\ MoveDelta(d, n, m, p) \in Int
           /\ \E e \in Seq(Block), b \in Seq(Block), at \in 1..(Len(d) + 1) :
                /\ at \in 1..(Len(e) + 1)
                /\ glue => at - 1 \in 1..Len(e)
                /\ MoveNode(d, n, m, p, glue)
                     = Spliced(e, at, Shifted(Moved(d, n), MoveDelta(d, n, m, p)), glue) \o b
                /\ \/ /\ Start(d, n) < InsertAtPos(d, m, p)
                      /\ SectionEnd(d, n) <= InsertAtPos(d, m, p)
                      /\ at = InsertAtPos(d, m, p) - Len(Moved(d, n))
                      /\ e = DeleteNode(d, n) /\ b = <<>>
                   \/ /\ ~(Start(d, n) < InsertAtPos(d, m, p))
                      /\ at = InsertAtPos(d, m, p)
                      /\ e = Slice(d, 1, Start(d, n))
                      /\ b = Slice(d, SectionEnd(d, n), Len(d) + 1)
<1> DEFINE at   == InsertAtPos(d, m, p)
           size == Len(Moved(d, n))
           text == Shifted(Moved(d, n), MoveDelta(d, n, m, p))
           st   == Start(d, n)
           en   == SectionEnd(d, n)
           L    == Len(d)
           Part == \E e \in Seq(Block), b \in Seq(Block), k \in 1..(Len(d) + 1) :
                     /\ k \in 1..(Len(e) + 1)
                     /\ glue => k - 1 \in 1..Len(e)
                     /\ MoveNode(d, n, m, p, glue) = Spliced(e, k, text, glue) \o b
                     /\ \/ /\ st < at /\ en <= at /\ k = at - size
                           /\ e = DeleteNode(d, n) /\ b = <<>>
                        \/ /\ ~(st < at) /\ k = at
                           /\ e = Slice(d, 1, st) /\ b = Slice(d, en, Len(d) + 1)
<1> HIDE DEF Part
<1>1. /\ L \in Nat /\ at \in 1..(L + 1) /\ st \in 1..(L + 1) /\ en \in 1..(L + 1)
      /\ 1 \in 1..(L + 1) /\ L + 1 \in 1..(L + 1) /\ m \in 0..L
      /\ st <= en
      /\ glue => (m \in 1..L /\ at = m + 1 /\ p = "child_start") \/ (at = L + 1 /\ en <= L)
  <2>1. st <= en
    <3>1. CASE n = 0
      BY <3>1, PlacesIn DEF Start
    <3>2. CASE n # 0
      <4>1. n < en /\ st = n /\ n \in Int
        BY <3>2, PlacesIn, SectionEnds DEF Ends, Start
      <4>2. en \in Int
        BY PlacesIn
      <4> HIDE DEF en, st
      <4> QED
        BY <4>1, <4>2
    <3> QED
      BY <3>1, <3>2
  <2>2. L \in Nat /\ at \in 1..(L + 1) /\ st \in 1..(L + 1) /\ en \in 1..(L + 1) /\ m \in 0..L
    BY PlacesIn
  <2>3. glue => (m \in 1..L /\ at = m + 1 /\ p = "child_start") \/ (at = L + 1 /\ en <= L)
    <3>1. m # 0 => m \in 1..L
      BY PlacesIn
    <3>2. p = "child_start" /\ m # 0 => at = m + 1
      BY DEF InsertAtPos, BodyStart
    <3>3. glue => (p = "child_start" /\ m # 0) \/ (at = L + 1 /\ en <= L)
      BY DEF Gluings
    <3> QED
      BY <3>1, <3>2, <3>3
  <2> HIDE DEF L, at, st, en
  <2> QED
    BY <2>1, <2>2, <2>3
<1>2. Moved(d, n) \in Seq(Block) /\ size = en - st
  <2>1. Moved(d, n) = Slice(d, st, en)
    BY DEF Moved
  <2>2. en \in 0..(L + 1) /\ st <= en
    BY <1>1
  <2>3. st \in 1..(Len(d) + 1) /\ en \in 0..(Len(d) + 1)
    BY <1>1, <2>2, Zenon
  <2>4. Slice(d, st, en) \in Seq(Block)
        /\ Len(Slice(d, st, en)) = IF st <= en THEN en - st ELSE 0
    BY <2>3, SliceIs, Zenon
  <2> QED
    BY <2>1, <2>2, <2>4, Zenon
<1>3. text \in Seq(Block) /\ MoveDelta(d, n, m, p) \in Int
  <2>1. MoveDelta(d, n, m, p) \in Int
    <3>1. DestLevel(d, m, p) \in Int
      BY PlacesIn, Zenon
    <3>2. Level(d, n) \in 0..6
      BY PlacesIn, Zenon
    <3> QED
      BY <3>1, <3>2 DEF MoveDelta
  <2> QED
    BY <1>2, <2>1, ShiftedTyped DEF MoveAllowed
<1>4. MoveNode(d, n, m, p, glue) =
        IF st < at THEN Spliced(DeleteNode(d, n), at - size, text, glue)
        ELSE Spliced(Slice(d, 1, st), at, text, glue) \o Slice(d, en, L + 1)
  BY DEF MoveNode
<1> DEFINE a == Slice(d, 1, st)
           b == Slice(d, en, L + 1)
<1>5. /\ a \in Seq(Block) /\ b \in Seq(Block)
      /\ Len(a) = st - 1 /\ Len(b) = L + 1 - en
      /\ \A i \in 1..(st - 1) : a[i] = d[i]
      /\ \A i \in 1..(L + 1 - en) : b[i] = d[en + i - 1]
  <2>1. st \in 0..(L + 1) /\ L + 1 \in 0..(L + 1)
    BY <1>1
  <2>2. Len(a) = st - 1 /\ Len(b) = L + 1 - en /\ a \in Seq(Block) /\ b \in Seq(Block)
    <3>1. a \in Seq(Block) /\ Len(a) = IF 1 <= st THEN st - 1 ELSE 0
      BY <1>1, <2>1, SliceIs
    <3>2. b \in Seq(Block) /\ Len(b) = IF en <= L + 1 THEN L + 1 - en ELSE 0
      <4>1. en \in 1..(Len(d) + 1) /\ Len(d) + 1 \in 0..(Len(d) + 1)
        BY <1>1, <2>1, Zenon
      <4>2. /\ Slice(d, en, Len(d) + 1) \in Seq(Block)
            /\ Len(Slice(d, en, Len(d) + 1)) = IF en <= Len(d) + 1 THEN (Len(d) + 1) - en ELSE 0
        BY <4>1, SliceIs, Zenon
      <4>3. \A k \in Nat : (L + 1) - k = L + 1 - k
        BY <1>1
      <4>4. en \in Nat
        BY <1>1
      <4> QED
        BY <4>2, <4>3, <4>4, Zenon
    <3>3. 1 <= st /\ en <= L + 1
      BY <1>1
    <3> HIDE DEF a, b, st, en, L
    <3> QED
      BY <3>1, <3>2, <3>3
  <2>3. (\A i \in 1..Len(a) : a[i] = d[1 + i - 1]) /\ \A i \in 1..Len(b) : b[i] = d[en + i - 1]
    BY <1>1, <2>1, SliceIs, ZenonT(40)
  <2>4. \A i \in 1..(st - 1) : 1 + i - 1 = i
    BY <1>1
  <2> HIDE DEF a, b
  <2> QED
    BY <2>2, <2>3, <2>4
<1>6. DeleteNode(d, n) = a \o b
  BY DEF DeleteNode
<1> HIDE DEF a, b, text
<1>7. ASSUME st < at PROVE Part
  <2> DEFINE e == a \o b
  <2>1. en <= at /\ (p = "child_start" => en <= m)
    BY <1>7, PlaceIsOutside DEF MoveAllowed
  <2> HIDE DEF at, st, en, L, size
  <2>2. /\ e \in Seq(Block) /\ Len(e) = st - 1 + (L + 1 - en)
        /\ \A i \in 1..(L + 1 - en) : e[st - 1 + i] = b[i]
    <3>1. e \in Seq(Block) /\ Len(e) = Len(a) + Len(b)
          /\ \A i \in 1..Len(b) : e[Len(a) + i] = b[i]
      <4>1. a \in Seq(Block) /\ b \in Seq(Block)
        BY <1>5
      <4> HIDE DEF Block
      <4>2. e \in Seq(Block) /\ Len(e) = Len(a) + Len(b)
        BY <4>1 DEF e
      <4>3. ASSUME NEW i \in 1..Len(b) PROVE e[Len(a) + i] = b[i]
        BY <4>1 DEF e
      <4> QED
        BY <4>2, <4>3
    <3> QED
      BY <1>5, <3>1
  <2> HIDE DEF e
  <2>3. at - size \in 1..(Len(e) + 1)
    BY <1>1, <1>2, <2>1, <2>2
  <2>4. ASSUME glue
        PROVE  (at - size) - 1 \in 1..Len(e)
    BY <1>1, <1>2, <2>1, <2>2, <2>4
  <2>5. Spliced(e, at - size, text, glue) \in Seq(Block)
    BY <1>3, <2>2, <2>3, <2>4, SplicedTyped
  <2>6. PICK z \in Seq(Block) : z = <<>>
    <3> HIDE DEF Block
    <3>1. <<>> \in Seq(Block)
      OBVIOUS
    <3> QED
      BY <3>1, Zenon
  <2>7. Spliced(e, at - size, text, glue) \o z = Spliced(e, at - size, text, glue)
    <3> DEFINE r == Spliced(e, at - size, text, glue)
    <3> HIDE DEF r, Block
    <3>1. r \in Seq(Block)
      BY <2>5 DEF r
    <3>2. r \o <<>> = r
      BY <3>1
    <3> QED
      BY <2>6, <3>2 DEF r
  <2>8. PICK k \in 1..(Len(d) + 1) : k = at - size
    <3>1. at - size \in 1..(Len(d) + 1)
      BY <1>1, <1>2, <2>2, <2>3 DEF L
    <3> QED
      BY <3>1
  <2>9. MoveNode(d, n, m, p, glue) = Spliced(e, k, text, glue) \o z
    BY <1>4, <1>6, <1>7, <2>7, <2>8 DEF e
  <2>10. e = DeleteNode(d, n)
    BY <1>6 DEF e
  <2>11. k \in 1..(Len(e) + 1) /\ (glue => k - 1 \in 1..Len(e))
    BY <2>3, <2>4, <2>8
  <2>12. st < at /\ en <= at /\ k = at - size /\ z = <<>>
    BY <1>7, <2>1, <2>6, <2>8
  <2> QED
    BY <2>2, <2>9, <2>10, <2>11, <2>12, Zenon DEF Part, st, at, en, size, text
<1>8. ASSUME ~(st < at) PROVE Part
  <2> HIDE DEF at, st, en, L, size
  <2>1. at \in 1..(Len(a) + 1)
    BY <1>1, <1>5, <1>8
  <2>2. ASSUME glue
        PROVE  at - 1 \in 1..Len(a)
    BY <1>1, <1>5, <1>8, <2>2
  <2>3. MoveNode(d, n, m, p, glue) = Spliced(a, at, text, glue) \o b
    BY <1>4, <1>8 DEF a, b
  <2>4. PICK k \in 1..(Len(d) + 1) : k = at
    BY <1>1 DEF L
  <2>5. /\ a \in Seq(Block) /\ b \in Seq(Block)
        /\ a = Slice(d, 1, st) /\ b = Slice(d, en, Len(d) + 1)
    BY <1>5 DEF a, b, L
  <2>6. /\ k \in 1..(Len(a) + 1) /\ (glue => k - 1 \in 1..Len(a))
        /\ MoveNode(d, n, m, p, glue) = Spliced(a, k, text, glue) \o b
        /\ ~(st < at) /\ k = at
    BY <1>8, <2>1, <2>2, <2>3, <2>4
  <2> HIDE DEF a, b
  <2> QED
    BY <2>5, <2>6, Zenon DEF Part, st, at, en, size, text
<1> QED
  BY <1>2, <1>3, <1>7, <1>8 DEF Part, st, en, size, text

LEMMA MoveTyped ==
    ASSUME NEW d \in Seq(Block), NEW n \in Nodes(d), NEW m \in Nodes(d), NEW p,
           NEW glue \in Gluings(d, n, m, p), MoveAllowed(d, n, m, p)
    PROVE  MoveNode(d, n, m, p, glue) \in Seq(Block)
<1> DEFINE s == Shifted(Moved(d, n), MoveDelta(d, n, m, p))
<1>1. s \in Seq(Block)
  BY MoveIs
<1>2. PICK e \in Seq(Block), b \in Seq(Block), at \in 1..(Len(d) + 1) :
         /\ at \in 1..(Len(e) + 1)
         /\ glue => at - 1 \in 1..Len(e)
         /\ MoveNode(d, n, m, p, glue) = Spliced(e, at, s, glue) \o b
  <2>1. PICK e \in Seq(Block), b \in Seq(Block), at \in 1..(Len(d) + 1) :
           /\ at \in 1..(Len(e) + 1)
           /\ glue => at - 1 \in 1..Len(e)
           /\ MoveNode(d, n, m, p, glue)
                = Spliced(e, at, Shifted(Moved(d, n), MoveDelta(d, n, m, p)), glue) \o b
           /\ \/ /\ Start(d, n) < InsertAtPos(d, m, p)
                 /\ SectionEnd(d, n) <= InsertAtPos(d, m, p)
                 /\ at = InsertAtPos(d, m, p) - Len(Moved(d, n))
                 /\ e = DeleteNode(d, n) /\ b = <<>>
              \/ /\ ~(Start(d, n) < InsertAtPos(d, m, p))
                 /\ at = InsertAtPos(d, m, p)
                 /\ e = Slice(d, 1, Start(d, n))
                 /\ b = Slice(d, SectionEnd(d, n), Len(d) + 1)
    <3> HIDE DEF s
    <3> QED
      BY MoveIs, Zenon
  <2> QED
    BY <2>1, Zenon DEF s
<1> HIDE DEF s
<1>3. Spliced(e, at, s, glue) \in Seq(Block)
  BY <1>1, <1>2, SplicedTyped
<1> QED
  BY <1>2, <1>3, JoinIs

(* Anchors are assigned one after another; levels and lengths stay.         *)
Alike(d) == {e \in Seq(Block) : Len(e) = Len(d) /\ \A i \in 1..Len(d) : e[i].level = d[i].level}

LEMMA AnchorGiven ==
    ASSUME NEW d \in Seq(Block), NEW e \in Alike(d), NEW i \in 1..Len(d), d[i].level # 0,
           NEW a \in Ids
    PROVE  [e EXCEPT ![i].id = a] \in Alike(d)
<1> DEFINE b == [e[i] EXCEPT !.id = a]
<1>1. /\ e \in Seq(Block) /\ Len(e) = Len(d) /\ e[i] \in Block /\ e[i].level = d[i].level
      /\ Len(d) \in Nat /\ i \in 1..Len(e)
  <2>1. e \in Seq(Block) /\ Len(e) = Len(d) /\ e[i].level = d[i].level
    BY DEF Alike
  <2> QED
    BY <2>1, BlockIs
<1>2. b \in Block /\ b.level = e[i].level
  <2>1. b = [level |-> e[i].level, text |-> e[i].text, id |-> a]
    BY <1>1, BlockChanged
  <2>2. e[i].level \in 0..6 /\ e[i].text \in Seq(Vocabulary) /\ e[i].level # 0
    BY <1>1, BlockParts
  <2> HIDE DEF b
  <2> QED
    BY <2>1, <2>2, BlockParts
<1>3. [e EXCEPT ![i].id = a] = [e EXCEPT ![i] = b]
  OBVIOUS
<1> HIDE DEF b
<1> DEFINE f == [e EXCEPT ![i] = b]
<1>4. f \in Seq(Block) /\ Len(f) = Len(e) /\ \A j \in 1..Len(e) : f[j] = IF j = i THEN b ELSE e[j]
  <2> HIDE DEF Block
  <2> QED
    BY <1>1, <1>2
<1> HIDE DEF f
<1>5. f \in Alike(d)
  BY <1>1, <1>2, <1>4 DEF Alike
<1> QED
  BY <1>3, <1>5 DEF f

(* Block i gets an anchor, if it is a heading without one.                  *)
Assigned(d, e, i) ==
    IF d[i].level = 0 \/ d[i].id # NoId THEN e
    ELSE [e EXCEPT ![i].id = FreshId(d[i].text, IdsIn(d) \union IdsIn(e))]

LEMMA AssignIs ==
    ASSUME NEW d \in Seq(Block)
    PROVE  \E f : /\ f[0] = d /\ AssignIds(d) = f[Len(d)]
                  /\ \A i \in 1..Len(d) : f[i] = Assigned(d, f[i - 1], i)
                  /\ \A i \in 0..Len(d) : f[i] \in Alike(d)
<1> DEFINE n == Len(d)
           V == Alike(d)
           Step(e, i) == IF d[i].level = 0 \/ d[i].id # NoId THEN e
                         ELSE [e EXCEPT ![i].id = FreshId(d[i].text, IdsIn(d) \union IdsIn(e))]
           G == [x \in V \X (1..n) |-> Step(x[1], x[2])]
           Eq(f) == f = [i \in 0..n |->
                           IF i = 0 THEN d
                           ELSE IF d[i].level = 0 \/ d[i].id # NoId THEN f[i - 1]
                           ELSE [f[i - 1] EXCEPT ![i].id =
                                    FreshId(d[i].text, IdsIn(d) \union IdsIn(f[i - 1]))]]
           done == CHOOSE f : Eq(f)
<1>1. AssignIds(d) = done[n]
  BY Zenon DEF AssignIds
<1>2. ASSUME NEW e \in V, NEW i \in 1..n
      PROVE  Step(e, i) \in V
  <2>1. CASE d[i].level = 0 \/ d[i].id # NoId
    BY <2>1
  <2>2. CASE ~(d[i].level = 0 \/ d[i].id # NoId)
    <3> DEFINE a == FreshId(d[i].text, IdsIn(d) \union IdsIn(e))
    <3>1. a \in Ids
      <4>1. e \in Seq(Block) /\ d[i] \in Block
        BY BlockIs DEF Alike
      <4>2. IsFiniteSet(IdsIn(d)) /\ IsFiniteSet(IdsIn(e)) /\ d[i].text \in Seq(Vocabulary)
        BY <4>1, IdsAreFinite, BlockParts
      <4>3. IsFiniteSet(IdsIn(d) \union IdsIn(e))
        BY <4>2, FS_Union
      <4> QED
        BY <4>2, <4>3, FreshIdIsFree
    <3>2. Step(e, i) = [e EXCEPT ![i].id = a]
      BY <2>2
    <3> HIDE DEF a
    <3> QED
      BY <2>2, <3>1, <3>2, AnchorGiven
  <2> QED
    BY <2>1, <2>2
<1>3. n \in Nat /\ d \in V /\ G \in [V \X (1..n) -> V]
  <2>1. n \in Nat
    BY BlockIs
  <2>2. d \in V
    BY DEF Alike
  <2>3. G \in [V \X (1..n) -> V]
    BY <1>2
  <2> QED
    BY <2>1, <2>2, <2>3
<1>4. PICK f \in [0..n -> V] : Ascends(f, n, d, G)
  <2> HIDE DEF G, V, n
  <2> QED
    BY <1>3, RecursionExists, Zenon
<1>5. ASSUME NEW i \in 0..n, i # 0
      PROVE  G[<<f[i - 1], i>>] = Step(f[i - 1], i)
  <2>1. i \in 1..n /\ i - 1 \in 0..n
    BY <1>3, <1>5
  <2> HIDE DEF Step, n
  <2>2. f[i - 1] \in V
    BY <1>4, <2>1
  <2> QED
    BY <2>1, <2>2
<1>6. Eq(f)
  <2> HIDE DEF G, V
  <2>1. f = [i \in 0..n |-> f[i]]
    BY <1>4
  <2>2. ASSUME NEW i \in 0..n
        PROVE  f[i] = IF i = 0 THEN d ELSE Step(f[i - 1], i)
    <3> HIDE DEF Step, n
    <3> QED
      BY <1>4, <1>5 DEF Ascends
  <2> QED
    BY <2>1, <2>2
<1>7. Eq(done)
  BY <1>6, Zenon
<1> HIDE DEF done
<1>8. /\ done[0] = d /\ \A i \in 1..n : done[i] = Step(done[i - 1], i)
  <2>1. \A i \in 0..n : done[i] = IF i = 0 THEN d ELSE Step(done[i - 1], i)
    BY <1>7
  <2>2. 0 \in 0..n /\ \A i \in 1..n : i \in 0..n /\ i # 0
    BY <1>3
  <2> HIDE DEF n, Step
  <2> QED
    BY <2>1, <2>2
<1> DEFINE T == {k \in Nat : k <= n => done[k] \in V}
<1>9. 0 \in T
  BY <1>3, <1>8
<1>10. ASSUME NEW k \in Nat, k \in T PROVE k + 1 \in T
  <2>1. SUFFICES ASSUME k + 1 <= n PROVE done[k + 1] \in V
    OBVIOUS
  <2>2. k + 1 \in 1..n /\ (k + 1) - 1 = k /\ done[k] \in V
    BY <1>3, <1>10, <2>1
  <2> HIDE DEF V, Step
  <2> QED
    BY <1>2, <1>8, <2>2
<1> HIDE DEF T
<1>11. \A k \in Nat : k \in T
  BY <1>9, <1>10, SetInduction
<1>12. \A k \in 0..n : done[k] \in V
  BY <1>3, <1>11 DEF T
<1>13. \A i \in 1..n : done[i] = Assigned(d, done[i - 1], i)
  BY <1>8 DEF Assigned
<1> HIDE DEF n, V, Step
<1> QED
  BY <1>1, <1>8, <1>12, <1>13 DEF n, V

LEMMA AssignTyped ==
    ASSUME NEW d \in Seq(Block)
    PROVE  AssignIds(d) \in Seq(Block)
<1>1. PICK f : AssignIds(d) = f[Len(d)] /\ \A i \in 0..Len(d) : f[i] \in Alike(d)
  BY AssignIs
<1>2. Len(d) \in 0..Len(d)
  <2>1. Len(d) \in Nat
    BY BlockIs
  <2> QED
    BY <2>1
<1> QED
  BY <1>1, <1>2 DEF Alike

LEMMA FindReplaceTyped ==
    ASSUME NEW d \in Seq(Block), NEW w, NEW v \in Vocabulary, NEW ids
    PROVE  FindReplace(d, w, v, ids) \in Seq(Block)
<1> DEFINE hit(i) == i \in Matches(d, w) /\ MatchId(d, w, i) \in ids
           t(i) == [j \in DOMAIN d[i].text |-> IF d[i].text[j] = w THEN v ELSE d[i].text[j]]
           b(i) == IF hit(i) THEN [d[i] EXCEPT !.text = t(i)] ELSE d[i]
<1>1. Len(d) \in Nat /\ DOMAIN d = 1..Len(d)
  BY BlockIs
<1>2. FindReplace(d, w, v, ids) = [i \in 1..Len(d) |-> b(i)]
  BY <1>1 DEF FindReplace
<1> HIDE DEF hit
<1>3. ASSUME NEW i \in 1..Len(d)
      PROVE  b(i) \in Block
  <2>1. d[i] \in Block
    BY BlockIs
  <2>2. d[i].level \in 0..6 /\ d[i].text \in Seq(Vocabulary) /\ d[i].id \in Ids
        /\ (d[i].level = 0 => d[i].id = NoId)
    BY <2>1, BlockParts
  <2>3. t(i) \in Seq(Vocabulary)
    <3> DEFINE u == d[i].text
    <3>1. u \in Seq(Vocabulary)
      BY <2>2
    <3> HIDE DEF u
    <3>2. Len(u) \in Nat /\ DOMAIN u = 1..Len(u) /\ \A j \in 1..Len(u) : u[j] \in Vocabulary
      BY <3>1
    <3>3. [j \in DOMAIN u |-> IF u[j] = w THEN v ELSE u[j]] \in Seq(Vocabulary)
      BY <3>2
    <3> QED
      BY <3>3 DEF u
  <2> HIDE DEF t
  <2>4. [d[i] EXCEPT !.text = t(i)] = [level |-> d[i].level, text |-> t(i), id |-> d[i].id]
    BY <2>1, BlockChanged
  <2>5. [d[i] EXCEPT !.text = t(i)] \in Block
    BY <2>2, <2>3, <2>4, BlockParts
  <2> QED
    BY <2>1, <2>5
<1> HIDE DEF b
<1>4. [i \in 1..Len(d) |-> b(i)] \in Seq(Block)
  BY <1>1, <1>3
<1> QED
  BY <1>2, <1>4

-----------------------------------------------------------------------------
(* ANCHORS.                                                                 *)

LEMMA IdsAre ==
    ASSUME NEW d
    PROVE  /\ \A h \in HeadsIn(d) : d[h].id \in IdsIn(d) \union {NoId}
           /\ \A v \in IdsIn(d) : v # NoId /\ \E h \in HeadsIn(d) : d[h].id = v
  BY DEF IdsIn

LEMMA JoinParts ==
    ASSUME NEW a \in Seq(Block), NEW b \in Seq(Block)
    PROVE  /\ a \o b \in Seq(Block) /\ Len(a \o b) = Len(a) + Len(b)
           /\ Len(a) \in Nat /\ Len(b) \in Nat
           /\ \A i \in 1..Len(a) : (a \o b)[i] = a[i]
           /\ \A i \in 1..Len(b) : (a \o b)[Len(a) + i] = b[i]
           /\ \A i \in HeadsIn(a \o b) :
                 \/ i \in HeadsIn(a) /\ (a \o b)[i] = a[i]
                 \/ i - Len(a) \in HeadsIn(b) /\ (a \o b)[i] = b[i - Len(a)]
           /\ \A i \in HeadsIn(a) : i \in HeadsIn(a \o b) /\ (a \o b)[i] = a[i]
           /\ \A i \in HeadsIn(b) :
                 Len(a) + i \in HeadsIn(a \o b) /\ (a \o b)[Len(a) + i] = b[i]
<1>1. /\ a \o b \in Seq(Block) /\ Len(a \o b) = Len(a) + Len(b)
      /\ Len(a) \in Nat /\ Len(b) \in Nat
      /\ \A i \in 1..Len(a) : (a \o b)[i] = a[i]
      /\ \A i \in 1..Len(b) : (a \o b)[Len(a) + i] = b[i]
  <2> HIDE DEF Block
  <2> QED
    OBVIOUS
<1> DEFINE c == a \o b
<1>2. /\ HeadsIn(a) = {i \in 1..Len(a) : a[i].level > 0}
      /\ HeadsIn(b) = {i \in 1..Len(b) : b[i].level > 0}
      /\ HeadsIn(c) = {i \in 1..Len(c) : c[i].level > 0}
  BY <1>1, BlockIs
<1> HIDE DEF c
<1>3. ASSUME NEW i \in HeadsIn(c)
      PROVE  \/ i \in HeadsIn(a) /\ c[i] = a[i]
             \/ i - Len(a) \in HeadsIn(b) /\ c[i] = b[i - Len(a)]
  <2>1. i \in 1..Len(c) /\ c[i].level > 0
    BY <1>2
  <2>2. CASE i <= Len(a)
    <3>1. i \in 1..Len(a)
      BY <1>1, <2>1, <2>2
    <3> QED
      BY <1>1, <1>2, <2>1, <3>1 DEF c
  <2>3. CASE ~(i <= Len(a))
    <3>1. i - Len(a) \in 1..Len(b) /\ Len(a) + (i - Len(a)) = i
      BY <1>1, <2>1, <2>3 DEF c
    <3>2. c[Len(a) + (i - Len(a))] = b[i - Len(a)]
      BY <1>1, <3>1 DEF c
    <3> QED
      BY <1>2, <2>1, <3>1, <3>2
  <2> QED
    BY <2>2, <2>3
<1>4. ASSUME NEW i \in HeadsIn(a) PROVE i \in HeadsIn(c) /\ c[i] = a[i]
  <2>1. i \in 1..Len(a) /\ a[i].level > 0 /\ c[i] = a[i]
    BY <1>1, <1>2 DEF c
  <2>2. i \in 1..Len(c)
    BY <1>1, <2>1 DEF c
  <2> QED
    BY <1>2, <2>1, <2>2
<1>5. ASSUME NEW i \in HeadsIn(b) PROVE Len(a) + i \in HeadsIn(c) /\ c[Len(a) + i] = b[i]
  <2>1. i \in 1..Len(b) /\ b[i].level > 0 /\ c[Len(a) + i] = b[i]
    BY <1>1, <1>2 DEF c
  <2>2. Len(a) + i \in 1..Len(c)
    BY <1>1, <2>1 DEF c
  <2> QED
    BY <1>2, <2>1, <2>2
<1> QED
  BY <1>1, <1>3, <1>4, <1>5 DEF c

(* The anchors of two texts one after the other.                            *)
LEMMA IdsJoin ==
    ASSUME NEW a \in Seq(Block), NEW b \in Seq(Block)
    PROVE  /\ IdsIn(a \o b) = IdsIn(a) \union IdsIn(b)
           /\ UniqueIds(a) /\ UniqueIds(b) /\ (\A v \in IdsIn(a) : v \notin IdsIn(b))
                => UniqueIds(a \o b)
<1> DEFINE c == a \o b
<1>1. \A i \in HeadsIn(c) :
                 \/ i \in HeadsIn(a) /\ c[i] = a[i]
                 \/ i - Len(a) \in HeadsIn(b) /\ c[i] = b[i - Len(a)]
  BY JoinParts
<1>2. /\ \A i \in HeadsIn(a) : i \in HeadsIn(c) /\ c[i] = a[i]
      /\ \A i \in HeadsIn(b) : Len(a) + i \in HeadsIn(c) /\ c[Len(a) + i] = b[i]
      /\ Len(a) \in Nat /\ c \in Seq(Block)
  BY JoinParts, Zenon
<1> HIDE DEF c
<1>3. \A i \in HeadsIn(c) : i \in Int
  BY <1>2, BlockIs
<1>4. IdsIn(c) = IdsIn(a) \union IdsIn(b)
  <2>1. ASSUME NEW v \in IdsIn(c) PROVE v \in IdsIn(a) \union IdsIn(b)
    <3>1. PICK h \in HeadsIn(c) : c[h].id = v /\ v # NoId
      BY IdsAre
    <3> QED
      BY <1>1, <3>1, IdsAre
  <2>2. ASSUME NEW v \in IdsIn(a) PROVE v \in IdsIn(c)
    BY <1>2, IdsAre
  <2>3. ASSUME NEW v \in IdsIn(b) PROVE v \in IdsIn(c)
    BY <1>2, IdsAre
  <2> QED
    BY <2>1, <2>2, <2>3
<1>5. ASSUME UniqueIds(a), UniqueIds(b), \A v \in IdsIn(a) : v \notin IdsIn(b)
      PROVE  UniqueIds(c)
  <2> SUFFICES ASSUME NEW i \in HeadsIn(c), NEW j \in HeadsIn(c), i # j, c[i].id # NoId,
                      c[i].id = c[j].id
               PROVE  FALSE
    BY DEF UniqueIds
  <2>1. CASE i \in HeadsIn(a) /\ c[i] = a[i]
    <3>1. c[i].id \in IdsIn(a)
      BY <2>1, IdsAre
    <3>2. CASE j \in HeadsIn(a) /\ c[j] = a[j]
      BY <1>5, <2>1, <3>2 DEF UniqueIds
    <3>3. CASE j - Len(a) \in HeadsIn(b) /\ c[j] = b[j - Len(a)]
      BY <1>5, <3>1, <3>3, IdsAre
    <3> QED
      BY <1>1, <3>2, <3>3
  <2>2. CASE i - Len(a) \in HeadsIn(b) /\ c[i] = b[i - Len(a)]
    <3>1. c[i].id \in IdsIn(b)
      BY <2>2, IdsAre
    <3>2. CASE j \in HeadsIn(a) /\ c[j] = a[j]
      BY <1>5, <3>1, <3>2, IdsAre
    <3>3. CASE j - Len(a) \in HeadsIn(b) /\ c[j] = b[j - Len(a)]
      <4>1. i - Len(a) # j - Len(a)
        BY <1>2, <1>3
      <4> QED
        BY <1>5, <2>2, <3>3, <4>1 DEF UniqueIds
    <3> QED
      BY <1>1, <3>2, <3>3
  <2> QED
    BY <1>1, <2>1, <2>2
<1> QED
  BY <1>4, <1>5 DEF c

(* The anchors of d outside the blocks from .. to-1.                        *)
IdsAround(d, from, to) == {d[h].id : h \in {g \in HeadsIn(d) : g < from \/ g >= to}} \ {NoId}

LEMMA IdsSlice ==
    ASSUME NEW d \in Seq(Block), NEW from \in 1..(Len(d) + 1), NEW to \in 1..(Len(d) + 1)
    PROVE  /\ Slice(d, from, to) \in Seq(Block)
           /\ IdsIn(Slice(d, from, to)) = {d[h].id : h \in {g \in HeadsIn(d) : from <= g /\ g < to}} \ {NoId}
           /\ UniqueIds(d) => UniqueIds(Slice(d, from, to))
<1> DEFINE s == Slice(d, from, to)
<1>1. /\ s \in Seq(Block) /\ Len(d) \in Nat /\ Len(s) = (IF from <= to THEN to - from ELSE 0)
      /\ \A i \in 1..Len(s) : s[i] = d[from + i - 1]
  <2>1. to \in 0..(Len(d) + 1) /\ Len(d) \in Nat
    BY BlockIs
  <2> QED
    BY <2>1, SliceIs
<1>2. /\ HeadsIn(d) = {i \in 1..Len(d) : d[i].level > 0}
      /\ HeadsIn(s) = {i \in 1..Len(s) : s[i].level > 0}
  BY <1>1, BlockIs
<1> HIDE DEF s
<1>3. ASSUME NEW i \in HeadsIn(s)
      PROVE  /\ i \in Int /\ from + i - 1 \in HeadsIn(d) /\ s[i] = d[from + i - 1]
             /\ from <= from + i - 1 /\ from + i - 1 < to
  <2>1. i \in 1..Len(s) /\ s[i].level > 0 /\ s[i] = d[from + i - 1]
    BY <1>1, <1>2
  <2>2. i \in Int /\ from + i - 1 \in 1..Len(d) /\ from <= from + i - 1 /\ from + i - 1 < to
    BY <1>1, <2>1
  <2> QED
    BY <1>2, <2>1, <2>2
<1>4. ASSUME NEW h \in HeadsIn(d), from <= h, h < to
      PROVE  h - from + 1 \in HeadsIn(s) /\ s[h - from + 1] = d[h]
  <2>1. h - from + 1 \in 1..Len(s) /\ from + (h - from + 1) - 1 = h
    BY <1>1, <1>2, <1>4
  <2>2. s[h - from + 1] = d[h]
    BY <1>1, <2>1
  <2> QED
    BY <1>2, <2>1, <2>2
<1>5. IdsIn(s) = {d[h].id : h \in {g \in HeadsIn(d) : from <= g /\ g < to}} \ {NoId}
  <2>1. ASSUME NEW v \in IdsIn(s)
        PROVE  v \in {d[h].id : h \in {g \in HeadsIn(d) : from <= g /\ g < to}} \ {NoId}
    <3>1. PICK i \in HeadsIn(s) : s[i].id = v /\ v # NoId
      BY IdsAre
    <3> QED
      BY <1>3, <3>1
  <2>2. ASSUME NEW h \in HeadsIn(d), from <= h, h < to, d[h].id # NoId
        PROVE  d[h].id \in IdsIn(s)
    BY <1>4, <2>2, IdsAre
  <2> QED
    BY <2>1, <2>2
<1>6. ASSUME UniqueIds(d) PROVE UniqueIds(s)
  <2> SUFFICES ASSUME NEW i \in HeadsIn(s), NEW j \in HeadsIn(s), i # j
               PROVE  s[i].id = NoId \/ s[i].id # s[j].id
    BY DEF UniqueIds
  <2>1. from + i - 1 # from + j - 1
    BY <1>3
  <2> QED
    BY <1>3, <1>6, <2>1 DEF UniqueIds
<1> QED
  BY <1>1, <1>5, <1>6 DEF s

(* The blocks x in the place of those from .. to-1.                         *)
Replaced(d, from, to, x) == Slice(d, 1, from) \o x \o Slice(d, to, Len(d) + 1)

LEMMA IdsReplaced ==
    ASSUME NEW d \in Seq(Block), NEW from \in 1..(Len(d) + 1), NEW to \in 1..(Len(d) + 1),
           from <= to, NEW x \in Seq(Block)
    PROVE  /\ Replaced(d, from, to, x) \in Seq(Block)
           /\ \A v : v \in IdsIn(Replaced(d, from, to, x))
                        <=> v \in IdsAround(d, from, to) \/ v \in IdsIn(x)
           /\ UniqueIds(d) /\ UniqueIds(x) /\ (\A v \in IdsIn(x) : v \notin IdsAround(d, from, to))
                => UniqueIds(Replaced(d, from, to, x))
<1> DEFINE L == Len(d) + 1
           a == Slice(d, 1, from)
           b == Slice(d, to, L)
           A == {g \in HeadsIn(d) : 1 <= g /\ g < from}
           B == {g \in HeadsIn(d) : to <= g /\ g < L}
           F == {g \in HeadsIn(d) : g < from \/ g >= to}
<1>1. Len(d) \in Nat /\ 1 \in 1..L /\ L \in 1..L /\ from \in 1..L /\ to \in 1..L
      /\ \A h \in HeadsIn(d) : h \in 1..Len(d)
  BY BlockIs
<1>2. F = A \union B /\ \A h \in A : h \notin B
  BY <1>1
<1>3. /\ a \in Seq(Block) /\ b \in Seq(Block)
      /\ IdsIn(a) = {d[h].id : h \in A} \ {NoId}
      /\ IdsIn(b) = {d[h].id : h \in B} \ {NoId}
      /\ UniqueIds(d) => UniqueIds(a) /\ UniqueIds(b)
  <2> HIDE DEF L
  <2> QED
    BY <1>1, IdsSlice DEF L
<1>4. IdsAround(d, from, to) = {d[h].id : h \in F} \ {NoId}
  BY DEF IdsAround
<1>5. A \in SUBSET HeadsIn(d) /\ B \in SUBSET HeadsIn(d)
  OBVIOUS
<1> HIDE DEF a, b, A, B, F
<1>6. IdsAround(d, from, to) = IdsIn(a) \union IdsIn(b)
  BY <1>2, <1>3, <1>4
<1>7. UniqueIds(d) => \A v \in IdsIn(a) : v \notin IdsIn(b)
  <2> SUFFICES ASSUME UniqueIds(d), NEW g \in A, NEW h \in B, d[g].id = d[h].id, d[g].id # NoId
               PROVE  FALSE
    BY <1>3
  <2> QED
    BY <1>2, <1>5 DEF UniqueIds
<1> HIDE DEF IdsAround
<1>8. /\ a \o x \in Seq(Block) /\ (a \o x) \o b \in Seq(Block)
      /\ IdsIn(a \o x) = IdsIn(a) \union IdsIn(x)
      /\ IdsIn((a \o x) \o b) = IdsIn(a \o x) \union IdsIn(b)
      /\ UniqueIds(a) /\ UniqueIds(x) /\ (\A v \in IdsIn(a) : v \notin IdsIn(x))
            => UniqueIds(a \o x)
      /\ UniqueIds(a \o x) /\ UniqueIds(b) /\ (\A v \in IdsIn(a \o x) : v \notin IdsIn(b))
            => UniqueIds((a \o x) \o b)
  <2>1. a \o x \in Seq(Block)
    BY <1>3, JoinIs
  <2>2. (a \o x) \o b \in Seq(Block)
    BY <1>3, <2>1, JoinIs
  <2>3. /\ IdsIn(a \o x) = IdsIn(a) \union IdsIn(x)
        /\ UniqueIds(a) /\ UniqueIds(x) /\ (\A v \in IdsIn(a) : v \notin IdsIn(x))
            => UniqueIds(a \o x)
    BY <1>3, IdsJoin, Zenon
  <2>4. /\ IdsIn((a \o x) \o b) = IdsIn(a \o x) \union IdsIn(b)
        /\ UniqueIds(a \o x) /\ UniqueIds(b) /\ (\A v \in IdsIn(a \o x) : v \notin IdsIn(b))
            => UniqueIds((a \o x) \o b)
    BY <1>3, <2>1, IdsJoin, Zenon
  <2> QED
    BY <2>1, <2>2, <2>3, <2>4, Zenon
<1> DEFINE ax == a \o x
           r == ax \o b
<1>9. r = Replaced(d, from, to, x)
  BY DEF a, b, L, Replaced
<1> HIDE DEF ax, r
<1>10. r \in Seq(Block) /\ IdsIn(r) = IdsAround(d, from, to) \union IdsIn(x)
  BY <1>6, <1>8 DEF r, ax
<1>11. ASSUME UniqueIds(d), UniqueIds(x), \A v \in IdsIn(x) : v \notin IdsAround(d, from, to)
       PROVE  UniqueIds(r)
  <2>1. UniqueIds(a) /\ UniqueIds(b) /\ \A v \in IdsIn(a) : v \notin IdsIn(b)
    BY <1>3, <1>7, <1>11
  <2>2. (\A v \in IdsIn(a) : v \notin IdsIn(x)) /\ \A v \in IdsIn(x) : v \notin IdsIn(b)
    BY <1>6, <1>11
  <2>3. UniqueIds(ax)
    BY <1>8, <1>11, <2>1, <2>2 DEF ax
  <2>4. \A v \in IdsIn(ax) : v \notin IdsIn(b)
    BY <1>8, <2>1, <2>2 DEF ax
  <2> QED
    BY <1>8, <2>1, <2>3, <2>4 DEF ax, r
<1> QED
  BY <1>9, <1>10, <1>11

(* What the callers of the tools send and what the tools make.               *)
LEMMA IdsOfNone ==
    /\ IdsIn(<<>>) = {} /\ UniqueIds(<<>>)
    /\ \A c : IdsIn(c) = {} => UniqueIds(c)
  BY DEF IdsIn, UniqueIds, HeadsIn

LEMMA IdsOfOne ==
    ASSUME NEW b \in Block
    PROVE  /\ <<b>> \in Seq(Block) /\ UniqueIds(<<b>>)
           /\ IdsIn(<<b>>) = {b.id} \ {NoId}
<1> DEFINE s == <<b>>
<1>1. s \in Seq(Block) /\ DOMAIN s = {1} /\ s[1] = b
  OBVIOUS
<1> HIDE DEF s
<1>2. \A h \in HeadsIn(s) : h = 1 /\ s[h] = b
  BY <1>1 DEF HeadsIn
<1>3. UniqueIds(s)
  BY <1>2 DEF UniqueIds
<1>4. b.id # NoId => 1 \in HeadsIn(s)
  <2>1. b.level \in 0..6 /\ (b.level = 0 => b.id = NoId)
    BY BlockParts
  <2> QED
    BY <1>1, <2>1 DEF HeadsIn
<1>5. \A v : v \in IdsIn(s) <=> v = b.id /\ v # NoId
  BY <1>1, <1>2, <1>4 DEF IdsIn
<1>6. IdsIn(s) = {b.id} \ {NoId}
  BY <1>5
<1> QED
  BY <1>1, <1>3, <1>6 DEF s

LEMMA SliceOfRest ==
    ASSUME NEW c, Len(c) \in Nat, NEW f
    PROVE  Slice(c, f, Len(c) + 1) = SubSeq(c, f, Len(c))
<1> DEFINE k == (Len(c) + 1) - 1
<1>1. k = Len(c)
  <2>1. \A m \in Nat : (m + 1) - 1 = m
    OBVIOUS
  <2> QED
    BY <2>1, Zenon
<1>2. Slice(c, f, Len(c) + 1) = SubSeq(c, f, k)
  BY Zenon DEF Slice
<1> HIDE DEF k
<1> QED
  BY <1>1, <1>2

LEMMA IdsWithout ==
    ASSUME NEW c \in Seq(Block), NEW f \in 1..Len(c)
    PROVE  RemoveAt(c, f) = Replaced(c, f, f + 1, <<>>)
<1> DEFINE a == SubSeq(c, 1, f - 1)
           b == SubSeq(c, f + 1, Len(c))
<1>1. a \in Seq(Block) /\ b \in Seq(Block) /\ Len(c) \in Nat
  <2> HIDE DEF Block
  <2> QED
    OBVIOUS
<1>2. RemoveAt(c, f) = a \o b
  BY DEF RemoveAt
<1>3. Slice(c, 1, f) = a
  BY Zenon DEF Slice
<1>4. Slice(c, f + 1, Len(c) + 1) = b
  BY <1>1, SliceOfRest
<1> HIDE DEF a, b
<1>5. a \o <<>> = a
  <2> HIDE DEF Block
  <2> QED
    BY <1>1
<1> QED
  BY <1>2, <1>3, <1>4, <1>5 DEF Replaced

LEMMA IdsStripped ==
    ASSUME NEW c \in Seq(Block), IdsIn(c) = {}, NEW t
    PROVE  /\ Stripped(c, t) \in Seq(Block) /\ IdsIn(Stripped(c, t)) = {}
           /\ UniqueIds(Stripped(c, t))
<1>1. Stripped(c, t) \in Seq(Block)
  BY StrippedTyped
<1>2. IdsIn(Stripped(c, t)) = {}
  <2>1. CASE ~Repeats(c, t)
    BY <2>1 DEF Stripped
  <2>2. CASE Repeats(c, t)
    <3>1. PICK f \in 1..Len(c) : f = FirstHead(c)
      BY <2>2, FirstHeadIn DEF Repeats
    <3>2. PICK g : g = f + 1
      OBVIOUS
    <3>3. f \in 1..(Len(c) + 1) /\ g \in 1..(Len(c) + 1) /\ f <= g /\ <<>> \in Seq(Block)
      <4>1. Len(c) \in Nat
        BY BlockIs
      <4> QED
        BY <3>2, <4>1
    <3>4. \A v : v \in IdsIn(Replaced(c, f, g, <<>>))
                    <=> v \in IdsAround(c, f, g) \/ v \in IdsIn(<<>>)
      BY <3>3, IdsReplaced, Zenon
    <3>5. \A v : v \notin IdsAround(c, f, g)
      BY DEF IdsAround, IdsIn
    <3>6. Stripped(c, t) = Replaced(c, f, g, <<>>)
      BY <2>2, <3>1, <3>2, IdsWithout DEF Stripped
    <3> QED
      BY <3>4, <3>5, <3>6, IdsOfNone
  <2> QED
    BY <2>1, <2>2
<1> QED
  BY <1>1, <1>2, IdsOfNone

LEMMA AroundIn ==
    ASSUME NEW d, NEW from, NEW to
    PROVE  \A v \in IdsAround(d, from, to) : v \in IdsIn(d) /\ v # NoId
  BY DEF IdsAround, IdsIn

LEMMA PreambleEnds ==
    ASSUME NEW d \in Seq(Block), 0 \in Nodes(d)
    PROVE  SectionEnd(d, 0) = BodyEnd(d, 0)
<1>1. 0 \notin HeadsIn(d)
  <2>1. \A h \in HeadsIn(d) : h \in 1..Len(d)
    BY BlockIs
  <2> QED
    BY <2>1
<1>2. ASSUME NEW k \in DOMAIN Parents(d), Parents(d)[k] = 0 PROVE FALSE
  BY <1>1, <1>2, KidsAreBelow
<1>3. Children(d, 0) = {}
  BY <1>2 DEF Children
<1> QED
  BY <1>3, EndsAre

(* The places of the cuts in order.                                         *)
LEMMA PlacesOrdered ==
    ASSUME NEW d \in Seq(Block), NEW n \in Nodes(d)
    PROVE  /\ BodyStart(d, n) = n + 1 /\ n \in Nat
           /\ n + 1 <= BodyEnd(d, n) /\ BodyEnd(d, n) <= SectionEnd(d, n)
           /\ Start(d, n) <= SectionEnd(d, n)
           /\ \A c : n + 1 <= ReplaceEnd(d, n, c) /\ Start(d, n) <= ReplaceEnd(d, n, c)
           /\ \A h \in HeadsIn(d) : n < h => BodyEnd(d, n) <= h
<1> DEFINE s == {j \in HeadsIn(d) : j > n} \union {Len(d) + 1}
<1>1. /\ Len(d) \in Nat /\ n \in 0..Len(d) /\ \A h \in HeadsIn(d) : h \in 1..Len(d)
      /\ n # 0 => n \in HeadsIn(d)
      /\ BodyEnd(d, n) \in 1..(Len(d) + 1) /\ SectionEnd(d, n) \in 1..(Len(d) + 1)
      /\ Start(d, n) \in 1..(Len(d) + 1)
  <2>1. \A h \in HeadsIn(d) : h \in 1..Len(d)
    BY BlockIs
  <2> QED
    BY <2>1, PlacesIn
<1>2. s \in SUBSET Nat /\ s # {} /\ Len(d) + 1 \in s /\ (\A j \in s : n < j)
      /\ \A h \in HeadsIn(d) : n < h => h \in s
  BY <1>1
<1> HIDE DEF s
<1>3. BodyEnd(d, n) \in s /\ \A j \in s : BodyEnd(d, n) <= j
  <2>1. Min(s) \in s /\ \A j \in s : Min(s) <= j
    BY <1>2, MinIs
  <2> QED
    BY <2>1 DEF BodyEnd, s
<1>4. SectionEnd(d, n) \in s
  <2>1. CASE n # 0
    <3>1. Ends(d, n, SectionEnd(d, n))
      BY <1>1, <2>1, SectionEnds
    <3> QED
      BY <1>2, <3>1 DEF Ends
  <2>2. CASE n = 0
    BY <2>2, PreambleEnds, <1>3
  <2> QED
    BY <2>1, <2>2
<1>5. n + 1 <= BodyEnd(d, n) /\ BodyEnd(d, n) <= SectionEnd(d, n)
  BY <1>1, <1>2, <1>3, <1>4
<1>6. BodyStart(d, n) = n + 1 /\ Start(d, n) <= n + 1
  BY <1>1 DEF BodyStart, Start
<1>7. \A c : ReplaceEnd(d, n, c) = SectionEnd(d, n) \/ ReplaceEnd(d, n, c) = BodyEnd(d, n)
  BY DEF ReplaceEnd
<1> QED
  BY <1>1, <1>2, <1>3, <1>5, <1>6, <1>7

(* No anchor of d is lost but those of the blocks A.                        *)
Keeps(d, e, A) == \A h \in HeadsIn(d) \ A : d[h].id \in IdsIn(e) \union {NoId}

(* Blocks without anchors in the place of others.                           *)
LEMMA AnchorsAround ==
    ASSUME NEW d \in Seq(Block), NEW from \in 1..(Len(d) + 1), NEW to \in 1..(Len(d) + 1),
           from <= to, NEW x \in Seq(Block)
    PROVE  /\ UniqueIds(d) /\ IdsIn(x) = {} => UniqueIds(Replaced(d, from, to, x))
           /\ Keeps(d, Replaced(d, from, to, x), from .. (to - 1))
<1>1. \A v : v \in IdsIn(Replaced(d, from, to, x)) <=> v \in IdsAround(d, from, to) \/ v \in IdsIn(x)
  BY IdsReplaced
<1>2. UniqueIds(d) /\ UniqueIds(x) /\ (\A v \in IdsIn(x) : v \notin IdsAround(d, from, to))
        => UniqueIds(Replaced(d, from, to, x))
  BY IdsReplaced
<1>3. ASSUME UniqueIds(d), IdsIn(x) = {} PROVE UniqueIds(Replaced(d, from, to, x))
  BY <1>2, <1>3, IdsOfNone
<1>4. ASSUME NEW h \in HeadsIn(d) \ (from .. (to - 1))
      PROVE  d[h].id \in IdsIn(Replaced(d, from, to, x)) \union {NoId}
  <2>1. h \in 1..Len(d) /\ Len(d) \in Nat
    BY BlockIs
  <2>2. h < from \/ h >= to
    BY <1>4, <2>1
  <2>3. d[h].id \in IdsAround(d, from, to) \union {NoId}
    BY <1>4, <2>2 DEF IdsAround
  <2> QED
    BY <1>1, <2>3
<1> QED
  BY <1>3, <1>4 DEF Keeps

LEMMA JoinOfThree ==
    ASSUME NEW S, NEW a \in Seq(S), NEW b \in Seq(S), NEW c \in Seq(S)
    PROVE  /\ (a \o b) \o c = a \o (b \o c) /\ a \o <<>> = a /\ <<>> \o a = a
           /\ a \o b \in Seq(S)
  OBVIOUS

LEMMA BlocksJoin ==
    ASSUME NEW a \in Seq(Block), NEW b \in Seq(Block), NEW c \in Seq(Block)
    PROVE  /\ (a \o b) \o c = a \o (b \o c) /\ a \o <<>> = a /\ <<>> \o a = a
           /\ a \o b \in Seq(Block)
<1> HIDE DEF Block
<1> QED
  BY JoinOfThree

JoinsAlike(a, b, c) == (a \o b) \o c = a \o (b \o c)

LEMMA JoinedTwice ==
    \A a, b, c \in Seq(Block) : JoinsAlike(a, b, c)
  BY BlocksJoin DEF JoinsAlike

LEMMA DeleteIs ==
    ASSUME NEW d \in Seq(Block), NEW n \in Nodes(d)
    PROVE  DeleteNode(d, n) = Replaced(d, Start(d, n), SectionEnd(d, n), <<>>)
<1>1. PICK i \in 1..(Len(d) + 1) : i = Start(d, n)
  BY PlacesIn
<1>2. PICK j \in 1..(Len(d) + 1) : j = SectionEnd(d, n)
  BY PlacesIn
<1>3. PICK a \in Seq(Block) : a = Slice(d, 1, i)
  <2>1. Len(d) \in Nat /\ 1 \in 1..(Len(d) + 1)
    BY PlacesIn
  <2> QED
    BY <2>1, IdsSlice
<1>4. a \o <<>> = a
  BY JoinOfThree
<1> QED
  BY <1>1, <1>2, <1>3, <1>4 DEF DeleteNode, Replaced

(* A section's body replaced, text appended, a section taken away.          *)
LEMMA BodyAnchors ==
    ASSUME NEW d \in Seq(Block), NEW n \in Nodes(d), NEW c \in Seq(Block)
    PROVE  /\ UniqueIds(d) /\ IdsIn(c) = {} => UniqueIds(ReplaceBody(d, n, c))
           /\ Keeps(d, ReplaceBody(d, n, c),
                    BodyStart(d, n) .. (ReplaceEnd(d, n, Stripped(c, Title(d, n))) - 1))
           /\ UniqueIds(d) /\ IdsIn(c) = {} => UniqueIds(AppendBody(d, n, c))
           /\ Keeps(d, AppendBody(d, n, c), {})
           /\ UniqueIds(d) => UniqueIds(DeleteNode(d, n))
           /\ Keeps(d, DeleteNode(d, n), Start(d, n) .. (SectionEnd(d, n) - 1))
<1>1. PICK x \in Seq(Block) : x = Stripped(c, Title(d, n))
  BY StrippedTyped
<1>2. IdsIn(c) = {} => IdsIn(x) = {}
  BY <1>1, IdsStripped
<1>3. PICK i \in 1..(Len(d) + 1), j \in 1..(Len(d) + 1) :
         i = BodyStart(d, n) /\ j = ReplaceEnd(d, n, x)
  BY PlacesIn
<1>4. PICK k \in 1..(Len(d) + 1) : k = BodyEnd(d, n)
  BY PlacesIn
<1>5. PICK s \in 1..(Len(d) + 1), e \in 1..(Len(d) + 1) :
         s = Start(d, n) /\ e = SectionEnd(d, n)
  BY PlacesIn
<1>6. i <= j /\ s <= e /\ k <= k
  <2>1. i <= j
    BY <1>3, PlacesOrdered
  <2>2. s <= e
    BY <1>5, PlacesOrdered
  <2> QED
    BY <2>1, <2>2
<1>7. /\ ReplaceBody(d, n, c) = Replaced(d, i, j, x)
      /\ AppendBody(d, n, c) = Replaced(d, k, k, c)
      /\ DeleteNode(d, n) = Replaced(d, s, e, <<>>)
  BY <1>1, <1>3, <1>4, <1>5, DeleteIs, Zenon DEF ReplaceBody, AppendBody, Replaced
<1>8. /\ UniqueIds(d) /\ IdsIn(c) = {} => UniqueIds(ReplaceBody(d, n, c))
      /\ Keeps(d, ReplaceBody(d, n, c), i .. (j - 1))
  BY <1>2, <1>6, <1>7, AnchorsAround, Zenon
<1>9. /\ UniqueIds(d) /\ IdsIn(c) = {} => UniqueIds(AppendBody(d, n, c))
      /\ Keeps(d, AppendBody(d, n, c), k .. (k - 1))
  BY <1>6, <1>7, AnchorsAround, Zenon
<1>10. k .. (k - 1) = {}
  OBVIOUS
<1>11. <<>> \in Seq(Block) /\ IdsIn(<<>>) = {}
  BY IdsOfNone
<1>12. /\ UniqueIds(d) => UniqueIds(DeleteNode(d, n))
       /\ Keeps(d, DeleteNode(d, n), s .. (e - 1))
  BY <1>6, <1>7, <1>11, AnchorsAround, Zenon
<1> QED
  BY <1>1, <1>3, <1>5, <1>8, <1>9, <1>10, <1>12, Zenon

(* The first heading of c takes over the anchor of n, unless it has one.     *)
LEMMA AnchorTaken ==
    ASSUME NEW d \in Seq(Block), NEW n \in Nodes(d), NEW c \in Seq(Block)
    PROVE  LET w == WithAnchorOf(d, n, c)
               f == FirstHead(c)
           IN  /\ w \in Seq(Block) /\ HeadsIn(w) = HeadsIn(c)
               /\ \A i \in HeadsIn(c) :
                    w[i].id = IF n # 0 /\ i = f /\ c[i].id = NoId THEN d[n].id ELSE c[i].id
<1> DEFINE w == WithAnchorOf(d, n, c)
           f == FirstHead(c)
<1>0. /\ HeadsIn(c) = {i \in 1..Len(c) : c[i].level > 0} /\ Len(c) \in Nat
      /\ \A i \in 1..Len(c) : c[i] \in Block
      /\ f <= Len(c) => f \in HeadsIn(c)
      /\ f \in HeadsIn(c) => f <= Len(c)
  <2>1. HeadsIn(c) = {i \in 1..Len(c) : c[i].level > 0} /\ Len(c) \in Nat
        /\ \A i \in 1..Len(c) : c[i] \in Block
    BY BlockIs
  <2>2. f <= Len(c) => f \in HeadsIn(c)
    BY FirstHeadIn
  <2> QED
    BY <2>1, <2>2
<1>1. CASE ~(f <= Len(c) /\ n # 0 /\ c[f].id = NoId)
  <2>1. w = c
    BY <1>1 DEF WithAnchorOf
  <2>2. ASSUME NEW i \in HeadsIn(c)
        PROVE  c[i].id = IF n # 0 /\ i = f /\ c[i].id = NoId THEN d[n].id ELSE c[i].id
    BY <1>0, <1>1, <2>2
  <2> QED
    BY <2>1, <2>2
<1>2. CASE f <= Len(c) /\ n # 0 /\ c[f].id = NoId
  <2>1. f \in HeadsIn(c) /\ f \in 1..Len(c) /\ c[f] \in Block /\ c[f].level > 0
    BY <1>0, <1>2
  <2>2. PICK b : b = [level |-> c[f].level, text |-> c[f].text, id |-> d[n].id]
    OBVIOUS
  <2>3. b \in Block /\ b.level = c[f].level /\ b.id = d[n].id
    <3>1. d[n].id \in Ids
      BY <1>2, PlacesIn, BlockParts
    <3>2. c[f].level \in 0..6 /\ c[f].text \in Seq(Vocabulary) /\ c[f].level # 0
      BY <2>1, BlockParts
    <3>3. [level |-> c[f].level, text |-> c[f].text, id |-> d[n].id] \in Block
      BY <3>1, <3>2, BlockParts
    <3> QED
      BY <2>2, <3>3
  <2>4. [c[f] EXCEPT !.id = d[n].id] = b
    BY <2>1, <2>2, BlockChanged
  <2>5. w = [c EXCEPT ![f] = b]
    <3>1. [c EXCEPT ![f].id = d[n].id] = [c EXCEPT ![f] = [c[f] EXCEPT !.id = d[n].id]]
      BY <2>1
    <3> QED
      BY <1>2, <2>4, <3>1 DEF WithAnchorOf
  <2> HIDE DEF f, w
  <2>6. w \in Seq(Block) /\ Len(w) = Len(c) /\ \A i \in 1..Len(c) : w[i] = IF i = f THEN b ELSE c[i]
    <3> HIDE DEF Block
    <3> QED
      BY <2>1, <2>3, <2>5
  <2>7. HeadsIn(w) = {i \in 1..Len(c) : w[i].level > 0}
    BY <2>6, BlockIs
  <2>8. HeadsIn(w) = HeadsIn(c)
    <3>1. \A i \in 1..Len(c) : w[i].level = c[i].level
      BY <2>3, <2>6
    <3> QED
      BY <1>0, <2>7, <3>1
  <2>9. ASSUME NEW i \in HeadsIn(c)
        PROVE  w[i].id = IF n # 0 /\ i = f /\ c[i].id = NoId THEN d[n].id ELSE c[i].id
    <3>1. i \in 1..Len(c) /\ w[i] = IF i = f THEN b ELSE c[i]
      BY <1>0, <2>6
    <3>2. CASE i = f
      BY <1>2, <2>3, <3>1, <3>2 DEF f
    <3>3. CASE i # f
      BY <3>1, <3>3
    <3> QED
      BY <3>2, <3>3
  <2> QED
    BY <2>6, <2>8, <2>9 DEF w, f
<1> QED
  BY <1>1, <1>2

LEMMA KeepsLess ==
    ASSUME NEW d, NEW e, NEW A, NEW B, Keeps(d, e, A), A \subseteq B
    PROVE  Keeps(d, e, B)
  BY DEF Keeps

LEMMA TailHeads ==
    ASSUME NEW c \in Seq(Block), c # <<>>
    PROVE  /\ Tail(c) \in Seq(Block)
           /\ \A l : HasDeeper(Tail(c), l) => HasDeeper(c, l)
<1> DEFINE t == Tail(c)
<1>1. /\ t \in Seq(Block) /\ Len(c) \in Nat /\ Len(t) = Len(c) - 1
      /\ \A i \in 1..Len(t) : t[i] = c[i + 1]
  <2> HIDE DEF Block
  <2> QED
    OBVIOUS
<1>2. /\ HeadsIn(c) = {i \in 1..Len(c) : c[i].level > 0}
      /\ HeadsIn(t) = {i \in 1..Len(t) : t[i].level > 0}
  BY <1>1, BlockIs
<1> HIDE DEF t
<1>3. ASSUME NEW i \in HeadsIn(t) PROVE i + 1 \in HeadsIn(c) /\ t[i] = c[i + 1]
  <2>1. i \in 1..Len(t) /\ t[i].level > 0 /\ t[i] = c[i + 1]
    BY <1>1, <1>2
  <2>2. i + 1 \in 1..Len(c)
    BY <1>1, <2>1
  <2> QED
    BY <1>2, <2>1, <2>2
<1>4. ASSUME NEW i \in AtxIn(t) PROVE i + 1 \in AtxIn(c) /\ t[i] = c[i + 1]
  BY <1>3, <1>4 DEF AtxIn
<1> QED
  BY <1>1, <1>4 DEF HasDeeper, t

LEMMA FirstHeadLeast ==
    ASSUME NEW c \in Seq(Block), AtxIn(c) # {}
    PROVE  FirstHead(c) \in AtxIn(c) /\ FirstHead(c) \in HeadsIn(c)
           /\ \A h \in AtxIn(c) : FirstHead(c) <= h
<1> DEFINE s == AtxIn(c) \union {Len(c) + 1}
<1>1. Len(c) \in Nat /\ \A h \in AtxIn(c) : h \in HeadsIn(c) /\ h \in 1..Len(c)
  BY BlockIs DEF AtxIn
<1>2. s \in SUBSET Nat /\ s # {} /\ AtxIn(c) \subseteq s
  BY <1>1
<1> HIDE DEF s
<1>3. FirstHead(c) \in s /\ \A h \in s : FirstHead(c) <= h
  <2>1. Min(s) \in s /\ \A h \in s : Min(s) <= h
    BY <1>2, MinIs
  <2> QED
    BY <2>1 DEF FirstHead, s
<1>4. FirstHead(c) # Len(c) + 1
  BY <1>1, <1>2, <1>3
<1> QED
  BY <1>1, <1>2, <1>3, <1>4 DEF s

(* Content without underlined headings, and what is left of it when it      *)
(* repeats a title.                                                         *)
LEMMA AtxOnlyIs ==
    ASSUME NEW c \in Seq(Block), NEW t, AtxOnly(c)
    PROVE  AtxIn(c) = HeadsIn(c) /\ AtxIn(Stripped(c, t)) = HeadsIn(Stripped(c, t))
<1>1. ASSUME NEW e \in Seq(Block), \A i \in 1..Len(e) : e[i] \notin Underlined
      PROVE  AtxIn(e) = HeadsIn(e)
  BY <1>1, BlockIs DEF AtxIn
<1>2. Len(c) \in Nat /\ \A i \in 1..Len(c) : c[i] \notin Underlined
  BY BlockIs DEF AtxOnly
<1>3. AtxIn(c) = HeadsIn(c)
  BY <1>1, <1>2
<1>4. CASE ~Repeats(c, t)
  BY <1>3, <1>4 DEF Stripped
<1>5. CASE Repeats(c, t)
  <2>1. PICK f \in 1..Len(c) : f = FirstHead(c)
    BY <1>5, FirstHeadIn DEF Repeats
  <2>2. PICK e \in Seq(Block) : e = RemoveAt(c, f)
    BY RemoveAtIs
  <2>3. \A i \in 1..Len(e) : e[i] \notin Underlined
    <3>1. PICK S : S = {b \in Block : b \notin Underlined}
      OBVIOUS
    <3>2. \A i \in 1..Len(c) : c[i] \in S
      BY <1>2, <3>1, BlockIs
    <3> HIDE DEF Block
    <3>3. c \in Seq(S)
      <4>1. c = [i \in 1..Len(c) |-> c[i]]
        OBVIOUS
      <4> QED
        BY <1>2, <3>2, <4>1
    <3>4. e \in Seq(S)
      BY <2>2, <3>3, RemoveAtIs
    <3> QED
      BY <3>1, <3>4
  <2>4. Stripped(c, t) = e
    BY <1>5, <2>1, <2>2 DEF Stripped
  <2> QED
    BY <1>1, <1>3, <2>3, <2>4
<1> QED
  BY <1>4, <1>5

(* A section replaced with its heading: its anchor stays with the first      *)
(* heading of the content.                                                  *)
LEMMA WholeAnchors ==
    ASSUME NEW d \in Seq(Block), NEW n \in Nodes(d), NEW c \in Seq(Block)
    PROVE  /\ UniqueIds(d) /\ IdsIn(c) = {} => UniqueIds(ReplaceWhole(d, n, c))
           /\ Keeps(d, ReplaceWhole(d, n, c), Start(d, n) .. (ReplaceEnd(d, n, c) - 1))
           /\ n # 0 /\ (StartsWithHash(c) => TakesAnchor(c))
                => d[n].id \in IdsIn(ReplaceWhole(d, n, c)) \union {NoId}
<1>1. PICK i \in 1..(Len(d) + 1), j \in 1..(Len(d) + 1), k \in 1..(Len(d) + 1), m \in 1..(Len(d) + 1) :
         /\ i = Start(d, n) /\ j = ReplaceEnd(d, n, c)
         /\ k = BodyStart(d, n) /\ m = ReplaceEnd(d, n, Tail(c))
  BY PlacesIn
<1>2. /\ i <= j /\ i <= m /\ k <= j /\ n + 1 <= m /\ k = n + 1 /\ n \in Nat /\ i <= k
      /\ n # 0 => n \in HeadsIn(d) /\ i = n
  BY <1>1, PlacesOrdered, PlacesIn DEF Start
<1>3. \A h \in HeadsIn(d) : h \in Int
  BY BlockIs
<1>4. CASE ~StartsWithHash(c)
  <2>1. ReplaceWhole(d, n, c) = Replaced(d, k, j, c)
    BY <1>1, <1>4 DEF ReplaceWhole, Replaced
  <2>2. /\ UniqueIds(d) /\ IdsIn(c) = {} => UniqueIds(ReplaceWhole(d, n, c))
        /\ Keeps(d, ReplaceWhole(d, n, c), k .. (j - 1))
    BY <1>2, <2>1, AnchorsAround, Zenon
  <2>3. k .. (j - 1) \subseteq i .. (j - 1)
    BY <1>2
  <2>4. Keeps(d, ReplaceWhole(d, n, c), i .. (j - 1))
    BY <2>2, <2>3, KeepsLess, Zenon
  <2>5. ASSUME n # 0 PROVE d[n].id \in IdsIn(ReplaceWhole(d, n, c)) \union {NoId}
    <3>1. n \in HeadsIn(d) /\ n \notin k .. (j - 1)
      BY <1>2, <2>5
    <3> QED
      BY <2>2, <3>1 DEF Keeps
  <2> QED
    BY <1>1, <2>2, <2>4, <2>5, Zenon
<1>5. CASE StartsWithHash(c)
  <2>0. c # <<>>
    BY <1>5 DEF StartsWithHash
  <2>1. PICK f : f = FirstHead(c)
    OBVIOUS
  <2>2. PICK w \in Seq(Block) :
           /\ w = WithAnchorOf(d, n, c) /\ HeadsIn(w) = HeadsIn(c)
           /\ \A h \in HeadsIn(c) :
                 w[h].id = IF n # 0 /\ h = f /\ c[h].id = NoId THEN d[n].id ELSE c[h].id
    BY <2>1, AnchorTaken, Zenon
  <2>3. ReplaceWhole(d, n, c) = Replaced(d, i, m, w)
    BY <1>1, <1>5, <2>2 DEF ReplaceWhole, Replaced
  <2>4. m <= j
    <3>1. \A l : HasDeeper(Tail(c), l) => HasDeeper(c, l)
      BY <2>0, TailHeads
    <3>2. BodyEnd(d, n) <= SectionEnd(d, n) /\ BodyEnd(d, n) \in Int /\ SectionEnd(d, n) \in Int
      BY PlacesOrdered, PlacesIn
    <3> QED
      BY <1>1, <3>1, <3>2 DEF ReplaceEnd
  <2>5. Keeps(d, ReplaceWhole(d, n, c), i .. (j - 1))
    <3>1. Keeps(d, ReplaceWhole(d, n, c), i .. (m - 1))
      BY <1>2, <2>3, AnchorsAround, Zenon
    <3>2. i .. (m - 1) \subseteq i .. (j - 1)
      BY <2>4
    <3> QED
      BY <3>1, <3>2, KeepsLess, Zenon
  <2>6. /\ \A v : v \in IdsIn(Replaced(d, i, m, w)) <=> v \in IdsAround(d, i, m) \/ v \in IdsIn(w)
        /\ UniqueIds(d) /\ UniqueIds(w) /\ (\A v \in IdsIn(w) : v \notin IdsAround(d, i, m))
             => UniqueIds(Replaced(d, i, m, w))
    BY <1>2, IdsReplaced, Zenon
  <2>7. ASSUME UniqueIds(d), IdsIn(c) = {} PROVE UniqueIds(ReplaceWhole(d, n, c))
    <3>1. \A h \in HeadsIn(w) : w[h].id = NoId \/ (n # 0 /\ h = f /\ w[h].id = d[n].id)
      <4>1. \A h \in HeadsIn(c) : c[h].id = NoId
        BY <2>7, IdsAre
      <4> QED
        BY <2>2, <4>1
    <3>2. UniqueIds(w)
      BY <3>1 DEF UniqueIds
    <3>3. ASSUME NEW v \in IdsIn(w) PROVE v \notin IdsAround(d, i, m)
      <4>1. n # 0 /\ v = d[n].id /\ v # NoId
        BY <3>1, <3>3, IdsAre
      <4>2. ASSUME NEW h \in HeadsIn(d), h < i \/ h >= m PROVE d[h].id # v
        <5>1. h # n /\ n \in HeadsIn(d)
          BY <1>2, <1>3, <4>1, <4>2
        <5> QED
          BY <2>7, <4>1, <5>1 DEF UniqueIds
      <4> QED
        BY <4>2 DEF IdsAround
    <3> QED
      BY <2>3, <2>6, <2>7, <3>2, <3>3
  <2>8. ASSUME n # 0, TakesAnchor(c)
        PROVE  d[n].id \in IdsIn(ReplaceWhole(d, n, c)) \union {NoId}
    <3>1. f \in HeadsIn(c) /\ c[f].id = NoId
      <4>1. AtxIn(c) # {} /\ c[f].id = NoId
        BY <2>1, <2>8 DEF TakesAnchor
      <4> QED
        BY <2>1, <4>1, FirstHeadLeast
    <3>2. w[f].id = d[n].id
      BY <2>2, <2>8, <3>1
    <3>3. d[n].id \in IdsIn(w) \union {NoId}
      BY <2>2, <3>1, <3>2, IdsAre
    <3> QED
      BY <2>3, <2>6, <3>3
  <2> QED
    BY <1>1, <1>5, <2>5, <2>7, <2>8, Zenon
<1> QED
  BY <1>4, <1>5

LEMMA NewIdIs ==
    ASSUME NEW d \in Seq(Block), NEW t \in Seq(Vocabulary), NEW c \in Seq(Block)
    PROVE  /\ NewId(d, t, c) \in Ids
           /\ IdsIn(c) = {} => NewId(d, t, c) \notin IdsIn(d)
<1>1. ASSUME KeepsId(d, t, c)
      PROVE  NewId(d, t, c) \in Ids /\ NewId(d, t, c) \in IdsIn(c)
  <2>1. FirstHead(c) \in HeadsIn(c) /\ c[FirstHead(c)].id # NoId
    BY <1>1, FirstHeadIn DEF KeepsId, Repeats
  <2>2. c[FirstHead(c)] \in Block
    BY <2>1, BlockIs
  <2>3. c[FirstHead(c)].id \in IdsIn(c)
    BY <2>1, IdsAre
  <2> QED
    BY <1>1, <2>2, <2>3, BlockParts DEF NewId
<1>2. ASSUME ~KeepsId(d, t, c)
      PROVE  NewId(d, t, c) \in Ids /\ NewId(d, t, c) \notin IdsIn(d)
  BY <1>2, FreshIdIsFree, IdsAreFinite DEF NewId
<1> QED
  BY <1>1, <1>2

(* A section inserted: the anchor it gets is of no other section.            *)
LEMMA InsertAnchors ==
    ASSUME NEW d \in Seq(Block), NEW n \in Nodes(d), NEW p, NEW t \in Seq(Vocabulary),
           NEW c \in Seq(Block), NEW l \in Int
    PROVE  /\ UniqueIds(d) /\ IdsIn(c) = {} => UniqueIds(InsertNode(d, n, p, t, c, l))
           /\ Keeps(d, InsertNode(d, n, p, t, c, l), {})
<1>1. PICK at \in 1..(Len(d) + 1) : at = InsertAtPos(d, n, p)
  BY PlacesIn
<1>2. PICK lev \in Int : lev = IF l = 0 THEN DestLevel(d, n, p) ELSE l
  BY PlacesIn
<1>3. PICK b \in Block : b = Rendered(lev, t, NewId(d, t, c))
  BY NewIdIs, BlocksMade
<1>4. b.id = NoId \/ b.id = NewId(d, t, c)
  BY <1>3 DEF Rendered, Heading, Body
<1>5. PICK s \in Seq(Block) : s = Stripped(c, t)
  BY StrippedTyped
<1>6. PICK a \in Seq(Block), r \in Seq(Block) :
         a = Slice(d, 1, at) /\ r = Slice(d, at, Len(d) + 1)
  <2>1. Len(d) \in Nat /\ 1 \in 1..(Len(d) + 1) /\ Len(d) + 1 \in 1..(Len(d) + 1)
    BY PlacesIn
  <2> QED
    BY <2>1, IdsSlice
<1>7. PICK one \in Seq(Block) :
         /\ one = <<b>> /\ UniqueIds(one) /\ IdsIn(one) = {b.id} \ {NoId}
  BY IdsOfOne
<1>8. PICK x \in Seq(Block) : x = one \o s
  BY JoinIs
<1>9. InsertNode(d, n, p, t, c, l) = Replaced(d, at, at, x)
  <2>1. InsertNode(d, n, p, t, c, l) = ((a \o one) \o s) \o r
    <3>1. InsertNode(d, n, p, t, c, l)
            = Slice(d, 1, at) \o <<b>> \o s \o Slice(d, at, Len(d) + 1)
      BY <1>1, <1>2, <1>3, <1>5, Zenon DEF InsertNode
    <3>2. one = <<b>>
      BY <1>7
    <3>3. a = Slice(d, 1, at) /\ r = Slice(d, at, Len(d) + 1)
      BY <1>6
    <3> QED
      BY <3>1, <3>2, <3>3
  <2>2. (a \o one) \o s = a \o x
    <3>1. JoinsAlike(a, one, s)
      BY JoinedTwice, Zenon
    <3> QED
      BY <1>8, <3>1 DEF JoinsAlike
  <2>3. Replaced(d, at, at, x) = (a \o x) \o r
    BY <1>6 DEF Replaced
  <2> QED
    BY <2>1, <2>2, <2>3
<1>10. at <= at /\ at .. (at - 1) = {}
  OBVIOUS
<1>11. Keeps(d, InsertNode(d, n, p, t, c, l), {})
  <2>1. Keeps(d, Replaced(d, at, at, x), at .. (at - 1))
    BY <1>10, AnchorsAround
  <2> QED
    BY <1>9, <1>10, <2>1
<1>12. ASSUME UniqueIds(d), IdsIn(c) = {}
       PROVE  UniqueIds(InsertNode(d, n, p, t, c, l))
  <2>1. IdsIn(s) = {} /\ UniqueIds(s)
    BY <1>5, <1>12, IdsStripped
  <2>2. IdsIn(x) = IdsIn(one) \union IdsIn(s) /\ UniqueIds(x)
    BY <1>7, <1>8, <2>1, IdsJoin
  <2>3. NewId(d, t, c) \notin IdsIn(d)
    BY <1>12, NewIdIs
  <2>4. \A v \in IdsIn(x) : v \notin IdsAround(d, at, at)
    <3>1. ASSUME NEW v \in IdsIn(x) PROVE v = NewId(d, t, c)
      BY <1>4, <1>7, <2>1, <2>2, <3>1
    <3> QED
      BY <2>3, <3>1, AroundIn
  <2>5. UniqueIds(Replaced(d, at, at, x))
    BY <1>10, <1>12, <2>2, <2>4, IdsReplaced, Zenon
  <2> QED
    BY <1>9, <2>5
<1> QED
  BY <1>11, <1>12

(* The same anchors at the same places: renamed, moved to another level,     *)
(* words replaced.                                                          *)
LEMMA SameAnchors ==
    ASSUME NEW d, NEW e, HeadsIn(e) = HeadsIn(d), \A h \in HeadsIn(d) : e[h].id = d[h].id
    PROVE  /\ IdsIn(e) = IdsIn(d) /\ (UniqueIds(d) => UniqueIds(e))
           /\ Keeps(d, e, {})
  BY DEF IdsIn, UniqueIds, Keeps

LEMMA RenameAnchors ==
    ASSUME NEW d \in Seq(Block), NEW n \in HeadsIn(d), NEW t \in Seq(Vocabulary), NEW a \in Ids
    PROVE  /\ a = NoId => /\ UniqueIds(d) => UniqueIds(RenameHeading(d, n, t, a))
                          /\ Keeps(d, RenameHeading(d, n, t, a), {})
           /\ Keeps(d, RenameHeading(d, n, t, a), {n})
<1> DEFINE e == RenameHeading(d, n, t, a)
<1>1. /\ n \in 1..Len(d) /\ d[n].level > 0 /\ Len(d) \in Nat
      /\ HeadsIn(d) = {i \in 1..Len(d) : d[i].level > 0}
  BY BlockIs
<1>2. PICK v : v = IF a = NoId THEN d[n].id ELSE a
  OBVIOUS
<1>3. PICK b : b = [level |-> d[n].level, text |-> t, id |-> v]
  OBVIOUS
<1>4. e = [d EXCEPT ![n] = b]
  BY <1>2, <1>3 DEF RenameHeading, Heading
<1>5. b.level = d[n].level /\ b.id = v
  BY <1>3
<1> HIDE DEF e
<1>6. DOMAIN e = 1..Len(d) /\ \A i \in 1..Len(d) : e[i] = IF i = n THEN b ELSE d[i]
  <2>1. DOMAIN d = 1..Len(d)
    BY BlockIs
  <2> QED
    BY <1>1, <1>4, <2>1
<1>7. HeadsIn(e) = HeadsIn(d)
  <2>1. HeadsIn(e) = {i \in 1..Len(d) : e[i].level > 0}
    BY <1>6 DEF HeadsIn
  <2>2. \A i \in 1..Len(d) : e[i].level = d[i].level
    BY <1>5, <1>6
  <2> QED
    BY <1>1, <2>1, <2>2
<1>8. \A h \in HeadsIn(d) : h # n \/ a = NoId => e[h].id = d[h].id
  BY <1>1, <1>2, <1>5, <1>6
<1>9. ASSUME a = NoId
      PROVE  (UniqueIds(d) => UniqueIds(e)) /\ Keeps(d, e, {})
  BY <1>7, <1>8, <1>9, SameAnchors
<1>10. Keeps(d, e, {n})
  <2> SUFFICES ASSUME NEW h \in HeadsIn(d), h # n PROVE d[h].id \in IdsIn(e) \union {NoId}
    BY DEF Keeps
  <2> QED
    BY <1>7, <1>8, IdsAre
<1> QED
  BY <1>9, <1>10 DEF e

LEMMA ShiftedAnchors ==
    ASSUME NEW s \in Seq(Block), NEW delta \in Int,
           \A i \in HeadsIn(s) : s[i].level + delta \in 1..6
    PROVE  /\ Shifted(s, delta) \in Seq(Block)
           /\ IdsIn(Shifted(s, delta)) = IdsIn(s)
           /\ UniqueIds(s) => UniqueIds(Shifted(s, delta))
<1> DEFINE e == Shifted(s, delta)
<1>1. e \in Seq(Block)
  BY ShiftedTyped
<1>2. /\ DOMAIN e = 1..Len(s) /\ DOMAIN s = 1..Len(s)
      /\ \A i \in 1..Len(s) :
            e[i] = IF s[i].level = 0 THEN s[i] ELSE [s[i] EXCEPT !.level = @ + delta]
  BY BlockIs DEF Shifted
<1> HIDE DEF e
<1>3. HeadsIn(s) = {i \in 1..Len(s) : s[i].level > 0} /\ HeadsIn(e) = {i \in 1..Len(s) : e[i].level > 0}
  BY <1>2 DEF HeadsIn
<1>4. ASSUME NEW i \in 1..Len(s)
      PROVE  (e[i].level > 0 <=> s[i].level > 0) /\ (i \in HeadsIn(s) => e[i].id = s[i].id)
  <2>1. s[i] \in Block /\ s[i].level \in 0..6
    BY BlockIs
  <2>2. CASE s[i].level = 0
    BY <1>2, <2>2
  <2>3. CASE s[i].level # 0
    <3>1. i \in HeadsIn(s)
      BY <1>3, <2>1, <2>3
    <3>2. e[i] = [level |-> s[i].level + delta, text |-> s[i].text, id |-> s[i].id]
      BY <1>2, <2>1, <2>3, BlockChanged
    <3>3. s[i].level + delta \in 1..6
      BY <3>1
    <3> QED
      BY <2>1, <2>3, <3>2, <3>3
  <2> QED
    BY <2>2, <2>3
<1>5. HeadsIn(e) = HeadsIn(s) /\ \A h \in HeadsIn(s) : e[h].id = s[h].id
  BY <1>3, <1>4
<1> QED
  BY <1>1, <1>5, SameAnchors DEF e

LEMMA FindReplaceAnchors ==
    ASSUME NEW d \in Seq(Block), NEW w, NEW v, NEW ids
    PROVE  /\ UniqueIds(d) => UniqueIds(FindReplace(d, w, v, ids))
           /\ Keeps(d, FindReplace(d, w, v, ids), {})
<1> DEFINE hit(i) == i \in Matches(d, w) /\ MatchId(d, w, i) \in ids
           t(i) == [j \in DOMAIN d[i].text |-> IF d[i].text[j] = w THEN v ELSE d[i].text[j]]
           b(i) == IF hit(i) THEN [d[i] EXCEPT !.text = t(i)] ELSE d[i]
           e == FindReplace(d, w, v, ids)
<1>1. e = [i \in DOMAIN d |-> b(i)]
  BY DEF FindReplace
<1> HIDE DEF e, hit, t
<1>2. DOMAIN d = 1..Len(d)
  BY BlockIs
<1>3. ASSUME NEW i \in DOMAIN d PROVE b(i).level = d[i].level /\ b(i).id = d[i].id
  <2>1. d[i] \in Block
    BY <1>2, BlockIs
  <2>2. [d[i] EXCEPT !.text = t(i)] = [level |-> d[i].level, text |-> t(i), id |-> d[i].id]
    BY <2>1, BlockChanged
  <2> QED
    BY <2>2
<1> HIDE DEF b
<1>4. DOMAIN e = DOMAIN d /\ \A i \in DOMAIN d : e[i].level = d[i].level /\ e[i].id = d[i].id
  BY <1>1, <1>3
<1>5. HeadsIn(e) = HeadsIn(d) /\ \A h \in HeadsIn(d) : e[h].id = d[h].id
  BY <1>4 DEF HeadsIn
<1> QED
  BY <1>5, SameAnchors DEF e

(* Anchors given to the headings without one: each is new.                   *)
LEMMA AnchorAdded ==
    ASSUME NEW d \in Seq(Block), NEW e \in Alike(d), NEW i \in 1..Len(d)
    PROVE  /\ UniqueIds(e) => UniqueIds(Assigned(d, e, i))
           /\ \A h \in HeadsIn(d) : Assigned(d, e, i)[h].id = e[h].id \/ d[h].id = NoId
<1>1. CASE d[i].level = 0 \/ d[i].id # NoId
  BY <1>1 DEF Assigned
<1>2. CASE ~(d[i].level = 0 \/ d[i].id # NoId)
  <2>1. e \in Seq(Block) /\ Len(e) = Len(d)
    BY DEF Alike
  <2>2. PICK a : a = FreshId(d[i].text, IdsIn(d) \union IdsIn(e))
    OBVIOUS
  <2>3. a \notin IdsIn(e) /\ a # NoId
    <3>1. IsFiniteSet(IdsIn(d)) /\ IsFiniteSet(IdsIn(e)) /\ d[i].text \in Seq(Vocabulary)
      BY <2>1, IdsAreFinite, BlockIs, BlockParts
    <3>2. IsFiniteSet(IdsIn(d) \union IdsIn(e))
      BY <3>1, FS_Union
    <3>3. a \notin IdsIn(d) \union IdsIn(e) /\ a # NoId
      BY <2>2, <3>1, <3>2, FreshIdIsFree
    <3> QED
      BY <3>3
  <2>4. PICK g : g = Assigned(d, e, i) /\ g = [e EXCEPT ![i].id = a]
    BY <1>2, <2>2 DEF Assigned
  <2>5. /\ DOMAIN e = 1..Len(d) /\ DOMAIN g = 1..Len(d)
        /\ \A h \in 1..Len(d) : h # i => g[h] = e[h]
        /\ g[i] = [e[i] EXCEPT !.id = a]
    <3>1. DOMAIN e = 1..Len(d)
      BY <2>1, BlockIs
    <3> QED
      BY <2>4, <3>1
  <2>6. g[i].id = a /\ g[i].level = e[i].level
    <3>1. e[i] \in Block
      BY <2>1, BlockIs
    <3>2. [e[i] EXCEPT !.id = a] = [level |-> e[i].level, text |-> e[i].text, id |-> a]
      BY <3>1, BlockChanged
    <3> QED
      BY <2>5, <3>2
  <2>7. HeadsIn(g) = HeadsIn(e) /\ HeadsIn(d) \subseteq 1..Len(d)
    <3>1. \A h \in 1..Len(d) : g[h].level = e[h].level
      BY <2>5, <2>6
    <3> QED
      BY <2>5, <3>1, BlockIs DEF HeadsIn
  <2>8. HeadsIn(e) \subseteq 1..Len(d)
    BY <2>1, BlockIs
  <2>9. ASSUME UniqueIds(e) PROVE UniqueIds(g)
    <3> SUFFICES ASSUME NEW h \in HeadsIn(e), NEW k \in HeadsIn(e), h # k,
                        g[h].id = g[k].id, g[h].id # NoId
                 PROVE  FALSE
      BY <2>7 DEF UniqueIds
    <3>0. \A j \in HeadsIn(e) : e[j].id \in IdsIn(e) \union {NoId} /\ j \in 1..Len(d)
      BY <2>8, IdsAre
    <3>1. CASE h = i
      <4>1. g[k] = e[k] /\ g[h].id = a
        BY <2>5, <2>6, <3>0, <3>1
      <4> QED
        BY <2>3, <3>0, <4>1
    <3>2. CASE k = i
      <4>1. g[h] = e[h] /\ g[k].id = a
        BY <2>5, <2>6, <3>0, <3>2
      <4> QED
        BY <2>3, <3>0, <4>1
    <3>3. CASE h # i /\ k # i
      BY <2>5, <2>8, <2>9, <3>3 DEF UniqueIds
    <3> QED
      BY <3>1, <3>2, <3>3
  <2>10. ASSUME NEW h \in HeadsIn(d) PROVE g[h].id = e[h].id \/ d[h].id = NoId
    <3>1. CASE h = i
      BY <1>2, <3>1
    <3>2. CASE h # i
      BY <2>5, <2>7, <3>2
    <3> QED
      BY <3>1, <3>2
  <2> QED
    BY <2>4, <2>9, <2>10
<1> QED
  BY <1>1, <1>2

LEMMA AssignAnchors ==
    ASSUME NEW d \in Seq(Block)
    PROVE  /\ UniqueIds(d) => UniqueIds(AssignIds(d))
           /\ Keeps(d, AssignIds(d), {})
<1> DEFINE n == Len(d)
<1>1. PICK f : /\ f[0] = d /\ AssignIds(d) = f[n]
               /\ \A i \in 1..n : f[i] = Assigned(d, f[i - 1], i)
               /\ \A i \in 0..n : f[i] \in Alike(d)
  BY AssignIs
<1>2. n \in Nat
  BY BlockIs
<1> DEFINE Good(k) == /\ UniqueIds(d) => UniqueIds(f[k])
                      /\ \A h \in HeadsIn(d) : d[h].id = f[k][h].id \/ d[h].id = NoId
           T == {k \in Nat : k <= n => Good(k)}
<1>3. 0 \in T
  BY <1>1
<1>4. ASSUME NEW k \in Nat, k \in T PROVE k + 1 \in T
  <2>1. SUFFICES ASSUME k + 1 <= n PROVE Good(k + 1)
    OBVIOUS
  <2>2. k + 1 \in 1..n /\ (k + 1) - 1 = k /\ k \in 0..n /\ k <= n
    BY <1>2, <2>1
  <2>3. Good(k)
    BY <1>4, <2>2
  <2> HIDE DEF n
  <2>4. f[k + 1] = Assigned(d, f[k], k + 1) /\ f[k] \in Alike(d)
    BY <1>1, <2>2
  <2>5. /\ UniqueIds(f[k]) => UniqueIds(f[k + 1])
        /\ \A h \in HeadsIn(d) : f[k + 1][h].id = f[k][h].id \/ d[h].id = NoId
    BY <2>2, <2>4, AnchorAdded DEF n
  <2> QED
    BY <2>3, <2>5
<1> HIDE DEF T
<1>5. n \in T
  BY <1>2, <1>3, <1>4, SetInduction
<1>6. Good(n)
  BY <1>2, <1>5 DEF T
<1>7. HeadsIn(f[n]) = HeadsIn(d)
  <2>1. n \in 0..n
    BY <1>2
  <2>2. f[n] \in Seq(Block) /\ Len(f[n]) = Len(d) /\ \A i \in 1..Len(d) : f[n][i].level = d[i].level
    BY <1>1, <2>1 DEF Alike
  <2>3. HeadsIn(f[n]) = {i \in 1..Len(d) : f[n][i].level > 0}
    BY <2>2, BlockIs
  <2> QED
    BY <2>2, <2>3, BlockIs
<1>8. Keeps(d, f[n], {})
  <2> HIDE DEF n
  <2> QED
    BY <1>6, <1>7, IdsAre DEF Keeps
<1> QED
  BY <1>1, <1>6, <1>8

(* e is d with blocks in the place of others, without anchors if c has none. *)
Patched(d, c, e) ==
    \E from, to \in 1..(Len(d) + 1), x \in Seq(Block) :
       from <= to /\ (IdsIn(c) = {} => IdsIn(x) = {}) /\ e = Replaced(d, from, to, x)

LEMMA PatchAnchors ==
    ASSUME NEW d \in Seq(Block), NEW c, NEW e, Patched(d, c, e)
    PROVE  e \in Seq(Block) /\ (IdsIn(c) = {} /\ UniqueIds(d) => UniqueIds(e))
<1>1. PICK from \in 1..(Len(d) + 1), to \in 1..(Len(d) + 1), x \in Seq(Block) :
         from <= to /\ (IdsIn(c) = {} => IdsIn(x) = {}) /\ e = Replaced(d, from, to, x)
  BY DEF Patched
<1> QED
  BY <1>1, IdsReplaced, AnchorsAround

(* A table of contents has no anchors.                                      *)
LEMMA TocIs ==
    ASSUME NEW d \in Seq(Block), NEW top, NEW open
    PROVE  Patched(d, <<>>, GenerateToc(d, top, open))
<1> DEFINE L == Len(d) + 1
<1>1. Len(d) \in Nat /\ \A j \in HeadsIn(d) : j \in 1..Len(d)
  BY BlockIs
<1>2. /\ TocTitle \in Seq(Vocabulary) /\ TocList \in Seq(Vocabulary)
      /\ Body(TocList) \in Block /\ Heading(2, TocTitle, NoId) \in Block
  <2>1. TocTitle \in Seq(Vocabulary) /\ TocList \in Seq(Vocabulary)
    BY DEF TocTitle, TocList, Vocabulary
  <2>2. Body(TocList) \in Block
    BY <2>1, BlocksMade
  <2>3. 2 \in 0..6 /\ 2 # 0
    OBVIOUS
  <2>4. Heading(2, TocTitle, NoId) \in Block
    BY <2>1, <2>3, BlockParts DEF Heading
  <2> QED
    BY <2>1, <2>2, <2>4
<1>3. PICK one \in Seq(Block) : one = <<Body(TocList)>> /\ IdsIn(one) = {}
  <2>1. Body(TocList).id = NoId
    BY DEF Body
  <2> QED
    BY <1>2, <2>1, IdsOfOne
<1>4. PICK two \in Seq(Block) : two = TocBlocks /\ IdsIn(two) = {}
  <2> DEFINE s == TocBlocks
  <2>1. s \in Seq(Block) /\ DOMAIN s = {1, 2} /\ s[1].id = NoId /\ s[2].id = NoId
    BY <1>2 DEF TocBlocks, Heading, Body
  <2> HIDE DEF s
  <2>2. IdsIn(s) = {}
    BY <2>1 DEF IdsIn, HeadsIn
  <2> QED
    BY <2>1, <2>2 DEF s
<1>5. CASE TocHeads(d, open) # {}
  <2>1. PICK i \in 1..Len(d) : i = Min(TocHeads(d, open))
    <3>1. TocHeads(d, open) \in SUBSET HeadsIn(d) /\ TocHeads(d, open) \in SUBSET Nat
      BY <1>1 DEF TocHeads
    <3>2. Min(TocHeads(d, open)) \in TocHeads(d, open)
      BY <1>5, <3>1, MinIs
    <3> QED
      BY <1>1, <3>1, <3>2
  <2>2. PICK to \in 1..L : to = TocEnd(d, i) /\ i + 1 <= to
    <3> DEFINE s == {j \in HeadsIn(d) : j > i /\ d[j].level <= 2} \union {L}
    <3>1. s \in SUBSET (1..L) /\ s \in SUBSET Nat /\ s # {} /\ \A j \in s : i + 1 <= j
      BY <1>1
    <3> HIDE DEF s
    <3>2. Min(s) \in s
      BY <3>1, MinIs
    <3> QED
      BY <3>1, <3>2 DEF s, TocEnd
  <2>3. PICK from \in 1..L : from = i + 1
    BY <1>1
  <2>4. GenerateToc(d, top, open) = Replaced(d, from, to, one)
    BY <1>3, <1>5, <2>1, <2>2, <2>3, Zenon DEF GenerateToc, Replaced
  <2> QED
    BY <1>3, <2>2, <2>3, <2>4 DEF Patched
<1>6. CASE TocHeads(d, open) = {}
  <2>1. PICK at \in 1..L : at = TocPlace(d, top, open)
    <3>1. TocPlace(d, top, open) \in 1..L
      <4> DEFINE line == IF AtxIn(d) = {} THEN 1 ELSE FirstHead(d)
      <4>1. d # <<>> => Len(d) >= 1
        BY <1>1
      <4>2. TocPlace(d, top, open) = 1 \/ (d # <<>> /\ TocPlace(d, top, open) = line + 1)
        BY DEF TocPlace
      <4>3. d # <<>> => line \in 1..Len(d)
        <5>1. AtxIn(d) # {} => FirstHead(d) \in 1..Len(d)
          BY <1>1, FirstHeadLeast
        <5> QED
          BY <1>1, <4>1, <5>1
      <4> HIDE DEF line
      <4> QED
        BY <1>1, <4>2, <4>3
    <3> QED
      BY <3>1
  <2>2. GenerateToc(d, top, open) = Replaced(d, at, at, two)
    BY <1>4, <1>6, <2>1, Zenon DEF GenerateToc, Replaced
  <2>3. at <= at
    OBVIOUS
  <2> QED
    BY <1>4, <2>2, <2>3 DEF Patched
<1> QED
  BY <1>5, <1>6

(* Text put into a block cuts it in two, and an anchor with it.              *)
LEMMA InsertTextIs ==
    ASSUME NEW d \in Seq(Block), NEW w, Occurrences(d, w) # {}, NEW after,
           NEW c \in Seq(Block)
    PROVE  Patched(d, c, InsertText(d, w, after, c))
<1>1. PICK o : o = CHOOSE q \in Occurrences(d, w) : TRUE
  OBVIOUS
<1>2. o[1] \in DOMAIN d /\ o[2] \in DOMAIN d[o[1]].text
  <2>1. o \in Occurrences(d, w)
    BY <1>1
  <2> QED
    BY <2>1 DEF Occurrences
<1>3. PICK b \in Block : b = d[o[1]]
  BY <1>2, BlockIs
<1>4. /\ b.level \in 0..6 /\ b.text \in Seq(Vocabulary) /\ o[2] \in DOMAIN b.text
      /\ o[1] \in 1..Len(d) /\ Len(d) \in Nat
  BY <1>2, <1>3, BlockIs, BlockParts
<1>5. PICK k \in 0..Len(b.text) : k = IF after THEN o[2] ELSE o[2] - 1
  <2>1. Len(b.text) \in Nat /\ o[2] \in 1..Len(b.text)
    BY <1>4
  <2> QED
    BY <2>1
<1>6. /\ SubSeq(b.text, 1, k) \in Seq(Vocabulary)
      /\ SubSeq(b.text, k + 1, Len(b.text)) \in Seq(Vocabulary)
  BY <1>4, <1>5
<1>7. PICK first \in Block : first = Heading(b.level, SubSeq(b.text, 1, k), NoId)
  <2>1. PICK t \in Seq(Vocabulary) : t = SubSeq(b.text, 1, k)
    BY <1>6
  <2>2. [level |-> b.level, text |-> t, id |-> NoId] \in Block
    BY <1>4, BlockParts
  <2> QED
    BY <2>1, <2>2 DEF Heading
<1>8. PICK rest \in Block :
         rest = Body(SubSeq(b.text, k + 1, Len(b.text))
                        \o (IF b.id = NoId THEN <<>> ELSE <<"^">>))
  <2>1. PICK t \in Seq(Vocabulary) : t = SubSeq(b.text, k + 1, Len(b.text))
    BY <1>6
  <2>2. PICK u \in Seq(Vocabulary) : u = IF b.id = NoId THEN <<>> ELSE <<"^">>
    <3>1. <<"^">> \in Seq(Vocabulary)
      BY DEF Vocabulary
    <3>2. <<>> \in Seq(Vocabulary)
      OBVIOUS
    <3> QED
      BY <3>1, <3>2
  <2>3. t \o u \in Seq(Vocabulary)
    BY JoinIs
  <2>4. Body(t \o u) \in Block
    BY <2>3, BlocksMade
  <2> QED
    BY <2>1, <2>2, <2>4
<1>9. first.id = NoId /\ rest.id = NoId
  BY <1>7, <1>8 DEF Heading, Body
<1>10. PICK s1 \in Seq(Block), s2 \in Seq(Block) :
          /\ s1 = IF first.level = 0 /\ first.text = <<>> THEN <<>> ELSE <<first>>
          /\ s2 = IF rest.text = <<>> THEN <<>> ELSE <<rest>>
          /\ IdsIn(s1) = {} /\ IdsIn(s2) = {}
  <2>1. <<first>> \in Seq(Block) /\ IdsIn(<<first>>) = {}
    BY <1>9, IdsOfOne
  <2>2. <<rest>> \in Seq(Block) /\ IdsIn(<<rest>>) = {}
    BY <1>9, IdsOfOne
  <2>3. <<>> \in Seq(Block) /\ IdsIn(<<>>) = {}
    BY IdsOfNone
  <2> QED
    BY <2>1, <2>2, <2>3
<1>11. PICK from \in 1..(Len(d) + 1), to \in 1..(Len(d) + 1) : from = o[1] /\ to = o[1] + 1
  <2>1. o[1] \in 1..(Len(d) + 1) /\ o[1] + 1 \in 1..(Len(d) + 1)
    BY <1>4
  <2> QED
    BY <2>1, Zenon
<1>12. PICK a1 \in Seq(Block), a2 \in Seq(Block) :
          a1 = Slice(d, 1, from) /\ a2 = Slice(d, to, Len(d) + 1)
  <2>1. 1 \in 1..(Len(d) + 1) /\ Len(d) + 1 \in 1..(Len(d) + 1)
    BY <1>4
  <2> QED
    BY <2>1, IdsSlice
<1>13. InsertText(d, w, after, c) = (((a1 \o s1) \o c) \o s2) \o a2
  <2>1. PICK s : s = SplitAt(b, k)
    OBVIOUS
  <2>2. s[1] = s1 /\ s[2] = s2
    BY <1>7, <1>8, <1>10, <2>1 DEF SplitAt
  <2>3. InsertText(d, w, after, c)
          = Slice(d, 1, from) \o s[1] \o c \o s[2] \o Slice(d, to, Len(d) + 1)
    BY <1>1, <1>3, <1>5, <1>11, <2>1 DEF InsertText
  <2> QED
    BY <1>12, <2>2, <2>3
<1>14. PICK y \in Seq(Block) : y = s1 \o c
  BY JoinIs
<1>15. PICK x \in Seq(Block) : x = y \o s2
  BY JoinIs
<1>16. InsertText(d, w, after, c) = Replaced(d, from, to, x)
  <2>1. (a1 \o s1) \o c = a1 \o y
    <3>1. JoinsAlike(a1, s1, c)
      BY JoinedTwice, Zenon
    <3> QED
      BY <1>14, <3>1 DEF JoinsAlike
  <2>2. (a1 \o y) \o s2 = a1 \o x
    <3>1. JoinsAlike(a1, y, s2)
      BY JoinedTwice, Zenon
    <3> QED
      BY <1>15, <3>1 DEF JoinsAlike
  <2>3. Replaced(d, from, to, x) = (a1 \o x) \o a2
    BY <1>12 DEF Replaced
  <2> QED
    BY <1>13, <2>1, <2>2, <2>3
<1>17. IdsIn(c) = {} => IdsIn(x) = {}
  <2>1. IdsIn(y) = IdsIn(s1) \union IdsIn(c)
    BY <1>14, IdsJoin
  <2>2. IdsIn(x) = IdsIn(y) \union IdsIn(s2)
    BY <1>15, IdsJoin
  <2> QED
    BY <1>10, <2>1, <2>2
<1>18. from <= to
  BY <1>4, <1>11
<1> QED
  BY <1>16, <1>17, <1>18 DEF Patched

(* What two texts have when together they have no anchor twice.              *)
LEMMA IdsApart ==
    ASSUME NEW a \in Seq(Block), NEW b \in Seq(Block), UniqueIds(a \o b)
    PROVE  UniqueIds(a) /\ UniqueIds(b) /\ \A v \in IdsIn(a) : v \notin IdsIn(b)
<1> DEFINE c == a \o b
<1>1. /\ \A i \in HeadsIn(a) : i \in HeadsIn(c) /\ c[i] = a[i]
      /\ \A i \in HeadsIn(b) : Len(a) + i \in HeadsIn(c) /\ c[Len(a) + i] = b[i]
      /\ Len(a) \in Nat
  BY JoinParts, Zenon
<1>2. UniqueIds(c)
  OBVIOUS
<1>3. /\ \A i \in HeadsIn(a) : i \in Int /\ i <= Len(a)
      /\ \A i \in HeadsIn(b) : i \in Int /\ i > 0
  BY BlockIs
<1> HIDE DEF c
<1>4. UniqueIds(a)
  BY <1>1, <1>2 DEF UniqueIds
<1>5. UniqueIds(b)
  <2> SUFFICES ASSUME NEW i \in HeadsIn(b), NEW j \in HeadsIn(b), i # j
               PROVE  b[i].id = NoId \/ b[i].id # b[j].id
    BY DEF UniqueIds
  <2>1. Len(a) + i # Len(a) + j
    BY <1>1, <1>3
  <2> QED
    BY <1>1, <1>2, <2>1 DEF UniqueIds
<1>6. ASSUME NEW v \in IdsIn(a), v \in IdsIn(b) PROVE FALSE
  <2>1. PICK h \in HeadsIn(a) : a[h].id = v /\ v # NoId
    BY IdsAre
  <2>2. PICK g \in HeadsIn(b) : b[g].id = v
    BY <1>6, IdsAre
  <2>3. h # Len(a) + g
    BY <1>1, <1>3
  <2> QED
    BY <1>1, <1>2, <2>1, <2>2, <2>3 DEF UniqueIds
<1> QED
  BY <1>4, <1>5, <1>6

(* Two pieces of one document.                                              *)
LEMMA IdsOfPieces ==
    ASSUME NEW d \in Seq(Block), NEW p \in 1..(Len(d) + 1), NEW q \in 1..(Len(d) + 1),
           NEW r \in 1..(Len(d) + 1), NEW s \in 1..(Len(d) + 1), q <= r
    PROVE  /\ UniqueIds(d) => \A v \in IdsIn(Slice(d, p, q)) : v \notin IdsIn(Slice(d, r, s))
           /\ \A h \in HeadsIn(d) :
                 p <= h /\ h < q => d[h].id \in IdsIn(Slice(d, p, q)) \union {NoId}
<1>1. \A h \in HeadsIn(d) : h \in Int
  BY BlockIs
<1> DEFINE A == {g \in HeadsIn(d) : p <= g /\ g < q}
           B == {g \in HeadsIn(d) : r <= g /\ g < s}
<1>2. IdsIn(Slice(d, p, q)) = {d[h].id : h \in A} \ {NoId}
  BY IdsSlice
<1>3. IdsIn(Slice(d, r, s)) = {d[h].id : h \in B} \ {NoId}
  BY IdsSlice
<1>4. \A g \in A, h \in B : g \in HeadsIn(d) /\ h \in HeadsIn(d) /\ g # h
  BY <1>1
<1>5. \A h \in HeadsIn(d) : p <= h /\ h < q => h \in A
  OBVIOUS
<1> HIDE DEF A, B
<1>6. ASSUME UniqueIds(d), NEW v \in IdsIn(Slice(d, p, q)), v \in IdsIn(Slice(d, r, s))
      PROVE  FALSE
  <2>1. PICK g \in A : d[g].id = v /\ v # NoId
    BY <1>2
  <2>2. PICK h \in B : d[h].id = v
    BY <1>3, <1>6
  <2> QED
    BY <1>4, <1>6, <2>1, <2>2 DEF UniqueIds
<1> QED
  BY <1>2, <1>5, <1>6

(* A section put at a place: no anchor comes twice, and none is lost unless  *)
(* its heading line is glued to the one above.                              *)
LEMMA SplicedAnchors ==
    ASSUME NEW e \in Seq(Block), NEW at \in 1..(Len(e) + 1), NEW s \in Seq(Block), NEW glue,
           glue => at - 1 \in 1..Len(e)
    PROVE  /\ \A v \in IdsIn(Spliced(e, at, s, glue)) : v \in IdsIn(e) \/ v \in IdsIn(s)
           /\ ~glue => \A v : v \in IdsIn(e) \/ v \in IdsIn(s) => v \in IdsIn(Spliced(e, at, s, glue))
           /\ UniqueIds(e) /\ UniqueIds(s) /\ (\A v \in IdsIn(s) : v \notin IdsIn(e))
                => UniqueIds(Spliced(e, at, s, glue))
<1>1. Len(e) \in Nat /\ at \in 1..(Len(e) + 1) /\ at \in Int
  OBVIOUS
<1>2. CASE ~(glue /\ s # <<>>)
  <2>1. Spliced(e, at, s, glue) = Replaced(e, at, at, s)
    BY <1>2 DEF Spliced, Replaced
  <2>2. \A v : v \in IdsAround(e, at, at) <=> v \in IdsIn(e)
    <3>1. \A h \in HeadsIn(e) : h \in Int
      BY BlockIs
    <3>2. {g \in HeadsIn(e) : g < at \/ g >= at} = HeadsIn(e)
      BY <1>1, <3>1
    <3> QED
      BY <3>2 DEF IdsAround, IdsIn
  <2>3. at <= at
    BY <1>1
  <2>4. /\ \A v : v \in IdsIn(Replaced(e, at, at, s))
                     <=> v \in IdsAround(e, at, at) \/ v \in IdsIn(s)
        /\ UniqueIds(e) /\ UniqueIds(s) /\ (\A v \in IdsIn(s) : v \notin IdsAround(e, at, at))
              => UniqueIds(Replaced(e, at, at, s))
    BY <2>3, IdsReplaced, Zenon
  <2> QED
    BY <2>1, <2>2, <2>4, Zenon
<1>3. ASSUME glue, s # <<>>
      PROVE  /\ \A v \in IdsIn(Spliced(e, at, s, glue)) : v \in IdsIn(e) \/ v \in IdsIn(s)
             /\ UniqueIds(e) /\ UniqueIds(s) /\ (\A v \in IdsIn(s) : v \notin IdsIn(e))
                  => UniqueIds(Spliced(e, at, s, glue))
  <2>1. PICK k \in 1..(Len(e) + 1) : k = at - 1
    <3>1. at - 1 \in 1..Len(e)
      BY <1>3
    <3> QED
      BY <1>1, <3>1
  <2>2. k \in 1..Len(e) /\ k <= at
    BY <1>1, <1>3, <2>1
  <2>3. e[k] \in Block /\ s[1] \in Block /\ Tail(s) \in Seq(Block) /\ s = <<s[1]>> \o Tail(s)
    <3> HIDE DEF Block
    <3>1. e[k] \in Block
      BY <2>2
    <3>2. s[1] \in Block /\ Tail(s) \in Seq(Block)
      BY <1>3
    <3>3. s = <<s[1]>> \o Tail(s)
      BY <1>3
    <3> QED
      BY <3>1, <3>2, <3>3
  <2>4. PICK g \in Block : g = Glued(e[k], s[1]) /\ g.id \in {s[1].id, NoId}
    BY <2>3, GluedTyped
  <2>5. PICK a \in Seq(Block), b \in Seq(Block), one \in Seq(Block), r \in Seq(Block),
             old \in Seq(Block) :
           /\ a = Slice(e, 1, k) /\ b = Slice(e, at, Len(e) + 1)
           /\ one = <<g>> /\ r = Tail(s) /\ old = <<s[1]>>
    <3>1. Len(e) \in Nat /\ 1 \in 1..(Len(e) + 1) /\ Len(e) + 1 \in 1..(Len(e) + 1)
      BY <1>1
    <3>2. Slice(e, 1, k) \in Seq(Block) /\ Slice(e, at, Len(e) + 1) \in Seq(Block)
      BY <3>1, IdsSlice
    <3>3. <<g>> \in Seq(Block) /\ <<s[1]>> \in Seq(Block)
      BY <2>3, <2>4, IdsOfOne
    <3> QED
      BY <2>3, <3>2, <3>3
  <2>6. PICK z \in Seq(Block) : z = one \o r
    BY JoinIs
  <2>7. Spliced(e, at, s, glue) = Replaced(e, k, at, z)
    <3>1. Spliced(e, at, s, glue) = ((a \o one) \o r) \o b
      <4>1. Spliced(e, at, s, glue)
              = Slice(e, 1, at - 1) \o <<Glued(e[at - 1], s[1])>> \o Tail(s)
                  \o Slice(e, at, Len(e) + 1)
        BY <1>3 DEF Spliced
      <4> QED
        BY <2>1, <2>4, <2>5, <4>1
    <3>2. (a \o one) \o r = a \o z
      <4>1. JoinsAlike(a, one, r)
        BY JoinedTwice, Zenon
      <4> QED
        BY <2>6, <4>1 DEF JoinsAlike
    <3>3. Replaced(e, k, at, z) = (a \o z) \o b
      BY <2>5 DEF Replaced
    <3> QED
      BY <3>1, <3>2, <3>3
  <2>8. /\ IdsIn(one) = {g.id} \ {NoId} /\ UniqueIds(one)
        /\ IdsIn(old) = {s[1].id} \ {NoId}
    BY <2>3, <2>5, IdsOfOne
  <2>9. IdsIn(s) = IdsIn(old) \union IdsIn(r)
    <3>1. s = old \o r
      BY <2>3, <2>5
    <3> QED
      BY <3>1, IdsJoin
  <2>10. \A v \in IdsIn(z) : v \in IdsIn(s)
    <3>1. IdsIn(z) = IdsIn(one) \union IdsIn(r)
      BY <2>6, IdsJoin
    <3> QED
      BY <2>4, <2>8, <2>9, <3>1
  <2>11. ASSUME UniqueIds(s) PROVE UniqueIds(z)
    <3>1. s = old \o r
      BY <2>3, <2>5
    <3>2. UniqueIds(r) /\ \A v \in IdsIn(old) : v \notin IdsIn(r)
      BY <2>11, <3>1, IdsApart
    <3>3. \A v \in IdsIn(one) : v \notin IdsIn(r)
      BY <2>4, <2>8, <3>2
    <3> QED
      BY <2>6, <2>8, <3>2, <3>3, IdsJoin
  <2>12. /\ \A v : v \in IdsIn(Replaced(e, k, at, z))
                     <=> v \in IdsAround(e, k, at) \/ v \in IdsIn(z)
         /\ UniqueIds(e) /\ UniqueIds(z) /\ (\A v \in IdsIn(z) : v \notin IdsAround(e, k, at))
              => UniqueIds(Replaced(e, k, at, z))
    BY <2>2, IdsReplaced, Zenon
  <2>13. \A v \in IdsAround(e, k, at) : v \in IdsIn(e)
    BY AroundIn
  <2> QED
    BY <2>7, <2>10, <2>11, <2>12, <2>13, Zenon
<1> QED
  BY <1>2, <1>3

(* A section that is moved takes its anchors along.                         *)
LEMMA MoveAnchors ==
    ASSUME NEW d \in Seq(Block), NEW n \in Nodes(d), NEW m \in Nodes(d), NEW p,
           NEW glue \in Gluings(d, n, m, p), MoveAllowed(d, n, m, p)
    PROVE  /\ UniqueIds(d) => UniqueIds(MoveNode(d, n, m, p, glue))
           /\ ~glue => Keeps(d, MoveNode(d, n, m, p, glue), {})
<1>1. /\ Moved(d, n) \in Seq(Block)
      /\ Shifted(Moved(d, n), MoveDelta(d, n, m, p)) \in Seq(Block)
      /\ MoveDelta(d, n, m, p) \in Int
  BY MoveIs, Zenon
<1>2. glue \in BOOLEAN
  BY DEF Gluings
<1>3. PICK delta \in Int : delta = MoveDelta(d, n, m, p)
  BY <1>1
<1>4. PICK w \in Seq(Block) : w = Moved(d, n)
  BY <1>1
<1>5. PICK s \in Seq(Block) : s = Shifted(Moved(d, n), MoveDelta(d, n, m, p))
  BY <1>1
<1>6. IdsIn(s) = IdsIn(w) /\ (UniqueIds(w) => UniqueIds(s))
  <2>1. \A i \in HeadsIn(w) : w[i].level + delta \in 1..6
    BY <1>3, <1>4 DEF MoveAllowed
  <2>2. s = Shifted(w, delta)
    BY <1>3, <1>4, <1>5
  <2> QED
    BY <2>1, <2>2, ShiftedAnchors
<1>7. PICK st \in 1..(Len(d) + 1), en \in 1..(Len(d) + 1) :
         st = Start(d, n) /\ en = SectionEnd(d, n) /\ st <= en
  BY PlacesIn, PlacesOrdered
<1>8. PICK L \in 1..(Len(d) + 1) : L = Len(d) + 1 /\ 1 \in 1..(Len(d) + 1)
  <2>1. Len(d) \in Nat
    BY BlockIs
  <2> QED
    BY <2>1
<1>9. PICK a \in Seq(Block), b \in Seq(Block) : a = Slice(d, 1, st) /\ b = Slice(d, en, L)
  BY <1>7, <1>8, IdsSlice
<1>10. w = Slice(d, st, en)
  BY <1>4, <1>7 DEF Moved
<1>11. UniqueIds(d) => /\ UniqueIds(a) /\ UniqueIds(b) /\ UniqueIds(w)
                       /\ \A v \in IdsIn(w) : v \notin IdsIn(a)
                       /\ \A v \in IdsIn(w) : v \notin IdsIn(b)
                       /\ \A v \in IdsIn(a) : v \notin IdsIn(b)
  <2>1. UniqueIds(d) => UniqueIds(a) /\ UniqueIds(b) /\ UniqueIds(w)
    BY <1>7, <1>8, <1>9, <1>10, IdsSlice
  <2>2. UniqueIds(d) => \A v \in IdsIn(Slice(d, 1, st)) : v \notin IdsIn(Slice(d, st, en))
    <3>1. st <= st
      BY <1>7
    <3> QED
      BY <1>7, <1>8, <3>1, IdsOfPieces, Zenon
  <2>3. UniqueIds(d) => \A v \in IdsIn(Slice(d, st, en)) : v \notin IdsIn(Slice(d, en, L))
    <3>1. en <= en
      BY <1>7
    <3> QED
      BY <1>7, <1>8, <3>1, IdsOfPieces, Zenon
  <2>4. UniqueIds(d) => \A v \in IdsIn(Slice(d, 1, st)) : v \notin IdsIn(Slice(d, en, L))
    BY <1>7, <1>8, IdsOfPieces, Zenon
  <2> QED
    BY <1>9, <1>10, <2>1, <2>2, <2>3, <2>4
<1>12. ASSUME NEW h \in HeadsIn(d), d[h].id # NoId
       PROVE  d[h].id \in IdsIn(a) \/ d[h].id \in IdsIn(w) \/ d[h].id \in IdsIn(b)
  <2>1. h \in 1..Len(d)
    BY BlockIs
  <2>2. CASE h < st
    <3>1. 1 <= h /\ h < st /\ st <= st
      BY <1>7, <2>1, <2>2
    <3>2. d[h].id \in IdsIn(Slice(d, 1, st)) \union {NoId}
      BY <1>7, <1>8, <3>1, IdsOfPieces, Zenon
    <3> QED
      BY <1>9, <1>12, <3>2
  <2>3. CASE st <= h /\ h < en
    <3>1. en <= en
      BY <1>7
    <3>2. d[h].id \in IdsIn(Slice(d, st, en)) \union {NoId}
      BY <1>7, <2>3, <3>1, IdsOfPieces, Zenon
    <3> QED
      BY <1>10, <1>12, <3>2
  <2>4. CASE en <= h
    <3>1. h < L /\ L <= L
      BY <1>8, <2>1
    <3>2. en \in 1..(Len(d) + 1) /\ L \in 1..(Len(d) + 1)
      BY <1>7, <1>8, Zenon
    <3>3. d[h].id \in IdsIn(Slice(d, en, L)) \union {NoId}
      BY <2>4, <3>1, <3>2, IdsOfPieces, Zenon
    <3> QED
      BY <1>9, <1>12, <3>3
  <2> QED
    BY <1>7, <2>1, <2>2, <2>3, <2>4
<1> DEFINE New == MoveNode(d, n, m, p, glue)
<1>13. ASSUME NEW e \in Seq(Block), NEW r \in Seq(Block), NEW at \in 1..(Len(e) + 1),
              glue => at - 1 \in 1..Len(e),
              New = Spliced(e, at, s, glue) \o r,
              \/ e = a \o b /\ r = <<>>
              \/ e = a /\ r = b
       PROVE  /\ UniqueIds(d) => UniqueIds(New)
              /\ ~glue => \A v : v \in IdsIn(a) \/ v \in IdsIn(w) \/ v \in IdsIn(b) => v \in IdsIn(New)
  <2>1. PICK x \in Seq(Block) : x = Spliced(e, at, s, glue)
    BY <1>13, SplicedTyped
  <2>2. /\ \A v \in IdsIn(x) : v \in IdsIn(e) \/ v \in IdsIn(s)
        /\ ~glue => \A v : v \in IdsIn(e) \/ v \in IdsIn(s) => v \in IdsIn(x)
        /\ UniqueIds(e) /\ UniqueIds(s) /\ (\A v \in IdsIn(s) : v \notin IdsIn(e)) => UniqueIds(x)
    BY <1>13, <2>1, SplicedAnchors
  <2>3. New = x \o r
    BY <1>13, <2>1
  <2> HIDE DEF New
  <2>4. /\ IdsIn(New) = IdsIn(x) \union IdsIn(r)
        /\ UniqueIds(x) /\ UniqueIds(r) /\ (\A v \in IdsIn(x) : v \notin IdsIn(r)) => UniqueIds(New)
    BY <2>3, IdsJoin
  <2>5. CASE e = a \o b /\ r = <<>>
    <3>1. /\ IdsIn(e) = IdsIn(a) \union IdsIn(b)
          /\ UniqueIds(a) /\ UniqueIds(b) /\ (\A v \in IdsIn(a) : v \notin IdsIn(b)) => UniqueIds(e)
      BY <2>5, IdsJoin
    <3>2. IdsIn(r) = {} /\ UniqueIds(r)
      BY <2>5, IdsOfNone
    <3>3. ASSUME UniqueIds(d) PROVE UniqueIds(New)
      <4>1. UniqueIds(e) /\ UniqueIds(s) /\ (\A v \in IdsIn(s) : v \notin IdsIn(e))
        BY <1>6, <1>11, <3>1, <3>3
      <4> QED
        BY <2>2, <2>4, <3>2, <4>1
    <3> QED
      BY <1>6, <2>2, <2>4, <3>1, <3>3
  <2>6. CASE e = a /\ r = b
    <3>1. ASSUME UniqueIds(d) PROVE UniqueIds(New)
      <4>1. UniqueIds(e) /\ UniqueIds(s) /\ (\A v \in IdsIn(s) : v \notin IdsIn(e))
        BY <1>6, <1>11, <2>6, <3>1
      <4>2. UniqueIds(x) /\ UniqueIds(r)
        BY <1>11, <2>2, <2>6, <3>1, <4>1
      <4>3. \A v \in IdsIn(x) : v \notin IdsIn(r)
        BY <1>6, <1>11, <2>2, <2>6, <3>1
      <4> QED
        BY <2>4, <4>2, <4>3
    <3> QED
      BY <1>6, <2>2, <2>4, <2>6, <3>1
  <2> QED
    BY <1>13, <2>5, <2>6
<1>14. /\ UniqueIds(d) => UniqueIds(New)
       /\ ~glue => \A v : v \in IdsIn(a) \/ v \in IdsIn(w) \/ v \in IdsIn(b) => v \in IdsIn(New)
  <2>1. PICK e \in Seq(Block), r \in Seq(Block), at \in 1..(Len(d) + 1) :
           /\ at \in 1..(Len(e) + 1)
           /\ glue => at - 1 \in 1..Len(e)
           /\ MoveNode(d, n, m, p, glue)
                = Spliced(e, at, Shifted(Moved(d, n), MoveDelta(d, n, m, p)), glue) \o r
           /\ \/ /\ Start(d, n) < InsertAtPos(d, m, p)
                 /\ SectionEnd(d, n) <= InsertAtPos(d, m, p)
                 /\ at = InsertAtPos(d, m, p) - Len(Moved(d, n))
                 /\ e = DeleteNode(d, n) /\ r = <<>>
              \/ /\ ~(Start(d, n) < InsertAtPos(d, m, p))
                 /\ at = InsertAtPos(d, m, p)
                 /\ e = Slice(d, 1, Start(d, n))
                 /\ r = Slice(d, SectionEnd(d, n), Len(d) + 1)
    <3> HIDE DEF New
    <3> QED
      BY MoveIs, Zenon
  <2>2. New = Spliced(e, at, s, glue) \o r
    BY <1>2, <1>5, <2>1, Zenon
  <2>3. DeleteNode(d, n) = a \o b
    BY <1>7, <1>8, <1>9 DEF DeleteNode
  <2>4. (e = a \o b /\ r = <<>>) \/ (e = a /\ r = b)
    BY <1>7, <1>8, <1>9, <2>1, <2>3, Zenon
  <2>5. glue => at - 1 \in 1..Len(e)
    BY <1>2, <2>1, Zenon
  <2> HIDE DEF New
  <2> QED
    BY <1>13, <2>1, <2>2, <2>4, <2>5, Zenon
<1>15. ASSUME ~glue PROVE Keeps(d, New, {})
  <2> HIDE DEF New
  <2> QED
    BY <1>12, <1>14, <1>15 DEF Keeps
<1> QED
  BY <1>14, <1>15

-----------------------------------------------------------------------------
(* WHAT IS WRITTEN READS BACK.                                              *)

(* Pieces of a document.                                                    *)
LEMMA PieceIs ==
    ASSUME NEW d \in Seq(Block), NEW from \in 1..(Len(d) + 1), NEW to \in 1..(Len(d) + 1),
           from <= to
    PROVE  /\ Slice(d, from, to) \in Seq(Block) /\ Len(Slice(d, from, to)) = to - from
           /\ \A i \in 1..(to - from) : Slice(d, from, to)[i] = d[from + i - 1]
<1>1. Len(d) \in Nat
  OBVIOUS
<1> HIDE DEF Block
<1> QED
  BY <1>1 DEF Slice

LEMMA OneIs ==
    ASSUME NEW S, NEW b \in S
    PROVE  <<b>> \in Seq(S) /\ Len(<<b>>) = 1 /\ <<b>>[1] = b
  OBVIOUS

LEMMA LevelOf ==
    ASSUME NEW d \in Seq(Block), NEW i \in 1..Len(d)
    PROVE  d[i].level \in 0..6 /\ d[i].level \in Int /\ (i \in HeadsIn(d) <=> d[i].level # 0)
<1>1. d[i].level \in 0..6 /\ HeadsIn(d) = {j \in 1..Len(d) : d[j].level > 0}
  BY BlockIs
<1>2. d[i].level \in Int /\ (d[i].level > 0 <=> d[i].level # 0)
  BY <1>1
<1> QED
  BY <1>1, <1>2, Zenon

(* The document e is d with x in the place of the blocks from .. to-1.       *)
PutIn(d, from, to, x, e) ==
    /\ Len(e) = (from - 1) + Len(x) + (Len(d) + 1 - to)
    /\ \A i \in 1..(from - 1) : e[i] = d[i]
    /\ \A i \in 1..Len(x) : e[(from - 1) + i] = x[i]
    /\ \A j \in 1..(Len(d) + 1 - to) : e[(from - 1) + Len(x) + j] = d[to + j - 1]

LEMMA ReplacedIs ==
    ASSUME NEW d \in Seq(Block), NEW from \in 1..(Len(d) + 1), NEW to \in 1..(Len(d) + 1),
           from <= to, NEW x \in Seq(Block)
    PROVE  /\ Replaced(d, from, to, x) \in Seq(Block)
           /\ PutIn(d, from, to, x, Replaced(d, from, to, x))
<1>1. PICK L \in Nat : L = Len(d)
  BY BlockIs
<1>2. PICK X \in Nat : X = Len(x)
  BY BlockIs
<1>3. PICK a \in Seq(Block) : /\ a = Slice(d, 1, from) /\ Len(a) = from - 1
                              /\ \A i \in 1..(from - 1) : a[i] = d[i]
  <2>1. 1 \in 1..(Len(d) + 1) /\ 1 <= from
    BY <1>1
  <2>2. /\ Slice(d, 1, from) \in Seq(Block) /\ Len(Slice(d, 1, from)) = from - 1
        /\ \A i \in 1..(from - 1) : Slice(d, 1, from)[i] = d[1 + i - 1]
    BY <2>1, PieceIs
  <2>3. \A i \in 1..(from - 1) : 1 + i - 1 = i
    BY <1>1
  <2> QED
    BY <2>2, <2>3
<1>4. PICK b \in Seq(Block) : /\ b = Slice(d, to, Len(d) + 1) /\ Len(b) = L + 1 - to
                              /\ \A j \in 1..(L + 1 - to) : b[j] = d[to + j - 1]
  <2>1. Len(d) + 1 \in 1..(Len(d) + 1) /\ to <= Len(d) + 1
    BY <1>1
  <2>2. (Len(d) + 1) - to = L + 1 - to
    BY <1>1
  <2>3. /\ Slice(d, to, Len(d) + 1) \in Seq(Block)
        /\ Len(Slice(d, to, Len(d) + 1)) = (Len(d) + 1) - to
        /\ \A i \in 1..((Len(d) + 1) - to) : Slice(d, to, Len(d) + 1)[i] = d[to + i - 1]
    BY <2>1, PieceIs
  <2> QED
    BY <2>2, <2>3
<1>5. PICK c \in Seq(Block) : c = a \o x
  BY JoinParts
<1>6. /\ Len(c) = (from - 1) + X
      /\ \A i \in 1..(from - 1) : c[i] = a[i]
      /\ \A i \in 1..X : c[(from - 1) + i] = x[i]
  <2>1. /\ Len(a \o x) = Len(a) + Len(x)
        /\ \A i \in 1..Len(a) : (a \o x)[i] = a[i]
        /\ \A i \in 1..Len(x) : (a \o x)[Len(a) + i] = x[i]
    BY JoinParts
  <2>2. Len(a) = from - 1
    BY <1>3
  <2> QED
    BY <1>2, <1>5, <2>1, <2>2, Zenon
<1>7. Replaced(d, from, to, x) = c \o b
  BY <1>3, <1>4, <1>5 DEF Replaced
<1>8. PICK e \in Seq(Block) : e = c \o b
  BY JoinParts
<1>9. /\ Len(e) = Len(c) + Len(b)
      /\ \A i \in 1..Len(c) : e[i] = c[i]
      /\ \A i \in 1..Len(b) : e[Len(c) + i] = b[i]
  BY <1>8, JoinParts
<1>10. e \in Seq(Block) /\ Len(e) = (from - 1) + X + (L + 1 - to)
  BY <1>1, <1>2, <1>4, <1>6, <1>9
<1>11. \A i \in 1..(from - 1) : e[i] = d[i]
  <2>1. \A i \in 1..(from - 1) : i \in 1..Len(c)
    BY <1>1, <1>2, <1>6
  <2> QED
    BY <1>3, <1>6, <1>9, <2>1
<1>12. \A i \in 1..X : e[(from - 1) + i] = x[i]
  <2>1. \A i \in 1..X : (from - 1) + i \in 1..Len(c)
    BY <1>1, <1>2, <1>6
  <2> QED
    BY <1>6, <1>9, <2>1
<1>13. \A j \in 1..(L + 1 - to) : e[(from - 1) + X + j] = d[to + j - 1]
  BY <1>1, <1>2, <1>4, <1>6, <1>9
<1> QED
  BY <1>1, <1>2, <1>7, <1>8, <1>10, <1>11, <1>12, <1>13 DEF PutIn

(* A piece that begins with a heading and goes on deeper is a section, if    *)
(* what comes next is a heading that is not deeper.                         *)
LiesAt(s, e, n) == \A i \in 1..Len(s) : e[n + i - 1] = s[i]
GoesDeeper(s)   == s[1].level > 0 /\ \A i \in 2..Len(s) : s[i].level = 0 \/ s[i].level > s[1].level
StopsAt(e, y, l) == y = Len(e) + 1 \/ (e[y].level > 0 /\ e[y].level <= l)

LEMMA SectionThere ==
    ASSUME NEW e \in Seq(Block), NEW s \in Seq(Block), NEW n \in 1..Len(e),
           NEW y \in 1..(Len(e) + 1), y = n + Len(s), Len(s) >= 1,
           LiesAt(s, e, n), GoesDeeper(s), StopsAt(e, y, s[1].level)
    PROVE  SectionAt(e, n) = s
<1>1. /\ Len(e) \in Nat /\ Len(s) \in Nat /\ HeadsIn(e) = {i \in 1..Len(e) : e[i].level > 0}
      /\ \A i \in 1..Len(e) : e[i].level \in 0..6
      /\ \A i \in HeadsIn(e) : i \in 1..Len(e) /\ e[i].level \in Int
      /\ \A i \in 1..Len(s) : s[i].level \in 0..6
  BY BlockIs
<1>2. e[n] = s[1] /\ n \in HeadsIn(e)
  <2>1. 1 \in 1..Len(s) /\ n + 1 - 1 = n
    BY <1>1
  <2>2. e[n] = s[1]
    BY <2>1 DEF LiesAt
  <2> QED
    BY <1>1, <2>2 DEF GoesDeeper
<1>3. PICK x \in 1..(Len(e) + 1) : x = SectionEnd(e, n) /\ Ends(e, n, x)
  <2>1. n \in Nodes(e)
    BY <1>2, ParentsIs
  <2> QED
    BY <1>2, <2>1, PlacesIn, SectionEnds
<1>4. \A j \in (n + 1)..(y - 1) : j \in HeadsIn(e) => e[j].level > e[n].level
  <2> SUFFICES ASSUME NEW j \in (n + 1)..(y - 1), j \in HeadsIn(e) PROVE e[j].level > e[n].level
    OBVIOUS
  <2>1. j - n + 1 \in 2..Len(s) /\ j - n + 1 \in 1..Len(s) /\ n + (j - n + 1) - 1 = j
    BY <1>1
  <2>2. e[j] = s[j - n + 1]
    BY <2>1 DEF LiesAt
  <2>3. e[j].level # 0
    BY <1>1
  <2> QED
    BY <1>2, <2>1, <2>2, <2>3 DEF GoesDeeper
<1>5. x = y
  <2>1. ~(x < y)
    <3>1. SUFFICES ASSUME x < y PROVE FALSE
      OBVIOUS
    <3>2. x \in (n + 1)..(y - 1) /\ x # Len(e) + 1
      BY <1>1, <1>3, <3>1 DEF Ends
    <3>3. x \in HeadsIn(e) /\ e[x].level <= e[n].level
      BY <1>3, <3>2 DEF Ends
    <3>4. e[x].level > e[n].level
      BY <1>4, <3>2, <3>3
    <3>5. e[x].level \in Int /\ e[n].level \in Int
      BY <1>1, <1>2, <3>3
    <3> QED
      BY <3>3, <3>4, <3>5
  <2>2. ~(y < x)
    <3>1. SUFFICES ASSUME y < x PROVE FALSE
      OBVIOUS
    <3>2. y \in 1..Len(e) /\ n < y
      BY <1>1, <3>1
    <3>3. y \in HeadsIn(e) /\ e[y].level <= e[n].level
      BY <1>1, <1>2, <3>2 DEF StopsAt
    <3>4. e[y].level > e[n].level
      BY <1>3, <3>1, <3>2, <3>3 DEF Ends
    <3>5. e[y].level \in Int /\ e[n].level \in Int
      BY <1>1, <1>2, <3>3
    <3> QED
      BY <3>3, <3>4, <3>5
  <2> QED
    BY <2>1, <2>2
<1>6. PICK t \in Seq(Block) : /\ t = Slice(e, n, y) /\ Len(t) = Len(s)
                              /\ \A i \in 1..Len(t) : t[i] = e[n + i - 1]
  <2>1. n \in 1..(Len(e) + 1) /\ n <= y /\ y - n = Len(s)
    BY <1>1
  <2>2. /\ Slice(e, n, y) \in Seq(Block) /\ Len(Slice(e, n, y)) = y - n
        /\ \A i \in 1..(y - n) : Slice(e, n, y)[i] = e[n + i - 1]
    BY <2>1, PieceIs
  <2> QED
    BY <2>1, <2>2
<1>7. t = s
  <2>1. \A i \in 1..Len(t) : t[i] = s[i]
    BY <1>6 DEF LiesAt
  <2> HIDE DEF Block
  <2> QED
    BY <1>6, <2>1, SeqEqual
<1> QED
  BY <1>3, <1>5, <1>6, <1>7 DEF SectionAt

(* What stands at the place where a section may be put: a heading that is    *)
(* not deeper than what is put there, or the end.                           *)
LEMMA NextThere ==
    ASSUME NEW d \in Seq(Block), NEW m \in Nodes(d), m # 0, NEW p, p # "child_start"
    PROVE  /\ StopsAt(d, InsertAtPos(d, m, p), DestLevel(d, m, p))
           /\ DestLevel(d, m, p) = d[m].level \/ DestLevel(d, m, p) = d[m].level + 1
           /\ d[m].level \in 1..6
<1>1. /\ m \in HeadsIn(d) /\ d[m].level \in 1..6 /\ m \in 1..Len(d) /\ Len(d) \in Nat
      /\ \A i \in HeadsIn(d) : i \in 1..Len(d) /\ d[i].level \in Int /\ d[i].level > 0
  <2>1. m \in HeadsIn(d) /\ d[m].level > 0 /\ Level(d, m) \in 0..6
    BY PlacesIn
  <2>2. Level(d, m) = d[m].level
    BY DEF Level
  <2> QED
    BY <2>1, <2>2, BlockIs
<1>2. DestLevel(d, m, p) = d[m].level \/ DestLevel(d, m, p) = d[m].level + 1
  BY <1>1 DEF DestLevel, Level
<1>3. ASSUME p = "before" PROVE StopsAt(d, InsertAtPos(d, m, p), DestLevel(d, m, p))
  <2>1. InsertAtPos(d, m, p) = m
    BY <1>3 DEF InsertAtPos, Start
  <2> QED
    BY <1>1, <1>2, <2>1 DEF StopsAt
<1>4. ASSUME p # "before" PROVE StopsAt(d, InsertAtPos(d, m, p), DestLevel(d, m, p))
  <2>1. InsertAtPos(d, m, p) = SectionEnd(d, m)
    BY <1>4 DEF InsertAtPos
  <2>2. Ends(d, m, SectionEnd(d, m))
    BY <1>1, SectionEnds
  <2>3. PICK x : x = SectionEnd(d, m)
    OBVIOUS
  <2>4. x = Len(d) + 1 \/ (x \in HeadsIn(d) /\ d[x].level <= d[m].level)
    BY <2>2, <2>3 DEF Ends
  <2>5. ASSUME x \in HeadsIn(d), d[x].level <= d[m].level
        PROVE  d[x].level > 0 /\ d[x].level <= DestLevel(d, m, p)
    <3>1. d[x].level \in Int /\ d[x].level > 0 /\ d[m].level \in Int
      BY <1>1, <2>5
    <3> QED
      BY <1>2, <2>5, <3>1
  <2>6. StopsAt(d, x, DestLevel(d, m, p))
    BY <2>4, <2>5, Zenon DEF StopsAt
  <2> QED
    BY <2>1, <2>3, <2>6, Zenon
<1> QED
  BY <1>1, <1>2, <1>3, <1>4

(* A replaced body is the body of its section.                              *)
LEMMA ReplacedReads ==
    ASSUME NEW d \in Seq(Block), NEW n \in Nodes(d), n # 0, NEW c \in Seq(Block),
           AtxOnly(c), BodyAllowed(d, n, c)
    PROVE  LET new == Stripped(c, d[n].text)
               old == IF HasDeeper(new, d[n].level) THEN <<>>
                      ELSE Slice(d, BodyEnd(d, n), SectionEnd(d, n))
           IN  SectionAt(ReplaceBody(d, n, c), n) = <<d[n]>> \o new \o old
<1>1. /\ n \in HeadsIn(d) /\ n \in 1..Len(d) /\ Len(d) \in Nat /\ d[n].level \in Int /\ d[n].level > 0
      /\ d[n] \in Block
      /\ \A i \in HeadsIn(d) : i \in 1..Len(d) /\ d[i].level \in Int /\ d[i].level > 0
      /\ HeadsIn(d) = {i \in 1..Len(d) : d[i].level > 0}
      /\ \A i \in 1..Len(d) : d[i].level \in 0..6
      /\ Title(d, n) = d[n].text /\ Level(d, n) = d[n].level
  BY PlacesIn, BlockIs DEF Title, Level
<1>2. PICK new \in Seq(Block) : new = Stripped(c, d[n].text)
  BY StrippedTyped
<1>0. AtxIn(new) = HeadsIn(new)
  BY <1>2, AtxOnlyIs
<1>3. \A i \in HeadsIn(new) : new[i].level > d[n].level
  BY <1>0, <1>1, <1>2 DEF BodyAllowed, NoBreaking
<1>4. PICK se \in 1..(Len(d) + 1) : se = SectionEnd(d, n)
  BY PlacesIn
<1>5. Ends(d, n, se)
  BY <1>1, <1>4, SectionEnds
<1>6. PICK be \in 1..(Len(d) + 1) : be = BodyEnd(d, n)
  BY PlacesIn
<1>7. n + 1 <= be /\ be <= se
  BY <1>4, <1>6, PlacesOrdered
<1>8. PICK re \in 1..(Len(d) + 1), old \in Seq(Block) :
         /\ re = ReplaceEnd(d, n, new)
         /\ n + 1 <= re /\ re <= se
         /\ old = IF HasDeeper(new, d[n].level) THEN <<>> ELSE Slice(d, be, se)
         /\ Len(old) = se - re /\ \A i \in 1..(se - re) : old[i] = d[re + i - 1]
  <2>1. CASE HasDeeper(new, d[n].level)
    <3>1. se = ReplaceEnd(d, n, new)
      BY <1>1, <1>4, <2>1 DEF ReplaceEnd
    <3>2. <<>> \in Seq(Block) /\ Len(<<>>) = 0 /\ se - se = 0
      OBVIOUS
    <3>3. <<>> = IF HasDeeper(new, d[n].level) THEN <<>> ELSE Slice(d, be, se)
      BY <2>1
    <3>4. n + 1 <= se /\ se <= se /\ Len(<<>>) = se - se /\ \A i \in 1..(se - se) : FALSE
      BY <1>1, <1>7, <3>2
    <3> QED
      BY <3>1, <3>2, <3>3, <3>4
  <2>2. CASE ~HasDeeper(new, d[n].level)
    <3>1. be = ReplaceEnd(d, n, new)
      BY <1>1, <1>6, <2>2 DEF ReplaceEnd
    <3>2. /\ Slice(d, be, se) \in Seq(Block) /\ Len(Slice(d, be, se)) = se - be
          /\ \A i \in 1..(se - be) : Slice(d, be, se)[i] = d[be + i - 1]
      BY <1>7, PieceIs
    <3> QED
      BY <1>7, <2>2, <3>1, <3>2
  <2> QED
    BY <2>1, <2>2
<1>9. PICK N \in Nat, K \in Nat : N = Len(new) /\ K = Len(old) /\ K = se - re
  BY <1>8, BlockIs
<1>10. PICK L \in Nat : L = Len(d)
  BY <1>1
<1>11. n \in 1..L /\ re \in 1..(L + 1) /\ se \in 1..(L + 1) /\ n + 1 <= re /\ re <= se /\ K = se - re
  BY <1>10, <1>1, <1>8, <1>9
<1>12. PICK e \in Seq(Block) : e = Replaced(d, n + 1, re, new)
  <2>1. n + 1 \in 1..(Len(d) + 1) /\ n + 1 <= re
    BY <1>10, <1>11
  <2> QED
    BY <2>1, ReplacedIs, Zenon
<1>13. ReplaceBody(d, n, c) = e
  BY <1>1, <1>2, <1>8, <1>12, Zenon DEF ReplaceBody, Replaced, BodyStart
<1>14. /\ Len(e) = n + N + (L + 1 - re)
       /\ e[n] = d[n]
       /\ \A i \in 1..N : e[n + i] = new[i]
       /\ \A j \in 1..(L + 1 - re) : e[n + N + j] = d[re + j - 1]
  <2>1. n + 1 \in 1..(Len(d) + 1) /\ n + 1 <= re /\ (n + 1) - 1 = n /\ n \in 1..n
    BY <1>10, <1>11
  <2>2. PutIn(d, n + 1, re, new, e)
    BY <1>12, <2>1, ReplacedIs, Zenon
  <2> QED
    BY <1>10, <1>9, <2>1, <2>2, Zenon DEF PutIn
<1>15. PICK one \in Seq(Block) : one = <<d[n]>> /\ Len(one) = 1 /\ one[1] = d[n]
  BY <1>1, OneIs
<1>16. PICK u \in Seq(Block) : u = one \o new
  BY JoinParts
<1>17. PICK s \in Seq(Block) : s = u \o old
  BY JoinParts
<1>18. /\ Len(u) = 1 + N /\ u[1] = d[n]
       /\ \A i \in 1..N : u[1 + i] = new[i]
  <2>1. /\ Len(u) = Len(one) + Len(new)
        /\ \A i \in 1..Len(one) : u[i] = one[i]
        /\ \A i \in 1..Len(new) : u[Len(one) + i] = new[i]
    BY <1>16, JoinParts
  <2>2. 1 \in 1..1
    OBVIOUS
  <2> QED
    BY <1>9, <1>15, <2>1, <2>2, Zenon
<1>19. /\ Len(s) = 1 + N + K /\ s[1] = d[n]
       /\ \A i \in 1..N : s[1 + i] = new[i]
       /\ \A i \in 1..K : s[1 + N + i] = old[i]
       /\ Len(s) \in Nat
  <2>1. /\ Len(s) = Len(u) + Len(old)
        /\ \A i \in 1..Len(u) : s[i] = u[i]
        /\ \A i \in 1..Len(old) : s[Len(u) + i] = old[i]
    BY <1>17, JoinParts
  <2>2. 1 \in 1..(1 + N) /\ (\A i \in 1..N : 1 + i \in 1..(1 + N)) /\ 1 + N + K \in Nat
    OBVIOUS
  <2> QED
    BY <1>9, <1>18, <2>1, <2>2, Zenon
<1>20. \A i \in 1..(1 + N + K) : \/ i = 1
                                 \/ \E j \in 1..N : i = 1 + j
                                 \/ \E j \in 1..K : i = 1 + N + j
  <2> SUFFICES ASSUME NEW i \in 1..(1 + N + K), i # 1,
                      ~ \E j \in 1..N : i = 1 + j
               PROVE  \E j \in 1..K : i = 1 + N + j
    OBVIOUS
  <2>1. ~(i - 1 \in 1..N)
    <3>1. i = 1 + (i - 1)
      OBVIOUS
    <3> QED
      BY <3>1
  <2>2. i - (1 + N) \in 1..K /\ i = 1 + N + (i - (1 + N))
    BY <2>1
  <2> QED
    BY <2>2
<1>21. LiesAt(s, e, n)
  <2> SUFFICES ASSUME NEW i \in 1..(1 + N + K) PROVE e[n + i - 1] = s[i]
    BY <1>19 DEF LiesAt
  <2>1. CASE i = 1
    <3>1. n + i - 1 = n
      BY <1>1, <2>1
    <3> QED
      BY <1>14, <1>19, <2>1, <3>1
  <2>2. ASSUME NEW j \in 1..N, i = 1 + j PROVE e[n + i - 1] = s[i]
    <3>1. n + i - 1 = n + j
      BY <1>1, <2>2
    <3> QED
      BY <1>14, <1>19, <2>2, <3>1
  <2>3. ASSUME NEW j \in 1..K, i = 1 + N + j PROVE e[n + i - 1] = s[i]
    <3>1. n + i - 1 = n + N + j /\ j \in 1..(L + 1 - re) /\ j \in 1..(se - re)
      BY <1>11, <2>3
    <3>2. e[n + N + j] = d[re + j - 1] /\ old[j] = d[re + j - 1]
      BY <1>8, <1>14, <3>1
    <3> QED
      BY <1>19, <2>3, <3>1, <3>2
  <2> QED
    BY <1>20, <2>1, <2>2, <2>3
<1>22. GoesDeeper(s)
  <2> SUFFICES ASSUME NEW i \in 2..(1 + N + K), s[i].level # 0 PROVE s[i].level > d[n].level
    BY <1>1, <1>19 DEF GoesDeeper
  <2>1. i \in 1..(1 + N + K) /\ i # 1
    OBVIOUS
  <2>2. ASSUME NEW j \in 1..N, i = 1 + j PROVE s[i].level > d[n].level
    <3>1. s[i] = new[j]
      BY <1>19, <2>2
    <3>2. j \in HeadsIn(new)
      BY <1>9, <3>1, LevelOf
    <3> QED
      BY <1>3, <3>1, <3>2
  <2>3. ASSUME NEW j \in 1..K, i = 1 + N + j PROVE s[i].level > d[n].level
    <3>1. j \in 1..(se - re) /\ re + j - 1 \in 1..L /\ n < re + j - 1 /\ re + j - 1 < se
      BY <1>11
    <3>2. s[i] = d[re + j - 1]
      BY <1>8, <1>19, <2>3, <3>1
    <3>3. re + j - 1 \in HeadsIn(d)
      <4>1. PICK k \in 1..Len(d) : k = re + j - 1
        BY <1>10, <3>1
      <4> QED
        BY <3>2, <4>1, LevelOf
    <3> QED
      BY <1>5, <3>1, <3>2, <3>3 DEF Ends
  <2> QED
    BY <1>20, <2>1, <2>2, <2>3
<1>23. Len(e) = n + N + (L + 1 - re) /\ Len(s) = 1 + N + K
  BY <1>14, <1>19
<1>24. PICK y \in 1..(Len(e) + 1) : y = n + Len(s)
  <2>1. n + Len(s) \in 1..(Len(e) + 1)
    BY <1>11, <1>23
  <2> QED
    BY <2>1
<1>25. StopsAt(e, y, s[1].level)
  <2>1. CASE se = L + 1
    <3>1. y = Len(e) + 1
      BY <1>11, <1>23, <1>24, <2>1
    <3> QED
      BY <3>1 DEF StopsAt
  <2>2. CASE se # L + 1
    <3>1. se \in HeadsIn(d) /\ d[se].level <= d[n].level
      BY <1>10, <1>5, <2>2 DEF Ends
    <3>2. K + 1 \in 1..(L + 1 - re) /\ re + (K + 1) - 1 = se /\ n + N + (K + 1) = y
      BY <1>11, <1>23, <1>24, <2>2
    <3>3. e[y] = d[se]
      BY <1>14, <3>2
    <3> QED
      BY <1>1, <1>19, <3>1, <3>3 DEF StopsAt
  <2> QED
    BY <2>1, <2>2
<1>26. SectionAt(e, n) = s
  <2>1. n \in 1..Len(e) /\ Len(s) >= 1
    BY <1>11, <1>23
  <2> QED
    BY <1>21, <1>22, <1>24, <1>25, <2>1, SectionThere
<1> QED
  BY <1>2, <1>4, <1>6, <1>8, <1>13, <1>15, <1>16, <1>17, <1>26

(* A piece put into a document is a section of it.                          *)
LEMMA GraftReads ==
    ASSUME NEW d \in Seq(Block), NEW from \in 1..(Len(d) + 1), NEW to \in 1..(Len(d) + 1),
           from <= to, NEW s \in Seq(Block), Len(s) >= 1, GoesDeeper(s),
           StopsAt(d, to, s[1].level)
    PROVE  SectionAt(Replaced(d, from, to, s), from) = s
<1>1. PICK L \in Nat, X \in Nat : L = Len(d) /\ X = Len(s) /\ X >= 1
  BY BlockIs
<1>2. PICK e \in Seq(Block) : e = Replaced(d, from, to, s) /\ PutIn(d, from, to, s, e)
  BY ReplacedIs, Zenon
<1>3. /\ Len(e) = (from - 1) + X + (L + 1 - to)
      /\ \A i \in 1..X : e[(from - 1) + i] = s[i]
      /\ \A j \in 1..(L + 1 - to) : e[(from - 1) + X + j] = d[to + j - 1]
  BY <1>1, <1>2, Zenon DEF PutIn
<1>4. from \in 1..(L + 1) /\ to \in 1..(L + 1)
  BY <1>1, Zenon
<1>5. PICK M \in Nat : M = Len(e)
  BY BlockIs
<1>6. from \in 1..M /\ from + X \in 1..(M + 1)
  BY <1>1, <1>3, <1>4, <1>5
<1>7. PICK y \in 1..(M + 1) : y = from + X
  BY <1>6
<1>8. LiesAt(s, e, from)
  <2> SUFFICES ASSUME NEW i \in 1..X PROVE e[from + i - 1] = s[i]
    BY <1>1 DEF LiesAt
  <2>1. from + i - 1 = (from - 1) + i
    BY <1>4
  <2> QED
    BY <1>3, <2>1
<1>9. StopsAt(e, y, s[1].level)
  <2>1. CASE to = L + 1
    <3>1. y = M + 1
      BY <1>1, <1>3, <1>4, <1>5, <1>7, <2>1
    <3> QED
      BY <1>5, <3>1 DEF StopsAt
  <2>2. CASE to # L + 1
    <3>1. 1 \in 1..(L + 1 - to) /\ to + 1 - 1 = to /\ (from - 1) + X + 1 = y
      BY <1>1, <1>4, <1>7, <2>2
    <3>2. e[y] = d[to]
      BY <1>3, <3>1
    <3>3. d[to].level > 0 /\ d[to].level <= s[1].level
      BY <1>1, <2>2, Zenon DEF StopsAt
    <3> QED
      BY <3>2, <3>3, Zenon DEF StopsAt
  <2> QED
    BY <2>1, <2>2
<1>10. SectionAt(e, from) = s
  <2>1. from \in 1..Len(e) /\ y \in 1..(Len(e) + 1) /\ y = from + Len(s)
    BY <1>1, <1>5, <1>6, <1>7, Zenon
  <2> QED
    BY <1>8, <1>9, <2>1, SectionThere, Zenon
<1> QED
  BY <1>2, <1>10, Zenon

(* What insertSection puts in, x: a heading b and the content s.             *)
SectionGiven(d, n, p, t, c, l, at, b, s, x) ==
    /\ at = InsertAtPos(d, n, p)
    /\ b = Rendered(IF l = 0 THEN DestLevel(d, n, p) ELSE l, t, NewId(d, t, c))
    /\ s = Stripped(c, t) /\ x = <<b>> \o s
    /\ InsertNode(d, n, p, t, c, l) = Replaced(d, at, at, x)

LEMMA InsertIs ==
    ASSUME NEW d \in Seq(Block), NEW n \in Nodes(d), NEW p, NEW t \in Seq(Vocabulary),
           NEW c \in Seq(Block), NEW l \in Int
    PROVE  \E at \in 1..(Len(d) + 1), b \in Block, s \in Seq(Block), x \in Seq(Block) :
              SectionGiven(d, n, p, t, c, l, at, b, s, x)
<1>1. PICK at \in 1..(Len(d) + 1) : at = InsertAtPos(d, n, p)
  BY PlacesIn
<1>2. PICK lev \in Int : lev = IF l = 0 THEN DestLevel(d, n, p) ELSE l
  BY PlacesIn
<1>3. PICK b \in Block : b = Rendered(lev, t, NewId(d, t, c))
  BY NewIdIs, BlocksMade
<1>4. PICK s \in Seq(Block) : s = Stripped(c, t)
  BY StrippedTyped
<1>5. PICK a \in Seq(Block), r \in Seq(Block) :
         a = Slice(d, 1, at) /\ r = Slice(d, at, Len(d) + 1)
  <2>1. Len(d) \in Nat /\ 1 \in 1..(Len(d) + 1) /\ Len(d) + 1 \in 1..(Len(d) + 1)
    BY PlacesIn
  <2> QED
    BY <2>1, IdsSlice
<1>6. PICK one \in Seq(Block) : one = <<b>>
  BY OneIs
<1>7. PICK x \in Seq(Block) : x = one \o s
  BY JoinIs
<1>8. InsertNode(d, n, p, t, c, l) = Replaced(d, at, at, x)
  <2>1. InsertNode(d, n, p, t, c, l) = ((a \o one) \o s) \o r
    <3>1. InsertNode(d, n, p, t, c, l)
            = Slice(d, 1, at) \o <<b>> \o s \o Slice(d, at, Len(d) + 1)
      BY <1>1, <1>2, <1>3, <1>4, Zenon DEF InsertNode
    <3>2. one = <<b>>
      BY <1>6
    <3>3. a = Slice(d, 1, at) /\ r = Slice(d, at, Len(d) + 1)
      BY <1>5
    <3> QED
      BY <3>1, <3>2, <3>3
  <2>2. (a \o one) \o s = a \o x
    <3>1. JoinsAlike(a, one, s)
      BY JoinedTwice, Zenon
    <3> QED
      BY <1>7, <3>1 DEF JoinsAlike
  <2>3. Replaced(d, at, at, x) = (a \o x) \o r
    BY <1>5 DEF Replaced
  <2> QED
    BY <2>1, <2>2, <2>3
<1>9. x = <<b>> \o s
  BY <1>6, <1>7
<1>10. SectionGiven(d, n, p, t, c, l, at, b, s, x)
  BY <1>1, <1>2, <1>3, <1>4, <1>8, <1>9, SMT DEF SectionGiven
<1> QED
  BY <1>10, Zenon

(* An inserted section has the title and the text it was given.             *)
LEMMA InsertedReads ==
    ASSUME NEW d \in Seq(Block), NEW n \in Nodes(d), n # 0, NEW p, p # "child_start",
           NEW t \in Seq(Vocabulary), NEW c \in Seq(Block), AtxOnly(c),
           NoBreaking(Stripped(c, t), DestLevel(d, n, p)), DestLevel(d, n, p) <= 6
    PROVE  LET e  == InsertNode(d, n, p, t, c, 0)
               at == InsertAtPos(d, n, p)
           IN  e[at].text = t /\ SectionAt(e, at) = <<e[at]>> \o Stripped(c, t)
<1>1. PICK l \in Int : l = 0
  OBVIOUS
<1>2. PICK at \in 1..(Len(d) + 1), b \in Block, s \in Seq(Block), x \in Seq(Block) :
         SectionGiven(d, n, p, t, c, l, at, b, s, x)
  BY InsertIs, Zenon
<1>3. /\ at = InsertAtPos(d, n, p)
      /\ b = Rendered(IF l = 0 THEN DestLevel(d, n, p) ELSE l, t, NewId(d, t, c))
      /\ s = Stripped(c, t) /\ x = <<b>> \o s
      /\ InsertNode(d, n, p, t, c, l) = Replaced(d, at, at, x)
  BY <1>2, SMT DEF SectionGiven
<1>0. AtxIn(s) = HeadsIn(s)
  BY <1>3, AtxOnlyIs
<1>4. PICK lev \in 1..6 : lev = DestLevel(d, n, p) /\ StopsAt(d, at, lev)
  <2>1. /\ StopsAt(d, InsertAtPos(d, n, p), DestLevel(d, n, p))
        /\ DestLevel(d, n, p) = d[n].level \/ DestLevel(d, n, p) = d[n].level + 1
        /\ d[n].level \in 1..6
    BY NextThere
  <2>2. DestLevel(d, n, p) \in 1..6
    BY <2>1
  <2> QED
    BY <1>3, <2>1, <2>2, Zenon
<1>5. b.level = lev /\ b.text = t
  <2>1. b = Heading(lev, t, NewId(d, t, c))
    BY <1>1, <1>3, <1>4 DEF Rendered
  <2> QED
    BY <2>1 DEF Heading
<1>6. PICK one \in Seq(Block) : one = <<b>> /\ Len(one) = 1 /\ one[1] = b
  BY OneIs
<1>7. PICK N \in Nat : N = Len(s)
  BY BlockIs
<1>8. /\ Len(x) = 1 + N /\ x[1] = b /\ \A i \in 1..N : x[1 + i] = s[i]
  <2>1. x = one \o s
    BY <1>3, <1>6
  <2>2. /\ Len(x) = Len(one) + Len(s)
        /\ \A i \in 1..Len(one) : x[i] = one[i]
        /\ \A i \in 1..Len(s) : x[Len(one) + i] = s[i]
    BY <2>1, JoinParts
  <2>3. 1 \in 1..1
    OBVIOUS
  <2> QED
    BY <1>6, <1>7, <2>2, <2>3, Zenon
<1>9. GoesDeeper(x)
  <2> SUFFICES ASSUME NEW i \in 2..(1 + N), x[i].level # 0 PROVE x[i].level > lev
    BY <1>4, <1>5, <1>8 DEF GoesDeeper
  <2>1. PICK j \in 1..N : i = 1 + j
    <3>1. i - 1 \in 1..N /\ i = 1 + (i - 1)
      OBVIOUS
    <3> QED
      BY <3>1
  <2>2. x[i] = s[j]
    BY <1>8, <2>1
  <2>3. j \in HeadsIn(s)
    BY <1>7, <2>2, LevelOf
  <2> QED
    BY <1>0, <1>3, <1>4, <2>2, <2>3 DEF NoBreaking
<1>10. PICK e \in Seq(Block) : e = Replaced(d, at, at, x) /\ PutIn(d, at, at, x, e)
  <2>1. at <= at
    OBVIOUS
  <2> QED
    BY <2>1, ReplacedIs, Zenon
<1>11. SectionAt(e, at) = x
  <2>1. at <= at /\ Len(x) >= 1
    BY <1>8
  <2>2. StopsAt(d, at, x[1].level)
    BY <1>4, <1>5, <1>8
  <2> QED
    BY <1>9, <1>10, <2>1, <2>2, GraftReads
<1>12. e[at] = b
  <2>1. \A i \in 1..Len(x) : e[(at - 1) + i] = x[i]
    BY <1>10, Zenon DEF PutIn
  <2>2. 1 \in 1..Len(x) /\ (at - 1) + 1 = at
    BY <1>8
  <2> QED
    BY <1>8, <2>1, <2>2
<1> QED
  BY <1>1, <1>3, <1>5, <1>10, <1>11, <1>12

LEMMA ReplacedJoin ==
    ASSUME NEW a \in Seq(Block), NEW b \in Seq(Block), NEW k \in 1..(Len(a) + 1),
           NEW x \in Seq(Block)
    PROVE  Replaced(a, k, k, x) \o b = Replaced(a \o b, k, k, x)
<1>1. PICK A \in Nat, B \in Nat, X \in Nat : A = Len(a) /\ B = Len(b) /\ X = Len(x)
  BY BlockIs
<1>2. PICK d \in Seq(Block) : d = a \o b
  BY JoinParts
<1>3. /\ Len(d) = A + B
      /\ \A i \in 1..A : d[i] = a[i]
      /\ \A i \in 1..B : d[A + i] = b[i]
  BY <1>1, <1>2, JoinParts
<1>4. k \in 1..(A + 1) /\ k \in 1..(Len(d) + 1) /\ k <= k
  BY <1>1, <1>3
<1>5. PICK r \in Seq(Block) : r = Replaced(a, k, k, x) /\ PutIn(a, k, k, x, r)
  BY <1>4, ReplacedIs, Zenon
<1>6. /\ Len(r) = (k - 1) + X + (A + 1 - k)
      /\ \A i \in 1..(k - 1) : r[i] = a[i]
      /\ \A i \in 1..X : r[(k - 1) + i] = x[i]
      /\ \A j \in 1..(A + 1 - k) : r[(k - 1) + X + j] = a[k + j - 1]
  BY <1>1, <1>5, Zenon DEF PutIn
<1>7. PICK s \in Seq(Block) : s = Replaced(d, k, k, x) /\ PutIn(d, k, k, x, s)
  BY <1>4, ReplacedIs, Zenon
<1>8. /\ Len(s) = (k - 1) + X + ((A + B) + 1 - k)
      /\ \A i \in 1..(k - 1) : s[i] = d[i]
      /\ \A i \in 1..X : s[(k - 1) + i] = x[i]
      /\ \A j \in 1..((A + B) + 1 - k) : s[(k - 1) + X + j] = d[k + j - 1]
  BY <1>1, <1>3, <1>7, Zenon DEF PutIn
<1>9. PICK q \in Seq(Block) : q = r \o b
  BY JoinParts
<1>10. PICK R \in Nat : R = Len(r) /\ R = A + X
  BY <1>1, <1>4, <1>6
<1>11. /\ Len(q) = R + B
       /\ \A i \in 1..R : q[i] = r[i]
       /\ \A i \in 1..B : q[R + i] = b[i]
  <2>1. /\ Len(q) = Len(r) + Len(b)
        /\ \A i \in 1..Len(r) : q[i] = r[i]
        /\ \A i \in 1..Len(b) : q[Len(r) + i] = b[i]
    BY <1>9, JoinParts
  <2> QED
    BY <1>1, <1>10, <2>1, Zenon
<1>12. Len(q) = A + X + B /\ Len(s) = A + X + B
  BY <1>1, <1>4, <1>8, <1>10, <1>11
<1>13. \A i \in 1..Len(q) : q[i] = s[i]
  <2> SUFFICES ASSUME NEW i \in 1..(A + X + B) PROVE q[i] = s[i]
    BY <1>12
  <2>1. CASE i <= k - 1
    <3>1. i \in 1..(k - 1) /\ i \in 1..A /\ i \in 1..R
      BY <1>4, <1>10, <2>1
    <3> QED
      BY <1>3, <1>6, <1>8, <1>11, <3>1, Zenon
  <2>2. CASE k - 1 < i /\ i <= k - 1 + X
    <3>1. PICK j \in 1..X : i = (k - 1) + j
      <4>1. i - (k - 1) \in 1..X /\ i = (k - 1) + (i - (k - 1))
        BY <1>4, <2>2
      <4> QED
        BY <4>1
    <3>2. i \in 1..R
      BY <1>4, <1>10, <2>2
    <3>3. q[i] = x[j] /\ s[i] = x[j]
      BY <1>6, <1>8, <1>11, <3>1, <3>2, Zenon
    <3> QED
      BY <3>3
  <2>3. CASE k - 1 + X < i /\ i <= A + X
    <3>1. PICK j \in 1..(A + 1 - k) : i = (k - 1) + X + j
      <4>1. i - (k - 1 + X) \in 1..(A + 1 - k) /\ i = (k - 1) + X + (i - (k - 1 + X))
        BY <1>4, <2>3
      <4> QED
        BY <4>1
    <3>2. i \in 1..R /\ j \in 1..((A + B) + 1 - k) /\ k + j - 1 \in 1..A
      BY <1>4, <1>10, <2>3, <3>1
    <3>3. q[i] = a[k + j - 1] /\ s[i] = d[k + j - 1]
      BY <1>6, <1>8, <1>11, <3>1, <3>2, Zenon
    <3> QED
      BY <1>3, <3>2, <3>3, Zenon
  <2>4. CASE A + X < i
    <3>1. PICK j \in 1..B : i = R + j
      <4>1. i - R \in 1..B /\ i = R + (i - R)
        BY <1>10, <2>4
      <4> QED
        BY <4>1
    <3>2. PICK h \in 1..((A + B) + 1 - k) : i = (k - 1) + X + h /\ k + h - 1 = A + j
      <4>1. (A + j) + 1 - k \in 1..((A + B) + 1 - k) /\ i = (k - 1) + X + ((A + j) + 1 - k)
            /\ k + ((A + j) + 1 - k) - 1 = A + j
        BY <1>4, <1>10, <3>1
      <4> QED
        BY <4>1
    <3>3. q[i] = b[j] /\ s[i] = d[A + j] /\ d[A + j] = b[j]
      BY <1>3, <1>8, <1>11, <3>1, <3>2, Zenon
    <3> QED
      BY <3>3
  <2> QED
    BY <1>4, <2>1, <2>2, <2>3, <2>4, SMTT(40)
<1>14. q = s
  <2> HIDE DEF Block
  <2> QED
    BY <1>12, <1>13, SeqEqual
<1> QED
  BY <1>2, <1>5, <1>7, <1>9, <1>14

(* Moving a section is taking it away and putting it in again.              *)
LEMMA MoveIsGraft ==
    ASSUME NEW d \in Seq(Block), NEW n \in Nodes(d), NEW m \in Nodes(d), NEW p,
           MoveAllowed(d, n, m, p), FALSE \in Gluings(d, n, m, p)
    PROVE  \E k \in 1..(Len(DeleteNode(d, n)) + 1) :
              /\ k = IF Start(d, n) < InsertAtPos(d, m, p)
                     THEN InsertAtPos(d, m, p) - Len(Moved(d, n)) ELSE InsertAtPos(d, m, p)
              /\ MoveNode(d, n, m, p, FALSE)
                   = Replaced(DeleteNode(d, n), k, k, Shifted(Moved(d, n), MoveDelta(d, n, m, p)))
<1>1. PICK s \in Seq(Block) : s = Shifted(Moved(d, n), MoveDelta(d, n, m, p))
  BY MoveIs, Zenon
<1>2. PICK glue \in Gluings(d, n, m, p) : glue = FALSE
  OBVIOUS
<1>3. PICK e \in Seq(Block), b \in Seq(Block), k \in 1..(Len(d) + 1) :
         /\ k \in 1..(Len(e) + 1)
         /\ glue => k - 1 \in 1..Len(e)
         /\ MoveNode(d, n, m, p, glue)
              = Spliced(e, k, Shifted(Moved(d, n), MoveDelta(d, n, m, p)), glue) \o b
         /\ \/ /\ Start(d, n) < InsertAtPos(d, m, p)
               /\ SectionEnd(d, n) <= InsertAtPos(d, m, p)
               /\ k = InsertAtPos(d, m, p) - Len(Moved(d, n))
               /\ e = DeleteNode(d, n) /\ b = <<>>
            \/ /\ ~(Start(d, n) < InsertAtPos(d, m, p))
               /\ k = InsertAtPos(d, m, p)
               /\ e = Slice(d, 1, Start(d, n))
               /\ b = Slice(d, SectionEnd(d, n), Len(d) + 1)
  BY MoveIs, Zenon
<1>4. Spliced(e, k, s, glue) = Replaced(e, k, k, s)
  BY <1>2 DEF Spliced, Replaced
<1>5. MoveNode(d, n, m, p, FALSE) = Spliced(e, k, s, glue) \o b
  BY <1>1, <1>2, <1>3, Zenon
<1>6. MoveNode(d, n, m, p, FALSE) = Replaced(e \o b, k, k, s)
  <2>1. k \in 1..(Len(e) + 1)
    BY <1>3
  <2>2. Replaced(e, k, k, s) \o b = Replaced(e \o b, k, k, s)
    BY <2>1, ReplacedJoin, Zenon
  <2> QED
    BY <1>4, <1>5, <2>2, Zenon
<1>7. e \o b = DeleteNode(d, n)
  <2>1. CASE e = DeleteNode(d, n) /\ b = <<>>
    BY <2>1, BlocksJoin
  <2>2. CASE e = Slice(d, 1, Start(d, n)) /\ b = Slice(d, SectionEnd(d, n), Len(d) + 1)
    BY <2>2 DEF DeleteNode
  <2> QED
    BY <1>3, <2>1, <2>2
<1>8. k \in 1..(Len(DeleteNode(d, n)) + 1)
  <2>1. PICK E \in Nat, B \in Nat : E = Len(e) /\ B = Len(b) /\ Len(e \o b) = E + B
    BY JoinParts
  <2> QED
    BY <1>3, <1>7, <2>1
<1>9. k = IF Start(d, n) < InsertAtPos(d, m, p)
          THEN InsertAtPos(d, m, p) - Len(Moved(d, n)) ELSE InsertAtPos(d, m, p)
  BY <1>3
<1> QED
  BY <1>1, <1>6, <1>7, <1>8, <1>9, Zenon

(* The section that is moved, with its levels shifted.                      *)
LEMMA MovedText ==
    ASSUME NEW d \in Seq(Block), NEW n \in Nodes(d), n # 0, NEW m \in Nodes(d), NEW p,
           MoveAllowed(d, n, m, p)
    PROVE  \E s \in Seq(Block) :
              /\ s = Shifted(Moved(d, n), MoveDelta(d, n, m, p))
              /\ Len(s) = SectionEnd(d, n) - n /\ Len(s) >= 1
              /\ s[1].level = DestLevel(d, m, p) /\ GoesDeeper(s)
<1>1. PICK s \in Seq(Block), w \in Seq(Block), delta \in Int :
         /\ s = Shifted(Moved(d, n), MoveDelta(d, n, m, p)) /\ w = Moved(d, n)
         /\ delta = MoveDelta(d, n, m, p)
  <2>1. PICK glue : glue \in Gluings(d, n, m, p)
    BY DEF Gluings
  <2> QED
    BY <2>1, MoveIs, Zenon
<1>2. PICK se \in 1..(Len(d) + 1) : se = SectionEnd(d, n)
  BY PlacesIn
<1>3. /\ n \in HeadsIn(d) /\ n \in 1..Len(d) /\ d[n].level \in 1..6 /\ Len(d) \in Nat
      /\ Start(d, n) = n /\ Level(d, n) = d[n].level
  <2>1. n \in HeadsIn(d) /\ n \in 1..Len(d) /\ Len(d) \in Nat /\ d[n].level > 0
    BY PlacesIn, BlockIs
  <2>2. d[n].level \in 0..6
    BY <2>1, LevelOf
  <2>3. d[n].level \in 1..6
    BY <2>1, <2>2
  <2> QED
    BY <2>1, <2>3 DEF Start, Level
<1>4. Ends(d, n, se)
  BY <1>2, <1>3, SectionEnds
<1>5. PICK N \in Nat : N = se - n /\ N >= 1
  <2>1. n < se
    BY <1>4 DEF Ends
  <2> QED
    BY <1>3, <2>1
<1>6. Len(w) = N /\ \A i \in 1..N : w[i] = d[n + i - 1]
  <2>1. w = Slice(d, n, se)
    BY <1>1, <1>2, <1>3 DEF Moved
  <2>2. n \in 1..(Len(d) + 1) /\ n <= se
    BY <1>3, <1>5
  <2>3. Len(Slice(d, n, se)) = se - n /\ \A i \in 1..(se - n) : Slice(d, n, se)[i] = d[n + i - 1]
    BY <2>2, PieceIs
  <2> QED
    BY <1>5, <2>1, <2>3
<1>7. /\ Len(s) = N
      /\ \A i \in 1..N : s[i] = IF w[i].level = 0 THEN w[i] ELSE [w[i] EXCEPT !.level = @ + delta]
  <2>1. DOMAIN w = 1..N
    BY <1>6, BlockIs
  <2>2. s = [i \in 1..N |-> IF w[i].level = 0 THEN w[i] ELSE [w[i] EXCEPT !.level = @ + delta]]
    BY <1>1, <2>1 DEF Shifted
  <2> HIDE DEF Block
  <2> QED
    BY <2>2
<1>8. \A i \in 1..N : w[i] \in Block /\ w[i].level \in Int /\ w[i].level = d[n + i - 1].level
  <2> SUFFICES ASSUME NEW i \in 1..N
               PROVE  w[i] \in Block /\ w[i].level \in Int /\ w[i].level = d[n + i - 1].level
    OBVIOUS
  <2>1. i \in 1..Len(w) /\ w[i] = d[n + i - 1]
    BY <1>6
  <2>2. w[i] \in Block
    BY <2>1, BlockIs
  <2>3. w[i].level \in Int
    BY <2>1, LevelOf
  <2> QED
    BY <2>1, <2>2, <2>3
<1>9. \A i \in 1..N : s[i].level = IF w[i].level = 0 THEN 0 ELSE w[i].level + delta
  <2> SUFFICES ASSUME NEW i \in 1..N
               PROVE  s[i].level = IF w[i].level = 0 THEN 0 ELSE w[i].level + delta
    OBVIOUS
  <2>1. CASE w[i].level = 0
    BY <1>7, <2>1
  <2>2. CASE w[i].level # 0
    <3>1. s[i] = [w[i] EXCEPT !.level = w[i].level + delta]
      BY <1>7, <2>2
    <3>2. [w[i] EXCEPT !.level = w[i].level + delta]
            = [level |-> w[i].level + delta, text |-> w[i].text, id |-> w[i].id]
      BY <1>8, BlockChanged
    <3> QED
      BY <2>2, <3>1, <3>2
  <2> QED
    BY <2>1, <2>2
<1>10. PICK l \in 1..6, dl \in Int : l = d[n].level /\ dl = DestLevel(d, m, p) /\ dl = l + delta
  <2>1. DestLevel(d, m, p) \in Int
    BY PlacesIn
  <2>2. delta = DestLevel(d, m, p) - d[n].level
    BY <1>1, <1>3 DEF MoveDelta
  <2>3. DestLevel(d, m, p) = d[n].level + delta
    BY <1>3, <2>1, <2>2, SMTT(40)
  <2> QED
    BY <1>3, <2>1, <2>3
<1>11. w[1].level = l /\ s[1].level = dl
  <2>1. 1 \in 1..N /\ n + 1 - 1 = n
    BY <1>3, <1>5
  <2>2. w[1].level = d[n].level
    BY <1>8, <2>1
  <2>3. s[1].level = IF w[1].level = 0 THEN 0 ELSE w[1].level + delta
    BY <1>9, <2>1, Zenon
  <2>4. w[1].level = l
    BY <1>10, <2>2, Zenon
  <2>5. l # 0 /\ dl = l + delta
    BY <1>10
  <2> QED
    BY <2>3, <2>4, <2>5, Zenon
<1>12. \A i \in 2..N : w[i].level # 0 => w[i].level > l
  <2> SUFFICES ASSUME NEW i \in 2..N, w[i].level # 0 PROVE w[i].level > l
    OBVIOUS
  <2>1. i \in 1..N /\ n + i - 1 \in 1..Len(d) /\ n < n + i - 1 /\ n + i - 1 < se
    BY <1>3, <1>5
  <2>2. PICK j \in 1..Len(d) : j = n + i - 1
    BY <2>1
  <2>3. d[j].level = w[i].level
    BY <1>8, <2>1, <2>2
  <2>4. j \in HeadsIn(d)
    BY <2>3, LevelOf
  <2>5. d[j].level > d[n].level
    BY <1>4, <2>1, <2>2, <2>4 DEF Ends
  <2> QED
    BY <1>10, <2>3, <2>5
<1>13. GoesDeeper(s)
  <2>1. s[1].level > 0
    <3>1. 1 \in 1..N /\ 1 \in DOMAIN w
      BY <1>5, <1>6, BlockIs
    <3>2. 1 \in HeadsIn(w)
      <4>1. l > 0
        OBVIOUS
      <4>2. w[1].level > 0
        BY <1>11, <4>1, Zenon
      <4> QED
        BY <3>1, <4>2, Zenon DEF HeadsIn
    <3>3. w[1].level + delta \in 1..6
      BY <1>1, <3>2 DEF MoveAllowed
    <3>4. dl > 0
      <4>1. w[1].level = l /\ dl = l + delta
        BY <1>10, <1>11
      <4>2. l + delta \in 1..6
        BY <3>3, <4>1, Zenon
      <4> QED
        BY <4>1, <4>2
    <3> QED
      BY <1>11, <3>4, Zenon
  <2>2. \A i \in 2..N : s[i].level = 0 \/ s[i].level > s[1].level
    <3> SUFFICES ASSUME NEW i \in 2..N, w[i].level # 0 PROVE s[i].level > s[1].level
      <4>1. \A i \in 2..N : i \in 1..N
        OBVIOUS
      <4> QED
        BY <1>9, <4>1
    <3>1. i \in 1..N
      OBVIOUS
    <3>2. s[i].level = w[i].level + delta /\ w[i].level \in Int
      BY <1>8, <1>9, <3>1
    <3>3. w[i].level > l
      BY <1>12
    <3>4. PICK v \in Int : v = w[i].level /\ v > l /\ s[i].level = v + delta
      BY <3>2, <3>3
    <3>5. v + delta > dl
      BY <1>10, <3>4, SMTT(40)
    <3> QED
      BY <1>11, <3>4, <3>5, Zenon
  <2> QED
    BY <1>7, <2>1, <2>2 DEF GoesDeeper
<1> QED
  BY <1>1, <1>2, <1>5, <1>7, <1>10, <1>11, <1>13

(* The place for it, once it has been taken away.                           *)
LEMMA PlaceStays ==
    ASSUME NEW d \in Seq(Block), NEW n \in HeadsIn(d), NEW at \in 1..(Len(d) + 1),
           NEW k \in 1..(Len(DeleteNode(d, n)) + 1), NEW l \in Int, StopsAt(d, at, l),
           \/ SectionEnd(d, n) <= at /\ k = at - (SectionEnd(d, n) - n)
           \/ at <= n /\ k = at
    PROVE  StopsAt(DeleteNode(d, n), k, l)
<1>1. PICK L \in Nat : L = Len(d)
  BY BlockIs
<1>2. /\ n \in 1..Len(d) /\ n \in Nodes(d) /\ Start(d, n) = n
      /\ d[n].level \in Int
  <2>1. n \in Nodes(d) /\ n \in 1..Len(d)
    BY ParentsIs, BlockIs
  <2>2. n # 0
    BY <2>1
  <2> QED
    BY <2>1, <2>2, BlockIs DEF Start
<1>3. PICK se \in 1..(Len(d) + 1) : se = SectionEnd(d, n)
  BY <1>2, PlacesIn
<1>4. Ends(d, n, se)
  BY <1>3, SectionEnds
<1>5. n < se
  BY <1>4 DEF Ends
<1>6. PICK e \in Seq(Block), M \in Nat : /\ e = DeleteNode(d, n) /\ M = Len(e)
                                         /\ PutIn(d, n, se, <<>>, e)
  <2>1. n \in 1..(Len(d) + 1) /\ n <= se
    BY <1>1, <1>2, <1>5
  <2>2. <<>> \in Seq(Block)
    OBVIOUS
  <2>3. DeleteNode(d, n) = Replaced(d, n, se, <<>>)
    BY <1>2, <1>3, DeleteIs
  <2>4. PICK e \in Seq(Block) : e = DeleteNode(d, n) /\ PutIn(d, n, se, <<>>, e)
    BY <2>1, <2>2, <2>3, ReplacedIs, Zenon
  <2>5. Len(e) \in Nat
    BY BlockIs
  <2> QED
    BY <2>4, <2>5, Zenon
<1>7. /\ M = (n - 1) + (L + 1 - se)
      /\ \A i \in 1..(n - 1) : e[i] = d[i]
      /\ \A j \in 1..(L + 1 - se) : e[(n - 1) + j] = d[se + j - 1]
  <2>1. Len(<<>>) = 0 /\ (n - 1) + 0 = n - 1
    BY <1>1, <1>2
  <2> QED
    BY <1>1, <1>6, <2>1 DEF PutIn
<1>8. n \in 1..L /\ at \in 1..(L + 1) /\ se \in 1..(L + 1) /\ k \in 1..(M + 1)
  BY <1>1, <1>2, <1>3, <1>6, Zenon
<1>9. ASSUME NEW y \in 1..(L + 1), se <= y, k = y - (se - n), StopsAt(d, y, l)
      PROVE  StopsAt(e, k, l)
  <2>1. CASE y = L + 1
    <3>1. k = M + 1
      <4>1. k = (L + 1) - (se - n) /\ M = (n - 1) + (L + 1 - se)
        BY <1>7, <1>9, <2>1
      <4> QED
        BY <1>8, <4>1
    <3> QED
      BY <1>6, <3>1, Zenon DEF StopsAt
  <2>2. CASE y # L + 1
    <3>1. PICK j \in 1..(L + 1 - se) : (n - 1) + j = k /\ se + j - 1 = y
      <4>1. y - se + 1 \in 1..(L + 1 - se) /\ (n - 1) + (y - se + 1) = k
            /\ se + (y - se + 1) - 1 = y
        BY <1>8, <1>9, <2>2
      <4> QED
        BY <4>1
    <3>2. e[k] = d[y]
      BY <1>7, <3>1
    <3> QED
      BY <1>1, <1>9, <2>2, <3>2, Zenon DEF StopsAt
  <2> QED
    BY <2>1, <2>2
<1>10. CASE se <= at /\ k = at - (se - n)
  BY <1>1, <1>6, <1>9, <1>10, Zenon
<1>11. CASE at < n /\ k = at
  <2>1. k \in 1..(n - 1) /\ at # L + 1
    BY <1>8, <1>11
  <2>2. e[k] = d[at]
    BY <1>7, <1>11, <2>1
  <2> QED
    BY <1>1, <1>6, <2>1, <2>2, Zenon DEF StopsAt
<1>12. CASE at = n /\ k = at
  <2>1. n # L + 1 /\ k = se - (se - n) /\ se <= se
    BY <1>8, <1>12
  <2>2. d[n].level > 0 /\ d[n].level <= l
    BY <1>1, <1>12, <2>1, Zenon DEF StopsAt
  <2>3. StopsAt(d, se, l)
    <3>1. CASE se = L + 1
      BY <1>1, <3>1 DEF StopsAt
    <3>2. CASE se # L + 1
      <4>1. se \in HeadsIn(d) /\ d[se].level <= d[n].level
        BY <1>1, <1>4, <3>2 DEF Ends
      <4>2. d[se].level > 0 /\ d[se].level \in Int
        BY <4>1, BlockIs
      <4>3. d[se].level <= l
        BY <1>2, <2>2, <4>1, <4>2
      <4> QED
        BY <4>2, <4>3 DEF StopsAt
    <3> QED
      BY <3>1, <3>2
  <2> QED
    BY <1>6, <1>8, <1>9, <2>1, <2>3, Zenon
<1>13. (se <= at /\ k = at - (se - n)) \/ (at < n /\ k = at) \/ (at = n /\ k = at)
  BY <1>3, <1>8
<1> QED
  BY <1>10, <1>11, <1>12, <1>13

(* A moved section is the old one with its levels shifted.                  *)
MovedTo(d, n, m, p, k, s) ==
    /\ k = IF Start(d, n) < InsertAtPos(d, m, p)
           THEN InsertAtPos(d, m, p) - Len(Moved(d, n)) ELSE InsertAtPos(d, m, p)
    /\ s = Shifted(Moved(d, n), MoveDelta(d, n, m, p))
    /\ MoveNode(d, n, m, p, FALSE) = Replaced(DeleteNode(d, n), k, k, s)
    /\ Len(s) >= 1 /\ GoesDeeper(s) /\ StopsAt(DeleteNode(d, n), k, s[1].level)
    /\ Len(s) = Len(Moved(d, n))
    /\ SectionAt(MoveNode(d, n, m, p, FALSE), k) = s

LEMMA MovedReads ==
    ASSUME NEW d \in Seq(Block), NEW n \in Nodes(d), n # 0, NEW m \in Nodes(d), m # 0,
           NEW p, p # "child_start", MoveAllowed(d, n, m, p), FALSE \in Gluings(d, n, m, p)
    PROVE  \E k \in 1..(Len(DeleteNode(d, n)) + 1), s \in Seq(Block) :
              MovedTo(d, n, m, p, k, s)
<1>1. PICK e \in Seq(Block) : e = DeleteNode(d, n)
  BY ReplaceTyped
<1>2. PICK k \in 1..(Len(e) + 1) :
         /\ k = IF Start(d, n) < InsertAtPos(d, m, p)
                THEN InsertAtPos(d, m, p) - Len(Moved(d, n)) ELSE InsertAtPos(d, m, p)
         /\ MoveNode(d, n, m, p, FALSE)
              = Replaced(e, k, k, Shifted(Moved(d, n), MoveDelta(d, n, m, p)))
  BY <1>1, MoveIsGraft, Zenon
<1>3. PICK s \in Seq(Block) :
         /\ s = Shifted(Moved(d, n), MoveDelta(d, n, m, p))
         /\ Len(s) = SectionEnd(d, n) - n /\ Len(s) >= 1
         /\ s[1].level = DestLevel(d, m, p) /\ GoesDeeper(s)
  BY MovedText, Zenon
<1>4. StopsAt(e, k, s[1].level)
  <2>1. PICK at \in 1..(Len(d) + 1), l \in Int :
           at = InsertAtPos(d, m, p) /\ l = DestLevel(d, m, p) /\ StopsAt(d, at, l)
    BY PlacesIn, NextThere
  <2>2. n \in HeadsIn(d) /\ Start(d, n) = n /\ Len(Moved(d, n)) = SectionEnd(d, n) - n
    BY PlacesIn, MoveIs DEF Start
  <2>3. n \in Int /\ SectionEnd(d, n) \in Int
    BY PlacesIn
  <2>4. n < at => SectionEnd(d, n) <= at
    BY <2>1, <2>2, PlaceIsOutside DEF MoveAllowed
  <2>5. \/ SectionEnd(d, n) <= at /\ k = at - (SectionEnd(d, n) - n)
        \/ at <= n /\ k = at
    BY <1>2, <2>1, <2>2, <2>3, <2>4
  <2>6. StopsAt(DeleteNode(d, n), k, l)
    BY <1>1, <2>1, <2>2, <2>5, PlaceStays, Zenon
  <2> QED
    BY <1>1, <1>3, <2>1, <2>6, Zenon
<1>5. SectionAt(MoveNode(d, n, m, p, FALSE), k) = s
  <2>1. k <= k
    OBVIOUS
  <2>2. SectionAt(Replaced(e, k, k, s), k) = s
    BY <1>3, <1>4, <2>1, GraftReads, Zenon
  <2> QED
    BY <1>2, <1>3, <2>2, Zenon
<1>6. Len(s) = Len(Moved(d, n))
  BY <1>3, MoveIs DEF Start
<1> QED
  BY <1>1, <1>2, <1>3, <1>4, <1>5, <1>6, Zenon DEF MovedTo

-----------------------------------------------------------------------------
(* WHERE BLOCKS STAND.                                                       *)

(* The open sections after block i, as their headings, and what is left of   *)
(* them when a heading of level l comes.                                    *)
Above(d, i) == LET open == OpenSections(d)[i] IN [k \in DOMAIN open |-> d[open[k]]]
Kept(a, l)  == SubSeq(a, 1, Max({0} \union {k \in DOMAIN a : a[k].level < l}))
KeptAt(a, l, K) ==
    /\ K \in 0..Len(a)
    /\ K # 0 => a[K].level < l
    /\ \A m \in (K + 1)..Len(a) : a[m].level >= l

(* As many are left as there are up to the last that is smaller.             *)
LEMMA KeptUpTo ==
    ASSUME NEW a \in Seq(Block), NEW l \in Int
    PROVE  \E K \in 0..Len(a) : KeptAt(a, l, K) /\ Kept(a, l) = SubSeq(a, 1, K)
<1> DEFINE small == {0} \union {m \in DOMAIN a : a[m].level < l}
           k == Max(small)
<1>1. Len(a) \in Nat /\ DOMAIN a = 1..Len(a) /\ \A m \in 1..Len(a) : a[m].level \in Int
  BY BlockIs, LevelOf
<1>2. small \in SUBSET (0..Len(a)) /\ small # {}
  BY <1>1
<1>3. k \in small /\ \A m \in small : m <= k
  <2>1. small \in SUBSET (-1..Len(a))
    BY <1>1, <1>2
  <2> HIDE DEF small
  <2> QED
    BY <1>1, <1>2, <2>1, MaxIs, Zenon
<1>4. Kept(a, l) = SubSeq(a, 1, k)
  BY DEF Kept
<1> HIDE DEF k
<1>5. k \in 0..Len(a)
  BY <1>2, <1>3
<1>6. k # 0 => a[k].level < l
  BY <1>3
<1>7. ASSUME NEW m \in (k + 1)..Len(a)
      PROVE  a[m].level >= l
  <2>1. m \in DOMAIN a /\ ~(m <= k)
    BY <1>1, <1>5
  <2>2. m \notin small
    BY <1>3, <2>1
  <2> QED
    BY <1>1, <2>1, <2>2
<1>8. KeptAt(a, l, k)
  BY <1>5, <1>6, <1>7 DEF KeptAt
<1> QED
  BY <1>4, <1>5, <1>8

LEMMA KeptOnce ==
    ASSUME NEW a \in Seq(Block), NEW l \in Int, NEW K \in Int, NEW M \in Int,
           KeptAt(a, l, K), KeptAt(a, l, M)
    PROVE  K = M
<1>1. Len(a) \in Nat /\ \A m \in 1..Len(a) : a[m].level \in Int
  BY BlockIs, LevelOf
<1>2. ~(K < M)
  <2>1. SUFFICES ASSUME K < M PROVE FALSE
    OBVIOUS
  <2>2. M \in (K + 1)..Len(a) /\ M # 0 /\ M \in 1..Len(a)
    BY <1>1, <2>1 DEF KeptAt
  <2>3. a[M].level >= l /\ a[M].level < l
    BY <2>2 DEF KeptAt
  <2> QED
    BY <1>1, <2>2, <2>3
<1>3. ~(M < K)
  <2>1. SUFFICES ASSUME M < K PROVE FALSE
    OBVIOUS
  <2>2. K \in (M + 1)..Len(a) /\ K # 0 /\ K \in 1..Len(a)
    BY <1>1, <2>1 DEF KeptAt
  <2>3. a[K].level >= l /\ a[K].level < l
    BY <2>2 DEF KeptAt
  <2> QED
    BY <1>1, <2>2, <2>3
<1> QED
  BY <1>2, <1>3

LEMMA PrefixIs ==
    ASSUME NEW S, NEW a \in Seq(S), NEW K \in 0..Len(a)
    PROVE  /\ SubSeq(a, 1, K) \in Seq(S) /\ Len(SubSeq(a, 1, K)) = K
           /\ \A m \in 1..K : SubSeq(a, 1, K)[m] = a[m]
  OBVIOUS

LEMMA AppendIs ==
    ASSUME NEW S, NEW a \in Seq(S), NEW b \in S
    PROVE  /\ Append(a, b) \in Seq(S) /\ Len(Append(a, b)) = Len(a) + 1
           /\ \A m \in 1..Len(a) : Append(a, b)[m] = a[m]
           /\ Append(a, b)[Len(a) + 1] = b
  OBVIOUS

LEMMA AboveTyped ==
    ASSUME NEW d \in Seq(Block), NEW i \in 0..Len(d)
    PROVE  LET s == OpenSections(d)[i] IN
           /\ s \in Seq(HeadsIn(d)) /\ Len(s) \in Nat
           /\ Above(d, i) \in Seq(Block) /\ Len(Above(d, i)) = Len(s)
           /\ \A k \in 1..Len(s) : Above(d, i)[k] = d[s[k]] /\ s[k] \in HeadsIn(d)
<1>1. PICK s \in Seq(HeadsIn(d)) : s = OpenSections(d)[i]
  BY OpenIs
<1>2. Len(s) \in Nat /\ DOMAIN s = 1..Len(s) /\ \A k \in 1..Len(s) : s[k] \in HeadsIn(d)
  OBVIOUS
<1>3. \A h \in HeadsIn(d) : d[h] \in Block
  BY BlockIs
<1>4. Above(d, i) = [k \in 1..Len(s) |-> d[s[k]]]
  BY <1>1, <1>2 DEF Above
<1>5. \A k \in 1..Len(s) : d[s[k]] \in Block
  BY <1>2, <1>3
<1> HIDE DEF Block
<1> QED
  BY <1>1, <1>2, <1>4, <1>5

(* The walk of the parser, told by the headings that are open.              *)
LEMMA AboveIs ==
    ASSUME NEW d \in Seq(Block)
    PROVE  /\ Above(d, 0) = <<>>
           /\ \A i \in 1..Len(d) :
                Above(d, i) = IF d[i].level = 0 THEN Above(d, i - 1)
                              ELSE Append(Kept(Above(d, i - 1), d[i].level), d[i])
<1>1. Above(d, 0) = <<>>
  BY OpenIs DEF Above
<1>2. ASSUME NEW i \in 1..Len(d), d[i].level = 0
      PROVE  Above(d, i) = Above(d, i - 1)
  <2>1. OpenSections(d)[i] = OpenSections(d)[i - 1]
    BY <1>2, OpenIs
  <2> QED
    BY <2>1 DEF Above
<1>3. ASSUME NEW i \in 1..Len(d), d[i].level # 0
      PROVE  Above(d, i) = Append(Kept(Above(d, i - 1), d[i].level), d[i])
  <2>1. i \in HeadsIn(d) /\ d[i].level \in Int /\ i \in 0..Len(d) /\ i - 1 \in 0..Len(d)
        /\ d[i] \in Block
    BY <1>3, LevelOf, BlockIs
  <2>2. PICK l \in Int : l = d[i].level
    BY <2>1
  <2>3. PICK s \in Seq(HeadsIn(d)), a \in Seq(Block), S \in Nat :
           /\ s = OpenSections(d)[i - 1] /\ a = Above(d, i - 1) /\ S = Len(s) /\ Len(a) = S
           /\ \A k \in 1..S : a[k] = d[s[k]]
    BY <2>1, AboveTyped, ZenonT(40)
  <2>4. PICK K \in 0..Len(s) :
           /\ Popped(d, s, l) = SubSeq(s, 1, K)
           /\ Popped(d, s, l) \in Seq(HeadsIn(d)) /\ Len(Popped(d, s, l)) = K
           /\ \A m \in 1..K : Popped(d, s, l)[m] = s[m]
           /\ K # 0 => d[s[K]].level < l
           /\ \A m \in (K + 1)..Len(s) : d[s[m]].level >= l
    BY PoppedIs
  <2>5. K \in 0..S /\ K \in Nat /\ K <= S
    BY <2>3
  <2>6. KeptAt(a, l, K)
    <3>1. (K # 0 => K \in 1..S) /\ \A m \in (K + 1)..S : m \in 1..S
      BY <2>5
    <3>2. K # 0 => a[K].level < l
      BY <2>3, <2>4, <3>1, Zenon
    <3>3. \A m \in (K + 1)..S : a[m].level >= l
      BY <2>3, <2>4, <3>1, ZenonT(40)
    <3> QED
      BY <2>3, <2>5, <3>2, <3>3, Zenon DEF KeptAt
  <2>7. Kept(a, l) = SubSeq(a, 1, K)
    <3>1. PICK M \in 0..Len(a) : KeptAt(a, l, M) /\ Kept(a, l) = SubSeq(a, 1, M)
      BY KeptUpTo
    <3>2. M \in Int /\ K \in Int
      BY <2>3, <2>5
    <3>3. M = K
      BY <2>6, <3>1, <3>2, KeptOnce, Zenon
    <3> QED
      BY <3>1, <3>3
  <2>8. PICK u \in Seq(Block) : u = SubSeq(a, 1, K) /\ Len(u) = K /\ \A m \in 1..K : u[m] = a[m]
    <3>1. K \in 0..Len(a)
      BY <2>3, <2>5, Zenon
    <3> QED
      BY <3>1, PrefixIs
  <2>9. PICK v \in Seq(Block) : /\ v = Append(u, d[i]) /\ Len(v) = K + 1
                                /\ \A m \in 1..K : v[m] = u[m]
                                /\ v[K + 1] = d[i]
    <3>1. /\ Append(u, d[i]) \in Seq(Block) /\ Len(Append(u, d[i])) = Len(u) + 1
          /\ \A m \in 1..Len(u) : Append(u, d[i])[m] = u[m]
          /\ Append(u, d[i])[Len(u) + 1] = d[i]
      BY <2>1, AppendIs, ZenonT(40)
    <3> QED
      BY <2>8, <3>1, Zenon
  <2>10. PICK o \in Seq(HeadsIn(d)), b \in Seq(Block) :
           /\ o = OpenSections(d)[i] /\ b = Above(d, i) /\ Len(b) = Len(o) /\ Len(o) \in Nat
           /\ \A k \in 1..Len(o) : b[k] = d[o[k]]
    BY <2>1, AboveTyped
  <2>11. o = Append(Popped(d, s, l), i)
    BY <1>3, <2>2, <2>3, <2>10, OpenIs
  <2>12. /\ Len(o) = K + 1 /\ o[K + 1] = i
         /\ \A m \in 1..K : o[m] = s[m]
    BY <2>1, <2>4, <2>11
  <2>13. \A m \in 1..(K + 1) : b[m] = v[m]
    <3> SUFFICES ASSUME NEW m \in 1..(K + 1) PROVE b[m] = v[m]
      OBVIOUS
    <3>1. CASE m = K + 1
      BY <2>9, <2>10, <2>12, <3>1
    <3>2. CASE m # K + 1
      <4>1. m \in 1..K /\ m \in 1..S
        BY <2>5, <3>2
      <4>2. m \in 1..Len(o)
        BY <2>12
      <4>3. v[m] = a[m]
        BY <2>8, <2>9, <4>1, Zenon
      <4>4. a[m] = d[s[m]] /\ b[m] = d[o[m]] /\ o[m] = s[m]
        BY <2>3, <2>10, <2>12, <4>1, <4>2, Zenon
      <4> QED
        BY <4>3, <4>4, Zenon
    <3> QED
      BY <3>1, <3>2
  <2>14. b = v
    <3>1. Len(b) = Len(v)
      BY <2>9, <2>10, <2>12
    <3>2. \A m \in 1..Len(b) : b[m] = v[m]
      BY <2>10, <2>12, <2>13
    <3> HIDE DEF Block
    <3> QED
      BY <3>1, <3>2, SeqEqual
  <2> QED
    BY <2>2, <2>3, <2>7, <2>8, <2>9, <2>10, <2>14
<1> QED
  BY <1>1, <1>2, <1>3

(* A block stands under the headings of the sections open at it.            *)
TextsOf(a) == IF a = <<>> THEN <<Preamble>> ELSE [k \in DOMAIN a |-> a[k].text]

LEMMA StandingIs ==
    ASSUME NEW d \in Seq(Block), NEW i \in 1..Len(d)
    PROVE  Standing(d, i) = <<d[i], TextsOf(Above(d, i))>>
<1>1. PICK s \in Seq(HeadsIn(d)), a \in Seq(Block), S \in Nat :
         /\ s = OpenSections(d)[i] /\ a = Above(d, i) /\ S = Len(s) /\ Len(a) = S
         /\ \A k \in 1..S : a[k] = d[s[k]] /\ s[k] \in HeadsIn(d)
  <2>1. i \in 0..Len(d)
    OBVIOUS
  <2>2. /\ OpenSections(d)[i] \in Seq(HeadsIn(d)) /\ Len(OpenSections(d)[i]) \in Nat
        /\ Above(d, i) \in Seq(Block) /\ Len(Above(d, i)) = Len(OpenSections(d)[i])
        /\ \A k \in 1..Len(OpenSections(d)[i]) :
              Above(d, i)[k] = d[OpenSections(d)[i][k]] /\ OpenSections(d)[i][k] \in HeadsIn(d)
    BY <2>1, AboveTyped
  <2> QED
    BY <2>2, Zenon
<1>2. StackOf(d, i, s) /\ Layered(OpenSections(d), s)
  <2>1. i \in 0..Len(d)
    OBVIOUS
  <2> QED
    BY <1>1, <2>1, OpensIs
<1>3. DOMAIN s = 1..S /\ DOMAIN a = 1..S
  BY <1>1, BlockIs
<1>4. PICK heads : heads = {h \in HeadsIn(d) : h <= i}
  OBVIOUS
<1>5. heads \in SUBSET Int /\ \A h \in HeadsIn(d) : h \in 1..Len(d) /\ h \in Int /\ h # 0
  BY <1>4, BlockIs
<1>6. CASE S = 0
  <2>1. heads = {}
    BY <1>2, <1>3, <1>4, <1>6 DEF StackOf
  <2>2. a = <<>>
    <3> HIDE DEF Block
    <3> QED
      BY <1>1, <1>6
  <2> QED
    BY <1>1, <1>4, <2>1, <2>2 DEF Standing, TextsOf
<1>7. CASE S # 0
  <2>1. PICK t \in HeadsIn(d) : t = s[S] /\ t \in heads
    <3>1. S \in 1..S
      BY <1>7
    <3> QED
      BY <1>1, <1>2, <1>3, <1>4, <3>1 DEF StackOf
  <2>2. \A h \in heads : h <= t
    <3> SUFFICES ASSUME NEW h \in heads PROVE h <= t
      OBVIOUS
    <3>1. PICK k \in 1..S : s[k] >= h
      BY <1>2, <1>3, <1>4 DEF StackOf
    <3>2. s[k] \in Int /\ h \in Int /\ t \in Int
      BY <1>1, <1>5
    <3>3. s[k] <= t
      <4>1. CASE k = S
        BY <2>1, <3>2, <4>1
      <4>2. CASE k # S
        <5>1. k < S /\ S \in 1..S
          BY <4>2
        <5>2. s[k] < s[S]
          BY <1>2, <1>3, <5>1 DEF StackOf
        <5> QED
          BY <2>1, <3>2, <5>2
      <4> QED
        BY <4>1, <4>2
    <3> QED
      BY <3>1, <3>3, <3>2
  <2>3. Max(heads) = t /\ heads # {}
    BY <1>5, <2>1, <2>2, GreatestIs
  <2>4. OpenSections(d)[t] = s
    <3>1. S \in DOMAIN s
      BY <1>3, <1>7
    <3>2. SubSeq(s, 1, S) = OpenSections(d)[t]
      BY <1>2, <2>1, <3>1 DEF Layered
    <3>3. SubSeq(s, 1, S) = s
      BY <1>1
    <3> QED
      BY <3>2, <3>3
  <2>5. Chain(d, t) = s
    BY <1>5, <2>4 DEF Chain
  <2>6. Path(d, t) = [k \in 1..S |-> Title(d, s[k])]
    BY <1>3, <2>5 DEF Path
  <2>7. \A k \in 1..S : Title(d, s[k]) = a[k].text
    BY <1>1, <1>5 DEF Title
  <2>8. Path(d, t) = [k \in 1..S |-> a[k].text]
    BY <2>6, <2>7
  <2>9. a # <<>>
    <3> HIDE DEF Block
    <3> QED
      BY <1>1, <1>7
  <2> QED
    BY <1>1, <1>3, <1>4, <2>3, <2>8, <2>9 DEF Standing, TextsOf
<1> QED
  BY <1>6, <1>7

(* What comes before a block alone says where it stands.                    *)
LEMMA SameBefore ==
    ASSUME NEW d \in Seq(Block), NEW e \in Seq(Block), NEW m \in Nat, m <= Len(d), m <= Len(e),
           \A i \in 1..m : e[i] = d[i]
    PROVE  \A i \in 0..m : Above(e, i) = Above(d, i)
<1> DEFINE T == {i \in Nat : i <= m => Above(e, i) = Above(d, i)}
<1>1. 0 \in T
  BY AboveIs
<1>2. ASSUME NEW i \in Nat, i \in T PROVE i + 1 \in T
  <2>1. SUFFICES ASSUME i + 1 <= m PROVE Above(e, i + 1) = Above(d, i + 1)
    OBVIOUS
  <2>2. PICK j \in 1..m : j = i + 1 /\ j - 1 = i
    BY <2>1
  <2>3. j \in 1..Len(d) /\ j \in 1..Len(e) /\ e[j] = d[j]
    <3>1. Len(d) \in Nat /\ Len(e) \in Nat
      BY BlockIs
    <3> QED
      BY <3>1
  <2>4. Above(e, j - 1) = Above(d, j - 1)
    <3>1. i <= m
      BY <2>1
    <3> QED
      BY <1>2, <2>2, <3>1
  <2>5. Above(e, j) = Above(d, j)
    BY <2>3, <2>4, AboveIs
  <2> QED
    BY <2>2, <2>5
<1> HIDE DEF T
<1>3. Nat \subseteq T
  BY <1>1, <1>2, SetInduction
<1> QED
  BY <1>3 DEF T

(* A heading that is not shallower than l changes nothing for one of level l. *)
LEMMA KeptTwice ==
    ASSUME NEW a \in Seq(Block), NEW b \in Block, NEW l \in Int, b.level >= l
    PROVE  Kept(Append(Kept(a, b.level), b), l) = Kept(a, l)
<1>1. PICK A \in Nat, bl \in Int : A = Len(a) /\ bl = b.level
  <2>1. b.level \in 0..6
    BY BlockParts
  <2>2. b.level \in Int /\ Len(a) \in Nat
    BY <2>1, BlockIs
  <2> QED
    BY <2>2
<1>2. \A m \in 1..A : a[m].level \in Int
  BY <1>1, LevelOf
<1>3. PICK K \in 0..A : KeptAt(a, bl, K) /\ Kept(a, bl) = SubSeq(a, 1, K)
  BY <1>1, KeptUpTo
<1>4. PICK M \in 0..A : KeptAt(a, l, M) /\ Kept(a, l) = SubSeq(a, 1, M)
  BY <1>1, KeptUpTo
<1>5. M <= K
  <2>1. SUFFICES ASSUME K < M PROVE FALSE
    OBVIOUS
  <2>2. M \in (K + 1)..A /\ M # 0 /\ M \in 1..A
    BY <2>1
  <2>3. a[M].level >= bl /\ a[M].level < l
    BY <1>1, <1>3, <1>4, <2>2 DEF KeptAt
  <2> QED
    BY <1>1, <1>2, <2>2, <2>3
<1>6. PICK u \in Seq(Block) : u = SubSeq(a, 1, K) /\ Len(u) = K /\ \A m \in 1..K : u[m] = a[m]
  BY <1>1, <1>3, PrefixIs
<1>7. PICK v \in Seq(Block) : /\ v = Append(u, b) /\ Len(v) = K + 1 /\ v[K + 1] = b
                              /\ \A m \in 1..K : v[m] = u[m]
  <2>1. /\ Append(u, b) \in Seq(Block) /\ Len(Append(u, b)) = Len(u) + 1
        /\ \A m \in 1..Len(u) : Append(u, b)[m] = u[m]
        /\ Append(u, b)[Len(u) + 1] = b
    BY AppendIs, Zenon
  <2> QED
    BY <1>6, <2>1, Zenon
<1>8. KeptAt(v, l, M)
  <2>1. M \in 0..(K + 1)
    BY <1>5
  <2>2. ASSUME M # 0 PROVE v[M].level < l
    <3>1. M \in 1..K
      BY <1>5, <2>2
    <3>2. v[M] = a[M]
      BY <1>6, <1>7, <3>1, Zenon
    <3> QED
      BY <1>4, <2>2, <3>2 DEF KeptAt
  <2>3. ASSUME NEW m \in (M + 1)..(K + 1) PROVE v[m].level >= l
    <3>1. CASE m = K + 1
      BY <1>7, <3>1
    <3>2. CASE m # K + 1
      <4>1. m \in 1..K /\ m \in (M + 1)..A
        BY <3>2
      <4>2. v[m] = a[m]
        BY <1>6, <1>7, <4>1, Zenon
      <4> QED
        BY <1>1, <1>4, <4>1, <4>2 DEF KeptAt
    <3> QED
      BY <3>1, <3>2
  <2> QED
    BY <1>7, <2>1, <2>2, <2>3 DEF KeptAt
<1>9. Kept(v, l) = SubSeq(v, 1, M)
  <2>1. PICK N \in 0..Len(v) : KeptAt(v, l, N) /\ Kept(v, l) = SubSeq(v, 1, N)
    BY KeptUpTo
  <2>2. N = M
    <3>1. N \in Int /\ M \in Int
      BY <1>7
    <3> QED
      BY <1>8, <2>1, <3>1, KeptOnce, Zenon
  <2> QED
    BY <2>1, <2>2
<1>10. SubSeq(v, 1, M) = SubSeq(a, 1, M)
  <2>1. M \in 0..Len(v) /\ M \in 0..Len(a)
    BY <1>1, <1>5, <1>7
  <2>2. PICK x \in Seq(Block) : x = SubSeq(v, 1, M) /\ Len(x) = M /\ \A m \in 1..M : x[m] = v[m]
    BY <2>1, PrefixIs
  <2>3. PICK y \in Seq(Block) : y = SubSeq(a, 1, M) /\ Len(y) = M /\ \A m \in 1..M : y[m] = a[m]
    BY <2>1, PrefixIs, ZenonT(40)
  <2>4. \A m \in 1..M : x[m] = y[m]
    <3> SUFFICES ASSUME NEW m \in 1..M PROVE x[m] = y[m]
      OBVIOUS
    <3>1. m \in 1..K
      BY <1>5
    <3> QED
      BY <1>6, <1>7, <2>2, <2>3, <3>1, Zenon
  <2>5. x = y
    <3> HIDE DEF Block
    <3> QED
      BY <2>2, <2>3, <2>4, SeqEqual
  <2> QED
    BY <2>2, <2>3, <2>5
<1> QED
  BY <1>1, <1>3, <1>4, <1>6, <1>7, <1>9, <1>10

(* Nor does a whole piece without a heading that is shallower.              *)
LEMMA KeptBelow ==
    ASSUME NEW d \in Seq(Block), NEW p \in 0..Len(d), NEW q \in 0..Len(d), p <= q, NEW l \in Int,
           \A i \in (p + 1)..q : d[i].level = 0 \/ d[i].level >= l
    PROVE  Kept(Above(d, q), l) = Kept(Above(d, p), l)
<1>1. PICK L \in Nat : L = Len(d)
  BY BlockIs
<1> DEFINE T == {i \in Nat : p + i <= q => Kept(Above(d, p + i), l) = Kept(Above(d, p), l)}
<1>2. p \in Nat /\ q \in Nat /\ q <= L
  BY <1>1
<1>3. 0 \in T
  BY <1>2
<1>4. ASSUME NEW i \in Nat, i \in T PROVE i + 1 \in T
  <2>1. SUFFICES ASSUME p + (i + 1) <= q
                 PROVE  Kept(Above(d, p + (i + 1)), l) = Kept(Above(d, p), l)
    OBVIOUS
  <2>2. PICK j \in 1..Len(d) : j = p + (i + 1) /\ j - 1 = p + i /\ j \in (p + 1)..q /\ p + i <= q
                               /\ j - 1 \in 0..Len(d)
    <3>1. p + (i + 1) \in 1..L /\ (p + (i + 1)) - 1 = p + i /\ p + (i + 1) \in (p + 1)..q
          /\ p + i <= q /\ (p + (i + 1)) - 1 \in 0..L
      BY <1>2, <2>1
    <3> QED
      BY <1>1, <3>1
  <2>3. Kept(Above(d, j - 1), l) = Kept(Above(d, p), l)
    BY <1>4, <2>2
  <2>4. Kept(Above(d, j), l) = Kept(Above(d, j - 1), l)
    <3>1. PICK a \in Seq(Block) : a = Above(d, j - 1)
      BY <2>2, AboveTyped
    <3>2. Above(d, j) = IF d[j].level = 0 THEN Above(d, j - 1)
                        ELSE Append(Kept(Above(d, j - 1), d[j].level), d[j])
      BY AboveIs
    <3>3. CASE d[j].level = 0
      BY <3>2, <3>3
    <3>4. CASE d[j].level # 0
      <4>1. d[j].level >= l /\ d[j] \in Block
        BY <2>2, <3>4, BlockIs
      <4>2. Kept(Append(Kept(a, d[j].level), d[j]), l) = Kept(a, l)
        BY <4>1, KeptTwice
      <4> QED
        BY <3>1, <3>2, <3>4, <4>2
    <3> QED
      BY <3>3, <3>4
  <2> QED
    BY <2>2, <2>3, <2>4
<1> HIDE DEF T
<1>5. Nat \subseteq T
  BY <1>3, <1>4, SetInduction
<1>6. q - p \in Nat /\ p + (q - p) = q
  BY <1>2
<1>7. q - p \in T
  BY <1>5, <1>6
<1> QED
  BY <1>2, <1>6, <1>7 DEF T

(* What is open at a heading of level l, once the deeper sections are closed, *)
(* says where everything after it stands.                                    *)
Follows(d, to, e, f, R) ==
    /\ R = Len(d) + 1 - to /\ R = Len(e) + 1 - f
    /\ \A j \in 1..R : e[f + j - 1] = d[to + j - 1]
    /\ R # 0 => /\ d[to].level > 0
                /\ Kept(Above(e, f - 1), d[to].level) = Kept(Above(d, to - 1), d[to].level)

LEMMA SameAfter ==
    ASSUME NEW d \in Seq(Block), NEW e \in Seq(Block), NEW to \in 1..(Len(d) + 1),
           NEW f \in 1..(Len(e) + 1), NEW R \in Nat, Follows(d, to, e, f, R)
    PROVE  \A j \in 1..R : Above(e, f + j - 1) = Above(d, to + j - 1)
<1>1. /\ R = Len(d) + 1 - to /\ R = Len(e) + 1 - f
      /\ \A j \in 1..R : e[f + j - 1] = d[to + j - 1]
      /\ R # 0 => /\ d[to].level > 0
                  /\ Kept(Above(e, f - 1), d[to].level) = Kept(Above(d, to - 1), d[to].level)
  BY DEF Follows
<1>2. PICK D \in Nat, E \in Nat : D = Len(d) /\ E = Len(e)
  BY BlockIs
<1>3. to \in 1..(D + 1) /\ f \in 1..(E + 1) /\ R = D + 1 - to /\ R = E + 1 - f
  BY <1>1, <1>2, Zenon
<1> DEFINE T == {i \in Nat : i + 1 <= R => Above(e, f + i) = Above(d, to + i)}
<1>4. \A i \in Nat : i + 1 <= R => /\ to + i \in 1..Len(d) /\ f + i \in 1..Len(e)
                                   /\ e[f + i] = d[to + i]
  <2> SUFFICES ASSUME NEW i \in Nat, i + 1 <= R
               PROVE  to + i \in 1..Len(d) /\ f + i \in 1..Len(e) /\ e[f + i] = d[to + i]
    OBVIOUS
  <2>1. to + i \in 1..D /\ f + i \in 1..E
    BY <1>3
  <2>2. i + 1 \in 1..R /\ f + (i + 1) - 1 = f + i /\ to + (i + 1) - 1 = to + i
    BY <1>3
  <2>3. e[f + (i + 1) - 1] = d[to + (i + 1) - 1]
    BY <1>1, <2>2, Zenon
  <2> QED
    BY <1>2, <2>1, <2>2, <2>3
<1>5. 0 \in T
  <2>1. SUFFICES ASSUME 0 + 1 <= R PROVE Above(e, f + 0) = Above(d, to + 0)
    OBVIOUS
  <2>2. R # 0 /\ to + 0 = to /\ f + 0 = f
    BY <1>3, <2>1
  <2>3. to \in 1..Len(d) /\ f \in 1..Len(e) /\ e[f] = d[to]
    BY <1>4, <2>1, <2>2
  <2>4. d[to].level # 0
    BY <1>1, <2>2
  <2>5. Above(d, to) = Append(Kept(Above(d, to - 1), d[to].level), d[to])
    BY <2>3, <2>4, AboveIs
  <2>6. Above(e, f) = Append(Kept(Above(e, f - 1), e[f].level), e[f])
    BY <2>3, <2>4, AboveIs
  <2>7. Kept(Above(e, f - 1), d[to].level) = Kept(Above(d, to - 1), d[to].level)
    BY <1>1, <2>2, Zenon
  <2>8. Above(e, f) = Above(d, to)
    BY <2>3, <2>5, <2>6, <2>7, Zenon
  <2> QED
    BY <2>2, <2>8, Zenon
<1>6. ASSUME NEW i \in Nat, i \in T PROVE i + 1 \in T
  <2>1. SUFFICES ASSUME (i + 1) + 1 <= R PROVE Above(e, f + (i + 1)) = Above(d, to + (i + 1))
    OBVIOUS
  <2>2. PICK x \in 1..Len(d), y \in 1..Len(e) : /\ x = to + (i + 1) /\ y = f + (i + 1)
                                               /\ e[y] = d[x]
    <3>1. i + 1 \in Nat
      OBVIOUS
    <3> QED
      BY <1>4, <2>1, <3>1, Zenon
  <2>3. x - 1 = to + i /\ y - 1 = f + i /\ i + 1 <= R
    BY <1>3, <2>1, <2>2
  <2>4. Above(e, y - 1) = Above(d, x - 1)
    BY <1>6, <2>3
  <2>5. Above(e, y) = Above(d, x)
    BY <2>2, <2>4, AboveIs
  <2> QED
    BY <2>2, <2>5
<1> HIDE DEF T
<1>7. Nat \subseteq T
  BY <1>5, <1>6, SetInduction
<1>8. ASSUME NEW j \in 1..R PROVE Above(e, f + j - 1) = Above(d, to + j - 1)
  <2>1. PICK i \in Nat : i = j - 1 /\ i + 1 <= R /\ f + j - 1 = f + i /\ to + j - 1 = to + i
    BY <1>3
  <2>2. i \in T
    BY <1>7
  <2>3. Above(e, f + i) = Above(d, to + i)
    BY <2>1, <2>2 DEF T
  <2> QED
    BY <2>1, <2>3
<1> QED
  BY <1>8

(* Everything else stays where it is when a piece is put in between two      *)
(* places, if what follows is a heading that is not deeper than any heading  *)
(* that comes and any that goes.                                            *)
Closes(d, from, to, x) ==
    to = Len(d) + 1 \/ /\ d[to].level > 0
                       /\ \A i \in from..(to - 1) : d[i].level = 0 \/ d[i].level >= d[to].level
                       /\ \A i \in 1..Len(x) : x[i].level = 0 \/ x[i].level >= d[to].level

StandAlike(d, from, to, x, e) ==
    /\ \A i \in 1..(from - 1) : Standing(e, i) = Standing(d, i)
    /\ \A j \in 1..(Len(d) + 1 - to) :
          Standing(e, (from - 1) + Len(x) + j) = Standing(d, to + j - 1)

LEMMA GraftStands ==
    ASSUME NEW d \in Seq(Block), NEW from \in 1..(Len(d) + 1), NEW to \in 1..(Len(d) + 1),
           from <= to, NEW x \in Seq(Block), Closes(d, from, to, x),
           NEW e \in Seq(Block), PutIn(d, from, to, x, e)
    PROVE  StandAlike(d, from, to, x, e)
<1>1. PICK D \in Nat, E \in Nat, X \in Nat : D = Len(d) /\ E = Len(e) /\ X = Len(x)
  BY BlockIs
<1>2. /\ E = (from - 1) + X + (D + 1 - to)
      /\ \A i \in 1..(from - 1) : e[i] = d[i]
      /\ \A i \in 1..X : e[(from - 1) + i] = x[i]
      /\ \A j \in 1..(D + 1 - to) : e[(from - 1) + X + j] = d[to + j - 1]
  BY <1>1, Zenon DEF PutIn
<1>3. from \in 1..(D + 1) /\ to \in 1..(D + 1) /\ from <= to
  BY <1>1, Zenon
<1>4. PICK m \in Nat : m = from - 1 /\ m <= D /\ m <= E /\ m \in 0..D /\ m \in 0..E
  BY <1>2, <1>3
<1>5. \A i \in 0..m : Above(e, i) = Above(d, i)
  <2>1. \A i \in 1..m : e[i] = d[i]
    BY <1>2, <1>4, Zenon
  <2>2. m <= Len(d) /\ m <= Len(e)
    BY <1>1, <1>4, Zenon
  <2> QED
    BY <2>1, <2>2, SameBefore, Zenon
<1>6. ASSUME NEW i \in 1..(from - 1) PROVE Standing(e, i) = Standing(d, i)
  <2>1. i \in 0..m /\ i \in 1..D /\ i \in 1..E
    BY <1>3, <1>4
  <2>2. Above(e, i) = Above(d, i) /\ e[i] = d[i]
    BY <1>2, <1>5, <2>1, Zenon
  <2>3. Standing(d, i) = <<d[i], TextsOf(Above(d, i))>>
    BY <1>1, <2>1, StandingIs, Zenon
  <2>4. Standing(e, i) = <<e[i], TextsOf(Above(e, i))>>
    BY <1>1, <2>1, StandingIs, Zenon
  <2> QED
    BY <2>2, <2>3, <2>4
<1>7. PICK R \in Nat, f \in 1..(E + 1) : R = D + 1 - to /\ f = (from - 1) + X + 1 /\ R = E + 1 - f
                                         /\ f - 1 = (from - 1) + X
  <2>1. D + 1 - to \in Nat /\ (from - 1) + X + 1 \in 1..(E + 1)
        /\ D + 1 - to = E + 1 - ((from - 1) + X + 1)
        /\ ((from - 1) + X + 1) - 1 = (from - 1) + X
    BY <1>2, <1>3
  <2> QED
    BY <2>1, Zenon
<1>8. ASSUME R # 0
      PROVE  d[to].level > 0 /\ Kept(Above(e, f - 1), d[to].level) = Kept(Above(d, to - 1), d[to].level)
  <2>1. to # D + 1 /\ to \in 1..D
    BY <1>3, <1>7, <1>8
  <2>2. PICK l \in Int : l = d[to].level /\ l > 0
    <3>1. d[to].level > 0
      BY <1>1, <2>1, Zenon DEF Closes
    <3>2. d[to].level \in Int
      BY <1>1, <2>1, LevelOf, Zenon
    <3> QED
      BY <3>1, <3>2
  <2>3. /\ \A i \in from..(to - 1) : d[i].level = 0 \/ d[i].level >= l
        /\ \A i \in 1..X : x[i].level = 0 \/ x[i].level >= l
    BY <1>1, <2>1, <2>2, Zenon DEF Closes
  <2>4. Kept(Above(d, to - 1), l) = Kept(Above(d, m), l)
    <3>1. to - 1 \in 0..D /\ m <= to - 1 /\ m + 1 = from
      BY <1>3, <1>4
    <3>2. \A i \in (m + 1)..(to - 1) : d[i].level = 0 \/ d[i].level >= l
      BY <2>3, <3>1
    <3> QED
      BY <1>1, <1>4, <3>1, <3>2, KeptBelow, Zenon
  <2>5. Kept(Above(e, f - 1), l) = Kept(Above(e, m), l)
    <3>1. f - 1 \in 0..E /\ m <= f - 1
      BY <1>4, <1>7
    <3>2. \A i \in (m + 1)..(f - 1) : e[i].level = 0 \/ e[i].level >= l
      <4> SUFFICES ASSUME NEW i \in (m + 1)..(f - 1) PROVE e[i].level = 0 \/ e[i].level >= l
        OBVIOUS
      <4>1. PICK j \in 1..X : i = (from - 1) + j
        <5>1. i - (from - 1) \in 1..X /\ i = (from - 1) + (i - (from - 1))
          BY <1>3, <1>4, <1>7
        <5> QED
          BY <5>1
      <4>2. e[i] = x[j]
        BY <1>2, <4>1, Zenon
      <4> QED
        BY <2>3, <4>2, Zenon
    <3> QED
      BY <1>1, <1>4, <3>1, <3>2, KeptBelow, Zenon
  <2>6. Above(e, m) = Above(d, m)
    <3>1. m \in 0..m
      OBVIOUS
    <3> QED
      BY <1>5, <3>1
  <2> QED
    BY <2>2, <2>4, <2>5, <2>6
<1>9. \A j \in 1..R : Above(e, f + j - 1) = Above(d, to + j - 1)
  <2>1. \A j \in 1..R : e[f + j - 1] = d[to + j - 1]
    <3> SUFFICES ASSUME NEW j \in 1..R PROVE e[f + j - 1] = d[to + j - 1]
      OBVIOUS
    <3>1. f + j - 1 = (from - 1) + X + j /\ j \in 1..(D + 1 - to)
      BY <1>3, <1>7
    <3> QED
      BY <1>2, <3>1, Zenon
  <2>2. to \in 1..(Len(d) + 1) /\ f \in 1..(Len(e) + 1) /\ R = Len(d) + 1 - to /\ R = Len(e) + 1 - f
    BY <1>1, <1>7, Zenon
  <2>3. R # 0 => /\ d[to].level > 0
                 /\ Kept(Above(e, f - 1), d[to].level) = Kept(Above(d, to - 1), d[to].level)
    BY <1>8
  <2>4. Follows(d, to, e, f, R)
    BY <2>1, <2>2, <2>3, Zenon DEF Follows
  <2>5. f \in 1..(Len(e) + 1)
    BY <2>2
  <2> QED
    BY <2>4, <2>5, SameAfter, ZenonT(40)
<1>10. ASSUME NEW j \in 1..(D + 1 - to)
       PROVE  Standing(e, (from - 1) + X + j) = Standing(d, to + j - 1)
  <2>1. PICK y \in 1..E, z \in 1..D : y = (from - 1) + X + j /\ z = to + j - 1 /\ y = f + j - 1
    <3>1. (from - 1) + X + j \in 1..E /\ to + j - 1 \in 1..D /\ (from - 1) + X + j = f + j - 1
      BY <1>2, <1>3, <1>7
    <3> QED
      BY <3>1, Zenon
  <2>2. e[y] = d[z]
    BY <1>2, <2>1, Zenon
  <2>3. Above(e, y) = Above(d, z)
    BY <1>7, <1>9, <2>1, Zenon
  <2>4. Standing(d, z) = <<d[z], TextsOf(Above(d, z))>>
    BY <1>1, StandingIs, Zenon
  <2>5. Standing(e, y) = <<e[y], TextsOf(Above(e, y))>>
    BY <1>1, StandingIs, Zenon
  <2> QED
    BY <2>1, <2>2, <2>3, <2>4, <2>5
<1> QED
  BY <1>1, <1>6, <1>10, Zenon DEF StandAlike

LEMMA JoinReads ==
    ASSUME NEW S, NEW a \in Seq(S), NEW b \in Seq(S)
    PROVE  /\ a \o b \in Seq(S) /\ Len(a \o b) = Len(a) + Len(b)
           /\ \A i \in 1..Len(a) : (a \o b)[i] = a[i]
           /\ \A i \in 1..Len(b) : (a \o b)[Len(a) + i] = b[i]
  OBVIOUS

(* The other blocks of d, with where they stand.                            *)
OthersAre(d, from, to, o) ==
    /\ Len(o) = (from - 1) + (Len(d) + 1 - to)
    /\ \A i \in 1..(from - 1) : o[i] = Standing(d, i)
    /\ \A j \in 1..(Len(d) + 1 - to) : o[(from - 1) + j] = Standing(d, to + j - 1)

LEMMA OthersIs ==
    ASSUME NEW d \in Seq(Block), NEW from \in 1..(Len(d) + 1), NEW to \in 1..(Len(d) + 1),
           from <= to, NEW S, \A i \in 1..Len(d) : Standing(d, i) \in S
    PROVE  /\ Others(d, <<from, to>>) \in Seq(S)
           /\ OthersAre(d, from, to, Others(d, <<from, to>>))
<1>1. PICK D \in Nat : D = Len(d) /\ DOMAIN d = 1..D
  BY BlockIs
<1>2. from \in 1..(D + 1) /\ to \in 1..(D + 1) /\ from <= to
  BY <1>1, Zenon
<1>3. PICK all \in Seq(S) : /\ all = [i \in DOMAIN d |-> Standing(d, i)] /\ Len(all) = D
                            /\ \A i \in 1..D : all[i] = Standing(d, i)
  <2> DEFINE f == [i \in 1..D |-> Standing(d, i)]
  <2>1. \A i \in 1..D : Standing(d, i) \in S
    BY <1>1, Zenon
  <2>2. f \in Seq(S) /\ Len(f) = D /\ \A i \in 1..D : f[i] = Standing(d, i)
    BY <2>1
  <2>3. f = [i \in DOMAIN d |-> Standing(d, i)]
    BY <1>1
  <2> HIDE DEF f
  <2> QED
    BY <2>2, <2>3
<1>4. PICK a \in Seq(S) : /\ a = Slice(all, 1, from) /\ Len(a) = from - 1
                          /\ \A i \in 1..(from - 1) : a[i] = all[i]
  <2>1. 1 \in 1..(Len(all) + 1) /\ from \in 0..(Len(all) + 1) /\ 1 <= from
    BY <1>2, <1>3
  <2>2. /\ Slice(all, 1, from) \in Seq(S)
        /\ Len(Slice(all, 1, from)) = IF 1 <= from THEN from - 1 ELSE 0
        /\ \A i \in 1..Len(Slice(all, 1, from)) : Slice(all, 1, from)[i] = all[1 + i - 1]
    BY <2>1, SliceIs, Zenon
  <2>3. \A i \in 1..(from - 1) : 1 + i - 1 = i
    BY <1>2
  <2>4. Len(Slice(all, 1, from)) = from - 1
    BY <2>1, <2>2, Zenon
  <2> QED
    BY <2>2, <2>3, <2>4
<1>5. PICK b \in Seq(S) : /\ b = Slice(all, to, D + 1) /\ Len(b) = D + 1 - to
                          /\ \A j \in 1..(D + 1 - to) : b[j] = all[to + j - 1]
  <2>1. to \in 1..(Len(all) + 1) /\ D + 1 \in 0..(Len(all) + 1) /\ to <= D + 1
        /\ (D + 1) - to = D + 1 - to
    BY <1>2, <1>3
  <2>2. /\ Slice(all, to, D + 1) \in Seq(S)
        /\ Len(Slice(all, to, D + 1)) = IF to <= D + 1 THEN (D + 1) - to ELSE 0
        /\ \A i \in 1..Len(Slice(all, to, D + 1)) : Slice(all, to, D + 1)[i] = all[to + i - 1]
    BY <2>1, SliceIs, Zenon
  <2>3. Len(Slice(all, to, D + 1)) = D + 1 - to
    BY <2>1, <2>2, Zenon
  <2> QED
    BY <2>2, <2>3, Zenon
<1>6. PICK o \in Seq(S) : o = a \o b
  BY JoinIs
<1>7. Others(d, <<from, to>>) = o
  BY <1>1, <1>3, <1>4, <1>5, <1>6 DEF Others
<1>8. /\ Len(o) = Len(a) + Len(b)
      /\ \A i \in 1..Len(a) : o[i] = a[i]
      /\ \A i \in 1..Len(b) : o[Len(a) + i] = b[i]
  BY <1>6, JoinReads
<1>9. \A i \in 1..(from - 1) : o[i] = Standing(d, i)
  <2>1. \A i \in 1..(from - 1) : i \in 1..D
    BY <1>2
  <2> QED
    BY <1>3, <1>4, <1>8, <2>1, Zenon
<1>10. \A j \in 1..(D + 1 - to) : o[(from - 1) + j] = Standing(d, to + j - 1)
  <2>1. \A j \in 1..(D + 1 - to) : to + j - 1 \in 1..D
    BY <1>2
  <2>2. \A j \in 1..(D + 1 - to) : o[(from - 1) + j] = b[j]
    BY <1>4, <1>5, <1>8, Zenon
  <2>3. \A j \in 1..(D + 1 - to) : b[j] = Standing(d, to + j - 1)
    BY <1>3, <1>5, <2>1, Zenon
  <2> QED
    BY <2>2, <2>3, Zenon
<1>11. OthersAre(d, from, to, o)
  BY <1>1, <1>4, <1>5, <1>8, <1>9, <1>10, Zenon DEF OthersAre
<1> QED
  BY <1>7, <1>11, Zenon

(* So the other blocks, in their order and with their sections, are those of *)
(* the document before.                                                     *)
LEMMA GraftLeaves ==
    ASSUME NEW d \in Seq(Block), NEW from \in 1..(Len(d) + 1), NEW to \in 1..(Len(d) + 1),
           from <= to, NEW x \in Seq(Block), Closes(d, from, to, x)
    PROVE  Others(d, <<from, to>>) = Others(Replaced(d, from, to, x), <<from, from + Len(x)>>)
<1>1. PICK e \in Seq(Block) : e = Replaced(d, from, to, x) /\ PutIn(d, from, to, x, e)
  BY ReplacedIs, Zenon
<1>2. PICK D \in Nat, E \in Nat, X \in Nat : D = Len(d) /\ E = Len(e) /\ X = Len(x)
  BY BlockIs
<1>3. PICK S : S = {Standing(d, i) : i \in 1..D} \union {Standing(e, i) : i \in 1..E}
  OBVIOUS
<1>4. /\ \A i \in 1..Len(d) : Standing(d, i) \in S
      /\ \A i \in 1..Len(e) : Standing(e, i) \in S
  BY <1>2, <1>3
<1>5. E = (from - 1) + X + (D + 1 - to)
  BY <1>1, <1>2, Zenon DEF PutIn
<1>6. from \in 1..(D + 1) /\ to \in 1..(D + 1)
  BY <1>2, Zenon
<1>7. PICK till \in 1..(E + 1) : till = from + X /\ E + 1 - till = D + 1 - to /\ from \in 1..(E + 1)
                                 /\ from <= till
  <2>1. from + X \in 1..(E + 1) /\ E + 1 - (from + X) = D + 1 - to /\ from \in 1..(E + 1)
        /\ from <= from + X
    BY <1>5, <1>6
  <2> QED
    BY <2>1, Zenon
<1>8. PICK o \in Seq(S) : o = Others(d, <<from, to>>) /\ OthersAre(d, from, to, o)
  BY <1>4, OthersIs, Zenon
<1>9. PICK q \in Seq(S) : q = Others(e, <<from, till>>) /\ OthersAre(e, from, till, q)
  <2>1. from \in 1..(Len(e) + 1) /\ till \in 1..(Len(e) + 1)
    BY <1>2, <1>7, Zenon
  <2> QED
    BY <1>4, <1>7, <2>1, OthersIs, Zenon
<1>10. /\ Len(o) = (from - 1) + (D + 1 - to)
       /\ \A i \in 1..(from - 1) : o[i] = Standing(d, i)
       /\ \A j \in 1..(D + 1 - to) : o[(from - 1) + j] = Standing(d, to + j - 1)
  BY <1>2, <1>8, Zenon DEF OthersAre
<1>11. /\ Len(q) = (from - 1) + (D + 1 - to)
       /\ \A i \in 1..(from - 1) : q[i] = Standing(e, i)
       /\ \A j \in 1..(D + 1 - to) : q[(from - 1) + j] = Standing(e, till + j - 1)
  BY <1>2, <1>7, <1>9, Zenon DEF OthersAre
<1>12. /\ \A i \in 1..(from - 1) : Standing(e, i) = Standing(d, i)
       /\ \A j \in 1..(D + 1 - to) : Standing(e, (from - 1) + X + j) = Standing(d, to + j - 1)
  <2>1. StandAlike(d, from, to, x, e)
    BY <1>1, GraftStands, Zenon
  <2> QED
    BY <1>2, <2>1, Zenon DEF StandAlike
<1>13. \A i \in 1..Len(o) : o[i] = q[i]
  <2> SUFFICES ASSUME NEW i \in 1..((from - 1) + (D + 1 - to)) PROVE o[i] = q[i]
    BY <1>10
  <2>1. CASE i <= from - 1
    <3>1. i \in 1..(from - 1)
      BY <1>6, <2>1
    <3> QED
      BY <1>10, <1>11, <1>12, <3>1, Zenon
  <2>2. CASE ~(i <= from - 1)
    <3>1. PICK j \in 1..(D + 1 - to) : i = (from - 1) + j /\ till + j - 1 = (from - 1) + X + j
      <4>1. i - (from - 1) \in 1..(D + 1 - to) /\ i = (from - 1) + (i - (from - 1))
            /\ till + (i - (from - 1)) - 1 = (from - 1) + X + (i - (from - 1))
        BY <1>6, <1>7, <2>2
      <4> QED
        BY <4>1, Zenon
    <3> QED
      BY <1>10, <1>11, <1>12, <3>1, Zenon
  <2> QED
    BY <2>1, <2>2
<1>14. o = q
  <2>1. Len(o) = Len(q)
    BY <1>10, <1>11, Zenon
  <2> QED
    BY <1>13, <2>1, SeqEqual
<1> QED
  BY <1>1, <1>2, <1>7, <1>8, <1>9, <1>14

(* With nothing taken out, all blocks are others.                           *)
LEMMA LeavesAll ==
    ASSUME NEW d \in Seq(Block), NEW k \in 1..(Len(d) + 1)
    PROVE  Others(d, <<k, k>>) = Others(d, <<1, 1>>)
<1>1. PICK D \in Nat : D = Len(d)
  BY BlockIs
<1>2. PICK S : S = {Standing(d, i) : i \in 1..D}
  OBVIOUS
<1>3. \A i \in 1..Len(d) : Standing(d, i) \in S
  BY <1>1, <1>2
<1>4. k \in 1..(D + 1) /\ 1 \in 1..(D + 1) /\ 1 <= 1 /\ k <= k
  BY <1>1
<1>5. PICK o \in Seq(S) : o = Others(d, <<k, k>>) /\ OthersAre(d, k, k, o)
  BY <1>3, <1>4, OthersIs, Zenon
<1>6. PICK q \in Seq(S) : q = Others(d, <<1, 1>>) /\ OthersAre(d, 1, 1, q)
  BY <1>1, <1>3, <1>4, OthersIs, Zenon
<1>7. /\ Len(o) = (k - 1) + (D + 1 - k)
      /\ \A i \in 1..(k - 1) : o[i] = Standing(d, i)
      /\ \A j \in 1..(D + 1 - k) : o[(k - 1) + j] = Standing(d, k + j - 1)
  BY <1>1, <1>5, Zenon DEF OthersAre
<1>8. /\ Len(q) = (1 - 1) + (D + 1 - 1)
      /\ \A j \in 1..(D + 1 - 1) : q[(1 - 1) + j] = Standing(d, 1 + j - 1)
  BY <1>1, <1>6, Zenon DEF OthersAre
<1>9. /\ Len(q) = D
      /\ \A j \in 1..D : q[j] = Standing(d, j)
  <2>1. D + 1 - 1 = D /\ (1 - 1) + D = D /\ \A j \in 1..D : (1 - 1) + j = j /\ 1 + j - 1 = j
    OBVIOUS
  <2> QED
    BY <1>8, <2>1
<1>10. Len(o) = D /\ \A i \in 1..D : o[i] = Standing(d, i)
  <2>1. Len(o) = D
    BY <1>4, <1>7
  <2> SUFFICES ASSUME NEW i \in 1..D PROVE o[i] = Standing(d, i)
    BY <2>1
  <2>2. CASE i <= k - 1
    <3>1. i \in 1..(k - 1)
      BY <1>4, <2>2
    <3> QED
      BY <1>7, <3>1, Zenon
  <2>3. CASE ~(i <= k - 1)
    <3>1. PICK j \in 1..(D + 1 - k) : i = (k - 1) + j /\ k + j - 1 = i
      <4>1. i - (k - 1) \in 1..(D + 1 - k) /\ i = (k - 1) + (i - (k - 1))
            /\ k + (i - (k - 1)) - 1 = i
        BY <1>4, <2>3
      <4> QED
        BY <4>1, Zenon
    <3> QED
      BY <1>7, <3>1, Zenon
  <2> QED
    BY <2>2, <2>3
<1>11. o = q
  <2>1. Len(o) = Len(q) /\ \A i \in 1..Len(o) : o[i] = q[i]
    BY <1>9, <1>10
  <2> QED
    BY <2>1, SeqEqual
<1> QED
  BY <1>5, <1>6, <1>11

-----------------------------------------------------------------------------
(* EVERY EDIT STAYS IN ITS PLACE.                                            *)

(* The text of a node stops at the next heading.                            *)
LEMMA BodyEndIs ==
    ASSUME NEW d \in Seq(Block), NEW n \in Nodes(d)
    PROVE  /\ BodyEnd(d, n) = Len(d) + 1 \/ BodyEnd(d, n) \in HeadsIn(d)
           /\ \A h \in HeadsIn(d) : n < h => BodyEnd(d, n) <= h
<1> DEFINE s == {j \in HeadsIn(d) : j > n} \union {Len(d) + 1}
<1>1. s \in SUBSET Nat /\ s # {}
  <2>1. Len(d) \in Nat /\ \A j \in HeadsIn(d) : j \in 1..Len(d)
    BY BlockIs
  <2> QED
    BY <2>1
<1>2. BodyEnd(d, n) = Min(s)
  BY DEF BodyEnd
<1>3. Min(s) \in s
  <2> HIDE DEF s
  <2> QED
    BY <1>1, MinIs
<1> QED
  BY <1>2, <1>3, PlacesOrdered

(* One lemma for each tool: what it cuts and what it puts there is closed by *)
(* the heading that follows.                                                *)
LEMMA BodyStays ==
    ASSUME NEW d \in Seq(Block), NEW n \in Nodes(d), n # 0, NEW c \in Seq(Block),
           AtxOnly(c), BodyAllowed(d, n, c)
    PROVE  LET new == Stripped(c, Title(d, n)) IN
           Others(d, <<BodyStart(d, n), ReplaceEnd(d, n, new)>>)
             = Others(ReplaceBody(d, n, c), <<BodyStart(d, n), BodyStart(d, n) + Len(new)>>)
<1>1. n \in HeadsIn(d) /\ n \in Nat /\ d[n].level > 0 /\ BodyStart(d, n) = n + 1
      /\ Level(d, n) = d[n].level /\ d[n].level \in Int
  <2>1. n \in HeadsIn(d) /\ n \in Nat /\ d[n].level > 0 /\ BodyStart(d, n) = n + 1
    BY PlacesIn, PlacesOrdered
  <2>2. d[n].level \in Int
    BY <2>1, BlockIs
  <2> QED
    BY <2>1, <2>2 DEF Level
<1>2. PICK new \in Seq(Block) : new = Stripped(c, Title(d, n))
  BY StrippedTyped
<1>0. AtxIn(new) = HeadsIn(new)
  BY <1>2, AtxOnlyIs
<1>3. \A i \in HeadsIn(new) : new[i].level > d[n].level
  BY <1>0, <1>1, <1>2 DEF BodyAllowed, NoBreaking
<1>4. PICK re \in 1..(Len(d) + 1), from \in 1..(Len(d) + 1) :
         re = ReplaceEnd(d, n, new) /\ from = n + 1 /\ from <= re
  BY <1>1, PlacesIn, PlacesOrdered
<1>5. \A i \in 1..Len(new) : new[i].level = 0 \/ (i \in HeadsIn(new) /\ new[i].level > d[n].level
                                                /\ new[i].level \in Int)
  <2> SUFFICES ASSUME NEW i \in 1..Len(new), new[i].level # 0
               PROVE  i \in HeadsIn(new) /\ new[i].level > d[n].level /\ new[i].level \in Int
    OBVIOUS
  <2>1. i \in HeadsIn(new) /\ new[i].level \in Int
    BY LevelOf
  <2> QED
    BY <1>3, <2>1
<1>6. PICK L \in Nat : L = Len(d)
  BY BlockIs
<1>7. Closes(d, from, re, new)
  <2>1. CASE re = Len(d) + 1
    BY <2>1 DEF Closes
  <2>2. ASSUME HasDeeper(new, Level(d, n)), re # Len(d) + 1 PROVE Closes(d, from, re, new)
    <3>1. re = SectionEnd(d, n)
      BY <1>4, <2>2 DEF ReplaceEnd
    <3>2. Ends(d, n, re)
      BY <1>1, <3>1, SectionEnds
    <3>3. PICK l \in Int : /\ l = d[re].level /\ l > 0 /\ l <= d[n].level
      <4>1. re \in HeadsIn(d) /\ d[re].level <= d[n].level
        BY <2>2, <3>2 DEF Ends
      <4>2. re \in 1..Len(d) /\ d[re].level \in Int /\ d[re].level # 0 /\ d[re].level \in 0..6
        BY <4>1, LevelOf, BlockIs
      <4> QED
        BY <4>1, <4>2
    <3>4. ASSUME NEW i \in from..(re - 1) PROVE d[i].level = 0 \/ d[i].level >= l
      <4>1. i \in 1..Len(d) /\ n < i /\ i < re
        BY <1>1, <1>4, <1>6
      <4>2. d[i].level # 0 => i \in HeadsIn(d) /\ d[i].level \in Int
        BY <4>1, LevelOf
      <4>3. i \in HeadsIn(d) => d[i].level > d[n].level
        BY <3>2, <4>1 DEF Ends
      <4> QED
        BY <1>1, <3>3, <4>2, <4>3
    <3>5. ASSUME NEW i \in 1..Len(new) PROVE new[i].level = 0 \/ new[i].level >= l
      BY <1>1, <1>5, <3>3
    <3> QED
      BY <3>3, <3>4, <3>5 DEF Closes
  <2>3. ASSUME ~HasDeeper(new, Level(d, n)), re # Len(d) + 1 PROVE Closes(d, from, re, new)
    <3>1. re = BodyEnd(d, n)
      BY <1>4, <2>3 DEF ReplaceEnd
    <3>2. re \in HeadsIn(d) /\ \A h \in HeadsIn(d) : n < h => re <= h
      BY <2>3, <3>1, BodyEndIs
    <3>3. d[re].level > 0
      <4>1. re \in 1..Len(d) /\ d[re].level # 0 /\ d[re].level \in 0..6
        BY <3>2, LevelOf, BlockIs
      <4> QED
        BY <4>1
    <3>4. ASSUME NEW i \in from..(re - 1) PROVE d[i].level = 0
      <4>1. i \in 1..Len(d) /\ n < i /\ ~(re <= i)
        BY <1>1, <1>4, <1>6
      <4>2. i \notin HeadsIn(d)
        BY <3>2, <4>1
      <4> QED
        BY <4>1, <4>2, LevelOf
    <3>5. ASSUME NEW i \in 1..Len(new) PROVE new[i].level = 0
      <4>1. ~(i \in HeadsIn(new) /\ new[i].level > d[n].level)
        BY <1>0, <1>1, <2>3 DEF HasDeeper
      <4> QED
        BY <1>5, <4>1
    <3> QED
      BY <3>3, <3>4, <3>5, Zenon DEF Closes
  <2> QED
    BY <2>1, <2>2, <2>3
<1>8. ReplaceBody(d, n, c) = Replaced(d, from, re, new)
  BY <1>1, <1>2, <1>4, Zenon DEF ReplaceBody, Replaced
<1>9. Others(d, <<from, re>>) = Others(Replaced(d, from, re, new), <<from, from + Len(new)>>)
  BY <1>4, <1>7, GraftLeaves, Zenon
<1> QED
  BY <1>1, <1>2, <1>4, <1>8, <1>9

LEMMA AppendStays ==
    ASSUME NEW d \in Seq(Block), NEW n \in Nodes(d), NEW c \in Seq(Block), HeadsIn(c) = {}
    PROVE  Others(d, <<1, 1>>)
             = Others(AppendBody(d, n, c), <<BodyEnd(d, n), BodyEnd(d, n) + Len(c)>>)
<1>1. PICK be \in 1..(Len(d) + 1) : be = BodyEnd(d, n)
  BY PlacesIn
<1>2. Closes(d, be, be, c)
  <2>1. CASE be = Len(d) + 1
    BY <2>1 DEF Closes
  <2>2. CASE be # Len(d) + 1
    <3>1. be \in HeadsIn(d)
      BY <1>1, <2>2, BodyEndIs
    <3>2. d[be].level > 0
      <4>1. be \in 1..Len(d) /\ d[be].level # 0 /\ d[be].level \in 0..6
        BY <3>1, LevelOf, BlockIs
      <4> QED
        BY <4>1
    <3>3. \A i \in be..(be - 1) : FALSE
      OBVIOUS
    <3>4. ASSUME NEW i \in 1..Len(c) PROVE c[i].level = 0
      BY LevelOf
    <3> QED
      BY <3>2, <3>3, <3>4, Zenon DEF Closes
  <2> QED
    BY <2>1, <2>2
<1>3. AppendBody(d, n, c) = Replaced(d, be, be, c)
  BY <1>1, Zenon DEF AppendBody, Replaced
<1>4. be <= be
  OBVIOUS
<1>5. Others(d, <<be, be>>) = Others(Replaced(d, be, be, c), <<be, be + Len(c)>>)
  BY <1>2, <1>4, GraftLeaves, Zenon
<1>6. Others(d, <<be, be>>) = Others(d, <<1, 1>>)
  BY LeavesAll
<1> QED
  BY <1>1, <1>3, <1>5, <1>6

LEMMA DeleteStays ==
    ASSUME NEW d \in Seq(Block), NEW n \in Nodes(d)
    PROVE  Others(d, <<Start(d, n), SectionEnd(d, n)>>) = Others(DeleteNode(d, n), <<1, 1>>)
<1>1. PICK st \in 1..(Len(d) + 1), se \in 1..(Len(d) + 1) :
         st = Start(d, n) /\ se = SectionEnd(d, n) /\ st <= se
  BY PlacesIn, PlacesOrdered
<1>2. PICK none \in Seq(Block) : none = <<>> /\ Len(none) = 0
  <2>1. <<>> \in Seq(Block) /\ Len(<<>>) = 0
    OBVIOUS
  <2> QED
    BY <2>1
<1>3. PICK L \in Nat : L = Len(d)
  BY BlockIs
<1>4. ASSUME se # Len(d) + 1
      PROVE  /\ d[se].level > 0
             /\ \A i \in st..(se - 1) : d[i].level = 0 \/ d[i].level >= d[se].level
  <2>1. CASE n = 0
    <3>1. se = BodyEnd(d, n) /\ n = 0
      BY <1>1, <2>1, PreambleEnds
    <3>2. se \in HeadsIn(d) /\ \A h \in HeadsIn(d) : n < h => se <= h
      BY <1>4, <3>1, BodyEndIs
    <3>3. d[se].level > 0
      <4>1. se \in 1..Len(d) /\ d[se].level # 0 /\ d[se].level \in 0..6
        BY <3>2, LevelOf, BlockIs
      <4> QED
        BY <4>1
    <3>4. ASSUME NEW i \in st..(se - 1) PROVE d[i].level = 0
      <4>1. i \in 1..Len(d) /\ 0 < i /\ ~(se <= i)
        BY <1>1, <1>3
      <4>2. i \notin HeadsIn(d)
        BY <3>1, <3>2, <4>1
      <4> QED
        BY <4>1, <4>2, LevelOf
    <3> QED
      BY <3>3, <3>4
  <2>2. CASE n # 0
    <3>1. n \in HeadsIn(d) /\ st = n /\ d[n].level \in Int /\ n \in 1..Len(d)
      <4>1. n \in HeadsIn(d) /\ st = n
        BY <1>1, <2>2, PlacesIn DEF Start
      <4> QED
        BY <4>1, BlockIs
    <3>2. Ends(d, n, se)
      BY <1>1, <3>1, SectionEnds
    <3>3. PICK l \in Int : l = d[se].level /\ l > 0 /\ l <= d[n].level
      <4>1. se \in HeadsIn(d) /\ d[se].level <= d[n].level
        BY <1>4, <3>2 DEF Ends
      <4>2. se \in 1..Len(d) /\ d[se].level \in Int /\ d[se].level # 0 /\ d[se].level \in 0..6
        BY <4>1, LevelOf, BlockIs
      <4> QED
        BY <4>1, <4>2
    <3>4. ASSUME NEW i \in st..(se - 1) PROVE d[i].level = 0 \/ d[i].level >= l
      <4>1. i \in 1..Len(d) /\ (i = n \/ n < i) /\ i < se
        BY <1>1, <1>3, <3>1
      <4>2. d[i].level # 0 => i \in HeadsIn(d) /\ d[i].level \in Int
        BY <4>1, LevelOf
      <4>3. i \in HeadsIn(d) /\ n < i => d[i].level > d[n].level
        BY <3>2, <4>1 DEF Ends
      <4> QED
        BY <3>1, <3>3, <4>1, <4>2, <4>3
    <3> QED
      BY <3>3, <3>4
  <2> QED
    BY <2>1, <2>2
<1>5. Closes(d, st, se, none)
  <2>1. \A i \in 1..Len(none) : FALSE
    BY <1>2
  <2> QED
    BY <1>4, <2>1, Zenon DEF Closes
<1>6. DeleteNode(d, n) = Replaced(d, st, se, none)
  BY <1>1, <1>2, DeleteIs
<1>7. Others(d, <<st, se>>) = Others(Replaced(d, st, se, none), <<st, st + Len(none)>>)
  BY <1>1, <1>5, GraftLeaves, Zenon
<1>8. PICK e \in Seq(Block) : e = Replaced(d, st, se, none) /\ PutIn(d, st, se, none, e)
  BY <1>1, ReplacedIs, Zenon
<1>9. st \in 1..(Len(e) + 1) /\ st + Len(none) = st
  <2>1. Len(e) = (st - 1) + Len(none) + (Len(d) + 1 - se)
    BY <1>8, Zenon DEF PutIn
  <2> QED
    BY <1>1, <1>2, <1>3, <2>1, SMTT(40)
<1>10. Others(e, <<st, st>>) = Others(e, <<1, 1>>)
  BY <1>9, LeavesAll
<1> QED
  BY <1>1, <1>6, <1>7, <1>8, <1>9, <1>10

LEMMA InsertStays ==
    ASSUME NEW d \in Seq(Block), NEW n \in Nodes(d), n # 0, NEW p, p # "child_start",
           NEW t \in Seq(Vocabulary), NEW c \in Seq(Block), AtxOnly(c),
           NoBreaking(Stripped(c, t), DestLevel(d, n, p))
    PROVE  Others(d, <<1, 1>>)
             = Others(InsertNode(d, n, p, t, c, 0),
                      <<InsertAtPos(d, n, p), InsertAtPos(d, n, p) + (1 + Len(Stripped(c, t)))>>)
<1>1. PICK l \in Int : l = 0
  OBVIOUS
<1>2. PICK at \in 1..(Len(d) + 1), b \in Block, s \in Seq(Block), x \in Seq(Block) :
         SectionGiven(d, n, p, t, c, l, at, b, s, x)
  BY InsertIs, Zenon
<1>3. /\ at = InsertAtPos(d, n, p)
      /\ b = Rendered(IF l = 0 THEN DestLevel(d, n, p) ELSE l, t, NewId(d, t, c))
      /\ s = Stripped(c, t) /\ x = <<b>> \o s
      /\ InsertNode(d, n, p, t, c, l) = Replaced(d, at, at, x)
  BY <1>2, SMT DEF SectionGiven
<1>0. AtxIn(s) = HeadsIn(s)
  BY <1>3, AtxOnlyIs
<1>4. PICK lev \in Int : lev = DestLevel(d, n, p) /\ StopsAt(d, at, lev)
  BY <1>3, PlacesIn, NextThere
<1>5. b.level = lev \/ b.level = 0
  <2>1. b = Rendered(lev, t, NewId(d, t, c))
    BY <1>1, <1>3, <1>4
  <2> QED
    BY <2>1 DEF Rendered, Heading, Body
<1>6. PICK one \in Seq(Block) : one = <<b>> /\ Len(one) = 1 /\ one[1] = b
  BY OneIs
<1>7. PICK N \in Nat : N = Len(s)
  BY BlockIs
<1>8. /\ Len(x) = 1 + N /\ x[1] = b /\ \A i \in 1..N : x[1 + i] = s[i]
  <2>1. x = one \o s
    BY <1>3, <1>6
  <2>2. /\ Len(x) = Len(one) + Len(s)
        /\ \A i \in 1..Len(one) : x[i] = one[i]
        /\ \A i \in 1..Len(s) : x[Len(one) + i] = s[i]
    BY <2>1, JoinParts
  <2>3. 1 \in 1..1
    OBVIOUS
  <2> QED
    BY <1>6, <1>7, <2>2, <2>3, Zenon
<1>9. ASSUME NEW i \in 1..(1 + N) PROVE x[i].level = 0 \/ x[i].level >= lev
  <2>1. CASE i = 1
    BY <1>5, <1>8, <2>1
  <2>2. CASE i # 1
    <3>1. PICK j \in 1..N : i = 1 + j
      <4>1. i - 1 \in 1..N /\ i = 1 + (i - 1)
        BY <2>2
      <4> QED
        BY <4>1
    <3>2. x[i] = s[j]
      BY <1>8, <3>1
    <3>3. s[j].level # 0 => j \in HeadsIn(s) /\ s[j].level \in Int
      BY <1>7, LevelOf
    <3>4. j \in HeadsIn(s) => s[j].level > lev
      BY <1>0, <1>3, <1>4 DEF NoBreaking
    <3> QED
      BY <3>2, <3>3, <3>4
  <2> QED
    BY <2>1, <2>2
<1>10. Closes(d, at, at, x)
  <2>1. CASE at = Len(d) + 1
    BY <2>1 DEF Closes
  <2>2. CASE at # Len(d) + 1
    <3>1. PICK v \in Int : v = d[at].level /\ v > 0 /\ v <= lev
      <4>1. d[at].level > 0 /\ d[at].level <= lev
        BY <1>4, <2>2, Zenon DEF StopsAt
      <4>2. Len(d) \in Nat
        BY BlockIs
      <4>3. at \in 1..Len(d)
        BY <2>2, <4>2
      <4>4. d[at].level \in Int
        BY <4>3, LevelOf
      <4> QED
        BY <4>1, <4>4
    <3>2. \A i \in at..(at - 1) : FALSE
      OBVIOUS
    <3>3. ASSUME NEW i \in 1..Len(x) PROVE x[i].level = 0 \/ x[i].level >= v
      <4>1. i \in 1..(1 + N)
        BY <1>8
      <4>2. x[i].level = 0 \/ x[i].level >= lev
        BY <1>9, <4>1
      <4>3. x[i].level \in Int
        BY LevelOf
      <4> QED
        BY <3>1, <4>2, <4>3
    <3> QED
      BY <3>1, <3>2, <3>3 DEF Closes
  <2> QED
    BY <2>1, <2>2
<1>11. at <= at
  OBVIOUS
<1>12. Others(d, <<at, at>>) = Others(Replaced(d, at, at, x), <<at, at + Len(x)>>)
  BY <1>10, <1>11, GraftLeaves, Zenon
<1>13. Others(d, <<at, at>>) = Others(d, <<1, 1>>)
  BY LeavesAll
<1> QED
  BY <1>1, <1>3, <1>7, <1>8, <1>12, <1>13

LEMMA MoveStays ==
    ASSUME NEW d \in Seq(Block), NEW n \in Nodes(d), n # 0, NEW m \in Nodes(d), m # 0,
           NEW p, p # "child_start", MoveAllowed(d, n, m, p), FALSE \in Gluings(d, n, m, p)
    PROVE  LET at   == InsertAtPos(d, m, p)
               size == Len(Moved(d, n))
               k    == IF n < at THEN at - size ELSE at
           IN  /\ Others(d, <<Start(d, n), SectionEnd(d, n)>>)
                     = Others(MoveNode(d, n, m, p, FALSE), <<k, k + size>>)
               /\ SectionAt(MoveNode(d, n, m, p, FALSE), k) = Shifted(Moved(d, n), MoveDelta(d, n, m, p))
<1>1. PICK e \in Seq(Block) : e = DeleteNode(d, n)
  BY ReplaceTyped
<1>2. PICK k \in 1..(Len(DeleteNode(d, n)) + 1), s \in Seq(Block) : MovedTo(d, n, m, p, k, s)
  BY MovedReads, Zenon
<1>3. /\ k = IF Start(d, n) < InsertAtPos(d, m, p)
             THEN InsertAtPos(d, m, p) - Len(Moved(d, n)) ELSE InsertAtPos(d, m, p)
      /\ s = Shifted(Moved(d, n), MoveDelta(d, n, m, p))
      /\ MoveNode(d, n, m, p, FALSE) = Replaced(DeleteNode(d, n), k, k, s)
      /\ Len(s) >= 1 /\ GoesDeeper(s) /\ StopsAt(DeleteNode(d, n), k, s[1].level)
      /\ Len(s) = Len(Moved(d, n))
      /\ SectionAt(MoveNode(d, n, m, p, FALSE), k) = s
  BY <1>2, Zenon DEF MovedTo
<1>4. /\ k \in 1..(Len(e) + 1) /\ StopsAt(e, k, s[1].level)
      /\ MoveNode(d, n, m, p, FALSE) = Replaced(e, k, k, s)
  BY <1>1, <1>3, Zenon
<1>5. Closes(e, k, k, s)
  <2>1. CASE k = Len(e) + 1
    BY <2>1 DEF Closes
  <2>2. CASE k # Len(e) + 1
    <3>1. d \in Seq(Block) /\ Len(s) \in Nat /\ Len(e) \in Nat
      BY BlockIs
    <3>2. s[1].level \in Int /\ e[k].level \in Int
      <4>1. 1 \in 1..Len(s) /\ k \in 1..Len(e)
        BY <1>3, <1>4, <2>2, <3>1
      <4> QED
        BY <4>1, LevelOf
    <3>3. e[k].level > 0 /\ e[k].level <= s[1].level
      BY <1>4, <2>2, Zenon DEF StopsAt
    <3>4. PICK v \in Int, l \in Int : v = e[k].level /\ l = s[1].level /\ v > 0 /\ v <= l
      BY <3>2, <3>3
    <3>5. ASSUME NEW i \in 1..Len(s) PROVE s[i].level = 0 \/ s[i].level >= v
      <4>1. s[i].level \in Int
        BY LevelOf
      <4>2. CASE i = 1
        BY <3>4, <4>2
      <4>3. CASE i # 1
        <5>1. i \in 2..Len(s)
          BY <3>1, <4>3
        <5>2. s[i].level = 0 \/ s[i].level > l
          BY <1>3, <3>4, <5>1 DEF GoesDeeper
        <5> QED
          BY <3>4, <4>1, <5>2
      <4> QED
        BY <4>2, <4>3
    <3>6. \A i \in k..(k - 1) : FALSE
      OBVIOUS
    <3> QED
      BY <3>4, <3>5, <3>6 DEF Closes
  <2> QED
    BY <2>1, <2>2
<1>6. Others(e, <<k, k>>) = Others(Replaced(e, k, k, s), <<k, k + Len(s)>>)
  <2>1. k <= k
    OBVIOUS
  <2> QED
    BY <1>5, <1>4, <2>1, GraftLeaves, Zenon
<1>7. Others(e, <<k, k>>) = Others(e, <<1, 1>>)
  BY <1>4, LeavesAll
<1>8. Others(d, <<Start(d, n), SectionEnd(d, n)>>) = Others(e, <<1, 1>>)
  BY <1>1, DeleteStays
<1>9. Start(d, n) = n
  BY DEF Start
<1> QED
  BY <1>3, <1>6, <1>7, <1>8, <1>9, <1>4

-----------------------------------------------------------------------------
(* AN EDIT STAYS IN ITS PLACE.                                               *)

(* A call whose text stays inside the place it names moves no other block    *)
(* and changes no other block's section, and what it wrote reads back.       *)
Local(d, e, c) ==
    Contained(d, c) =>
        Others(d, Removed(d, c)) = Others(e, Added(d, c)) /\ ReadsBack(d, e, c)

LEMMA LocalElsewhere ==
    ASSUME NEW d, NEW e, NEW c,
           c.op \notin {"replace", "set_value", "append", "insert", "move", "delete"}
    PROVE  Local(d, e, c)
  BY Zenon DEF Local, Contained

(* The body of a section replaced.                                          *)
LEMMA BodyIsLocal ==
    ASSUME NEW d \in Seq(Block), NEW c, c.op \in {"replace", "set_value"},
           c.n \in Nodes(d), c.c \in Seq(Block), BodyAllowed(d, c.n, c.c)
    PROVE  Local(d, ReplaceBody(d, c.n, c.c), c)
<1> SUFFICES ASSUME Contained(d, c)
             PROVE  LET e == ReplaceBody(d, c.n, c.c) IN
                    Others(d, Removed(d, c)) = Others(e, Added(d, c)) /\ ReadsBack(d, e, c)
  BY DEF Local
<1>1. PICK n, s, e : /\ n \in Nodes(d) /\ n = c.n /\ n # 0
                     /\ s \in Seq(Block) /\ s = c.c /\ BodyAllowed(d, n, s)
                     /\ AtxOnly(s)
                     /\ e = ReplaceBody(d, n, s)
  BY DEF Contained
<1>2. PICK new : new = Stripped(s, Title(d, n))
  OBVIOUS
<1>3. Others(d, <<BodyStart(d, n), ReplaceEnd(d, n, new)>>)
        = Others(e, <<BodyStart(d, n), BodyStart(d, n) + Len(new)>>)
  BY <1>1, <1>2, BodyStays
<1>4. Removed(d, c) = <<BodyStart(d, n), ReplaceEnd(d, n, new)>>
  BY <1>1, <1>2 DEF Removed
<1>5. Added(d, c) = <<BodyStart(d, n), BodyStart(d, n) + Len(new)>>
  BY <1>1, <1>2 DEF Added
<1>6. ReadsBack(d, e, c)
  <2>1. LET now == Stripped(s, d[n].text)
            old == IF HasDeeper(now, d[n].level) THEN <<>>
                   ELSE Slice(d, BodyEnd(d, n), SectionEnd(d, n))
        IN  SectionAt(e, n) = <<d[n]>> \o now \o old
    BY <1>1, ReplacedReads
  <2> QED
    BY <1>1, <2>1 DEF ReadsBack
<1> QED
  BY <1>1, <1>3, <1>4, <1>5, <1>6

LEMMA InsertIsLocal ==
    ASSUME NEW d \in Seq(Block), NEW c, c.op = "insert",
           c.n \in Nodes(d), c.c \in Seq(Block), c.t \in Seq(Vocabulary)
    PROVE  Local(d, InsertNode(d, c.n, c.p, c.t, c.c, 0), c)
<1> SUFFICES ASSUME Contained(d, c)
             PROVE  LET e == InsertNode(d, c.n, c.p, c.t, c.c, 0) IN
                    Others(d, Removed(d, c)) = Others(e, Added(d, c)) /\ ReadsBack(d, e, c)
  BY DEF Local
<1>0. /\ c.n # 0 /\ c.p # "child_start" /\ AtxOnly(c.c)
      /\ NoBreaking(Stripped(c.c, c.t), DestLevel(d, c.n, c.p))
  BY DEF Contained
<1>1. PICK n, p, t, s, e :
         /\ n = c.n /\ p = c.p /\ t = c.t /\ s = c.c
         /\ n \in Nodes(d) /\ t \in Seq(Vocabulary) /\ s \in Seq(Block)
         /\ n # 0 /\ p # "child_start" /\ AtxOnly(s) /\ NoBreaking(Stripped(s, t), DestLevel(d, n, p))
         /\ e = InsertNode(d, n, p, t, s, 0)
  BY <1>0
<1>2. PICK at, new : at = InsertAtPos(d, n, p) /\ new = Stripped(s, t)
  OBVIOUS
<1>3. Others(d, <<1, 1>>) = Others(e, <<at, at + (1 + Len(new))>>)
  BY <1>1, <1>2, InsertStays
<1>4. Removed(d, c) = <<1, 1>> /\ Added(d, c) = <<at, at + (1 + Len(new))>>
  BY <1>1, <1>2 DEF Removed, Added
<1>5. ReadsBack(d, e, c)
  <2>1. DestLevel(d, n, p) <= 6 => e[at].text = t /\ SectionAt(e, at) = <<e[at]>> \o new
    BY <1>1, <1>2, InsertedReads
  <2> QED
    BY <1>1, <1>2, <2>1 DEF ReadsBack
<1> QED
  BY <1>1, <1>3, <1>4, <1>5

LEMMA AppendIsLocal ==
    ASSUME NEW d \in Seq(Block), NEW c, c.op = "append", c.n \in Nodes(d), c.c \in Seq(Block)
    PROVE  Local(d, AppendBody(d, c.n, c.c), c)
<1> SUFFICES ASSUME Contained(d, c)
             PROVE  LET e == AppendBody(d, c.n, c.c) IN
                    Others(d, Removed(d, c)) = Others(e, Added(d, c)) /\ ReadsBack(d, e, c)
  BY DEF Local
<1>1. HeadsIn(c.c) = {}
  BY DEF Contained
<1>2. Removed(d, c) = <<1, 1>>
  BY DEF Removed
<1>3. Added(d, c) = <<BodyEnd(d, c.n), BodyEnd(d, c.n) + Len(c.c)>>
  BY DEF Added
<1>4. ReadsBack(d, AppendBody(d, c.n, c.c), c)
  BY DEF ReadsBack
<1> QED
  BY <1>1, <1>2, <1>3, <1>4, AppendStays

LEMMA DeleteIsLocal ==
    ASSUME NEW d \in Seq(Block), NEW c, c.op = "delete", c.n \in Nodes(d)
    PROVE  Local(d, DeleteNode(d, c.n), c)
<1>1. Removed(d, c) = <<Start(d, c.n), SectionEnd(d, c.n)>> /\ Added(d, c) = <<1, 1>>
  BY DEF Removed, Added
<1>2. ReadsBack(d, DeleteNode(d, c.n), c)
  BY DEF ReadsBack
<1> QED
  BY <1>1, <1>2, DeleteStays DEF Local

LEMMA MoveIsLocal ==
    ASSUME NEW d \in Seq(Block), NEW c, c.op = "move", c.n \in Nodes(d), c.m \in Nodes(d),
           c.glued \in Gluings(d, c.n, c.m, c.p), MoveAllowed(d, c.n, c.m, c.p)
    PROVE  Local(d, MoveNode(d, c.n, c.m, c.p, c.glued), c)
<1> SUFFICES ASSUME Contained(d, c)
             PROVE  LET e == MoveNode(d, c.n, c.m, c.p, c.glued) IN
                    Others(d, Removed(d, c)) = Others(e, Added(d, c)) /\ ReadsBack(d, e, c)
  BY DEF Local
<1>0. /\ c.n # 0 /\ c.m # 0 /\ c.glued = FALSE /\ c.p # "child_start"
      /\ FALSE \in Gluings(d, c.n, c.m, c.p)
  <2>1. c.n # 0 /\ c.m # 0 /\ ~c.glued
    BY DEF Contained
  <2>2. c.glued = FALSE
    BY <2>1 DEF Gluings
  <2>3. c.p # "child_start"
    BY <2>1 DEF Gluings
  <2> QED
    BY <2>1, <2>2, <2>3
<1>1. PICK n, m, p, e :
         /\ n = c.n /\ m = c.m /\ p = c.p /\ n \in Nodes(d) /\ m \in Nodes(d) /\ n # 0 /\ m # 0 /\ p # "child_start"
         /\ MoveAllowed(d, n, m, p) /\ e = MoveNode(d, n, m, p, FALSE)
         /\ FALSE \in Gluings(d, n, m, p)
  BY <1>0
<1>2. PICK at, size, k : /\ at = InsertAtPos(d, m, p) /\ size = Len(Moved(d, n))
                         /\ k = IF n < at THEN at - size ELSE at
  OBVIOUS
<1>3. /\ Others(d, <<Start(d, n), SectionEnd(d, n)>>) = Others(e, <<k, k + size>>)
      /\ SectionAt(e, k) = Shifted(Moved(d, n), MoveDelta(d, n, m, p))
  BY <1>1, <1>2, MoveStays
<1>4. Removed(d, c) = <<Start(d, n), SectionEnd(d, n)>>
  BY <1>1 DEF Removed
<1>5. Added(d, c) = <<k, k + size>>
  BY <1>1, <1>2 DEF Added
<1>6. Added(d, c)[1] = k
  BY <1>5
<1>7. ReadsBack(d, e, c)
  BY <1>1, <1>3, <1>6 DEF ReadsBack
<1>8. e = MoveNode(d, c.n, c.m, c.p, c.glued)
  BY <1>0, <1>1
<1> QED
  BY <1>3, <1>4, <1>5, <1>7, <1>8

-----------------------------------------------------------------------------
(* EVERY CALL LEAVES BLOCKS, ANCHORS WHERE THEY WERE, AND THE REST ALONE.    *)

(* What a call c that is accepted makes of d: blocks; the anchors it may not *)
(* take away are there; if no anchor came twice and c brings none, none      *)
(* comes twice; and nothing outside the place c names changes.              *)
Sound(d, e, c) ==
    /\ e \in Seq(Block)
    /\ Local(d, e, c)
    /\ c.op \notin {"batch", "toc", "insert_text"} /\ ~c.glued
         => Keeps(d, e, MayLose(d, c))
    /\ c.op = "whole" /\ c.n # 0 /\ (StartsWithHash(c.c) => TakesAnchor(c.c))
         => d[c.n].id \in IdsIn(e) \union {NoId}
    /\ c.op # "reanchor" /\ IdsIn(c.c) = {} /\ UniqueIds(d) => UniqueIds(e)

LEMMA SoundAlike ==
    ASSUME NEW d, NEW e, NEW b, NEW c, Sound(d, e, b),
           c.op = b.op, c.n = b.n, c.m = b.m, c.p = b.p, c.t = b.t, c.c = b.c,
           c.glued = b.glued
    PROVE  Sound(d, e, c)
<1>1. Removed(d, c) = Removed(d, b) /\ Added(d, c) = Added(d, b)
  BY Zenon DEF Removed, Added
<1>2. MayLose(d, c) = MayLose(d, b)
  BY <1>1, Zenon DEF MayLose
<1>3. Contained(d, c) = Contained(d, b) /\ ReadsBack(d, e, c) = ReadsBack(d, e, b)
  <2>1. Added(d, c)[1] = Added(d, b)[1]
    BY <1>1
  <2> QED
    BY <2>1, Zenon DEF Contained, ReadsBack
<1>4. Local(d, e, c)
  BY <1>1, <1>3, Zenon DEF Local, Sound
<1> QED
  BY <1>2, <1>4, Zenon DEF Sound

(* A call of a tool that a batch may hold, addressed to d.                  *)
AddressedTo(d, c) ==
    /\ c.op \in {"replace", "whole", "insert", "append", "delete", "move", "rename"}
    /\ c.n \in Nodes(d)
    /\ c.op = "move" => c.m \in Nodes(d) /\ c.glued \in Gluings(d, c.n, c.m, c.p)
    /\ c.c \in Seq(Block)
    /\ c.op \in {"insert", "rename"} => c.t \in Seq(Vocabulary)

LEMMA NothingLost ==
    ASSUME NEW d, NEW c,
           c.op \notin {"replace", "set_value", "delete", "move", "whole", "reanchor"}
    PROVE  MayLose(d, c) = {}
<1>1. Removed(d, c) = <<1, 1>>
  BY Zenon DEF Removed
<1>2. MayLose(d, c) = Removed(d, c)[1] .. (Removed(d, c)[2] - 1)
  BY Zenon DEF MayLose
<1> QED
  BY <1>1, <1>2

LEMMA ResultIs ==
    ASSUME NEW d \in Seq(Block), NEW c, AddressedTo(d, c), Allowed(d, c)
    PROVE  Sound(d, Result(d, c), c)
<1>1. /\ c.op \in {"replace", "whole", "insert", "append", "delete", "move", "rename"}
      /\ c.n \in Nodes(d) /\ c.c \in Seq(Block)
  BY DEF AddressedTo
<1>2. CASE c.op = "replace"
  <2>1. Result(d, c) = ReplaceBody(d, c.n, c.c)
    BY <1>2 DEF Result
  <2>2. MayLose(d, c)
          = BodyStart(d, c.n) .. (ReplaceEnd(d, c.n, Stripped(c.c, Title(d, c.n))) - 1)
    <3>1. Removed(d, c) = <<BodyStart(d, c.n), ReplaceEnd(d, c.n, Stripped(c.c, Title(d, c.n)))>>
      BY <1>2 DEF Removed
    <3> QED
      BY <1>2, <3>1 DEF MayLose
  <2>3. Result(d, c) \in Seq(Block)
    BY <1>1, <2>1, ReplaceTyped
  <2>4. Keeps(d, Result(d, c), MayLose(d, c))
    BY <1>1, <2>1, <2>2, BodyAnchors
  <2>5. UniqueIds(d) /\ IdsIn(c.c) = {} => UniqueIds(Result(d, c))
    BY <1>1, <2>1, BodyAnchors
  <2>6. Local(d, Result(d, c), c)
    BY <1>1, <1>2, <2>1, BodyIsLocal DEF Allowed
  <2> QED
    BY <1>2, <2>3, <2>4, <2>5, <2>6 DEF Sound
<1>3. CASE c.op = "whole"
  <2>1. Result(d, c) = ReplaceWhole(d, c.n, c.c)
    BY <1>3 DEF Result
  <2>2. MayLose(d, c) = Start(d, c.n) .. (ReplaceEnd(d, c.n, c.c) - 1)
    BY <1>3 DEF MayLose
  <2>3. Result(d, c) \in Seq(Block)
    BY <1>1, <2>1, ReplaceTyped
  <2>4. Keeps(d, Result(d, c), MayLose(d, c))
    BY <1>1, <2>1, <2>2, WholeAnchors
  <2>5. UniqueIds(d) /\ IdsIn(c.c) = {} => UniqueIds(Result(d, c))
    BY <1>1, <2>1, WholeAnchors
  <2>6. c.n # 0 /\ (StartsWithHash(c.c) => TakesAnchor(c.c))
          => d[c.n].id \in IdsIn(Result(d, c)) \union {NoId}
    BY <1>1, <2>1, WholeAnchors
  <2>7. Local(d, Result(d, c), c)
    BY <1>3, LocalElsewhere
  <2> QED
    BY <1>3, <2>3, <2>4, <2>5, <2>6, <2>7 DEF Sound
<1>4. CASE c.op = "insert"
  <2>1. c.t \in Seq(Vocabulary) /\ 0 \in Int
    BY <1>4 DEF AddressedTo
  <2>2. Result(d, c) = InsertNode(d, c.n, c.p, c.t, c.c, 0)
    BY <1>4 DEF Result
  <2>3. MayLose(d, c) = {}
    BY <1>4, NothingLost
  <2>4. Result(d, c) \in Seq(Block)
    BY <1>1, <2>1, <2>2, InsertTyped
  <2>5. /\ Keeps(d, Result(d, c), {})
        /\ UniqueIds(d) /\ IdsIn(c.c) = {} => UniqueIds(Result(d, c))
    BY <1>1, <2>1, <2>2, InsertAnchors
  <2>6. Local(d, Result(d, c), c)
    BY <1>1, <1>4, <2>1, <2>2, InsertIsLocal
  <2> QED
    BY <1>4, <2>3, <2>4, <2>5, <2>6 DEF Sound
<1>5. CASE c.op = "append"
  <2>1. Result(d, c) = AppendBody(d, c.n, c.c)
    BY <1>5 DEF Result
  <2>2. MayLose(d, c) = {}
    BY <1>5, NothingLost
  <2>3. Result(d, c) \in Seq(Block)
    BY <1>1, <2>1, ReplaceTyped
  <2>4. /\ Keeps(d, Result(d, c), {})
        /\ UniqueIds(d) /\ IdsIn(c.c) = {} => UniqueIds(Result(d, c))
    BY <1>1, <2>1, BodyAnchors
  <2>5. Local(d, Result(d, c), c)
    BY <1>1, <1>5, <2>1, AppendIsLocal
  <2> QED
    BY <1>5, <2>2, <2>3, <2>4, <2>5 DEF Sound
<1>6. CASE c.op = "delete"
  <2>1. Result(d, c) = DeleteNode(d, c.n)
    BY <1>6 DEF Result
  <2>2. MayLose(d, c) = Start(d, c.n) .. (SectionEnd(d, c.n) - 1)
    <3>1. Removed(d, c) = <<Start(d, c.n), SectionEnd(d, c.n)>>
      BY <1>6 DEF Removed
    <3> QED
      BY <1>6, <3>1 DEF MayLose
  <2>3. Result(d, c) \in Seq(Block)
    BY <1>1, <2>1, ReplaceTyped
  <2>4. /\ Keeps(d, Result(d, c), MayLose(d, c))
        /\ UniqueIds(d) => UniqueIds(Result(d, c))
    BY <1>1, <2>1, <2>2, BodyAnchors
  <2>5. Local(d, Result(d, c), c)
    BY <1>1, <1>6, <2>1, DeleteIsLocal
  <2> QED
    BY <1>6, <2>3, <2>4, <2>5 DEF Sound
<1>7. CASE c.op = "move"
  <2>1. /\ c.m \in Nodes(d) /\ c.glued \in Gluings(d, c.n, c.m, c.p)
        /\ MoveAllowed(d, c.n, c.m, c.p)
    BY <1>7 DEF AddressedTo, Allowed
  <2>2. Result(d, c) = MoveNode(d, c.n, c.m, c.p, c.glued)
    BY <1>7 DEF Result
  <2>3. MayLose(d, c) = {}
    BY <1>7 DEF MayLose
  <2>4. Result(d, c) \in Seq(Block)
    BY <1>1, <2>1, <2>2, MoveTyped
  <2>5. /\ UniqueIds(d) => UniqueIds(Result(d, c))
        /\ ~c.glued => Keeps(d, Result(d, c), {})
    BY <1>1, <2>1, <2>2, MoveAnchors
  <2>6. Local(d, Result(d, c), c)
    BY <1>1, <1>7, <2>1, <2>2, MoveIsLocal
  <2> QED
    BY <1>7, <2>3, <2>4, <2>5, <2>6 DEF Sound
<1>8. CASE c.op = "rename"
  <2>1. c.t \in Seq(Vocabulary) /\ c.n # 0 /\ NoId \in Ids
    BY <1>8, BlockParts DEF AddressedTo, Allowed, RenameAllowed
  <2>2. Result(d, c) = RenameHeading(d, c.n, c.t, NoId)
    BY <1>8 DEF Result
  <2>3. MayLose(d, c) = {}
    BY <1>8, NothingLost
  <2>4. Result(d, c) \in Seq(Block)
    BY <1>1, <2>1, <2>2, RenameTyped
  <2>5. c.n \in HeadsIn(d)
    BY <1>1, <2>1, PlacesIn
  <2>6. /\ UniqueIds(d) => UniqueIds(Result(d, c))
        /\ Keeps(d, Result(d, c), {})
    BY <2>1, <2>2, <2>5, RenameAnchors
  <2>7. Local(d, Result(d, c), c)
    BY <1>8, LocalElsewhere
  <2> QED
    BY <1>8, <2>3, <2>4, <2>6, <2>7 DEF Sound
<1> QED
  BY <1>1, <1>2, <1>3, <1>4, <1>5, <1>6, <1>7, <1>8

(* The calls the tools make, as they are before they are answered.          *)
IsCall(c) ==
    \E op, n, m, p, t, e, g :
       c = [op |-> op, n |-> n, m |-> m, p |-> p, t |-> t, c |-> e, glued |-> g, ok |-> FALSE]

LEMMA MoveCallIs ==
    ASSUME NEW d, <<>> \in Seq(Block), NEW c \in MoveCalls(d)
    PROVE  AddressedTo(d, c) /\ IsCall(c) /\ c.op = "move"
<1>1. PICK n \in Nodes(d), m \in Nodes(d), p \in Positions, g \in BOOLEAN :
         c = [Call("move", n, m, p, <<>>, <<>>) EXCEPT !.glued = g]
  BY DEF MoveCalls
<1>2. c.glued \in Gluings(d, c.n, c.m, c.p)
  BY DEF MoveCalls
<1>3. c = [op |-> "move", n |-> n, m |-> m, p |-> p, t |-> <<>>, c |-> <<>>,
           glued |-> g, ok |-> FALSE]
  BY <1>1 DEF Call
<1>4. IsCall(c)
  BY <1>3 DEF IsCall
<1>5. c.op = "move" /\ c.n = n /\ c.m = m /\ c.c = <<>>
  BY <1>3
<1> QED
  BY <1>2, <1>4, <1>5 DEF AddressedTo

LEMMA BatchOpsAddressed ==
    ASSUME NEW d, NEW c \in BatchOps(d)
    PROVE  AddressedTo(d, c)
<1>2. PICK k \in BatchKinds : c \in OpsOf(d, k)
  BY DEF BatchOps
<1>3. k \in {"replace", "insert", "append", "delete", "move", "rename"}
  BY DocAssumption
<1>4. /\ \A t \in Titles : t \in Seq(Vocabulary)
      /\ \A e \in Contents : e \in Seq(Block)
      /\ <<>> \in Seq(Block)
  BY DocAssumption
<1>5. CASE k = "replace"
  <2>1. PICK n \in Nodes(d), e \in Contents, op \in {"replace", "whole"} :
           c = Call(op, n, 0, "none", <<>>, e)
    BY <1>2, <1>5 DEF OpsOf
  <2>2. AddressedTo(d, c)
    BY <1>4, <2>1 DEF AddressedTo, Call
  <2> QED
    BY <2>1, <2>2
<1>6. CASE k = "insert"
  <2>1. PICK n \in Nodes(d), p \in Positions, t \in Titles, e \in Contents :
           c = Call("insert", n, 0, p, t, e)
    BY <1>2, <1>6 DEF OpsOf
  <2>2. AddressedTo(d, c)
    BY <1>4, <2>1 DEF AddressedTo, Call
  <2> QED
    BY <2>1, <2>2
<1>7. CASE k = "append"
  <2>1. PICK n \in Nodes(d), e \in Contents : c = Call("append", n, 0, "none", <<>>, e)
    BY <1>2, <1>7 DEF OpsOf
  <2>2. AddressedTo(d, c)
    BY <1>4, <2>1 DEF AddressedTo, Call
  <2> QED
    BY <2>1, <2>2
<1>8. CASE k = "delete"
  <2>1. PICK n \in Nodes(d) : c = Call("delete", n, 0, "none", <<>>, <<>>)
    BY <1>2, <1>8 DEF OpsOf
  <2>2. AddressedTo(d, c)
    BY <1>4, <2>1 DEF AddressedTo, Call
  <2> QED
    BY <2>1, <2>2
<1>9. CASE k = "move"
  <2>1. OpsOf(d, k) = MoveCalls(d)
    BY <1>9 DEF OpsOf
  <2> QED
    BY <1>2, <1>4, <2>1, MoveCallIs
<1>10. CASE k = "rename"
  <2>1. PICK n \in Nodes(d), t \in Titles : c = Call("rename", n, 0, "none", t, <<>>)
    BY <1>2, <1>10 DEF OpsOf
  <2>2. AddressedTo(d, c)
    BY <1>4, <2>1 DEF AddressedTo, Call
  <2> QED
    BY <2>1, <2>2
<1> QED
  BY <1>3, <1>5, <1>6, <1>7, <1>8, <1>9, <1>10

(* What executeWrite does with what an operation returned.                  *)
LEMMA AnyWriteIs ==
    ASSUME TypeOK, NEW c, IsCall(c), NEW allowed \in BOOLEAN, NEW d,
           allowed => Sound(doc, d, c),
           ExecuteWrite(c, allowed, d) \/ (allowed /\ Answer(c, TRUE, d))
    PROVE  TypeOK' /\ (Accepted => Sound(doc, doc', call'))
<1>1. PICK ok : /\ Answer(c, ok, IF ok THEN d ELSE doc) \/ (ok = TRUE /\ Answer(c, ok, d))
                /\ ok \in BOOLEAN
                /\ ok => Sound(doc, d, c)
  <2>1. CASE ExecuteWrite(c, allowed, d)
    <3> DEFINE good == allowed /\ EtagOk(c) /\ Valid(d)
    <3>1. Answer(c, good, IF good THEN d ELSE doc) /\ good \in BOOLEAN
          /\ (good => Sound(doc, d, c))
      BY <2>1 DEF ExecuteWrite
    <3> HIDE DEF good
    <3> QED
      BY <3>1
  <2>2. CASE allowed /\ Answer(c, TRUE, d)
    <3>1. Sound(doc, d, c)
      BY <2>2
    <3> QED
      BY <2>2, <3>1, Zenon
  <2> QED
    BY <2>1, <2>2
<1>2. ok => d \in Seq(Block)
  BY <1>1, Zenon DEF Sound
<1>3. /\ doc' \in Seq(Block) /\ seen' = seen /\ calls' = calls + 1 /\ calls < MaxCalls
      /\ ok => doc' = d
  <2>1. CASE ok
    <3>1. Answer(c, ok, d)
      BY <1>1, <2>1
    <3>2. doc' = d
      BY <2>1, <3>1 DEF Answer
    <3> QED
      BY <1>2, <2>1, <3>1, <3>2 DEF Answer
  <2>2. CASE ~ok
    <3>1. Answer(c, ok, doc)
      BY <1>1, <2>2
    <3>2. doc' = doc
      BY <2>2, <3>1 DEF Answer
    <3> QED
      BY <2>2, <3>1, <3>2 DEF Answer, TypeOK
  <2> QED
    BY <2>1, <2>2
<1>4. PICK asked : asked = [c EXCEPT !.ok = TRUE]
  OBVIOUS
<1>5. /\ asked.ok = TRUE /\ asked.op = c.op /\ asked.n = c.n /\ asked.m = c.m
      /\ asked.p = c.p /\ asked.t = c.t /\ asked.c = c.c /\ asked.glued = c.glued
  BY <1>4 DEF IsCall
<1>6. Plain("refused").ok = FALSE
  BY DEF Call, Plain
<1>7. (ok /\ call' = asked) \/ call' = Plain("refused")
  <2> QED
    BY <1>1, <1>4, Zenon DEF Answer
<1>8. call'.ok \in BOOLEAN
  BY <1>5, <1>6, <1>7
<1>9. calls' \in 0..MaxCalls
  BY <1>3, DocAssumption DEF TypeOK
<1>10. ASSUME Accepted PROVE Sound(doc, doc', call')
  <2>1. ok /\ call' = asked /\ doc' = d
    BY <1>3, <1>6, <1>7, <1>10 DEF Accepted
  <2>2. Sound(doc, d, c)
    BY <1>1, <2>1
  <2>3. Sound(doc, d, asked)
    BY <1>5, <2>2, SoundAlike, Zenon
  <2> QED
    BY <2>1, <2>3, Zenon
<1>11. TypeOK'
  BY <1>3, <1>8, <1>9 DEF TypeOK
<1> QED
  BY <1>10, <1>11

LEMMA CallIsCall ==
    ASSUME NEW op, NEW n, NEW m, NEW p, NEW t, NEW e
    PROVE  IsCall(Call(op, n, m, p, t, e))
  BY DEF IsCall, Call

LEMMA WriteIs ==
    ASSUME TypeOK, NEW op, NEW n, NEW m, NEW p, NEW t, NEW e, NEW allowed \in BOOLEAN, NEW d,
           allowed => Sound(doc, d, Call(op, n, m, p, t, e)),
           \/ ExecuteWrite(Call(op, n, m, p, t, e), allowed, d)
           \/ allowed /\ Answer(Call(op, n, m, p, t, e), TRUE, d)
    PROVE  TypeOK' /\ (Accepted => Sound(doc, doc', call'))
  BY AnyWriteIs, CallIsCall

LEMMA AnyEditIs ==
    ASSUME TypeOK, NEW c, IsCall(c), AddressedTo(doc, c), Edit(c)
    PROVE  TypeOK' /\ (Accepted => Sound(doc, doc', call'))
<1> DEFINE d == IF Allowed(doc, c) THEN Result(doc, c) ELSE doc
<1>1. ExecuteWrite(c, Allowed(doc, c), d)
  BY DEF Edit
<1>2. Allowed(doc, c) => Sound(doc, d, c)
  BY ResultIs DEF TypeOK
<1>3. Allowed(doc, c) \in BOOLEAN
  <2>1. c.op \in {"replace", "whole", "insert", "append", "delete", "move", "rename"}
    BY DEF AddressedTo
  <2> QED
    BY <2>1 DEF Allowed, BodyAllowed, InsertAllowed, AppendAllowed, MoveAllowed, RenameAllowed
<1> HIDE DEF d
<1> QED
  BY <1>1, <1>2, <1>3, AnyWriteIs

LEMMA EditIs ==
    ASSUME TypeOK, NEW op, NEW n, NEW m, NEW p, NEW t, NEW e,
           AddressedTo(doc, Call(op, n, m, p, t, e)), Edit(Call(op, n, m, p, t, e))
    PROVE  TypeOK' /\ (Accepted => Sound(doc, doc', call'))
  BY AnyEditIs, CallIsCall

LEMMA TypeHoldsFirst ==
    Init => TypeOK
<1> SUFFICES ASSUME Init PROVE TypeOK
  OBVIOUS
<1>1. doc \in Seq(Block) /\ seen \in Seq(Block) /\ calls \in 0..MaxCalls
  BY DocAssumption DEF Init
<1>2. call.ok \in BOOLEAN
  BY DEF Init, Plain, Call
<1> QED
  BY <1>1, <1>2 DEF TypeOK

(* One step per tool.                                                       *)
LEMMA StepIs ==
    ASSUME TypeOK, Next
    PROVE  TypeOK' /\ (Accepted => Sound(doc, doc', call'))
<1>0. /\ doc \in Seq(Block)
      /\ \A t \in Titles : t \in Seq(Vocabulary) /\ t # <<>>
      /\ \A e \in Contents : e \in Seq(Block)
      /\ \A l \in Levels : l \in Int
      /\ <<>> \in Seq(Block) /\ <<>> \in Seq(Vocabulary)
      /\ IdsIn(<<>>) = {}
  BY DocAssumption, IdsOfNone DEF TypeOK
<1>1. CASE DocReplaceSection
  <2>1. PICK n \in Nodes(doc), e \in Contents, op \in {"replace", "whole"} :
           Edit(Call(op, n, 0, "none", <<>>, e))
    BY <1>1 DEF DocReplaceSection
  <2>2. AddressedTo(doc, Call(op, n, 0, "none", <<>>, e))
    BY <1>0 DEF AddressedTo, Call
  <2> QED
    BY <2>1, <2>2, EditIs
<1>2. CASE DocInsertSection
  <2>1. PICK n \in Nodes(doc), p \in Positions, t \in Titles, e \in Contents :
           Edit(Call("insert", n, 0, p, t, e))
    BY <1>2 DEF DocInsertSection
  <2>2. AddressedTo(doc, Call("insert", n, 0, p, t, e))
    BY <1>0 DEF AddressedTo, Call
  <2> QED
    BY <2>1, <2>2, EditIs
<1>3. CASE DocInsertAtLevel
  <2>1. PICK n \in Nodes(doc), p \in Positions, t \in Titles, l \in Levels :
           ExecuteWrite(Call("insert_level", n, l, p, t, <<>>), InsertAllowed(doc, n, p, t, <<>>),
                        InsertNode(doc, n, p, t, <<>>, l))
    BY <1>3 DEF DocInsertAtLevel
  <2> DEFINE d == InsertNode(doc, n, p, t, <<>>, l)
             c == Call("insert_level", n, l, p, t, <<>>)
  <2>2. d \in Seq(Block)
    BY <1>0, InsertTyped
  <2>3. Keeps(doc, d, {}) /\ (UniqueIds(doc) => UniqueIds(d))
    BY <1>0, InsertAnchors
  <2>4. InsertAllowed(doc, n, p, t, <<>>) \in BOOLEAN
    BY DEF InsertAllowed
  <2> HIDE DEF d
  <2>5. Sound(doc, d, c)
    <3>1. c.op = "insert_level"
      BY DEF Call
    <3> HIDE DEF c
    <3>2. MayLose(doc, c) = {} /\ Local(doc, d, c)
      BY <3>1, NothingLost, LocalElsewhere
    <3> QED
      BY <2>2, <2>3, <3>1, <3>2 DEF Sound
  <2> QED
    BY <2>1, <2>4, <2>5, WriteIs DEF d
<1>4. CASE DocAppendSection
  <2>1. PICK n \in Nodes(doc), e \in Contents : Edit(Call("append", n, 0, "none", <<>>, e))
    BY <1>4 DEF DocAppendSection
  <2>2. AddressedTo(doc, Call("append", n, 0, "none", <<>>, e))
    BY <1>0 DEF AddressedTo, Call
  <2> QED
    BY <2>1, <2>2, EditIs
<1>5. CASE DocDeleteSection
  <2>1. PICK n \in Nodes(doc) : Edit(Call("delete", n, 0, "none", <<>>, <<>>))
    BY <1>5 DEF DocDeleteSection
  <2>2. AddressedTo(doc, Call("delete", n, 0, "none", <<>>, <<>>))
    BY <1>0 DEF AddressedTo, Call
  <2> QED
    BY <2>1, <2>2, EditIs
<1>6. CASE DocMoveSection
  <2>1. PICK c \in MoveCalls(doc) : Edit(c)
    BY <1>6 DEF DocMoveSection
  <2>2. AddressedTo(doc, c) /\ IsCall(c)
    BY <1>0, MoveCallIs
  <2> QED
    BY <2>1, <2>2, AnyEditIs
<1>7. CASE DocRenameSection
  <2>1. PICK n \in Nodes(doc), t \in Titles : Edit(Call("rename", n, 0, "none", t, <<>>))
    BY <1>7 DEF DocRenameSection
  <2>2. AddressedTo(doc, Call("rename", n, 0, "none", t, <<>>))
    BY <1>0 DEF AddressedTo, Call
  <2> QED
    BY <2>1, <2>2, EditIs
<1>8. CASE DocReanchorSection
  <2>1. PICK n \in HeadsIn(doc), t \in Titles :
           ExecuteWrite(Call("reanchor", n, 0, "none", t, <<>>), RenameAllowed(doc, n, t),
                        RenameHeading(doc, n, t, <<t, 1>>))
    BY <1>8 DEF DocReanchorSection
  <2> DEFINE d == RenameHeading(doc, n, t, <<t, 1>>)
             c == Call("reanchor", n, 0, "none", t, <<>>)
  <2>2. n \in Nodes(doc) /\ n # 0
    BY <1>0, ParentsIs
  <2>3. <<t, 1>> \in Ids
    BY <1>0 DEF Ids
  <2>4. d \in Seq(Block) /\ Keeps(doc, d, {n})
    BY <1>0, <2>2, <2>3, RenameTyped, RenameAnchors
  <2>5. RenameAllowed(doc, n, t) \in BOOLEAN
    BY DEF RenameAllowed
  <2> HIDE DEF d
  <2>6. Sound(doc, d, c)
    <3>1. c.op = "reanchor" /\ c.n = n
      BY DEF Call
    <3> HIDE DEF c
    <3>2. MayLose(doc, c) = {n}
      BY <3>1 DEF MayLose
    <3>3. Local(doc, d, c)
      BY <3>1, LocalElsewhere
    <3> QED
      BY <2>4, <3>1, <3>2, <3>3 DEF Sound
  <2> QED
    BY <2>1, <2>5, <2>6, WriteIs DEF d
<1>9. CASE DocSetValue
  <2>1. PICK n \in Nodes(doc), e \in Contents :
           ExecuteWrite(Call("set_value", n, 0, "none", <<>>, e), SetValueAllowed(doc, n, e),
                        ReplaceBody(doc, n, e))
    BY <1>9 DEF DocSetValue
  <2> DEFINE d == ReplaceBody(doc, n, e)
             c == Call("set_value", n, 0, "none", <<>>, e)
             gone == BodyStart(doc, n) .. (ReplaceEnd(doc, n, Stripped(e, Title(doc, n))) - 1)
  <2>2. d \in Seq(Block) /\ Keeps(doc, d, gone)
        /\ (UniqueIds(doc) /\ IdsIn(e) = {} => UniqueIds(d))
    BY <1>0, ReplaceTyped, BodyAnchors
  <2>3. SetValueAllowed(doc, n, e) \in BOOLEAN
    BY DEF SetValueAllowed, BodyAllowed
  <2>4. SetValueAllowed(doc, n, e) => Local(doc, d, c)
    <3>1. c.op = "set_value" /\ c.n = n /\ c.c = e
      BY DEF Call
    <3> HIDE DEF c
    <3> QED
      BY <1>0, <3>1, BodyIsLocal DEF SetValueAllowed
  <2> HIDE DEF d
  <2>5. SetValueAllowed(doc, n, e) => Sound(doc, d, c)
    <3>1. c.op = "set_value" /\ c.n = n /\ c.c = e
      BY DEF Call
    <3> HIDE DEF c
    <3>2. MayLose(doc, c) = gone
      <4>1. Removed(doc, c)
              = <<BodyStart(doc, n), ReplaceEnd(doc, n, Stripped(e, Title(doc, n)))>>
        BY <3>1 DEF Removed
      <4> QED
        BY <3>1, <4>1 DEF MayLose
    <3> QED
      BY <2>2, <2>4, <3>1, <3>2 DEF Sound
  <2> QED
    BY <2>1, <2>3, <2>5, WriteIs DEF d
<1>10. CASE DocBatch
  <2>1. PICK first \in BatchOps(doc) :
          /\ Allowed(doc, first) /\ AtxOnly(Result(doc, first))
          /\ \E next \in BatchOps(Result(doc, first)) :
               LET left == Result(doc, first)
                   ok   == Allowed(left, next)
                   c    == Call("batch", 0, 0, "none", <<>>, first.c \o next.c)
               IN  IF ok /\ Result(left, next) = doc THEN Answer(c, TRUE, doc)
                   ELSE ExecuteWrite(c, ok, IF ok THEN Result(left, next) ELSE doc)
    BY <1>10 DEF DocBatch
  <2> DEFINE left == Result(doc, first)
  <2>2. Sound(doc, left, first) /\ first.c \in Seq(Block)
        /\ first.op \in {"replace", "whole", "insert", "append", "delete", "move", "rename"}
    <3>1. AddressedTo(doc, first)
      BY BatchOpsAddressed
    <3> QED
      BY <1>0, <2>1, <3>1, ResultIs DEF AddressedTo
  <2>3. PICK next \in BatchOps(left) :
           LET ok == Allowed(left, next)
               c  == Call("batch", 0, 0, "none", <<>>, first.c \o next.c)
           IN  IF ok /\ Result(left, next) = doc THEN Answer(c, TRUE, doc)
               ELSE ExecuteWrite(c, ok, IF ok THEN Result(left, next) ELSE doc)
    BY <2>1
  <2> HIDE DEF left
  <2>4. left \in Seq(Block) /\ (IdsIn(first.c) = {} /\ UniqueIds(doc) => UniqueIds(left))
    BY <2>2 DEF Sound
  <2> DEFINE both == first.c \o next.c
             ok == Allowed(left, next)
             new == IF ok THEN Result(left, next) ELSE doc
  <2> DEFINE c == Call("batch", 0, 0, "none", <<>>, both)
  <2>5. ok \in BOOLEAN /\ (ok => Sound(doc, new, c))
    <3>1. AddressedTo(left, next)
      BY BatchOpsAddressed
    <3>2. next.op \in {"replace", "whole", "insert", "append", "delete", "move", "rename"}
          /\ next.c \in Seq(Block)
      BY <3>1 DEF AddressedTo
    <3>3. ok \in BOOLEAN
      BY <3>2 DEF Allowed, BodyAllowed, InsertAllowed, AppendAllowed, MoveAllowed, RenameAllowed
    <3>4. c.op = "batch" /\ c.c = both
      BY DEF Call
    <3>5. IdsIn(both) = IdsIn(first.c) \union IdsIn(next.c)
      BY <2>2, <3>2, IdsJoin
    <3>6. ASSUME ok PROVE Sound(doc, new, c)
      <4>1. Sound(left, new, next)
        BY <2>4, <3>1, <3>6, ResultIs
      <4> HIDE DEF c, both, ok, new
      <4>2. new \in Seq(Block) /\ (IdsIn(next.c) = {} /\ UniqueIds(left) => UniqueIds(new))
        BY <3>2, <4>1 DEF Sound
      <4>3. Local(doc, new, c)
        BY <3>4, LocalElsewhere
      <4> QED
        BY <2>4, <3>4, <3>5, <4>2, <4>3 DEF Sound
    <3> QED
      BY <3>3, <3>6
  <2>6. IF ok /\ Result(left, next) = doc THEN Answer(c, TRUE, doc)
        ELSE ExecuteWrite(c, ok, new)
    BY <2>3
  <2>7. \/ ok /\ new = doc /\ Answer(c, TRUE, new)
        \/ ExecuteWrite(c, ok, new)
    <3>1. CASE ok /\ Result(left, next) = doc
      <4>1. ok /\ new = doc
        BY <3>1
      <4> HIDE DEF c, new, ok
      <4> QED
        BY <2>6, <3>1, <4>1
    <3>2. CASE ~(ok /\ Result(left, next) = doc)
      <4> HIDE DEF c, new, ok
      <4> QED
        BY <2>6, <3>2
    <3> QED
      BY <3>1, <3>2
  <2> HIDE DEF both, ok, new
  <2> QED
    BY <2>5, <2>7, WriteIs
<1>11. CASE DocAssignIds
  <2>1. ExecuteWrite(Call("assign_ids", 0, 0, "none", <<>>, <<>>), TRUE, AssignIds(doc))
    BY <1>11 DEF DocAssignIds, Plain
  <2> DEFINE d == AssignIds(doc)
             c == Call("assign_ids", 0, 0, "none", <<>>, <<>>)
  <2>2. d \in Seq(Block) /\ Keeps(doc, d, {}) /\ (UniqueIds(doc) => UniqueIds(d))
    BY <1>0, AssignTyped, AssignAnchors
  <2> HIDE DEF d
  <2>3. Sound(doc, d, c)
    <3>1. c.op = "assign_ids"
      BY DEF Call
    <3> HIDE DEF c
    <3>2. MayLose(doc, c) = {} /\ Local(doc, d, c)
      BY <3>1, NothingLost, LocalElsewhere
    <3> QED
      BY <2>2, <3>1, <3>2 DEF Sound
  <2> QED
    BY <2>1, <2>3, WriteIs DEF d
<1>12. CASE DocGenerateToc
  <2>1. PICK top \in BOOLEAN, open \in BOOLEAN :
           ExecuteWrite(Call("toc", 0, 0, "none", <<>>, <<>>), TRUE, GenerateToc(doc, top, open))
    BY <1>12 DEF DocGenerateToc, Plain
  <2> DEFINE d == GenerateToc(doc, top, open)
             c == Call("toc", 0, 0, "none", <<>>, <<>>)
  <2>2. d \in Seq(Block) /\ (UniqueIds(doc) => UniqueIds(d))
    <3>1. Patched(doc, <<>>, d)
      BY <1>0, TocIs
    <3> HIDE DEF d
    <3> QED
      BY <1>0, <3>1, PatchAnchors
  <2> HIDE DEF d
  <2>3. Sound(doc, d, c)
    <3>1. c.op = "toc"
      BY DEF Call
    <3> HIDE DEF c
    <3>2. Local(doc, d, c)
      BY <3>1, LocalElsewhere
    <3> QED
      BY <2>2, <3>1, <3>2 DEF Sound
  <2> QED
    BY <2>1, <2>3, WriteIs DEF d
<1>13. CASE DocFindPreview
  BY <1>13 DEF DocFindPreview, TypeOK, Accepted
<1>14. CASE DocFindReplace
  <2>1. PICK w \in Words, t \in Titles, k \in 0..1 :
           ExecuteWrite(Call("find_replace", k, 0, w, t, <<>>), TRUE, FindReplace(doc, w, t[1], {k}))
    BY <1>14 DEF DocFindReplace
  <2> DEFINE d == FindReplace(doc, w, t[1], {k})
             c == Call("find_replace", k, 0, w, t, <<>>)
  <2>2. t[1] \in Vocabulary
    <3>1. t \in Seq(Vocabulary) /\ t # <<>>
      BY <1>0
    <3> QED
      BY <3>1
  <2>3. d \in Seq(Block) /\ Keeps(doc, d, {}) /\ (UniqueIds(doc) => UniqueIds(d))
    BY <1>0, <2>2, FindReplaceTyped, FindReplaceAnchors
  <2> HIDE DEF d
  <2>4. Sound(doc, d, c)
    <3>1. c.op = "find_replace"
      BY DEF Call
    <3> HIDE DEF c
    <3>2. MayLose(doc, c) = {} /\ Local(doc, d, c)
      BY <3>1, NothingLost, LocalElsewhere
    <3> QED
      BY <2>3, <3>1, <3>2 DEF Sound
  <2> QED
    BY <2>1, <2>4, WriteIs DEF d
<1>15. CASE DocInsertText
  <2>1. PICK w \in Words, after \in BOOLEAN, e \in Contents :
           ExecuteWrite(Call("insert_text", 0, 0, "none", <<>>, e),
                        Cardinality(Occurrences(doc, w)) = 1,
                        IF Cardinality(Occurrences(doc, w)) = 1
                        THEN InsertText(doc, w, after, e) ELSE doc)
    BY <1>15 DEF DocInsertText
  <2> DEFINE ok == Cardinality(Occurrences(doc, w)) = 1
             d == IF ok THEN InsertText(doc, w, after, e) ELSE doc
             c == Call("insert_text", 0, 0, "none", <<>>, e)
  <2>2. ASSUME ok PROVE d \in Seq(Block) /\ (IdsIn(e) = {} /\ UniqueIds(doc) => UniqueIds(d))
    <3>1. Occurrences(doc, w) # {}
      BY <2>2, FS_EmptySet
    <3>2. d = InsertText(doc, w, after, e)
      BY <2>2
    <3> HIDE DEF d
    <3>3. Patched(doc, e, d)
      BY <1>0, <3>1, <3>2, InsertTextIs
    <3> QED
      BY <1>0, <3>3, PatchAnchors
  <2>3. ExecuteWrite(c, ok, d)
    BY <2>1
  <2>4. ok \in BOOLEAN
    OBVIOUS
  <2> HIDE DEF ok, d
  <2>5. ok => Sound(doc, d, c)
    <3>1. c.op = "insert_text" /\ c.c = e
      BY DEF Call
    <3> HIDE DEF c
    <3>2. Local(doc, d, c)
      BY <3>1, LocalElsewhere
    <3> QED
      BY <2>2, <3>1, <3>2 DEF Sound
  <2> QED
    BY <2>3, <2>4, <2>5, WriteIs
<1> QED
  BY <1>1, <1>2, <1>3, <1>4, <1>5, <1>6, <1>7, <1>8, <1>9, <1>10, <1>11, <1>12, <1>13,
     <1>14, <1>15 DEF Next
=============================================================================
