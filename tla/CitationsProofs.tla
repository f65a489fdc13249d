-------------------------- MODULE CitationsProofs --------------------------
(* What a caller may cite, the rate limiter, the registry and the reference  *)
(* lines, for any number of calls, documents, sources and roles.             *)
EXTENDS SessionsProofs, InductionLemmas, SequenceTheorems

-----------------------------------------------------------------------------
(* What a fold over 1..n computes: FoldLeft goes through the sets 1..k.  The *)
(* step is a function here; a fold by an operator that agrees with it on V   *)
(* satisfies the same equation.                                             *)
FoldOf(it, base, G, n) ==
    it = [s \in SUBSET (1..n) |->
            IF s = {} THEN base ELSE G[<<it[s \ {Max(s)}], Max(s)>>]]

LEMMA FoldExists ==
    ASSUME NEW n \in Nat, NEW V, NEW base \in V, NEW G \in [V \X (1..n) -> V]
    PROVE  \E it : FoldOf(it, base, G, n) /\ it \in [SUBSET (1..n) -> V]
<1> DEFINE Step(it, s) == IF s = {} THEN base ELSE G[<<it[s \ {Max(s)}], Max(s)>>]
           P(k) == \E it \in [SUBSET (1..k) -> V] :
                      \A s \in SUBSET (1..k) : it[s] = Step(it, s)
           T == {k \in Nat : k <= n => P(k)}
<1>1. P(0)
  <2> DEFINE it == [s \in SUBSET (1..0) |-> base]
  <2>1. \A s \in SUBSET (1..0) : s = {}
    OBVIOUS
  <2>2. it \in [SUBSET (1..0) -> V]
    OBVIOUS
  <2>3. \A s \in SUBSET (1..0) : it[s] = Step(it, s)
    BY <2>1
  <2> HIDE DEF it
  <2> QED
    BY <2>2, <2>3
<1>2. ASSUME NEW k \in Nat, k + 1 <= n, P(k)
      PROVE  P(k + 1)
  <2>1. PICK old \in [SUBSET (1..k) -> V] : \A s \in SUBSET (1..k) : old[s] = Step(old, s)
    BY <1>2
  <2> DEFINE it == [s \in SUBSET (1..k + 1) |-> Step(old, s)]
  <2>2. ASSUME NEW s \in SUBSET (1..k + 1), s # {}
        PROVE  /\ Max(s) \in 1..n
               /\ s \ {Max(s)} \in SUBSET (1..k)
    <3>1. Max(s) \in s /\ \A i \in s : i <= Max(s)
      BY <2>2, MaxExists, k + 1 \in Nat
    <3> DEFINE m == Max(s)
    <3> HIDE DEF m
    <3>2. m \in 1..k + 1 /\ \A i \in s : i \in 1..k + 1 /\ i <= m
      BY <3>1 DEF m
    <3>3. m \in 1..n /\ s \ {m} \in SUBSET (1..k)
      BY <1>2, <3>2
    <3> QED
      BY <3>3 DEF m
  <2>3. \A s \in SUBSET (1..k + 1) : Step(old, s) \in V
    BY <2>1, <2>2
  <2>4. it \in [SUBSET (1..k + 1) -> V] /\ \A s \in SUBSET (1..k + 1) : it[s] = Step(old, s)
    BY <2>3
  <2> HIDE DEF it
  <2>5. \A s \in SUBSET (1..k) : it[s] = old[s]
    <3>1. SUBSET (1..k) \subseteq SUBSET (1..k + 1)
      OBVIOUS
    <3> QED
      BY <3>1, <2>1, <2>4
  <2>6. \A s \in SUBSET (1..k + 1) : it[s] = Step(it, s)
    BY <2>2, <2>4, <2>5
  <2> QED
    BY <2>4, <2>6
<1> HIDE DEF P
<1>3. n \in T
  <2>1. 0 \in T
    BY <1>1
  <2>2. \A k \in Nat : k \in T => k + 1 \in T
    BY <1>2
  <2> HIDE DEF T
  <2> QED
    BY <2>1, <2>2, SetInduction
<1>4. PICK it \in [SUBSET (1..n) -> V] : \A s \in SUBSET (1..n) : it[s] = Step(it, s)
  <2>1. P(n)
    BY <1>3
  <2> QED
    BY <2>1 DEF P
<1>5. it = [s \in SUBSET (1..n) |-> Step(it, s)]
  BY <1>4
<1> QED
  BY <1>5 DEF FoldOf

(* The sets FoldLeft goes through.                                          *)
LEMMA LastOfPrefix ==
    ASSUME NEW k \in Nat
    PROVE  /\ 1..k + 1 # {} /\ Max(1..k + 1) = k + 1 /\ (1..k + 1) \ {k + 1} = 1..k
           /\ 1..0 = {}
<1> DEFINE s == 1..k + 1
<1>1. k + 1 \in Nat /\ s \in SUBSET (1..k + 1) /\ s # {} /\ k + 1 \in s
  OBVIOUS
<1> HIDE DEF s
<1>2. Max(s) \in s /\ k + 1 <= Max(s)
  BY <1>1, MaxExists
<1>3. Max(s) = k + 1
  BY <1>2 DEF s
<1> QED
  BY <1>3 DEF s

(* A fold goes through the prefixes 1..k; what holds of each prefix and its   *)
(* value (a set P of pairs) holds of the whole.                             *)
LEMMA FoldInduction ==
    ASSUME NEW n \in Nat, NEW base, NEW H, NEW it, FoldOf(it, base, H, n), NEW P,
           <<0, base>> \in P,
           \A k \in Nat : \A v : k + 1 <= n /\ <<k, v>> \in P => <<k + 1, H[<<v, k + 1>>]>> \in P
    PROVE  <<n, it[1..n]>> \in P
<1> DEFINE T == {k \in Nat : k <= n => <<k, it[1..k]>> \in P}
<1>1. \A s \in SUBSET (1..n) :
        it[s] = IF s = {} THEN base ELSE H[<<it[s \ {Max(s)}], Max(s)>>]
  BY DEF FoldOf
<1>2. 0 \in T
  <2>1. it[{}] = base /\ 1..0 = {}
    BY <1>1, LastOfPrefix
  <2> QED
    BY <2>1
<1>3. ASSUME NEW k \in Nat, k \in T
      PROVE  k + 1 \in T
  <2>1. SUFFICES ASSUME k + 1 <= n PROVE <<k + 1, it[1..k + 1]>> \in P
    OBVIOUS
  <2>2. <<k, it[1..k]>> \in P
    BY <1>3, <2>1
  <2>3. 1..k + 1 \in SUBSET (1..n)
    BY <2>1
  <2> DEFINE s == 1..k + 1
  <2>4. s # {} /\ Max(s) = k + 1 /\ s \ {k + 1} = 1..k
    BY LastOfPrefix
  <2> HIDE DEF s
  <2>5. it[s] = H[<<it[1..k], k + 1>>]
    <3>1. s \in SUBSET (1..n)
      BY <2>3 DEF s
    <3> QED
      BY <1>1, <2>4, <3>1
  <2>6. <<k + 1, it[s]>> \in P
    BY <2>1, <2>2, <2>5
  <2> QED
    BY <2>6 DEF s
<1> HIDE DEF T
<1>4. n \in T
  BY <1>2, <1>3, SetInduction
<1> QED
  BY <1>4 DEF T

-----------------------------------------------------------------------------
(* Roles and scopes.                                                        *)

LEMMA AddNewIs ==
    ASSUME NEW S, NEW q \in Seq(S), NEW e \in S
    PROVE  AddNew(q, e) \in Seq(S) /\ Range(AddNew(q, e)) = Range(q) \union {e}
<1>1. CASE e \in Range(q)
  BY <1>1 DEF AddNew
<1>2. CASE e \notin Range(q)
  <2>1. AddNew(q, e) = Append(q, e)
    BY <1>2 DEF AddNew
  <2>2. /\ Append(q, e) \in Seq(S) /\ DOMAIN Append(q, e) = 1..Len(q) + 1
        /\ DOMAIN q = 1..Len(q) /\ Len(q) \in Nat
        /\ \A i \in 1..Len(q) : Append(q, e)[i] = q[i]
        /\ Append(q, e)[Len(q) + 1] = e
    OBVIOUS
  <2> QED
    BY <2>1, <2>2 DEF Range
<1> QED
  BY <1>1, <1>2

(* AddNew, folded over a sequence, adds what is in it.                      *)
LEMMA AddAll ==
    ASSUME NEW S, NEW acc \in Seq(S), NEW seq \in Seq(S)
    PROVE  LET all == FoldLeft(AddNew, acc, seq) IN
           all \in Seq(S) /\ Range(all) = Range(acc) \union Range(seq)
<1> DEFINE n == Len(seq)
           Eq(it) == it = [s \in SUBSET (1..n) |->
                      IF s = {} THEN acc ELSE AddNew(it[s \ {Max(s)}], seq[Max(s)])]
           iter == CHOOSE it : Eq(it)
           G(V) == [x \in V \X (1..n) |-> AddNew(x[1], seq[x[2]])]
           V == Seq(S) \union {iter[s] : s \in SUBSET (1..n)}
           P == {x \in Nat \X Seq(S) :
                   Range(x[2]) = Range(acc) \union {seq[i] : i \in 1..x[1]}}
<1>1. \A k \in Nat, v \in Seq(S) :
        Range(v) = Range(acc) \union {seq[i] : i \in 1..k} => <<k, v>> \in P
  OBVIOUS
<1>2. n \in Nat /\ DOMAIN seq = 1..n /\ \A i \in 1..n : seq[i] \in S
  OBVIOUS
<1>3. FoldLeft(AddNew, acc, seq) = iter[1..n]
  BY <1>2, Zenon DEF FoldLeft, MapThenFoldSet
<1> HIDE DEF iter, n
<1>4. \E it : Eq(it)
  <2>1. PICK it : FoldOf(it, acc, G(Seq(S)), n) /\ it \in [SUBSET (1..n) -> Seq(S)]
    <3>1. G(Seq(S)) \in [Seq(S) \X (1..n) -> Seq(S)]
      BY <1>2, AddNewIs
    <3> HIDE DEF G
    <3> QED
      BY <1>2, <3>1, FoldExists
  <2>2. ASSUME NEW s \in SUBSET (1..n), s # {}
        PROVE  G(Seq(S))[<<it[s \ {Max(s)}], Max(s)>>] = AddNew(it[s \ {Max(s)}], seq[Max(s)])
    <3>1. Max(s) \in 1..n
      BY <2>2, <1>2, MaxExists
    <3> QED
      BY <3>1, <2>1
  <2> QED
    BY <2>1, <2>2 DEF FoldOf
<1>5. FoldOf(iter, acc, G(V), n)
  <2>1. Eq(iter)
    BY <1>4, Zenon DEF iter
  <2>2. ASSUME NEW s \in SUBSET (1..n), s # {}
        PROVE  G(V)[<<iter[s \ {Max(s)}], Max(s)>>] = AddNew(iter[s \ {Max(s)}], seq[Max(s)])
    <3>1. Max(s) \in 1..n
      BY <2>2, <1>2, MaxExists
    <3> QED
      BY <3>1
  <2> QED
    BY <2>1, <2>2 DEF FoldOf
<1>6. <<0, acc>> \in P
  BY <1>2
<1>7. ASSUME NEW k \in Nat, NEW v, k + 1 <= n, <<k, v>> \in P
      PROVE  <<k + 1, G(V)[<<v, k + 1>>]>> \in P
  <2>1. /\ v \in Seq(S) /\ Range(v) = Range(acc) \union {seq[i] : i \in 1..k}
        /\ k + 1 \in 1..n /\ seq[k + 1] \in S
    BY <1>2, <1>7
  <2>2. G(V)[<<v, k + 1>>] = AddNew(v, seq[k + 1])
    BY <2>1
  <2>3. {seq[i] : i \in 1..k + 1} = {seq[i] : i \in 1..k} \union {seq[k + 1]}
    OBVIOUS
  <2> DEFINE w == AddNew(v, seq[k + 1])
  <2>4. w \in Seq(S) /\ Range(w) = Range(acc) \union {seq[i] : i \in 1..k + 1}
    <3>1. w \in Seq(S) /\ Range(w) = Range(v) \union {seq[k + 1]}
      <4>1. \A e \in S : AddNew(v, e) \in Seq(S)
                        /\ Range(AddNew(v, e)) = Range(v) \union {e}
        BY <2>1, AddNewIs
      <4> QED
        BY <2>1, <4>1
    <3> HIDE DEF w
    <3> QED
      BY <2>1, <2>3, <3>1
  <2> HIDE DEF w
  <2> HIDE DEF P
  <2>5. <<k + 1, w>> \in P
    <3>1. k + 1 \in Nat
      BY <1>7
    <3> QED
      BY <1>1, <2>4, <3>1, Zenon
  <2> QED
    BY <2>2, <2>5 DEF w
<1>8. <<n, iter[1..n]>> \in P
  <2> HIDE DEF P, G, V
  <2> QED
    BY <1>2, <1>5, <1>6, <1>7, FoldInduction
<1>9. Range(seq) = {seq[i] : i \in 1..n}
  BY <1>2 DEF Range
<1> QED
  BY <1>2, <1>3, <1>8, <1>9

(* FirstSeen has what is in the sequences, and nothing else.                 *)
LEMMA FirstSeenIs ==
    ASSUME NEW S, NEW seqs \in Seq(Seq(S))
    PROVE  /\ FirstSeen(seqs) \in Seq(S)
           /\ Range(FirstSeen(seqs)) = UNION {Range(seqs[i]) : i \in DOMAIN seqs}
<1> DEFINE n == Len(seqs)
           Op(acc, seq) == FoldLeft(AddNew, acc, seq)
           Eq(it) == it = [s \in SUBSET (1..n) |->
                      IF s = {} THEN <<>> ELSE Op(it[s \ {Max(s)}], seqs[Max(s)])]
           iter == CHOOSE it : Eq(it)
           G(V) == [x \in V \X (1..n) |-> Op(x[1], seqs[x[2]])]
           V == Seq(S) \union {iter[s] : s \in SUBSET (1..n)}
           P == {x \in Nat \X Seq(S) : Range(x[2]) = UNION {Range(seqs[i]) : i \in 1..x[1]}}
<1>1. \A k \in Nat, v \in Seq(S) :
        Range(v) = UNION {Range(seqs[i]) : i \in 1..k} => <<k, v>> \in P
  OBVIOUS
<1>2. n \in Nat /\ DOMAIN seqs = 1..n /\ \A i \in 1..n : seqs[i] \in Seq(S)
  OBVIOUS
<1>3. FirstSeen(seqs) = iter[1..n]
  BY <1>2, Zenon DEF FirstSeen, FoldLeft, MapThenFoldSet
<1>4. \A acc \in Seq(S), seq \in Seq(S) :
        Op(acc, seq) \in Seq(S) /\ Range(Op(acc, seq)) = Range(acc) \union Range(seq)
  BY AddAll
<1> HIDE DEF iter, n, Op
<1>5. \E it : Eq(it)
  <2>1. PICK it : FoldOf(it, <<>>, G(Seq(S)), n) /\ it \in [SUBSET (1..n) -> Seq(S)]
    <3>1. G(Seq(S)) \in [Seq(S) \X (1..n) -> Seq(S)] /\ <<>> \in Seq(S)
      BY <1>2, <1>4
    <3> HIDE DEF G
    <3> QED
      BY <1>2, <3>1, FoldExists
  <2>2. ASSUME NEW s \in SUBSET (1..n), s # {}
        PROVE  G(Seq(S))[<<it[s \ {Max(s)}], Max(s)>>] = Op(it[s \ {Max(s)}], seqs[Max(s)])
    <3>1. Max(s) \in 1..n
      BY <2>2, <1>2, MaxExists
    <3> QED
      BY <3>1, <2>1
  <2> QED
    BY <2>1, <2>2 DEF FoldOf
<1>6. FoldOf(iter, <<>>, G(V), n)
  <2>1. Eq(iter)
    BY <1>5, Zenon DEF iter
  <2>2. ASSUME NEW s \in SUBSET (1..n), s # {}
        PROVE  G(V)[<<iter[s \ {Max(s)}], Max(s)>>] = Op(iter[s \ {Max(s)}], seqs[Max(s)])
    <3>1. Max(s) \in 1..n
      BY <2>2, <1>2, MaxExists
    <3> QED
      BY <3>1
  <2> QED
    BY <2>1, <2>2 DEF FoldOf
<1>7. <<0, <<>>>> \in P
  <2>1. Range(<<>>) = {} /\ 1..0 = {} /\ <<>> \in Seq(S)
    BY DEF Range
  <2>2. UNION {Range(seqs[i]) : i \in 1..0} = {}
    BY <2>1
  <2> HIDE DEF P
  <2> QED
    BY <1>1, <2>1, <2>2
<1>8. ASSUME NEW k \in Nat, NEW v, k + 1 <= n, <<k, v>> \in P
      PROVE  <<k + 1, G(V)[<<v, k + 1>>]>> \in P
  <2>1. /\ v \in Seq(S) /\ Range(v) = UNION {Range(seqs[i]) : i \in 1..k}
        /\ k + 1 \in 1..n /\ seqs[k + 1] \in Seq(S)
    BY <1>2, <1>8
  <2> DEFINE w == Op(v, seqs[k + 1])
  <2>2. G(V)[<<v, k + 1>>] = w
    BY <2>1
  <2>3. w \in Seq(S) /\ Range(w) = Range(v) \union Range(seqs[k + 1])
    BY <1>4, <2>1
  <2>4. 1..k + 1 = (1..k) \union {k + 1}
    OBVIOUS
  <2> HIDE DEF w
  <2>5. Range(w) = UNION {Range(seqs[i]) : i \in 1..k + 1}
    BY <2>1, <2>3, <2>4
  <2> HIDE DEF P
  <2>6. <<k + 1, w>> \in P
    <3>1. k + 1 \in Nat
      OBVIOUS
    <3> QED
      BY <1>1, <2>3, <2>5, <3>1, Zenon
  <2> QED
    BY <2>2, <2>6
<1>9. <<n, iter[1..n]>> \in P
  <2> HIDE DEF P, G, V
  <2> QED
    BY <1>2, <1>6, <1>7, <1>8, FoldInduction
<1> QED
  BY <1>2, <1>3, <1>9

(* An identity gets the scopes of every role that a binding of its names, or *)
(* of default_role where no binding is its own, and no others, whatever the   *)
(* configuration: no order of bindings, repeated role or undefined role       *)
(* changes that.  (roles.ts resolveScopes.)                                  *)
THEOREM ScopesAsMeant ==
    ASSUME NEW facts
    PROVE  Range(ResolveScopes(facts)) = BoundScopes(facts)
<1> DEFINE mine  == {b \in Range(Bindings) : BindingMatches(b, facts)}
           bound == UNION {Range(b.roles) : b \in mine}
           first == FirstSeen(BoundRoles(facts))
           roles == MatchedRoles(facts)
           meant == IF mine # {} THEN bound ELSE {DefaultRole} \ {NoRole}
           lists == [i \in DOMAIN roles |->
                       IF roles[i] \in DOMAIN RoleScopes THEN RoleScopes[roles[i]] ELSE <<>>]
<1>1. \E S : first \in Seq(S) /\ Range(first) = bound
  <2> DEFINE S == UNION {Range(b.roles) : b \in Range(Bindings)}
  <2>1. /\ Len(Bindings) \in Nat /\ DOMAIN Bindings = 1..Len(Bindings)
        /\ \A i \in DOMAIN Bindings : Bindings[i] \in Range(Bindings)
    BY RolesAssumption DEF Range
  <2>2. \A b \in Range(Bindings) : b.roles \in Seq(S)
    <3>1. ASSUME NEW b \in Range(Bindings)
          PROVE  b.roles \in Seq(S)
      <4>1. b.roles \in Seq(Range(b.roles)) /\ Range(b.roles) \subseteq S
        BY RolesAssumption
      <4> QED
        BY <4>1, SeqMonotonic
    <3> QED
      BY <3>1
  <2>3. BoundRoles(facts) \in Seq(Seq(S))
    <3>1. \A i \in 1..Len(Bindings) : BoundRoles(facts)[i] \in Seq(S)
      BY <2>1, <2>2 DEF BoundRoles
    <3>2. BoundRoles(facts) = [i \in 1..Len(Bindings) |-> BoundRoles(facts)[i]]
      BY <2>1 DEF BoundRoles
    <3> QED
      BY <2>1, <3>1, <3>2
  <2>4. first \in Seq(S) /\ Range(first) = UNION {Range(BoundRoles(facts)[i]) : i \in DOMAIN Bindings}
    <3>1. DOMAIN BoundRoles(facts) = DOMAIN Bindings
      BY DEF BoundRoles
    <3> QED
      BY <2>3, <3>1, FirstSeenIs
  <2>5. \A i \in DOMAIN Bindings : Range(BoundRoles(facts)[i])
          = IF Bindings[i] \in mine THEN Range(Bindings[i].roles) ELSE {}
    BY <2>1 DEF BoundRoles, Range
  <2>6. Range(first) \subseteq bound
    BY <2>1, <2>4, <2>5
  <2>7. ASSUME NEW b \in mine
        PROVE  Range(b.roles) \subseteq Range(first)
    <3>1. PICK i \in DOMAIN Bindings : b = Bindings[i]
      BY DEF Range
    <3> QED
      BY <2>4, <2>5, <3>1
  <2> QED
    BY <2>4, <2>6, <2>7
<1>2. mine # {} => bound # {}
  <2>1. ASSUME NEW b \in mine
        PROVE  Range(b.roles) # {}
    <3>1. b.roles \in Seq(Range(b.roles)) /\ b.roles # <<>>
      BY RolesAssumption
    <3>2. 1 \in DOMAIN b.roles
      BY <3>1
    <3> QED
      BY <3>2 DEF Range
  <2> QED
    BY <2>1
<1>3. \E S : roles \in Seq(S) /\ Range(roles) = meant
  <2>1. PICK S : first \in Seq(S) /\ Range(first) = bound
    BY <1>1
  <2>2. first = <<>> <=> Range(first) = {}
    <3>1. first # <<>> => 1 \in DOMAIN first
      BY <2>1
    <3> QED
      BY <3>1 DEF Range
  <2>3. roles = IF first = <<>> /\ DefaultRole # NoRole THEN <<DefaultRole>> ELSE first
    BY DEF MatchedRoles
  <2>4. mine = {} => bound = {}
    OBVIOUS
  <2> HIDE DEF mine, bound, first, roles
  <2>5. CASE first = <<>> /\ DefaultRole # NoRole
    <3>1. <<DefaultRole>> \in Seq({DefaultRole}) /\ Range(<<DefaultRole>>) = {DefaultRole}
      BY DEF Range
    <3> QED
      BY <1>2, <2>1, <2>2, <2>3, <2>5, <3>1
  <2>6. CASE ~(first = <<>> /\ DefaultRole # NoRole)
    BY <1>2, <2>1, <2>2, <2>3, <2>4, <2>6
  <2> QED
    BY <2>5, <2>6
<1>4. BoundScopes(facts) = UNION {Range(RoleScopes[r]) : r \in meant \intersect DOMAIN RoleScopes}
  BY DEF BoundScopes
<1>5. ResolveScopes(facts) = FirstSeen(lists)
  BY DEF ResolveScopes
<1>6. PICK S : roles \in Seq(S) /\ Range(roles) = meant
  BY <1>3
<1> HIDE DEF roles, meant
<1> DEFINE Scopes == UNION {Range(RoleScopes[r]) : r \in DOMAIN RoleScopes}
<1>7. /\ Len(roles) \in Nat /\ DOMAIN roles = 1..Len(roles) /\ meant = {roles[i] : i \in DOMAIN roles}
  BY <1>6 DEF Range
<1>8. \A r \in DOMAIN RoleScopes : RoleScopes[r] \in Seq(Scopes)
  <2>1. ASSUME NEW r \in DOMAIN RoleScopes
        PROVE  RoleScopes[r] \in Seq(Scopes)
    <3>1. RoleScopes[r] \in Seq(Range(RoleScopes[r])) /\ Range(RoleScopes[r]) \subseteq Scopes
      BY RolesAssumption
    <3> QED
      BY <3>1, SeqMonotonic
  <2> QED
    BY <2>1
<1>9. lists \in Seq(Seq(Scopes)) /\ DOMAIN lists = DOMAIN roles
  <2>1. \A i \in 1..Len(roles) : lists[i] \in Seq(Scopes)
    BY <1>7, <1>8
  <2>2. lists = [i \in 1..Len(roles) |-> lists[i]]
    BY <1>7
  <2> HIDE DEF lists, Scopes
  <2> QED
    BY <1>7, <2>1, <2>2
<1>10. Range(ResolveScopes(facts)) = UNION {Range(lists[i]) : i \in DOMAIN roles}
  BY <1>5, <1>9, FirstSeenIs
<1>11. \A i \in DOMAIN roles : Range(lists[i])
         = IF roles[i] \in DOMAIN RoleScopes THEN Range(RoleScopes[roles[i]]) ELSE {}
  BY DEF Range
<1> HIDE DEF lists
<1>12. Range(ResolveScopes(facts)) \subseteq BoundScopes(facts)
  BY <1>4, <1>7, <1>10, <1>11
<1>13. BoundScopes(facts) \subseteq Range(ResolveScopes(facts))
  BY <1>4, <1>7, <1>10, <1>11
<1> QED
  BY <1>12, <1>13

-----------------------------------------------------------------------------
(* What the transports do to the sessions and requests a tool call looks at.  *)

(* A request is what the menu offered; one that is handled is a tool call,    *)
(* and the session it came for has been opened.                             *)
MenuInv ==
    /\ setup \in Setups
    /\ \A r \in Requests : req[r].pc # "idle" => req[r].is \in setup.menu[r]
    /\ \A r \in Requests : req[r].pc = "handling" =>
         req[r].is.kind = "call" /\ req[r].sid \in Ids /\ conn[req[r].sid] # "free"

(* The scopes of an open session are those the policy means its caller to    *)
(* have.                                                                    *)
ScopesInv == \A s \in Ids : conn[s] # "free" => Range(server[s].scopes) = server[s].due

(* What a step may do to request r.                                         *)
RequestMoves(r) ==
    /\ \A q \in Requests \ {r} : req'[q] = req[q]
    /\ req[r].pc \notin {"handling", "answered"} /\ req'[r].pc # "idle"
    /\ IF req[r].pc = "idle" THEN req'[r].is \in setup.menu[r] ELSE req'[r].is = req[r].is
    /\ req'[r].pc = "handling" =>
         req'[r].is.kind = "call" /\ req'[r].sid \in Ids /\ conn[req'[r].sid] # "free"

(* What a step may do to the sessions.                                      *)
ServersMove ==
    \A s \in Ids : IF conn[s] # "free" THEN conn'[s] # "free" /\ server'[s] = server[s]
                   ELSE conn'[s] # "free" => Range(server'[s].scopes) = server'[s].due

LEMMA AdmitMoves ==
    ASSUME SessionInv, NEW r \in Requests, NEW outcome, NEW due, req[r].pc = "auth",
           Admit(r, outcome, due), outcome.ok => due = Range(outcome.scopes)
    PROVE  RequestMoves(r) /\ ServersMove
<1>1. CASE Open(r, outcome, due) /\ outcome.ok
  <2>1. PICK s \in Ids :
          /\ conn[s] = "free" /\ conn' = [conn EXCEPT ![s] = "opening"]
          /\ server' = [server EXCEPT ![s] = [id |-> outcome.id, scopes |-> outcome.scopes,
                                             due |-> due]]
          /\ req' = [req EXCEPT ![r] = [@ EXCEPT !.pc = "connecting", !.who = outcome, !.sid = s]]
    BY <1>1 DEF Open, SessionInv, SessionShape
  <2>2. /\ req'[r].pc = "connecting" /\ req'[r].is = req[r].is
        /\ \A q \in Requests \ {r} : req'[q] = req[q]
    BY <2>1 DEF SessionInv, SessionShape, IsRequest
  <2>3. ServersMove
    BY <1>1, <2>1 DEF ServersMove, SessionInv, SessionShape
  <2> QED
    BY <2>2, <2>3 DEF RequestMoves
<1>2. CASE ~(Open(r, outcome, due) /\ outcome.ok)
  <2>1. PICK pc \in {"closing", "handling", "answered"} :
          /\ req' = [req EXCEPT ![r] = [@ EXCEPT !.pc = pc, !.who = outcome]]
          /\ pc = "handling" => Call(r, outcome)
    BY <1>2 DEF Admit, Delete, Call, Reject, SessionInv, SessionShape
  <2>2. /\ req'[r].pc = pc /\ req'[r].is = req[r].is /\ req'[r].sid = req[r].sid
        /\ \A q \in Requests \ {r} : req'[q] = req[q]
    BY <2>1 DEF SessionInv, SessionShape, IsRequest
  <2>3. Call(r, outcome) => /\ req[r].is.kind = "call" /\ req[r].sid \in Ids
                            /\ conn[req[r].sid] # "free"
    BY DEF Call, Owns, SessionInv, SessionShape, TableInv
  <2>4. server' = server /\ \A s \in Ids : conn'[s] \in {conn[s], "closed"}
    BY <1>2 DEF Admit, Delete, Call, Reject, SessionInv, SessionShape
  <2>5. ServersMove
    <3>1. \A s \in Ids : conn[s] = "free" => conn'[s] = "free"
      BY <1>2 DEF Admit, Delete, Call, Reject, Owns, SessionInv, SessionShape, TableInv
    <3> QED
      BY <2>4, <3>1 DEF ServersMove
  <2> QED
    BY <2>1, <2>2, <2>3, <2>5 DEF RequestMoves
<1> QED
  BY <1>1, <1>2

LEMMA TransportMoves ==
    ASSUME SessionInv, NEW r \in Requests, Transport(r)
    PROVE  RequestMoves(r) /\ ServersMove
<1>1. CASE Arrive(r)
  <2>1. PICK is \in setup.menu[r], s \in Ids \union {NoId} :
          req' = [req EXCEPT ![r] = [Unseen EXCEPT !.pc = "auth", !.is = is, !.sid = s]]
    BY <1>1 DEF Arrive
  <2>2. req'[r].pc = "auth" /\ req'[r].is = is /\ req[r].pc = "idle"
    <3>1. req[r].pc = "idle"
      BY <1>1 DEF Arrive, Unseen
    <3>2. req'[r] = [Unseen EXCEPT !.pc = "auth", !.is = is, !.sid = s]
      BY <2>1 DEF SessionInv, SessionShape
    <3> QED
      BY <3>1, <3>2 DEF Unseen
  <2>3. \A q \in Requests \ {r} : req'[q] = req[q]
    BY <2>1 DEF SessionInv, SessionShape
  <2>4. ServersMove
    BY <1>1 DEF Arrive, ServersMove
  <2> QED
    BY <2>2, <2>3, <2>4 DEF RequestMoves
<1>2. CASE ArriveOnStdio(r)
  <2>1. PICK is \in setup.menu[r], s \in Ids :
          /\ conn[s] = "open" /\ is.kind = "call"
          /\ req' = [req EXCEPT ![r] = [Unseen EXCEPT !.pc = "handling", !.is = is, !.sid = s,
                                          !.who = Known(server[s].id, server[s].scopes)]]
    BY <1>2 DEF ArriveOnStdio
  <2>2. req'[r].pc = "handling" /\ req'[r].is = is /\ req'[r].sid = s /\ req[r].pc = "idle"
    <3>1. req[r].pc = "idle"
      BY <1>2 DEF ArriveOnStdio, Unseen
    <3>2. req'[r] = [Unseen EXCEPT !.pc = "handling", !.is = is, !.sid = s,
                                  !.who = Known(server[s].id, server[s].scopes)]
      BY <2>1 DEF SessionInv, SessionShape
    <3> QED
      BY <3>1, <3>2 DEF Unseen
  <2>3. \A q \in Requests \ {r} : req'[q] = req[q]
    BY <2>1 DEF SessionInv, SessionShape
  <2>4. ServersMove
    BY <1>2 DEF ArriveOnStdio, ServersMove
  <2> QED
    BY <2>1, <2>2, <2>3, <2>4 DEF RequestMoves
<1>3. CASE Authenticate(r)
  BY <1>3, AdmitMoves DEF Authenticate
<1>4. CASE AuthenticateExternally(r)
  <2>1. \A x \in DOMAIN FactsOf :
          /\ Verdict[x] = Settled(FactsOf[x]) /\ Due[x] = BoundScopes(FactsOf[x])
          /\ Verdict[x].ok => Range(Verdict[x].scopes) = Due[x]
    <3>1. \A facts : Settled(facts).ok => Range(Settled(facts).scopes) = BoundScopes(facts)
      BY ScopesAsMeant DEF Settled, Denied, Known
    <3> QED
      BY <3>1 DEF Verdict, Due
  <2>2. CASE Admit(r, Denied(401), {})
    BY <1>4, <2>2, AdmitMoves DEF AuthenticateExternally, Denied
  <2>3. CASE \E x \in DOMAIN FactsOf : Admit(r, Verdict[x], Due[x])
    BY <1>4, <2>1, <2>3, AdmitMoves DEF AuthenticateExternally
  <2>4. CASE /\ req' = [req EXCEPT ![r].try = req[r].try + 1]
             /\ UNCHANGED <<table, conn, server>>
    <3>1. /\ req'[r].pc = "auth" /\ req'[r].is = req[r].is /\ req[r].pc = "auth"
          /\ \A q \in Requests \ {r} : req'[q] = req[q]
      BY <1>4, <2>4 DEF AuthenticateExternally, SessionInv, SessionShape, IsRequest
    <3>2. ServersMove
      BY <2>4 DEF ServersMove
    <3> QED
      BY <3>1, <3>2 DEF RequestMoves
  <2> QED
    BY <1>4, <2>2, <2>3, <2>4 DEF AuthenticateExternally, Verifies
<1>5. CASE Connected(r) \/ Register(r) \/ Closed(r)
  <2>1. PICK pc \in {"initializing", "answered"} : Pass(r, pc)
    BY <1>5 DEF Connected, Register, Closed
  <2>2. /\ req'[r].pc = pc /\ req'[r].is = req[r].is
        /\ req[r].pc \notin {"idle", "handling", "answered"}
        /\ \A q \in Requests \ {r} : req'[q] = req[q]
    BY <1>5, <2>1 DEF Pass, SessionInv, SessionShape, IsRequest, Connected, Register, Closed
  <2>3. /\ UNCHANGED server
        /\ \A s \in Ids : conn'[s] = conn[s] \/ (conn[s] # "free" /\ conn'[s] # "free")
    BY <1>5 DEF Connected, Register, Closed, SessionInv, SessionShape, CreationInv, Creates
  <2>4. ServersMove
    BY <2>3 DEF ServersMove
  <2> QED
    BY <2>2, <2>4 DEF RequestMoves
<1> QED
  BY <1>1, <1>2, <1>3, <1>4, <1>5 DEF Transport, RequestStep

LEMMA MenuStarts == ServiceInit => MenuInv /\ ScopesInv
<1> SUFFICES ASSUME ServiceInit PROVE MenuInv /\ ScopesInv
  OBVIOUS
<1>1. MenuInv
  BY DEF ServiceInit, SessInit, MenuInv, Unseen
<1>2. \A s \in Ids : conn[s] # "free" => server[s] = setup.open[s] /\ setup.open[s] # NoId
  BY DEF ServiceInit, SessInit
<1>3. ScopesInv
  <2>1. setup \in Setups
    BY DEF ServiceInit, SessInit
  <2> QED
    BY <1>2, <2>1, SetupsAssumption DEF ScopesInv
<1> QED
  BY <1>1, <1>3

(* A step of the whole service, as the calls and the registry see it: what    *)
(* happens to requests and sessions, and what becomes of the calls.          *)
SessionsMove ==
    /\ UNCHANGED setup /\ ServersMove
    /\ \A r \in Requests : \/ req'[r] = req[r] \/ RequestMoves(r)
                           \/ /\ req'[r].pc \in {"idle", "answered"}
                              /\ req'[r].pc = "idle" <=> req[r].pc = "idle"
                              /\ req'[r].is = req[r].is /\ req'[r].sid = req[r].sid

LEMMA SessionsStep ==
    ASSUME SessionInv, [ServiceNext]_serviceVars
    PROVE  SessionsMove
<1>1. ASSUME NEW r \in Requests, Transport(r)
      PROVE  SessionsMove
  <2>1. UNCHANGED setup
    BY <1>1, TransportEnd
  <2>2. RequestMoves(r) /\ ServersMove
    BY <1>1, TransportMoves
  <2>3. \A q \in Requests \ {r} : req'[q] = req[q]
    BY <2>2 DEF RequestMoves
  <2> QED
    BY <2>1, <2>2, <2>3 DEF SessionsMove
<1>2. CASE UNCHANGED <<setup, conn, server, req>>
  BY <1>2 DEF SessionsMove, ServersMove
<1>3. ASSUME NEW r \in Requests, Respond(r)
      PROVE  SessionsMove
  <2>1. /\ req'[r].pc = "answered" /\ req'[r].is = req[r].is /\ req'[r].sid = req[r].sid
        /\ req[r].pc # "idle" /\ \A q \in Requests \ {r} : req'[q] = req[q]
    BY <1>3 DEF Respond, Pass, SessionInv, SessionShape, IsRequest
  <2>2. UNCHANGED <<setup, conn, server>>
    BY <1>3 DEF Respond
  <2> QED
    BY <2>1, <2>2 DEF SessionsMove, ServersMove
<1>4. CASE HttpCloseNext
  <2>1. UNCHANGED <<setup, server, req>>
    BY <1>4 DEF HttpCloseNext
  <2>2. \A s \in Ids : conn'[s] = conn[s] \/ (conn[s] # "free" /\ conn'[s] # "free")
    BY <1>4 DEF HttpCloseNext, SessionInv, SessionShape, TableInv
  <2> QED
    BY <2>1, <2>2 DEF SessionsMove, ServersMove
<1>5. CASE Restart
  <2>1. UNCHANGED <<setup, server>>
    BY <1>5 DEF Restart, Crash
  <2>2. \A s \in Ids : conn'[s] = conn[s] \/ (conn[s] # "free" /\ conn'[s] # "free")
    BY <1>5 DEF Restart, Crash
  <2>3. \A r \in Requests : /\ req'[r].pc \in {"idle", "answered"}
                            /\ req'[r].pc = "idle" <=> req[r].pc = "idle"
                            /\ req'[r].is = req[r].is /\ req'[r].sid = req[r].sid
    BY <1>5 DEF Restart, Crash, SessionInv, SessionShape, IsRequest
  <2> QED
    BY <2>1, <2>2, <2>3 DEF SessionsMove, ServersMove
<1> QED
  BY <1>1, <1>2, <1>3, <1>4, <1>5 DEF ServiceNext, Handler, BeginTool, ToolStep, End, Ending,
     HttpSignal, HttpClose, HttpExit, Trigger, CleanupEnds, GraceOver, LoopEmpties, Exits,
     World, Expire, sessVars, serviceVars

LEMMA MenuKept ==
    ASSUME MenuInv, ScopesInv, SessionsMove
    PROVE  MenuInv' /\ ScopesInv'
<1>1. ScopesInv'
  BY DEF ScopesInv, SessionsMove, ServersMove
<1>2. ASSUME NEW r \in Requests
      PROVE  /\ req'[r].pc # "idle" => req'[r].is \in setup'.menu[r]
             /\ req'[r].pc = "handling" =>
                  req'[r].is.kind = "call" /\ req'[r].sid \in Ids /\ conn'[req'[r].sid] # "free"
  <2>1. CASE req'[r] = req[r]
    BY <2>1 DEF MenuInv, SessionsMove, ServersMove
  <2>2. CASE RequestMoves(r)
    BY <2>2 DEF MenuInv, SessionsMove, ServersMove, RequestMoves
  <2>3. CASE req'[r] # req[r] /\ ~RequestMoves(r)
    BY <2>3 DEF MenuInv, SessionsMove
  <2> QED
    BY <2>1, <2>2, <2>3
<1> QED
  BY <1>1, <1>2 DEF MenuInv, SessionsMove

-----------------------------------------------------------------------------
(* The steps of a call.                                                     *)

IsCall(k) == k \in [pc : {k.pc}, req : {k.req}, by : {k.by}, page : {k.page}, row : {k.row},
                    held : {k.held}, answer : {k.answer}, appended : {k.appended}]

(* A call that has not ended has answered nothing.                          *)
CallInv ==
    /\ call = [c \in Calls |-> call[c]]
    /\ \A c \in Calls : /\ IsCall(call[c])
                        /\ call[c].pc = "idle" => call[c] = NotBegun
                        /\ call[c].pc # "done" => call[c].answer = "none" /\ ~call[c].appended

(* A step of call c that has begun, which leaves its request as it is.       *)
CallMoves(c) ==
    /\ call' = [d \in Calls |-> call'[d]] /\ \A d \in Calls \ {c} : call'[d] = call[d]
    /\ call[c].pc \notin {"idle", "done"}
    /\ IsCall(call'[c]) /\ call'[c].pc # "idle" /\ call'[c].req = call[c].req
    /\ call'[c].pc # "done" => call'[c].answer = "none" /\ ~call'[c].appended

(* Call c begins for the request k of `who`.                                *)
CallBegins(c, k, who) ==
    /\ call' = [d \in Calls |-> call'[d]] /\ \A d \in Calls \ {c} : call'[d] = call[d]
    /\ call[c].pc = "idle"
    /\ IsCall(call'[c]) /\ call'[c].pc \in {"request", "dns", "local", "done"}
    /\ ~call'[c].appended
    /\ call'[c].pc # "done" => call'[c].answer = "none"
    /\ call'[c].answer \notin {"thrown", "unknown"} =>
         LET q == call'[c].req IN
         /\ q.op = k.op /\ MayFetch(who, q.source, q.target)
         /\ k.op = "cite" => q.source = k.source /\ q.target = k.target /\ Preflight(k, who)
         /\ k.op # "cite" => call'[c].row \in DOMAIN rows

LEMMA SetCall ==
    ASSUME CallInv, NEW c \in Calls, NEW k, IsCall(k), k.req = call[c].req, k.pc # "idle",
           k.pc # "done" => k.answer = "none" /\ ~k.appended,
           call[c].pc \notin {"idle", "done"}, call' = [call EXCEPT ![c] = k]
    PROVE  CallMoves(c)
BY DEF CallMoves, CallInv

LEMMA DoneMoves ==
    ASSUME CallInv, NEW c \in Calls, call[c].pc \notin {"idle", "done"}, NEW answer,
           \/ call' = Done(c, answer)
           \/ \E n : call' = [Done(c, answer) EXCEPT ![c].row = n]
           \/ call' = [Done(c, answer) EXCEPT ![c].appended = TRUE]
    PROVE  CallMoves(c)
<1> DEFINE k == [call[c] EXCEPT !.pc = "done", !.answer = answer, !.page = <<>>, !.held = <<>>]
<1>1. Done(c, answer) = [call EXCEPT ![c] = k]
  BY DEF Done, CallInv
<1>2. IsCall(k) /\ k.req = call[c].req /\ k.pc = "done"
  BY DEF CallInv, IsCall
<1> HIDE DEF k
<1>3. CASE call' = Done(c, answer)
  BY <1>1, <1>2, <1>3, SetCall
<1>4. ASSUME NEW n, call' = [Done(c, answer) EXCEPT ![c].row = n]
      PROVE  CallMoves(c)
  <2> DEFINE m == [k EXCEPT !.row = n]
  <2>1. call' = [call EXCEPT ![c] = m]
    BY <1>1, <1>4 DEF CallInv
  <2>2. IsCall(m) /\ m.req = call[c].req /\ m.pc = "done"
    BY <1>2 DEF IsCall
  <2> HIDE DEF m
  <2> QED
    BY <2>1, <2>2, SetCall
<1>5. ASSUME call' = [Done(c, answer) EXCEPT ![c].appended = TRUE]
      PROVE  CallMoves(c)
  <2> DEFINE m == [k EXCEPT !.appended = TRUE]
  <2>1. call' = [call EXCEPT ![c] = m]
    BY <1>1, <1>5 DEF CallInv
  <2>2. IsCall(m) /\ m.req = call[c].req /\ m.pc = "done"
    BY <1>2 DEF IsCall
  <2> HIDE DEF m
  <2> QED
    BY <2>1, <2>2, SetCall
<1> QED
  BY <1>3, <1>4, <1>5

LEMMA AwaitMoves ==
    ASSUME CallInv, NEW c \in Calls, call[c].pc \notin {"idle", "done"},
           NEW pc \in {"request", "commit"}, Await(c, pc)
    PROVE  CallMoves(c)
<1> DEFINE k == [call[c] EXCEPT !.pc = pc]
<1>1. call' = [call EXCEPT ![c] = k]
  BY DEF Await, CallInv
<1>2. IsCall(k) /\ k.req = call[c].req /\ k.pc = pc /\ k.answer = "none" /\ ~k.appended
  BY DEF CallInv, IsCall
<1> HIDE DEF k
<1> QED
  BY <1>1, <1>2, SetCall

LEMMA FetchedMoves ==
    ASSUME CallInv, NEW c \in Calls, call[c].pc \notin {"idle", "done"}, NEW page,
           Fetched(c, page)
    PROVE  CallMoves(c)
<1>1. CASE NotQuoted(c, page) \/ Unformatted(c, page) \/ CitedOnly(c, page) \/ Reverified(c, page)
  BY <1>1, DoneMoves DEF NotQuoted, Unformatted, CitedOnly, Reverified, Answer, Throw
<1>2. CASE CitedInto(c, page)
  <2> DEFINE ours == [call EXCEPT ![c].row = Len(rows) + 1]
             n    == Len(rows) + 1
             text == BuildCitationAppend(docs[FileOf[call[c].req.target]],
                                         Reference(NewRow(call[c].req, page, "verified")))
  <2>1. \/ call' = [ours EXCEPT ![c].pc = "done", ![c].answer = "thrown", ![c].page = <<>>]
        \/ call' = [ours EXCEPT ![c].pc = "branch", ![c].held = text, ![c].page = <<>>]
        \/ call' = [ours EXCEPT ![c].pc = "done", ![c].answer = "verified",
                                ![c].appended = TRUE, ![c].page = <<>>]
    BY <1>2 DEF CitedInto
  <2> HIDE DEF text
  <2> DEFINE k1 == [call[c] EXCEPT !.row = n, !.pc = "done", !.answer = "thrown", !.page = <<>>]
             k2 == [call[c] EXCEPT !.row = n, !.pc = "branch", !.held = text, !.page = <<>>]
             k3 == [call[c] EXCEPT !.row = n, !.pc = "done", !.answer = "verified",
                                   !.appended = TRUE, !.page = <<>>]
  <2>2. \/ call' = [call EXCEPT ![c] = k1]
        \/ call' = [call EXCEPT ![c] = k2]
        \/ call' = [call EXCEPT ![c] = k3]
    BY <2>1 DEF CallInv
  <2>3. /\ IsCall(k1) /\ k1.req = call[c].req /\ k1.pc = "done"
        /\ IsCall(k3) /\ k3.req = call[c].req /\ k3.pc = "done"
    BY DEF CallInv, IsCall
  <2>4. /\ IsCall(k2) /\ k2.req = call[c].req /\ k2.pc = "branch"
        /\ k2.answer = "none" /\ ~k2.appended
    BY DEF CallInv, IsCall
  <2> HIDE DEF k1, k2, k3
  <2> QED
    BY <2>2, <2>3, <2>4, SetCall
<1> QED
  BY <1>1, <1>2 DEF Fetched

LEMMA CiteStepMoves ==
    ASSUME CallInv, NEW c \in Calls, CiteStep(c)
    PROVE  CallMoves(c)
<1>1. CASE DnsAnswers(c)
  BY <1>1, DoneMoves, AwaitMoves DEF DnsAnswers, Answer
<1>2. CASE HeadersArrive(c)
  <2>1. CASE call' = [call EXCEPT ![c].pc = "body", ![c].page = source[call[c].req.source]]
    <3> DEFINE p == source[call[c].req.source]
    <3> HIDE DEF p
    <3> DEFINE k == [call[c] EXCEPT !.pc = "body", !.page = p]
    <3>1. call' = [call EXCEPT ![c] = k]
      BY <2>1 DEF CallInv, p
    <3>2. IsCall(k) /\ k.req = call[c].req /\ k.pc = "body" /\ k.answer = "none" /\ ~k.appended
      BY <1>2 DEF CallInv, IsCall, HeadersArrive
    <3> HIDE DEF k
    <3> QED
      BY <1>2, <3>1, <3>2, SetCall DEF HeadersArrive
  <2>2. CASE \E reason : Answer(c, reason)
    BY <1>2, <2>2, DoneMoves DEF HeadersArrive, Answer
  <2> QED
    BY <1>2, <2>1, <2>2 DEF HeadersArrive
<1>3. CASE BodyArrives(c)
  BY <1>3, DoneMoves, FetchedMoves DEF BodyArrives, Answer, Throw
<1>4. CASE FileRead(c)
  BY <1>4, DoneMoves, FetchedMoves DEF FileRead, Answer
<1>5. CASE BranchKnown(c)
  BY <1>5, DoneMoves, AwaitMoves DEF BranchKnown, Throw
<1>6. CASE Committed(c)
  BY <1>6, DoneMoves DEF Committed, Throw
<1> QED
  BY <1>1, <1>2, <1>3, <1>4, <1>5, <1>6 DEF CiteStep

(* A request of a tool call, before and after its etag is filled in.          *)
IsCite(k) == k \in [op : {k.op}, source : {k.source}, quote : {k.quote}, target : {k.target},
                    etag : {k.etag}, force : {k.force}]

LEMMA StartMoves ==
    ASSUME CallInv, NEW c \in Calls, NEW r, IsCite(r), NEW who, NEW id,
           call[c] = NotBegun, StartFetch(c, r, who, id)
    PROVE  /\ call' = [d \in Calls |-> call'[d]] /\ \A d \in Calls \ {c} : call'[d] = call[d]
           /\ IsCall(call'[c]) /\ call'[c].pc \in {"request", "dns", "local", "done"}
           /\ ~call'[c].appended
           /\ call'[c].pc # "done" => call'[c].answer = "none"
           /\ call'[c].row = id /\ call'[c].req.op = r.op /\ call'[c].req.source = r.source
           /\ call'[c].req.target = r.target
<1> DEFINE etag == EtagOf(r)
           q == [r EXCEPT !.etag = etag]
           started(pc) == [NotBegun EXCEPT !.pc = pc, !.req = q, !.by = who, !.row = id]
           ended(answer) == [started("done") EXCEPT !.answer = answer]
<1> HIDE DEF etag
<1>1. \/ \E answer : call' = [call EXCEPT ![c] = ended(answer)]
      \/ \E pc \in {"request", "dns", "local"} : call' = [call EXCEPT ![c] = started(pc)]
  BY DEF StartFetch, Web, etag
<1>2. q.op = r.op /\ q.source = r.source /\ q.target = r.target
  BY DEF IsCite
<1> HIDE DEF q
<1>3. ASSUME NEW answer, call' = [call EXCEPT ![c] = ended(answer)]
      PROVE  /\ IsCall(call'[c]) /\ call'[c].pc = "done" /\ ~call'[c].appended
             /\ call'[c].row = id /\ call'[c].req = q
  <2>1. call'[c] = ended(answer)
    BY <1>3 DEF CallInv
  <2>2. /\ IsCall(ended(answer)) /\ ended(answer).pc = "done" /\ ~ended(answer).appended
        /\ ended(answer).row = id /\ ended(answer).req = q
    BY DEF IsCall, NotBegun
  <2> QED
    BY <2>1, <2>2
<1>4. ASSUME NEW pc, call' = [call EXCEPT ![c] = started(pc)]
      PROVE  /\ IsCall(call'[c]) /\ call'[c].pc = pc /\ ~call'[c].appended
             /\ call'[c].row = id /\ call'[c].req = q /\ call'[c].answer = "none"
  <2>1. call'[c] = started(pc)
    BY <1>4 DEF CallInv
  <2>2. /\ IsCall(started(pc)) /\ started(pc).pc = pc /\ ~started(pc).appended
        /\ started(pc).row = id /\ started(pc).req = q /\ started(pc).answer = "none"
    BY DEF IsCall, NotBegun
  <2> QED
    BY <2>1, <2>2
<1>5. call' = [d \in Calls |-> call'[d]] /\ \A d \in Calls \ {c} : call'[d] = call[d]
  BY <1>1 DEF CallInv
<1> QED
  BY <1>1, <1>2, <1>3, <1>4, <1>5

LEMMA BeginMoves ==
    ASSUME CallInv, NEW c \in Calls, NEW k, IsCite(k), NEW who, Begin(c, k, who)
    PROVE  CallBegins(c, k, who)
<1>1. call[c] = NotBegun /\ call[c].pc = "idle"
  <2>1. call[c] = NotBegun
    BY DEF Begin, Submit, Refuse, Reverify, RefuseReverify
  <2> QED
    BY <2>1 DEF NotBegun
<1>2. CASE Submit(c, k, who)
  <2>1. StartFetch(c, k, who, 0) /\ Preflight(k, who) /\ k.op = "cite"
    BY <1>2 DEF Submit
  <2>2. MayFetch(who, k.source, k.target)
    BY <2>1 DEF Preflight
  <2> QED
    BY <1>1, <2>1, <2>2, StartMoves DEF CallBegins
<1>3. CASE Reverify(c, k, who)
  <2>1. PICK id \in DOMAIN rows :
          /\ MayFetch(who, rows[id].uri, rows[id].target)
          /\ StartFetch(c, [k EXCEPT !.source = rows[id].uri, !.quote = rows[id].quote,
                                     !.target = rows[id].target], who, id)
    BY <1>3 DEF Reverify
  <2> DEFINE uri == rows[id].uri
             quote == rows[id].quote
             target == rows[id].target
             m == [k EXCEPT !.source = uri, !.quote = quote, !.target = target]
  <2> HIDE DEF uri, quote, target
  <2>2. IsCite(m) /\ m.op = k.op /\ m.source = uri /\ m.target = target
    BY DEF IsCite
  <2>3. StartFetch(c, m, who, id)
    BY <2>1 DEF uri, quote, target
  <2> HIDE DEF m
  <2>4. k.op = "reverify" /\ MayFetch(who, uri, target)
    BY <1>3, <2>1 DEF Reverify, uri, target
  <2> QED
    BY <1>1, <2>1, <2>2, <2>3, <2>4, StartMoves DEF CallBegins
<1>4. CASE Refuse(c, k, who) \/ RefuseReverify(c, k, who)
  <2>1. PICK answer \in {"thrown", "unknown"} :
          call' = [call EXCEPT ![c] = [NotBegun EXCEPT !.pc = "done", !.req = k, !.by = who,
                                                       !.answer = answer]]
    BY <1>4 DEF Refuse, RefuseReverify
  <2> DEFINE m == [NotBegun EXCEPT !.pc = "done", !.req = k, !.by = who, !.answer = answer]
  <2>2. IsCall(m) /\ m.pc = "done" /\ m.answer = answer /\ ~m.appended
    BY DEF IsCall, NotBegun
  <2>3. call' = [call EXCEPT ![c] = m]
    BY <2>1
  <2> HIDE DEF m
  <2>4. /\ call' = [d \in Calls |-> call'[d]] /\ \A d \in Calls \ {c} : call'[d] = call[d]
        /\ call'[c] = m
    BY <2>3 DEF CallInv
  <2> QED
    BY <1>1, <2>2, <2>4 DEF CallBegins
<1> QED
  BY <1>2, <1>3, <1>4 DEF Begin

(* The process ends, and with it the calls under way.                       *)
CallsLost ==
    /\ call' = [d \in Calls |-> call'[d]]
    /\ \A d \in Calls :
         \/ call'[d] = call[d] /\ call[d].pc \in {"idle", "done"}
         \/ /\ call[d].pc \notin {"idle", "done"} /\ call'[d].pc = "done" /\ IsCall(call'[d])
            /\ call'[d].req = call[d].req /\ call'[d].answer = "lost"
            /\ call'[d].appended = call[d].appended

LEMMA LostCalls ==
    ASSUME CallInv, ProcessEnds
    PROVE  CallsLost
<1>1. call' = [d \in Calls |-> Lost(call[d])]
  BY DEF ProcessEnds
<1>2. ASSUME NEW d \in Calls, call[d].pc \notin {"idle", "done"}
      PROVE  LET k == Lost(call[d]) IN
             /\ k.pc = "done" /\ IsCall(k) /\ k.req = call[d].req /\ k.answer = "lost"
             /\ k.appended = call[d].appended
  BY <1>2 DEF Lost, CallInv, IsCall
<1> QED
  BY <1>1, <1>2 DEF CallsLost, Lost

(* What a step of the service may be to the calls.                          *)
CallsMove ==
    \/ UNCHANGED call
    \/ \E c \in Calls : CiteStep(c) /\ CallMoves(c) /\ UNCHANGED sessVars
    \/ \E c \in Calls : /\ req[c].pc = "handling" /\ UNCHANGED sessVars
                        /\ Begin(c, req[c].is.cite, Who(req[c].sid))
                        /\ CallBegins(c, req[c].is.cite, Who(req[c].sid))
    \/ CallsLost

LEMMA CallsStep ==
    ASSUME CallInv, MenuInv, [ServiceNext]_serviceVars
    PROVE  CallsMove
<1>1. ASSUME NEW r \in Requests, BeginTool(r)
      PROVE  CallsMove
  <2>1. req[r].is \in setup.menu[r] /\ setup \in Setups /\ req[r].is.kind = "call"
    BY <1>1 DEF BeginTool, MenuInv
  <2>2. IsCite(req[r].is.cite)
    BY <2>1, MenusAssumption DEF IsCite
  <2>3. CallBegins(r, req[r].is.cite, Who(req[r].sid))
    BY <1>1, <2>2, BeginMoves, OneCallEach DEF BeginTool
  <2> QED
    BY <1>1, <2>3, OneCallEach DEF CallsMove, BeginTool
<1>2. ASSUME NEW r \in Requests, ToolStep(r)
      PROVE  CallsMove
  BY <1>2, CiteStepMoves, OneCallEach DEF CallsMove, ToolStep
<1>3. CASE ProcessEnds
  BY <1>3, LostCalls DEF CallsMove
<1>4. CASE UNCHANGED call
  BY <1>4 DEF CallsMove
<1> QED
  BY <1>1, <1>2, <1>3, <1>4 DEF ServiceNext, Handler, Transport, Respond, End, Restart, World,
     Tick, SourceChanges, OtherEdit, citeVars, serviceVars

LEMMA CallStarts == ServiceInit => CallInv
<1>1. IsCall(NotBegun) /\ NotBegun.answer = "none" /\ ~NotBegun.appended
  BY DEF NotBegun, IsCall
<1>2. ServiceInit => call = [c \in Calls |-> NotBegun]
  BY DEF ServiceInit, CiteInit
<1> QED
  BY <1>1, <1>2 DEF CallInv

LEMMA CallKept ==
    ASSUME CallInv, CallsMove
    PROVE  CallInv'
<1>1. CASE UNCHANGED call
  BY <1>1 DEF CallInv, IsCall
<1>2. ASSUME NEW c \in Calls, CallMoves(c)
      PROVE  CallInv'
  BY <1>2 DEF CallInv, CallMoves, IsCall
<1>3. ASSUME NEW c \in Calls, NEW k, NEW who, CallBegins(c, k, who)
      PROVE  CallInv'
  <2>1. /\ call' = [d \in Calls |-> call'[d]] /\ \A d \in Calls \ {c} : call'[d] = call[d]
        /\ IsCall(call'[c]) /\ call'[c].pc # "idle"
        /\ call'[c].pc # "done" => call'[c].answer = "none" /\ ~call'[c].appended
    BY <1>3 DEF CallBegins
  <2> QED
    BY <2>1 DEF CallInv, IsCall
<1>4. CASE CallsLost
  BY <1>4 DEF CallInv, CallsLost, IsCall
<1> QED
  BY <1>1, <1>2, <1>3, <1>4 DEF CallsMove

-----------------------------------------------------------------------------
(* Only what the roles allow.                                               *)

Rights(r) ==
    LET k == call[r].req IN
    /\ May(r, IF Web(k.source) THEN "cite_web" ELSE "cite", k.target)
    /\ Kind[k.source] \in {"file", "managed"} => May(r, "read", k.source)
    /\ k.op = "cite" /\ k.target # NoTarget => May(r, "write", k.target)

(* A call that has begun is that of a request which is in the hands of its    *)
(* session, or has been.                                                    *)
BegunInv ==
    \A r \in Requests : call[r].pc # "idle" =>
        req[r].pc \in {"handling", "answered"} /\ req[r].sid \in Ids /\ conn[req[r].sid] # "free"

RightsInv ==
    \A r \in Requests : call[r].pc # "idle" /\ call[r].answer \notin {"thrown", "unknown"}
                          => Rights(r)

LEMMA GrantedMay ==
    ASSUME ScopesInv, NEW r \in Requests, req[r].sid \in Ids, conn[req[r].sid] # "free",
           NEW permission, NEW path, <<permission, path>> \in Who(req[r].sid).perms
    PROVE  May(r, permission, path)
<1>1. CheckPermission(server[req[r].sid].scopes, permission, path)
  BY DEF Who, Granted
<1> QED
  BY <1>1 DEF CheckPermission, May, ScopesInv

LEMMA BeginRights ==
    ASSUME ScopesInv, NEW r \in Requests, req[r].sid \in Ids, conn[req[r].sid] # "free",
           NEW k, CallBegins(r, k, Who(req[r].sid)),
           call'[r].answer \notin {"thrown", "unknown"}, UNCHANGED <<req, server>>
    PROVE  Rights(r)'
<1> DEFINE q == call'[r].req
           who == Who(req[r].sid)
<1>1. /\ q.op = k.op /\ MayFetch(who, q.source, q.target)
      /\ k.op = "cite" => q.source = k.source /\ q.target = k.target /\ Preflight(k, who)
  BY DEF CallBegins
<1>2. \A permission, path : <<permission, path>> \in who.perms => May(r, permission, path)
  BY GrantedMay
<1>3. \A permission, path : May(r, permission, path) => May(r, permission, path)'
  BY DEF May
<1> HIDE DEF q, who
<1>4. /\ May(r, IF Web(q.source) THEN "cite_web" ELSE "cite", q.target)
      /\ Kind[q.source] \in {"file", "managed"} => May(r, "read", q.source)
      /\ q.op = "cite" /\ q.target # NoTarget => May(r, "write", q.target)
  BY <1>1, <1>2 DEF MayFetch, Preflight
<1> QED
  BY <1>3, <1>4 DEF Rights, q

LEMMA RightsStay ==
    ASSUME BegunInv, RightsInv, SessionsMove, NEW r \in Requests, call[r].pc # "idle",
           call[r].answer \notin {"thrown", "unknown"}, call'[r].req = call[r].req
    PROVE  Rights(r)'
<1>1. req'[r].sid = req[r].sid /\ server'[req[r].sid] = server[req[r].sid]
  BY DEF BegunInv, SessionsMove, ServersMove, RequestMoves
<1>2. \A permission, path : May(r, permission, path) => May(r, permission, path)'
  BY <1>1 DEF May
<1>3. Rights(r)
  BY DEF RightsInv
<1> QED
  BY <1>2, <1>3 DEF Rights

LEMMA RightsKept ==
    ASSUME MenuInv, ScopesInv, CallInv, BegunInv, RightsInv, SessionsMove, CallsMove
    PROVE  BegunInv' /\ RightsInv'
<1>1. ASSUME NEW r \in Requests, req[r].pc \in {"handling", "answered"}, req[r].sid \in Ids,
             conn[req[r].sid] # "free"
      PROVE  /\ req'[r].pc \in {"handling", "answered"} /\ req'[r].sid \in Ids
             /\ conn'[req'[r].sid] # "free"
  BY <1>1 DEF SessionsMove, ServersMove, RequestMoves
<1>2. ASSUME \A r \in Requests : \/ call'[r].pc # "idle" => call[r].pc # "idle"
                                 \/ req[r].pc = "handling"
      PROVE  BegunInv'
  BY <1>1, <1>2 DEF BegunInv, MenuInv
<1>3. ASSUME NEW c \in Calls, CallMoves(c)
      PROVE  BegunInv' /\ RightsInv'
  <2>1. \A r \in Requests : /\ call'[r].pc # "idle" => call[r].pc # "idle"
                            /\ call'[r].req = call[r].req
                            /\ call'[r] = call[r] \/ call[r].answer = "none"
    BY <1>3, OneCallEach DEF CallMoves, CallInv
  <2> QED
    BY <1>2, <2>1, RightsStay DEF RightsInv
<1>4. CASE UNCHANGED call
  BY <1>2, <1>4, RightsStay DEF RightsInv
<1>5. ASSUME NEW c \in Calls, NEW k, req[c].pc = "handling", UNCHANGED sessVars,
             CallBegins(c, k, Who(req[c].sid))
      PROVE  BegunInv' /\ RightsInv'
  <2>1. \A r \in Requests \ {c} : call'[r] = call[r]
    BY <1>5, OneCallEach DEF CallBegins
  <2>2. BegunInv'
    BY <1>2, <1>5, <2>1
  <2>3. call'[c].answer \notin {"thrown", "unknown"} => Rights(c)'
    BY <1>5, BeginRights, OneCallEach DEF MenuInv, sessVars
  <2>4. \A r \in Requests \ {c} : call'[r].pc # "idle" /\ call'[r].answer \notin {"thrown", "unknown"}
          => Rights(r)'
    BY <2>1, RightsStay
  <2> QED
    BY <2>2, <2>3, <2>4 DEF RightsInv
<1>6. CASE CallsLost
  <2>1. \A r \in Requests : /\ call'[r].pc # "idle" => call[r].pc # "idle"
                            /\ call'[r].req = call[r].req
                            /\ call'[r] = call[r] \/ call[r].answer = "none"
    BY <1>6, OneCallEach DEF CallsLost, CallInv
  <2> QED
    BY <1>2, <2>1, RightsStay DEF RightsInv
<1> QED
  BY <1>3, <1>4, <1>5, <1>6 DEF CallsMove

(* What holds of sessions and calls together.                               *)
ServingInv == SessionInv /\ MenuInv /\ ScopesInv /\ CallInv /\ BegunInv /\ RightsInv

LEMMA ServingStarts == ServiceInit => ServingInv
<1>1. ServiceInit => BegunInv /\ RightsInv
  BY OneCallEach DEF ServiceInit, CiteInit, BegunInv, RightsInv, NotBegun
<1> QED
  BY <1>1, SessionStarts, MenuStarts, CallStarts DEF ServingInv

LEMMA ServingKept ==
    ASSUME ServingInv, [ServiceNext]_serviceVars
    PROVE  ServingInv'
<1>1. SessionsMove /\ CallsMove
  BY SessionsStep, CallsStep DEF ServingInv
<1> QED
  BY <1>1, SessionKept, MenuKept, CallKept, RightsKept DEF ServingInv

(* No call fetches a source, stores a row or writes a line unless a binding   *)
(* of its caller's identity, or default_role where none is its own, has the   *)
(* permission for it: to cite, to write, and to read a source whose path lies *)
(* in a root as it is written; for any configuration of roles and callers,    *)
(* any number of sessions and requests, whatever session ids they come with. *)
(* (roles.ts resolveScopes, bin.ts createServer, doc-cite.ts:97-134.)        *)
THEOREM WithinRoles == ServiceSpec => []CitesWithinRoles
<1>1. ServingInv => CitesWithinRoles
  BY DEF ServingInv, RightsInv, Rights, CitesWithinRoles
<1> QED
  BY ServingStarts, ServingKept, <1>1, PTL DEF ServiceSpec

-----------------------------------------------------------------------------
(* The rate limiter.                                                        *)

Ascending(times) ==
    times \in Seq(Nat) /\ \A i, j \in 1..Len(times) : i <= j => times[i] <= times[j]

(* b is what is left of g without its first j elements.                     *)
Without(b, g, j) ==
    b \in Seq(Nat) /\ Len(b) = Len(g) - j /\ \A i \in 1..Len(b) : b[i] = g[j + i]

(* Of ascending times the recent ones are the last ones.                    *)
LEMMA RecentIs ==
    ASSUME now \in Nat, NEW times, Ascending(times)
    PROVE  \E m \in 0..Len(times) :
              /\ Without(Recent(times), times, m)
              /\ \A i \in 1..m : times[i] <= now - Window
<1> DEFINE n == Len(times)
           Op(kept, t) == IF t > now - Window THEN Append(kept, t) ELSE kept
           Eq(it) == it = [s \in SUBSET (1..n) |->
                      IF s = {} THEN <<>> ELSE Op(it[s \ {Max(s)}], times[Max(s)])]
           iter == CHOOSE it : Eq(it)
           G(V) == [x \in V \X (1..n) |-> Op(x[1], times[x[2]])]
           V == Seq(Nat) \union {iter[s] : s \in SUBSET (1..n)}
           Left(k, v, m) == /\ Len(v) = k - m /\ \A i \in 1..Len(v) : v[i] = times[m + i]
                            /\ \A i \in 1..m : times[i] <= now - Window
                            /\ \A i \in m + 1..k : times[i] > now - Window
           P == {x \in Nat \X Seq(Nat) : \E m \in 0..x[1] : Left(x[1], x[2], m)}
<1>1. \A k \in Nat, v \in Seq(Nat) : (\E m \in 0..k : Left(k, v, m)) <=> <<k, v>> \in P
  OBVIOUS
<1>2. n \in Nat /\ DOMAIN times = 1..n /\ \A i \in 1..n : times[i] \in Nat
  BY DEF Ascending
<1>3. Recent(times) = iter[1..n]
  BY <1>2, Zenon DEF Recent, FoldLeft, MapThenFoldSet
<1>4. \A kept \in Seq(Nat), t \in Nat : Op(kept, t) \in Seq(Nat)
  OBVIOUS
<1> HIDE DEF iter, n, Op
<1>5. \E it : Eq(it)
  <2>1. PICK it : FoldOf(it, <<>>, G(Seq(Nat)), n) /\ it \in [SUBSET (1..n) -> Seq(Nat)]
    <3>1. G(Seq(Nat)) \in [Seq(Nat) \X (1..n) -> Seq(Nat)]
      <4> DEFINE Times == Seq(Nat)
      <4>1. \A kept \in Times, i \in 1..n : Op(kept, times[i]) \in Times
        BY <1>2, <1>4
      <4> HIDE DEF Times
      <4>2. G(Times) \in [Times \X (1..n) -> Times]
        BY <4>1
      <4> QED
        BY <4>2 DEF Times
    <3>2. <<>> \in Seq(Nat)
      OBVIOUS
    <3> HIDE DEF G
    <3> QED
      BY <1>2, <3>1, <3>2, FoldExists
  <2>2. ASSUME NEW s \in SUBSET (1..n), s # {}
        PROVE  G(Seq(Nat))[<<it[s \ {Max(s)}], Max(s)>>] = Op(it[s \ {Max(s)}], times[Max(s)])
    <3>1. Max(s) \in 1..n
      BY <2>2, <1>2, MaxExists
    <3> QED
      BY <3>1, <2>1
  <2> QED
    BY <2>1, <2>2 DEF FoldOf
<1>6. FoldOf(iter, <<>>, G(V), n)
  <2>1. Eq(iter)
    BY <1>5, Zenon DEF iter
  <2>2. ASSUME NEW s \in SUBSET (1..n), s # {}
        PROVE  G(V)[<<iter[s \ {Max(s)}], Max(s)>>] = Op(iter[s \ {Max(s)}], times[Max(s)])
    <3>1. Max(s) \in 1..n
      BY <2>2, <1>2, MaxExists
    <3> QED
      BY <3>1
  <2> QED
    BY <2>1, <2>2 DEF FoldOf
<1>7. <<0, <<>>>> \in P
  <2> DEFINE none == <<>>
  <2>1. none \in Seq(Nat) /\ Len(none) = 0
    OBVIOUS
  <2> HIDE DEF none
  <2>2. Left(0, none, 0)
    <3>1. 1..0 = {} /\ 0 + 1..0 = {} /\ 0 - 0 = 0
      OBVIOUS
    <3> QED
      BY <2>1, <3>1, Zenon
  <2> HIDE DEF P, Left
  <2>3. <<0, none>> \in P
    <3>1. 0 \in Nat /\ 0 \in 0..0
      OBVIOUS
    <3> QED
      BY <1>1, <2>1, <2>2, <3>1, Zenon
  <2> QED
    BY <2>3 DEF none
<1>8. ASSUME NEW k \in Nat, NEW v, k + 1 <= n, <<k, v>> \in P
      PROVE  <<k + 1, G(V)[<<v, k + 1>>]>> \in P
  <2>1. v \in Seq(Nat) /\ k + 1 \in Nat /\ k + 1 \in 1..n
    BY <1>8
  <2>2. PICK m \in 0..k : Left(k, v, m)
    BY <1>8
  <2> DEFINE t == times[k + 1]
             w == Op(v, t)
  <2>3. G(V)[<<v, k + 1>>] = w
    BY <2>1
  <2>4. w \in Seq(Nat) /\ t \in Nat
    BY <1>2, <1>4, <2>1
  <2>5. \E d \in 0..k + 1 : Left(k + 1, w, d)
    <3>1. CASE t > now - Window
      <4>1. w = Append(v, t)
        BY <3>1 DEF Op
      <4>2. Left(k + 1, w, m)
        <5>1. /\ Len(w) = Len(v) + 1 /\ w[Len(v) + 1] = t
              /\ \A i \in 1..Len(v) : w[i] = v[i]
          BY <4>1, <2>1
        <5> HIDE DEF w
        <5> QED
          BY <5>1, <3>1, <2>1, <2>2
      <4> QED
        BY <4>2
    <3>2. CASE ~(t > now - Window)
      <4>1. w = v
        BY <3>2 DEF Op
      <4>2. \A i \in 1..k + 1 : times[i] \in Nat /\ times[i] <= t
        BY <1>2, <2>1 DEF Ascending, n
      <4>3. \A i \in 1..k + 1 : times[i] <= now - Window
        BY <3>2, <4>2, <2>4, CiteAssumption
      <4>4. m = k
        BY <2>2, <4>3, <4>2, CiteAssumption
      <4>5. Left(k + 1, w, k + 1)
        BY <4>1, <4>3, <4>4, <2>1, <2>2
      <4> QED
        BY <4>5
    <3> QED
      BY <3>1, <3>2
  <2> HIDE DEF w, Left
  <2>6. <<k + 1, w>> \in P
    BY <1>1, <2>1, <2>4, <2>5
  <2> QED
    BY <2>3, <2>6
<1>9. <<n, iter[1..n]>> \in P
  <2> HIDE DEF P, G, V
  <2> QED
    BY <1>2, <1>6, <1>7, <1>8, FoldInduction
<1>10. Recent(times) \in Seq(Nat) /\ \E m \in 0..n : Left(n, Recent(times), m)
  BY <1>2, <1>3, <1>9, ZenonT(40)
<1> QED
  BY <1>10 DEF Without, n

(* Of one caller of one limiter: g, all its grants, come in order, and one    *)
(* comes Window or more after the one PerMinute places before; b, the bucket, *)
(* is g without some that have left the window.                             *)
Spaced(b, g) ==
    /\ Ascending(g) /\ \A i \in 1..Len(g) : g[i] <= now
    /\ \A i \in 1..Len(g) - PerMinute : g[i + PerMinute] >= g[i] + Window
    /\ \E j \in 0..Len(g) : Without(b, g, j) /\ \A i \in 1..j : g[i] <= now - Window

(* A value for each caller of each limiter.                                 *)
PerCaller(f) ==
    /\ f = [l \in Limiters |-> f[l]]
    /\ \A l \in Limiters : f[l] = [k \in Callers |-> f[l][k]]

RateInv ==
    /\ now \in Nat
    /\ PerCaller(bucket) /\ PerCaller(granted)
    /\ \A l \in Limiters, k \in Callers : Spaced(bucket[l][k], granted[l][k])

LEMMA NoneSpaced == now \in Nat => Spaced(<<>>, <<>>)
<1> DEFINE none == <<>>
<1>1. none \in Seq(Nat) /\ Len(none) = 0
  OBVIOUS
<1> HIDE DEF none
<1>2. Ascending(none) /\ Without(none, none, 0) /\ 0 \in 0..Len(none)
  BY <1>1 DEF Ascending, Without
<1>3. \A i \in 1..Len(none) - PerMinute : FALSE
  BY <1>1, CiteAssumption
<1>4. \A i \in 1..Len(none) : FALSE
  BY <1>1
<1>5. \A i \in 1..0 : FALSE
  OBVIOUS
<1>6. Spaced(none, none)
  BY <1>2, <1>3, <1>4, <1>5, Zenon DEF Spaced
<1> QED
  BY <1>6 DEF none

(* What tryAcquire may do to the bucket b and the grants g.                  *)
Acquires(b, g, b2, g2) ==
    LET kept == Recent(b) IN
    \/ Len(kept) < PerMinute /\ b2 = Append(kept, now) /\ g2 = Append(g, now)
    \/ b2 = kept /\ g2 = g

LEMMA AcquireKeeps ==
    ASSUME now \in Nat, NEW b, NEW g, Spaced(b, g), NEW b2, NEW g2, Acquires(b, g, b2, g2)
    PROVE  Spaced(b2, g2)
<1> DEFINE kept == Recent(b)
<1>1. PICK j \in 0..Len(g) : Without(b, g, j) /\ \A i \in 1..j : g[i] <= now - Window
  BY DEF Spaced
<1>2. /\ g \in Seq(Nat) /\ Len(g) \in Nat /\ b \in Seq(Nat) /\ Len(b) = Len(g) - j
      /\ \A i \in 1..Len(b) : b[i] = g[j + i]
      /\ \A i \in 1..Len(g) : g[i] \in Nat /\ g[i] <= now
      /\ \A x, y \in 1..Len(g) : x <= y => g[x] <= g[y]
  <2>1. Ascending(g) /\ \A i \in 1..Len(g) : g[i] <= now
    BY DEF Spaced
  <2>2. g \in Seq(Nat) /\ \A x, y \in 1..Len(g) : x <= y => g[x] <= g[y]
    BY <2>1 DEF Ascending
  <2>3. Len(g) \in Nat /\ \A i \in 1..Len(g) : g[i] \in Nat
    BY <2>2
  <2> QED
    BY <1>1, <2>1, <2>2, <2>3, Zenon DEF Without
<1>3. Ascending(b)
  <2>1. ASSUME NEW x \in 1..Len(b), NEW y \in 1..Len(b), x <= y
        PROVE  b[x] <= b[y]
    <3>1. j + x \in 1..Len(g) /\ j + y \in 1..Len(g) /\ j + x <= j + y
      BY <1>2, <2>1
    <3>2. g[j + x] <= g[j + y]
      BY <1>2, <3>1
    <3> QED
      BY <1>2, <3>2
  <2> QED
    BY <1>2, <2>1 DEF Ascending
<1>4. PICK m \in 0..Len(b) : Without(kept, b, m) /\ \A i \in 1..m : b[i] <= now - Window
  BY <1>3, RecentIs
<1> HIDE DEF kept
<1> DEFINE d == j + m
<1>5. d \in Nat /\ d <= Len(g) /\ Len(kept) = Len(g) - d /\ kept \in Seq(Nat)
  BY <1>2, <1>4 DEF Without
<1>6. \A i \in 1..Len(kept) : kept[i] = g[d + i]
  <2>1. ASSUME NEW i \in 1..Len(kept)
        PROVE  kept[i] = g[d + i]
    <3>1. kept[i] = b[m + i] /\ m + i \in 1..Len(b)
      BY <1>2, <1>4, <1>5 DEF Without
    <3>2. b[m + i] = g[j + (m + i)]
      BY <1>2, <3>1
    <3> QED
      BY <3>1, <3>2
  <2> QED
    BY <2>1
<1>7. \A i \in 1..d : g[i] <= now - Window
  <2>1. ASSUME NEW i \in j + 1..d
        PROVE  g[i] <= now - Window
    <3> DEFINE x == i - j
    <3>1. x \in 1..m /\ x \in 1..Len(b) /\ j + x = i
      BY <1>2, <2>1
    <3> HIDE DEF x
    <3>2. b[x] <= now - Window /\ b[x] = g[j + x]
      BY <1>2, <1>4, <3>1
    <3> QED
      BY <3>1, <3>2
  <2> QED
    BY <1>1, <2>1
<1> HIDE DEF d
<1>8. CASE b2 = kept /\ g2 = g
  <2>1. d \in 0..Len(g) /\ Without(kept, g, d)
    BY <1>2, <1>5, <1>6 DEF Without
  <2>2. Spaced(kept, g)
    BY <1>7, <2>1 DEF Spaced
  <2> QED
    BY <1>8, <2>2
<1>9. CASE Len(kept) < PerMinute /\ b2 = Append(kept, now) /\ g2 = Append(g, now)
  <2> DEFINE n == Len(g)
  <2>1. n \in Nat /\ now \in Nat /\ Window \in Nat /\ PerMinute \in Nat
    BY <1>2, CiteAssumption
  <2>2. /\ g2 \in Seq(Nat) /\ Len(g2) = n + 1 /\ g2[n + 1] = now
        /\ \A i \in 1..n : g2[i] = g[i] /\ g[i] \in Nat
    BY <1>2, <1>9
  <2>3. /\ b2 \in Seq(Nat) /\ Len(b2) = Len(kept) + 1 /\ b2[Len(kept) + 1] = now
        /\ \A i \in 1..Len(kept) : b2[i] = kept[i]
    BY <1>5, <1>9
  <2>4. /\ \A i \in 1..n : g[i] \in Nat /\ g[i] <= now
        /\ \A x, y \in 1..n : x <= y => g[x] <= g[y]
        /\ d \in Nat /\ d <= n /\ Len(kept) = n - d
        /\ \A i \in 1..n - PerMinute : g[i + PerMinute] >= g[i] + Window
    BY <1>2, <1>5 DEF Spaced
  <2> HIDE DEF n
  <2>5. Ascending(g2) /\ \A i \in 1..Len(g2) : g2[i] <= now
    BY <2>1, <2>2, <2>4, SMTT(40) DEF Ascending
  <2>6. d \in 0..Len(g2) /\ Without(b2, g2, d)
    <3>1. ASSUME NEW i \in 1..Len(b2)
          PROVE  b2[i] = g2[d + i]
      <4>1. CASE i <= Len(kept)
        <5>1. i \in 1..Len(kept) /\ d + i \in 1..n
          BY <2>1, <2>4, <4>1
        <5> QED
          BY <1>6, <2>2, <2>3, <5>1
      <4>2. CASE i = Len(kept) + 1
        <5>1. d + i = n + 1
          BY <2>1, <2>4, <4>2
        <5> QED
          BY <2>2, <2>3, <4>2, <5>1
      <4> QED
        BY <2>1, <2>3, <2>4, <4>1, <4>2
    <3> QED
      BY <2>1, <2>2, <2>3, <2>4, <3>1 DEF Without
  <2>7. \A i \in 1..d : g2[i] <= now - Window
    BY <1>7, <2>1, <2>2, <2>4
  <2>8. ASSUME NEW i \in 1..Len(g2) - PerMinute
        PROVE  g2[i + PerMinute] >= g2[i] + Window
    <3> DEFINE x == i + PerMinute
    <3>1. i \in Nat /\ 1 <= i /\ x \in Nat /\ x <= n + 1
      BY <2>1, <2>2
    <3> HIDE DEF x
    <3>2. CASE x <= n
      <4>1. i \in 1..n - PerMinute /\ i \in 1..n /\ x \in 1..n
        BY <2>1, <3>1, <3>2 DEF x
      <4>2. g[x] >= g[i] + Window
        BY <2>4, <4>1 DEF x
      <4> QED
        BY <2>2, <4>1, <4>2 DEF x
    <3>3. CASE x = n + 1
      <4>1. i \in 1..d /\ i \in 1..n
        BY <1>9, <2>1, <2>4, <3>1, <3>3 DEF x
      <4>2. g[i] <= now - Window /\ g2[i] = g[i] /\ g2[x] = now /\ g[i] \in Nat
        BY <1>7, <2>2, <3>3, <4>1
      <4> QED
        BY <2>1, <4>2 DEF x
    <3> QED
      BY <2>1, <3>1, <3>2, <3>3
  <2> QED
    BY <2>5, <2>6, <2>7, <2>8 DEF Spaced
<1> QED
  BY <1>8, <1>9 DEF Acquires, kept

(* What a step of the service may do to the limiters.                        *)
LimitersMove ==
    \/ UNCHANGED <<bucket, granted, now>>
    \/ (\E l, k : TryAcquire(l, k)) /\ UNCHANGED now
    \/ UNCHANGED <<bucket, granted>> /\ now' = now + 1
    \/ /\ bucket' = [l \in Limiters |-> [k \in Callers |-> <<>>]] /\ granted' = bucket'
       /\ UNCHANGED now

LEMMA LimitersStep ==
    ASSUME [ServiceNext]_serviceVars
    PROVE  LimitersMove
<1>1. ASSUME NEW r, BeginTool(r)
      PROVE  LimitersMove
  BY <1>1 DEF BeginTool, Begin, Submit, Refuse, Reverify, RefuseReverify, StartFetch, LimitersMove
<1>2. ASSUME NEW r, ToolStep(r)
      PROVE  LimitersMove
  BY <1>2 DEF ToolStep, CiteStep, DnsAnswers, HeadersArrive, BodyArrives, FileRead, BranchKnown,
     Committed, LimitersMove
<1>3. CASE ProcessEnds
  BY <1>3 DEF ProcessEnds, LimitersMove
<1>4. CASE Tick \/ UNCHANGED citeVars
  BY <1>4 DEF Tick, citeVars, LimitersMove
<1>5. CASE SourceChanges \/ OtherEdit
  BY <1>5 DEF SourceChanges, OtherEdit, LimitersMove
<1> QED
  BY <1>1, <1>2, <1>3, <1>4, <1>5 DEF ServiceNext, Handler, Transport, Respond, End, Restart,
     World, serviceVars

LEMMA RateKept ==
    ASSUME RateInv, LimitersMove
    PROVE  RateInv'
<1>1. CASE UNCHANGED <<bucket, granted, now>>
  BY <1>1 DEF RateInv, Spaced, PerCaller
<1>2. ASSUME NEW l, NEW k, TryAcquire(l, k), UNCHANGED now
      PROVE  RateInv'
  <2> DEFINE kept == Recent(bucket[l][k])
  <2>1. \/ /\ Len(kept) < PerMinute /\ bucket' = [bucket EXCEPT ![l][k] = Append(kept, now)]
           /\ granted' = [granted EXCEPT ![l][k] = Append(@, now)]
        \/ bucket' = [bucket EXCEPT ![l][k] = kept] /\ granted' = granted
    BY <1>2 DEF TryAcquire
  <2> HIDE DEF kept
  <2>2. ASSUME NEW m \in Limiters, NEW c \in Callers
        PROVE  Spaced(bucket'[m][c], granted'[m][c])
    <3>1. CASE m = l /\ c = k
      <4>1. Acquires(bucket[l][k], granted[l][k], bucket'[l][k], granted'[l][k])
        <5>1. /\ [bucket EXCEPT ![l][k] = kept][l][k] = kept
              /\ [bucket EXCEPT ![l][k] = Append(kept, now)][l][k] = Append(kept, now)
              /\ [granted EXCEPT ![l][k] = Append(@, now)][l][k] = Append(granted[l][k], now)
          BY <3>1 DEF RateInv, PerCaller
        <5> QED
          BY <2>1, <5>1 DEF Acquires, kept
      <4> QED
        BY <3>1, <4>1, AcquireKeeps DEF RateInv
    <3>2. CASE ~(m = l /\ c = k)
      <4>1. \A e : [bucket EXCEPT ![l][k] = e][m][c] = bucket[m][c]
        BY <3>2 DEF RateInv, PerCaller
      <4>2. [granted EXCEPT ![l][k] = Append(@, now)][m][c] = granted[m][c]
        BY <3>2 DEF RateInv, PerCaller
      <4>3. bucket'[m][c] = bucket[m][c] /\ granted'[m][c] = granted[m][c]
        BY <2>1, <4>1, <4>2
      <4> QED
        BY <4>3 DEF RateInv
    <3> QED
      BY <3>1, <3>2
  <2>3. PerCaller(bucket') /\ PerCaller(granted')
    <3>1. ASSUME NEW f, NEW e, PerCaller(f)
          PROVE  PerCaller([f EXCEPT ![l][k] = e])
      BY <3>1 DEF PerCaller
    <3>2. PerCaller(bucket) /\ PerCaller(granted)
      BY DEF RateInv
    <3>3. PerCaller(bucket')
      <4>1. PICK e : bucket' = [bucket EXCEPT ![l][k] = e]
        BY <2>1
      <4>2. PerCaller([bucket EXCEPT ![l][k] = e])
        BY <3>1, <3>2
      <4> QED
        BY <4>1, <4>2
    <3>4. PerCaller(granted')
      <4>1. CASE granted' = granted
        BY <3>2, <4>1
      <4>2. CASE granted' # granted
        <5>1. PICK e : granted' = [granted EXCEPT ![l][k] = e]
          BY <2>1, <4>2
        <5>2. PerCaller([granted EXCEPT ![l][k] = e])
          BY <3>1, <3>2
        <5> QED
          BY <5>1, <5>2
      <4> QED
        BY <4>1, <4>2
    <3> QED
      BY <3>3, <3>4
  <2> QED
    BY <1>2, <2>2, <2>3 DEF RateInv, Spaced, PerCaller
<1>3. CASE UNCHANGED <<bucket, granted>> /\ now' = now + 1
  <2>1. ASSUME NEW b, NEW g, Spaced(b, g)
        PROVE  Spaced(b, g)'
    <3>1. PICK j \in 0..Len(g) : Without(b, g, j) /\ \A i \in 1..j : g[i] <= now - Window
      BY <2>1 DEF Spaced
    <3>2. g \in Seq(Nat) /\ Len(g) \in Nat /\ \A i \in 1..Len(g) : g[i] \in Nat /\ g[i] <= now
      BY <2>1 DEF Spaced, Ascending
    <3>3. \A i \in 1..Len(g) : g[i] <= now'
      BY <1>3, <3>2 DEF RateInv
    <3>4. \A i \in 1..j : g[i] <= now' - Window
      BY <1>3, <3>1, <3>2, CiteAssumption DEF RateInv
    <3> QED
      BY <2>1, <3>1, <3>3, <3>4 DEF Spaced
  <2>2. \A l \in Limiters, k \in Callers : Spaced(bucket[l][k], granted[l][k])'
    BY <1>3, <2>1 DEF RateInv
  <2> QED
    BY <1>3, <2>2 DEF RateInv, PerCaller
<1>4. CASE /\ bucket' = [l \in Limiters |-> [k \in Callers |-> <<>>]] /\ granted' = bucket'
           /\ UNCHANGED now
  <2>1. Spaced(<<>>, <<>>)'
    BY <1>4, NoneSpaced DEF RateInv, Spaced
  <2>2. \A l \in Limiters, k \in Callers : bucket'[l][k] = <<>> /\ granted'[l][k] = <<>>
    BY <1>4
  <2>3. \A l \in Limiters, k \in Callers : Spaced(bucket[l][k], granted[l][k])'
    BY <2>1, <2>2
  <2> QED
    BY <1>4, <2>2, <2>3 DEF RateInv, PerCaller
<1> QED
  BY <1>1, <1>2, <1>3, <1>4 DEF LimitersMove

(* No caller makes more than PerMinute attempts through one limiter in any    *)
(* Window ticks, those that fail later included, for any number of callers,   *)
(* limiters and calls, overlapping or not.                                  *)
(* (rate-limit.ts tryAcquire, fetch-source.ts fetchHttp.)                    *)
THEOREM RateLimited == ServiceSpec => []RateHolds
<1>1. ServiceInit => RateInv
  <2> SUFFICES ASSUME ServiceInit PROVE RateInv
    OBVIOUS
  <2>1. now \in Nat
    BY DEF ServiceInit, CiteInit
  <2>2. /\ bucket = [l \in Limiters |-> [k \in Callers |-> <<>>]] /\ granted = bucket
    BY DEF ServiceInit, CiteInit
  <2> QED
    BY <2>1, <2>2, NoneSpaced DEF RateInv, PerCaller
<1>2. RateInv /\ [ServiceNext]_serviceVars => RateInv'
  BY RateKept, LimitersStep
<1>3. RateInv => RateHolds
  <2> SUFFICES ASSUME RateInv, NEW l \in Limiters, NEW k \in Callers, NEW t \in 0..MaxNow
               PROVE  Cardinality({i \in DOMAIN granted[l][k] :
                                     granted[l][k][i] \in t..t + Window - 1}) <= PerMinute
    BY DEF RateHolds
  <2> DEFINE g == granted[l][k]
             n == Len(g)
             S == {i \in DOMAIN g : g[i] \in t..t + Window - 1}
  <2>1. /\ Ascending(g) /\ \A i \in 1..n - PerMinute : g[i + PerMinute] >= g[i] + Window
    BY DEF RateInv, Spaced
  <2>2. /\ n \in Nat /\ DOMAIN g = 1..n /\ \A i \in 1..n : g[i] \in Nat
        /\ \A i, j \in 1..n : i <= j => g[i] <= g[j]
    BY <2>1, SMTT(40) DEF Ascending
  <2>3. t \in Int /\ Window \in Nat /\ PerMinute \in Nat
    BY CiteAssumption
  <2> HIDE DEF g, n
  <2>4. S \in SUBSET (1..n)
    BY <2>2
  <2>5. CASE S = {}
    <3> HIDE DEF S
    <3>1. Cardinality(S) <= PerMinute
      BY <2>3, <2>5, FS_EmptySet
    <3> QED
      BY <3>1 DEF S, g
  <2>6. CASE S # {}
    <3> DEFINE z == Max(S)
    <3>1. z \in S /\ \A i \in S : i <= z
      BY <2>2, <2>4, <2>6, MaxExists
    <3> HIDE DEF z
    <3>2. z \in 1..n /\ g[z] <= t + Window - 1
      BY <2>2, <2>3, <3>1
    <3>3. ASSUME NEW x \in S
          PROVE  x \in z - PerMinute + 1..z
      <4>1. x \in 1..n /\ x <= z /\ g[x] >= t /\ g[x] \in Nat
        BY <2>2, <2>3, <3>1
      <4>2. ~(x <= z - PerMinute)
        <5>1. SUFFICES ASSUME x <= z - PerMinute PROVE FALSE
          OBVIOUS
        <5> DEFINE y == x + PerMinute
        <5>2. x \in 1..n - PerMinute /\ y \in 1..n /\ y <= z
          BY <2>2, <2>3, <3>2, <4>1, <5>1
        <5>3. g[y] >= g[x] + Window
          BY <2>1, <5>2 DEF g, n
        <5> HIDE DEF y
        <5>4. g[y] <= g[z] /\ g[y] \in Nat /\ g[z] \in Nat
          BY <2>2, <3>2, <5>2
        <5> QED
          BY <2>3, <3>2, <4>1, <5>3, <5>4
      <4> QED
        BY <2>3, <3>2, <4>1, <4>2
    <3> DEFINE T == z - PerMinute + 1..z
    <3>4. IsFiniteSet(T) /\ Cardinality(T) = PerMinute
      <4>1. z - PerMinute + 1 \in Int /\ z \in Int
        BY <2>3, <3>2
      <4>2. z - (z - PerMinute + 1) + 1 = PerMinute
        BY <2>3, <3>2
      <4>3. z - PerMinute + 1 > z <=> PerMinute = 0
        BY <2>3, <3>2
      <4> QED
        BY <2>3, <4>1, <4>2, <4>3, FS_Interval
    <3>5. S \in SUBSET T
      BY <3>3
    <3> HIDE DEF S, T
    <3>6. Cardinality(S) <= PerMinute
      BY <3>4, <3>5, FS_Subset
    <3> QED
      BY <3>6 DEF S, g
  <2> HIDE DEF S
  <2> QED
    BY <2>5, <2>6
<1> QED
  BY <1>1, <1>2, <1>3, PTL DEF ServiceSpec

-----------------------------------------------------------------------------
(* The registry of citations and the reference lines in the documents, for   *)
(* any number of calls, documents, sources and lines.                        *)

-----------------------------------------------------------------------------
(* Sequences and their least elements.                                      *)

IsSeq(q) == \E S : q \in Seq(S)

LEMMA SeqIs ==
    ASSUME NEW q, IsSeq(q)
    PROVE  Len(q) \in Nat /\ DOMAIN q = 1..Len(q)
BY DEF IsSeq

LEMMA MinExists ==
    ASSUME NEW s \in SUBSET Nat, s # {}
    PROVE  LET least == CHOOSE i \in s : \A j \in s : i <= j
           IN  least \in s /\ \A j \in s : least <= j
<1> DEFINE T == {k \in Nat : (\E y \in s : y <= k) => \E x \in s : \A y \in s : x <= y}
<1>1. 0 \in T
  OBVIOUS
<1>2. ASSUME NEW k \in Nat, k \in T
      PROVE  k + 1 \in T
  <2>1. SUFFICES ASSUME NEW y \in s, y <= k + 1, ~\E x \in s : x <= k
                 PROVE  \E x \in s : \A z \in s : x <= z
    BY <1>2
  <2>2. \A z \in s : k + 1 <= z
    BY <2>1
  <2>3. y = k + 1
    BY <2>1
  <2> QED
    BY <2>2, <2>3
<1> HIDE DEF T
<1>3. PICK y \in s : TRUE
  OBVIOUS
<1>4. y \in Nat /\ y \in T
  BY <1>1, <1>2, SetInduction
<1>5. \E x \in s : \A z \in s : x <= z
  BY <1>4 DEF T
<1> QED
  BY <1>5

LEMMA AppendIs ==
    ASSUME NEW q, IsSeq(q), NEW e
    PROVE  LET r == Append(q, e) IN
           /\ IsSeq(r) /\ Len(r) = Len(q) + 1 /\ r[Len(q) + 1] = e
           /\ \A i \in 1..Len(q) : r[i] = q[i]
<1>1. PICK S : q \in Seq(S)
  BY DEF IsSeq
<1> DEFINE T == S \union {e}
           r == Append(q, e)
<1>2. q \in Seq(T) /\ e \in T
  BY <1>1, SeqMonotonic
<1> HIDE DEF T
<1>3. /\ r \in Seq(T) /\ Len(r) = Len(q) + 1 /\ r[Len(q) + 1] = e
      /\ \A i \in 1..Len(q) : r[i] = q[i]
  BY <1>2
<1> QED
  BY <1>3 DEF IsSeq

LEMMA InsertIs ==
    ASSUME NEW q, IsSeq(q), NEW p \in 1..Len(q) + 1, NEW e
    PROVE  LET r == InsertAt(q, p, e) IN
           /\ IsSeq(r) /\ Len(r) = Len(q) + 1 /\ r[p] = e
           /\ \A i \in 1..p - 1 : r[i] = q[i]
           /\ \A i \in p..Len(q) : r[i + 1] = q[i]
<1>1. PICK S : q \in Seq(S)
  BY DEF IsSeq
<1> DEFINE T == S \union {e}
           n == Len(q)
           a == SubSeq(q, 1, p - 1)
           c == SubSeq(q, p, n)
           b == a \o <<e>>
           r == b \o c
<1>2. q \in Seq(T) /\ e \in T /\ n \in Nat /\ DOMAIN q = 1..n /\ \A i \in 1..n : q[i] \in T
  BY <1>1, SeqMonotonic
<1> HIDE DEF T, n
<1>3. /\ a \in Seq(T) /\ Len(a) = p - 1 /\ \A i \in 1..p - 1 : a[i] = q[i]
  <2>1. 1 \in Int /\ p - 1 \in Int /\ \A i \in 1..p - 1 : q[i] \in T
    BY <1>2 DEF n
  <2>2. /\ a \in Seq(T) /\ Len(a) = IF 1 <= p - 1 THEN p - 1 - 1 + 1 ELSE 0
        /\ \A i \in 1..(p - 1) - 1 + 1 : a[i] = q[1 + i - 1]
    BY <2>1, SubSeqProperties
  <2> QED
    BY <2>1, <2>2, <1>2 DEF n
<1>4. /\ c \in Seq(T) /\ Len(c) = n - p + 1 /\ \A i \in 1..n - p + 1 : c[i] = q[p + i - 1]
  <2>1. n \in Int /\ p \in Int /\ \A i \in p..n : q[i] \in T
    BY <1>2 DEF n
  <2>2. /\ c \in Seq(T) /\ Len(c) = IF p <= n THEN n - p + 1 ELSE 0
        /\ \A i \in 1..n - p + 1 : c[i] = q[p + i - 1]
    BY <2>1, SubSeqProperties
  <2> QED
    BY <2>1, <2>2, <1>2 DEF n
<1> HIDE DEF a, c
<1>5. b \in Seq(T) /\ Len(b) = p /\ b[p] = e /\ \A i \in 1..p - 1 : b[i] = q[i]
  <2>1. p \in Nat /\ 1 <= p /\ <<e>> \in Seq(T) /\ Len(<<e>>) = 1 /\ <<e>>[1] = e
    BY <1>2 DEF n
  <2>2. /\ b \in Seq(T) /\ Len(b) = Len(a) + Len(<<e>>)
        /\ \A i \in 1..Len(a) + Len(<<e>>) :
              b[i] = IF i <= Len(a) THEN a[i] ELSE <<e>>[i - Len(a)]
    BY <1>3, <2>1, ConcatProperties
  <2> QED
    BY <1>3, <2>1, <2>2
<1> HIDE DEF b
<1>6. /\ r \in Seq(T) /\ Len(r) = n + 1
      /\ \A i \in 1..n + 1 : r[i] = IF i <= p THEN b[i] ELSE c[i - p]
  <2>1. p \in Nat /\ 1 <= p /\ p <= n + 1
    BY <1>2 DEF n
  <2>2. /\ r \in Seq(T) /\ Len(r) = Len(b) + Len(c)
        /\ \A i \in 1..Len(b) + Len(c) : r[i] = IF i <= Len(b) THEN b[i] ELSE c[i - Len(b)]
    BY <1>4, <1>5, ConcatProperties
  <2> QED
    BY <1>2, <1>4, <1>5, <2>1, <2>2, SMTT(40)
<1>7. InsertAt(q, p, e) = r
  BY DEF InsertAt, r, b, a, c, n
<1> HIDE DEF r
<1>8. p \in Nat /\ 1 <= p /\ p <= n + 1 /\ n \in Nat
  BY <1>2 DEF n
<1>9. r[p] = e /\ \A i \in 1..p - 1 : r[i] = q[i]
  BY <1>5, <1>6, <1>8
<1>10. ASSUME NEW i \in p..n
       PROVE  r[i + 1] = q[i]
  <2> DEFINE x == i + 1 - p
  <2>1. i + 1 \in 1..n + 1 /\ ~(i + 1 <= p) /\ x \in 1..n - p + 1 /\ p + x - 1 = i
    BY <1>8
  <2> HIDE DEF x
  <2>2. r[i + 1] = c[x]
    BY <1>6, <2>1 DEF x
  <2> QED
    BY <1>4, <2>1, <2>2
<1>11. IsSeq(r)
  BY <1>6 DEF IsSeq
<1> QED
  BY <1>6, <1>7, <1>9, <1>10, <1>11 DEF n

-----------------------------------------------------------------------------
(* The lines of a document.                                                 *)

IsText(lines) == IsSeq(lines) /\ \A i \in 1..Len(lines) : lines[i].level \in Nat

(* Line j ends the section of the heading h.                                *)
Ends(lines, h, j) == lines[j].level \in 1..lines[h].level

LEMMA SectionEndIs ==
    ASSUME NEW lines, IsText(lines), NEW h \in 1..Len(lines)
    PROVE  LET e == SectionEnd(lines, h) IN
           /\ e \in h + 1..Len(lines) + 1
           /\ \A j \in h + 1..e - 1 : ~Ends(lines, h, j)
           /\ e <= Len(lines) => Ends(lines, h, e)
<1> DEFINE n == Len(lines)
           ends == {j \in h + 1..n : lines[j].level \in 1..lines[h].level}
           least == CHOOSE i \in ends : \A j \in ends : i <= j
           e == SectionEnd(lines, h)
<1>1. n \in Nat /\ h \in Nat /\ 1 <= h /\ h <= n
  BY SeqIs DEF IsText
<1>2. e = IF ends = {} THEN n + 1 ELSE least
  BY DEF SectionEnd
<1>3. \A j \in h + 1..n : j \in ends <=> Ends(lines, h, j)
  BY DEF Ends
<1>4. ends \in SUBSET Nat /\ \A j \in ends : j \in h + 1..n
  BY <1>1
<1> HIDE DEF n, ends, e
<1>5. CASE ends = {}
  <2>1. e = n + 1
    BY <1>2, <1>5
  <2>2. \A j \in h + 1..n : ~Ends(lines, h, j)
    BY <1>3, <1>5
  <2> QED
    BY <1>1, <2>1, <2>2 DEF n, e
<1>6. CASE ends # {}
  <2>1. e = least /\ least \in ends /\ \A j \in ends : least <= j
    BY <1>2, <1>4, <1>6, MinExists
  <2> HIDE DEF least
  <2>2. e \in h + 1..n /\ Ends(lines, h, e)
    BY <1>3, <1>4, <2>1
  <2>3. ASSUME NEW j \in h + 1..e - 1
        PROVE  ~Ends(lines, h, j)
    <3>1. j \in h + 1..n /\ ~(e <= j)
      BY <1>1, <2>2
    <3> QED
      BY <1>3, <2>1, <3>1
  <2> QED
    BY <1>1, <2>2, <2>3 DEF n, e
<1> QED
  BY <1>5, <1>6

(* A line is in a Citations section if a Citations heading comes before it    *)
(* and nothing from there on ends that section.                             *)
Under(lines, h, i) ==
    h \in CiteHeadings(lines) /\ h < i /\ \A j \in h + 1..i : ~Ends(lines, h, j)

LEMMA InCitationsIs ==
    ASSUME NEW lines, IsText(lines), NEW i \in 1..Len(lines)
    PROVE  InCitations(lines, i) <=> \E h \in 1..Len(lines) : Under(lines, h, i)
<1> DEFINE n == Len(lines)
<1>1. n \in Nat /\ i \in Nat /\ i <= n /\ \A h \in CiteHeadings(lines) : h \in 1..n
  BY SeqIs DEF IsText, CiteHeadings
<1> HIDE DEF n
<1>2. ASSUME NEW h \in CiteHeadings(lines), h < i
      PROVE  i < SectionEnd(lines, h) <=> \A j \in h + 1..i : ~Ends(lines, h, j)
  <2> DEFINE e == SectionEnd(lines, h)
  <2>1. /\ e \in h + 1..n + 1 /\ \A j \in h + 1..e - 1 : ~Ends(lines, h, j)
        /\ e <= n => Ends(lines, h, e)
    BY <1>1, SectionEndIs DEF n
  <2>2. h \in 1..n
    BY <1>1
  <2> HIDE DEF e
  <2>3. e \in Int /\ h \in Int
    BY <1>1, <2>1, <2>2
  <2>4. ASSUME i < e
        PROVE  \A j \in h + 1..i : ~Ends(lines, h, j)
    <3>1. \A j \in h + 1..i : j \in h + 1..e - 1
      BY <1>1, <2>3, <2>4
    <3> QED
      BY <2>1, <3>1
  <2>5. ASSUME e <= i
        PROVE  ~\A j \in h + 1..i : ~Ends(lines, h, j)
    <3>1. e \in h + 1..i /\ e <= n
      BY <1>1, <2>1, <2>3, <2>5
    <3> QED
      BY <2>1, <3>1
  <2> QED
    BY <1>1, <2>3, <2>4, <2>5 DEF e
<1>3. (\E h \in 1..n : Under(lines, h, i)) <=>
        \E h \in CiteHeadings(lines) : h < i /\ \A j \in h + 1..i : ~Ends(lines, h, j)
  BY <1>1, Zenon DEF Under
<1> QED
  BY <1>2, <1>3, Zenon DEF InCitations, n

(* Another client's line at the end takes no line out of its section.         *)
LEMMA AppendStaysUnder ==
    ASSUME NEW lines, IsText(lines), NEW line, line.level \in Nat
    PROVE  LET new == Append(lines, line) IN
           /\ IsText(new)
           /\ \A i \in 1..Len(lines) : InCitations(lines, i) => InCitations(new, i)
<1> DEFINE n == Len(lines)
           new == Append(lines, line)
<1>1. /\ n \in Nat /\ IsSeq(new) /\ Len(new) = n + 1 /\ new[n + 1] = line
      /\ \A i \in 1..n : new[i] = lines[i]
  BY SeqIs, AppendIs DEF IsText
<1> HIDE DEF new, n
<1>2. IsText(new)
  <2>1. ASSUME NEW i \in 1..n + 1
        PROVE  new[i].level \in Nat
    <3>1. i \in 1..n \/ i = n + 1
      BY <1>1
    <3> QED
      BY <1>1, <3>1 DEF IsText, n
  <2> QED
    BY <1>1, <2>1 DEF IsText
<1>3. ASSUME NEW i \in 1..n, NEW h \in 1..n, Under(lines, h, i)
      PROVE  Under(new, h, i)
  <2>1. h \in CiteHeadings(new)
    <3>1. DOMAIN new = 1..n + 1 /\ DOMAIN lines = 1..n
      BY <1>1, SeqIs DEF IsText, n
    <3>2. h \in 1..n + 1 /\ new[h] = lines[h]
      BY <1>1
    <3> QED
      BY <1>3, <3>1, <3>2 DEF Under, CiteHeadings
  <2>2. \A j \in h + 1..i : j \in 1..n
    BY <1>1
  <2>3. \A j \in h + 1..i : Ends(new, h, j) <=> Ends(lines, h, j)
    BY <1>1, <2>2 DEF Ends
  <2> QED
    BY <1>3, <2>1, <2>3 DEF Under
<1>4. ASSUME NEW i \in 1..n, InCitations(lines, i)
      PROVE  InCitations(new, i)
  <2>1. PICK h \in 1..n : Under(lines, h, i)
    BY <1>4, InCitationsIs DEF n
  <2>2. Under(new, h, i) /\ h \in 1..Len(new) /\ i \in 1..Len(new)
    BY <1>1, <1>3, <2>1
  <2> QED
    BY <1>2, <2>2, InCitationsIs
<1> QED
  BY <1>2, <1>4 DEF new, n

(* The places of the lines after one is put in at p.                        *)
LEMMA ShiftIs ==
    ASSUME NEW n \in Nat, NEW p \in 1..n + 1
    PROVE  \A k \in 1..n + 1 : k = p \/ \E i \in 1..n : k = IF i < p THEN i ELSE i + 1
<1> DEFINE at(i) == IF i < p THEN i ELSE i + 1
<1>1. ASSUME NEW k \in 1..n + 1, k # p
      PROVE  \E i \in 1..n : k = at(i)
  <2>1. CASE k < p
    <3>1. k \in 1..n /\ k = at(k)
      BY <2>1
    <3> QED
      BY <3>1
  <2>2. CASE k > p
    <3>1. k - 1 \in 1..n /\ k = at(k - 1)
      BY <2>2
    <3> QED
      BY <3>1
  <2> QED
    BY <1>1, <2>1, <2>2
<1> QED
  BY <1>1

(* A line of no level, put anywhere before the end of the section of h, is in *)
(* that section, and every other line stays in its own.                      *)
LEMMA InsertStaysUnder ==
    ASSUME NEW lines, IsText(lines), NEW line, line.level = 0,
           NEW h \in CiteHeadings(lines), NEW p, p = SectionEnd(lines, h)
    PROVE  LET new == InsertAt(lines, p, line) IN
           /\ IsText(new) /\ p \in 1..Len(lines) + 1 /\ InCitations(new, p)
           /\ \A i \in 1..Len(lines) : InCitations(lines, i) =>
                InCitations(new, IF i < p THEN i ELSE i + 1)
<1> DEFINE n == Len(lines)
           new == InsertAt(lines, p, line)
           at(i) == IF i < p THEN i ELSE i + 1
<1>1. n \in Nat /\ DOMAIN lines = 1..n /\ h \in 1..n /\ IsSeq(lines)
  BY SeqIs DEF IsText, CiteHeadings
<1>2. p \in h + 1..n + 1 /\ \A j \in h + 1..p - 1 : ~Ends(lines, h, j)
  BY <1>1, SectionEndIs
<1>3. p \in 1..n + 1
  BY <1>1, <1>2
<1>4. /\ IsSeq(new) /\ Len(new) = n + 1 /\ new[p] = line
      /\ \A i \in 1..p - 1 : new[i] = lines[i]
      /\ \A i \in p..n : new[i + 1] = lines[i]
  BY <1>1, <1>3, InsertIs
<1>5. DOMAIN new = 1..n + 1
  BY <1>1, <1>4, SeqIs
<1> HIDE DEF new, n
<1>6. \A i \in 1..n : at(i) \in 1..n + 1 /\ new[at(i)] = lines[i]
  BY <1>1, <1>3, <1>4
<1>7. \A k \in 1..n + 1 : k = p \/ \E i \in 1..n : k = at(i)
  BY <1>1, <1>3, ShiftIs
<1>8. \A i, j \in 1..n : i < j <=> at(i) < at(j)
  BY <1>1, <1>3
<1> HIDE DEF at
<1>9. IsText(new)
  <2>1. ASSUME NEW k \in 1..n + 1
        PROVE  new[k].level \in Nat
    BY <1>4, <1>6, <1>7, SMTT(40) DEF IsText, n
  <2> QED
    BY <1>4, <2>1 DEF IsText
<1>10. \A x \in 1..n : x \in CiteHeadings(lines) => at(x) \in CiteHeadings(new)
  BY <1>1, <1>5, <1>6 DEF CiteHeadings
<1>11. \A x, j \in 1..n : Ends(new, at(x), at(j)) <=> Ends(lines, x, j)
  BY <1>6 DEF Ends
<1>12. \A x \in 1..n : ~Ends(new, at(x), p)
  BY <1>4 DEF Ends
<1>13. ASSUME NEW i \in 1..n, NEW x \in 1..n, Under(lines, x, i)
       PROVE  Under(new, at(x), at(i))
  <2>1. ASSUME NEW k \in at(x) + 1..at(i)
        PROVE  ~Ends(new, at(x), k)
    <3>1. k \in 1..n + 1 /\ at(x) < k /\ k <= at(i) /\ k \in Int
      BY <1>1, <1>6
    <3>2. CASE k = p
      BY <1>12, <3>2
    <3>3. ASSUME NEW j \in 1..n, k = at(j)
          PROVE  ~Ends(new, at(x), k)
      <4>1. x < j /\ ~(i < j)
        BY <1>1, <1>6, <1>8, <3>1, <3>3
      <4>2. j \in x + 1..i
        BY <1>1, <4>1
      <4> QED
        BY <1>11, <1>13, <3>3, <4>2 DEF Under
    <3> QED
      BY <1>7, <3>1, <3>2, <3>3
  <2>2. at(x) < at(i) /\ at(x) \in CiteHeadings(new)
    BY <1>8, <1>10, <1>13 DEF Under
  <2> QED
    BY <2>1, <2>2 DEF Under
<1>14. ASSUME NEW i \in 1..n, InCitations(lines, i)
       PROVE  InCitations(new, at(i))
  <2>1. PICK x \in 1..n : Under(lines, x, i)
    BY <1>14, InCitationsIs DEF n
  <2>2. Under(new, at(x), at(i)) /\ at(x) \in 1..Len(new) /\ at(i) \in 1..Len(new)
    BY <1>4, <1>6, <1>13, <2>1
  <2> QED
    BY <1>9, <2>2, InCitationsIs
<1>15. InCitations(new, p)
  <2>1. at(h) = h /\ h < p
    BY <1>1, <1>2, <1>3 DEF at
  <2>2. ASSUME NEW k \in h + 1..p
        PROVE  ~Ends(new, h, k)
    <3>1. CASE k = p
      BY <1>1, <1>12, <2>1, <3>1
    <3>2. CASE k # p
      <4>1. k \in h + 1..p - 1 /\ k \in 1..n /\ at(k) = k
        BY <1>1, <1>2, <1>3, <3>2 DEF at
      <4> QED
        BY <1>1, <1>2, <1>11, <2>1, <4>1
    <3> QED
      BY <3>1, <3>2
  <2>3. Under(new, h, p)
    BY <1>1, <1>10, <2>1, <2>2 DEF Under
  <2>4. h \in 1..Len(new) /\ p \in 1..Len(new)
    BY <1>1, <1>3, <1>4
  <2> QED
    BY <1>9, <2>3, <2>4, InCitationsIs
<1> QED
  BY <1>3, <1>9, <1>14, <1>15 DEF new, n, at

-----------------------------------------------------------------------------
(* The registry.                                                            *)

IsRow(row) == row \in [target : {row.target}, no : {row.no}, uri : {row.uri}, hash : {row.hash},
                       quote : {row.quote}, status : {row.status}, checked : {row.checked}]

(* The numbers of a target are used once, and none is above the position.     *)
RowsInv ==
    /\ IsSeq(rows)
    /\ \A i \in 1..Len(rows) : IsRow(rows[i]) /\ rows[i].no \in 1..i
    /\ \A m, n \in 1..Len(rows) :
         m # n /\ rows[m].target = rows[n].target => rows[m].no # rows[n].no

SameRow(a, b) ==
    /\ a.target = b.target /\ a.no = b.no /\ a.uri = b.uri /\ a.hash = b.hash
    /\ a.quote = b.quote

(* What was stored stays, but for the outcome of a later check.              *)
RowsGrow ==
    /\ IsSeq(rows') /\ Len(rows) <= Len(rows')
    /\ \A i \in 1..Len(rows) : SameRow(rows'[i], rows[i])

LEMMA NextNumberIs ==
    ASSUME RowsInv, NEW t
    PROVE  NextNumber(t) \in 1..Len(rows) + 1 /\ \A m \in Numbers(t) : m < NextNumber(t)
<1> DEFINE n == Len(rows)
           N == Numbers(t)
           Good(k) == (\A m \in N : m < k) /\ (k = 1 \/ k - 1 \in N)
<1>1. n \in Nat /\ DOMAIN rows = 1..n
  BY SeqIs DEF RowsInv
<1>2. N \in SUBSET (1..n)
  <2>1. \A i \in 1..n : rows[i].no \in 1..n
    BY <1>1 DEF RowsInv
  <2> QED
    BY <1>1, <2>1 DEF Numbers
<1>3. NextNumber(t) = CHOOSE k \in 1..n + 1 : Good(k)
  BY DEF NextNumber
<1> HIDE DEF n, N
<1>4. \E k \in 1..n + 1 : Good(k)
  <2>1. CASE N = {}
    BY <1>1, <2>1
  <2>2. CASE N # {}
    <3> DEFINE z == Max(N)
    <3>1. z \in N /\ \A i \in N : i <= z
      BY <1>1, <1>2, <2>2, MaxExists
    <3> HIDE DEF z
    <3>2. z \in 1..n /\ z + 1 \in 1..n + 1 /\ z + 1 - 1 = z
      BY <1>1, <1>2, <3>1
    <3>3. \A m \in N : m < z + 1
      BY <1>1, <1>2, <3>1
    <3> QED
      BY <3>1, <3>2, <3>3
  <2> QED
    BY <2>1, <2>2
<1> QED
  BY <1>3, <1>4 DEF n, N

LEMMA StoreRow ==
    ASSUME RowsInv, NEW r, NEW page, NEW status,
           rows' = Append(rows, NewRow(r, page, status))
    PROVE  /\ RowsInv' /\ RowsGrow /\ Len(rows') = Len(rows) + 1
           /\ rows'[Len(rows) + 1] = NewRow(r, page, status)
<1> DEFINE n == Len(rows)
           row == NewRow(r, page, status)
           no == NextNumber(r.target)
<1>1. no \in 1..n + 1 /\ \A m \in Numbers(r.target) : m < no
  BY NextNumberIs
<1>2. row.no = no /\ row.target = r.target /\ IsRow(row)
  BY DEF NewRow, IsRow
<1>3. n \in Nat /\ DOMAIN rows = 1..n
  BY SeqIs DEF RowsInv
<1>4. /\ IsSeq(rows') /\ Len(rows') = n + 1 /\ rows'[n + 1] = row
      /\ \A i \in 1..n : rows'[i] = rows[i]
  BY AppendIs DEF RowsInv
<1> HIDE DEF n, row, no
<1>5. \A i \in 1..n : rows[i].target = r.target => rows[i].no < no
  BY <1>1, <1>3 DEF Numbers
<1>6. \A i \in 1..n : IsRow(rows[i]) /\ rows[i].no \in 1..i
  BY DEF RowsInv, n
<1>7. \A i \in 1..n + 1 : i \in 1..n \/ i = n + 1
  BY <1>3
<1>8. \A i \in 1..n + 1 : IsRow(rows'[i]) /\ rows'[i].no \in 1..i
  BY <1>1, <1>2, <1>3, <1>4, <1>6, <1>7
<1>9. ASSUME NEW i \in 1..n + 1, NEW j \in 1..n + 1, i # j, rows'[i].target = rows'[j].target
      PROVE  rows'[i].no # rows'[j].no
  <2>1. CASE i \in 1..n /\ j \in 1..n
    BY <1>4, <1>9, <2>1 DEF RowsInv, n
  <2>2. CASE i = n + 1 /\ j \in 1..n
    BY <1>1, <1>2, <1>3, <1>4, <1>5, <1>6, <1>9, <2>2
  <2>3. CASE j = n + 1 /\ i \in 1..n
    BY <1>1, <1>2, <1>3, <1>4, <1>5, <1>6, <1>9, <2>3
  <2> QED
    BY <1>7, <1>9, <2>1, <2>2, <2>3
<1>10. RowsInv'
  BY <1>4, <1>8, <1>9 DEF RowsInv
<1>11. RowsGrow
  BY <1>3, <1>4 DEF RowsGrow, SameRow, n
<1> QED
  BY <1>4, <1>10, <1>11 DEF n, row

LEMMA CheckRow ==
    ASSUME RowsInv, NEW k, NEW page, rows' = [rows EXCEPT ![k].checked = page]
    PROVE  RowsInv' /\ RowsGrow
<1>1. Len(rows) \in Nat /\ DOMAIN rows = 1..Len(rows)
  BY SeqIs DEF RowsInv
<1>2. \A i \in 1..Len(rows) : rows'[i] = rows[i] \/ rows'[i] = [rows[i] EXCEPT !.checked = page]
  BY <1>1
<1>3. \A i \in 1..Len(rows) : IsRow(rows'[i]) /\ SameRow(rows'[i], rows[i])
  <2>1. ASSUME NEW i \in 1..Len(rows)
        PROVE  IsRow(rows'[i]) /\ SameRow(rows'[i], rows[i])
    <3>1. IsRow(rows[i])
      BY DEF RowsInv
    <3>2. \A row : IsRow(row) => LET new == [row EXCEPT !.checked = page]
                                IN  IsRow(new) /\ SameRow(new, row)
      BY DEF IsRow, SameRow
    <3>3. SameRow(rows[i], rows[i])
      BY DEF SameRow
    <3> QED
      BY <1>2, <3>1, <3>2, <3>3
  <2> QED
    BY <2>1
<1>4. IsSeq(rows') /\ Len(rows') = Len(rows)
  <2>1. PICK S : rows \in Seq(S)
    BY DEF RowsInv, IsSeq
  <2> DEFINE T == S \union {[row EXCEPT !.checked = page] : row \in S}
  <2>2. \A i \in 1..Len(rows) : rows'[i] \in T
    BY <1>1, <1>2, <2>1, SMTT(40)
  <2> DEFINE n == Len(rows)
             new == rows'
  <2>3. new \in [1..n -> T]
    <3>1. DOMAIN new = 1..n /\ new = [i \in DOMAIN new |-> new[i]]
      BY <1>1
    <3> QED
      BY <2>2, <3>1
  <2>4. n \in Nat
    BY <1>1
  <2> HIDE DEF T, n, new
  <2>5. new \in Seq(T) /\ Len(new) = n
    BY <2>3, <2>4
  <2>6. rows' \in Seq(T) /\ Len(rows') = Len(rows)
    BY <2>5 DEF n, new
  <2> QED
    BY <2>6 DEF IsSeq
<1> QED
  BY <1>3, <1>4 DEF RowsInv, RowsGrow, SameRow

-----------------------------------------------------------------------------
(* The reference lines of a document, against the rows rs.                   *)

Stands(rs, t, line, n) ==
    /\ rs[n].target \in Spellings /\ FileOf[rs[n].target] = t /\ rs[n].no = line.no
    /\ rs[n].uri = line.uri /\ rs[n].hash = line.hash
    /\ VerifyQuote(line.hash, rs[n].quote) = "verified"

Resolves(rs, t, line) == \E n \in 1..Len(rs) : Stands(rs, t, line, n)

Apart(rs, t, a, b) ==
    \E m, n \in 1..Len(rs) : m # n /\ Stands(rs, t, a, m) /\ Stands(rs, t, b, n)

Sound(rs, t, lines) ==
    /\ IsText(lines)
    /\ \A i \in ReferencesIn(lines) :
         /\ Resolves(rs, t, lines[i])
         /\ \A j \in ReferencesIn(lines) : i # j => Apart(rs, t, lines[i], lines[j])
         /\ InCitations(lines, i)

LEMMA SoundStays ==
    ASSUME NEW rs, NEW new, IsSeq(rs), IsSeq(new), Len(rs) <= Len(new),
           \A i \in 1..Len(rs) : SameRow(new[i], rs[i]),
           NEW t, NEW lines, Sound(rs, t, lines)
    PROVE  Sound(new, t, lines)
<1>1. \A n \in 1..Len(rs) : n \in 1..Len(new)
  BY SeqIs
<1>2. \A line : \A n \in 1..Len(rs) : Stands(rs, t, line, n) => Stands(new, t, line, n)
  BY DEF Stands, SameRow
<1>3. \A line : Resolves(rs, t, line) => Resolves(new, t, line)
  BY <1>1, <1>2 DEF Resolves
<1>4. \A a, b : Apart(rs, t, a, b) => Apart(new, t, a, b)
  BY <1>1, <1>2 DEF Apart
<1> QED
  BY <1>3, <1>4 DEF Sound

(* Every line of a is one of b.                                             *)
KeepsLines(a, b) == \A i \in 1..Len(a) : \E j \in 1..Len(b) : b[j] = a[i]

(* A line that is no reference, at the end.                                 *)
LEMMA OtherLine ==
    ASSUME NEW rs, NEW t, NEW lines, Sound(rs, t, lines), NEW line, line.level \in Nat,
           "no" \notin DOMAIN line
    PROVE  Sound(rs, t, Append(lines, line)) /\ KeepsLines(lines, Append(lines, line))
<1> DEFINE n == Len(lines)
           new == Append(lines, line)
<1>1. IsText(new) /\ \A i \in 1..n : InCitations(lines, i) => InCitations(new, i)
  BY AppendStaysUnder DEF Sound
<1>2. /\ n \in Nat /\ Len(new) = n + 1 /\ new[n + 1] = line /\ \A i \in 1..n : new[i] = lines[i]
      /\ DOMAIN new = 1..n + 1 /\ DOMAIN lines = 1..n
  BY <1>1, SeqIs, AppendIs DEF Sound, IsText
<1> HIDE DEF n, new
<1>3. ReferencesIn(new) = ReferencesIn(lines) /\ \A i \in ReferencesIn(lines) : i \in 1..n
  BY <1>2 DEF ReferencesIn
<1>4. Sound(rs, t, new)
  BY <1>1, <1>2, <1>3 DEF Sound
<1>5. KeepsLines(lines, new)
  BY <1>2 DEF KeepsLines, n
<1> QED
  BY <1>4, <1>5 DEF new

(* A new row, and its line where buildCitationAppend puts it.               *)
LEMMA BuildSound ==
    ASSUME NEW rs, IsSeq(rs), NEW t, NEW lines, Sound(rs, t, lines),
           NEW n \in 1..Len(rs), Stands(rs, t, Reference(rs[n]), n),
           \A i \in ReferencesIn(lines) :
               \E m \in 1..Len(rs) : m # n /\ Stands(rs, t, lines[i], m)
    PROVE  LET new == BuildCitationAppend(lines, Reference(rs[n])) IN
           /\ Sound(rs, t, new) /\ KeepsLines(lines, new)
           /\ \E i \in 1..Len(new) : new[i] = Reference(rs[n])
<1> DEFINE ref == Reference(rs[n])
           m == Len(lines)
           sections == CiteHeadings(lines)
           new == BuildCitationAppend(lines, ref)
<1>1. ref.level = 0 /\ "no" \in DOMAIN ref /\ Resolves(rs, t, ref)
  BY DEF Reference, Resolves
<1>2. \A i \in ReferencesIn(lines) : Apart(rs, t, lines[i], ref) /\ Apart(rs, t, ref, lines[i])
  BY DEF Apart
<1>3. m \in Nat /\ DOMAIN lines = 1..m /\ IsSeq(lines) /\ IsText(lines)
  BY SeqIs DEF Sound, IsText
<1>4. \A i \in ReferencesIn(lines) : i \in 1..m /\ "no" \in DOMAIN lines[i]
  BY <1>3 DEF ReferencesIn
<1>5. CASE sections = {}
  <2> DEFINE head == [level |-> 2, title |-> CiteHeading, anchored |-> FALSE]
             one == Append(lines, head)
             two == Append(one, ref)
  <2>1. new = two
    <3>1. PICK S : lines \in Seq(S)
      BY <1>3 DEF IsSeq
    <3> DEFINE T == S \union {head, ref}
    <3>2. lines \in Seq(T) /\ head \in T /\ ref \in T
      BY <3>1, SeqMonotonic
    <3>3. new = lines \o <<head, ref>>
      BY <1>5 DEF BuildCitationAppend
    <3> HIDE DEF T, head, ref
    <3>4. lines \o <<head, ref>> = Append(Append(lines, head), ref)
      BY <3>2
    <3> QED
      BY <3>3, <3>4
  <2>2. head.level = 2 /\ head.title = CiteHeading /\ ~head.anchored /\ "no" \notin DOMAIN head
    OBVIOUS
  <2> HIDE DEF head, ref, new
  <2>3. /\ IsSeq(one) /\ Len(one) = m + 1 /\ one[m + 1] = head
        /\ \A i \in 1..m : one[i] = lines[i]
    BY <1>3, AppendIs
  <2> HIDE DEF one, m
  <2>4. /\ IsSeq(two) /\ Len(two) = m + 1 + 1 /\ two[m + 1 + 1] = ref
        /\ \A i \in 1..m + 1 : two[i] = one[i]
    BY <2>3, AppendIs
  <2>5. DOMAIN two = 1..m + 2
    BY <1>3, <2>4, SeqIs
  <2> HIDE DEF two
  <2>6. /\ IsSeq(two) /\ Len(two) = m + 2 /\ two[m + 2] = ref /\ two[m + 1] = head
        /\ \A i \in 1..m : two[i] = lines[i]
    <3>1. m + 1 + 1 = m + 2 /\ m + 1 \in 1..m + 1 /\ \A i \in 1..m : i \in 1..m + 1
      BY <1>3
    <3> QED
      BY <2>3, <2>4, <3>1
  <2>7. \A i \in 1..m + 2 : i \in 1..m \/ i = m + 1 \/ i = m + 2
    BY <1>3
  <2>8. IsText(two)
    <3>1. \A i \in 1..m : lines[i].level \in Nat
      BY <1>3 DEF IsText, m
    <3>2. ASSUME NEW i \in 1..m + 2
          PROVE  two[i].level \in Nat
      BY <1>1, <2>2, <2>6, <2>7, <3>1
    <3> QED
      BY <2>6, <3>2 DEF IsText
  <2>9. ReferencesIn(lines) = {}
    BY <1>5 DEF Sound, InCitations
  <2>10. m + 2 \in 1..m + 2 /\ m + 1 \in 1..m + 2 /\ m + 1 < m + 2
    BY <1>3
  <2>11. \A i \in ReferencesIn(two) : i = m + 2
    <3>1. \A i \in 1..m : "no" \notin DOMAIN lines[i]
      BY <1>3, <2>9 DEF ReferencesIn
    <3> QED
      BY <2>2, <2>5, <2>6, <2>7, <3>1 DEF ReferencesIn
  <2>12. InCitations(two, m + 2)
    <3>1. m + 1 \in CiteHeadings(two)
      <4>1. two[m + 1].level = 2 /\ two[m + 1].title = CiteHeading /\ ~two[m + 1].anchored
        BY <2>2, <2>6
      <4> QED
        BY <2>5, <2>10, <4>1 DEF CiteHeadings
    <3>2. \A j \in m + 1 + 1..m + 2 : j = m + 2
      BY <1>3
    <3>3. ~Ends(two, m + 1, m + 2)
      BY <1>1, <2>6 DEF Ends
    <3>4. Under(two, m + 1, m + 2)
      BY <2>10, <3>1, <3>2, <3>3 DEF Under
    <3> QED
      BY <2>6, <2>8, <2>10, <3>4, InCitationsIs
  <2>13. Sound(rs, t, two)
    BY <1>1, <2>6, <2>8, <2>11, <2>12 DEF Sound
  <2>14. KeepsLines(lines, two)
    <3>1. \A i \in 1..m : i \in 1..m + 2
      BY <1>3
    <3> QED
      BY <2>6, <3>1 DEF KeepsLines, m
  <2> QED
    BY <2>1, <2>6, <2>10, <2>13, <2>14 DEF new, ref
<1>6. CASE sections # {}
  <2> DEFINE first == CHOOSE i \in sections : \A j \in sections : i <= j
             p == SectionEnd(lines, first)
             two == InsertAt(lines, p, ref)
             at(i) == IF i < p THEN i ELSE i + 1
  <2>1. new = two
    BY <1>6 DEF BuildCitationAppend
  <2>2. first \in sections
    <3>1. sections \in SUBSET Nat
      BY <1>3 DEF CiteHeadings
    <3> QED
      BY <1>6, <3>1, MinExists
  <2> HIDE DEF sections, ref, new, first
  <2>3. /\ IsText(two) /\ p \in 1..m + 1 /\ InCitations(two, p)
        /\ \A i \in 1..m : InCitations(lines, i) => InCitations(two, at(i))
    BY <1>1, <1>3, <2>2, InsertStaysUnder DEF sections
  <2> HIDE DEF p
  <2>4. /\ IsSeq(two) /\ Len(two) = m + 1 /\ two[p] = ref
        /\ \A i \in 1..p - 1 : two[i] = lines[i]
        /\ \A i \in p..m : two[i + 1] = lines[i]
    BY <1>3, <2>3, InsertIs
  <2>5. DOMAIN two = 1..m + 1
    BY <1>3, <2>4, SeqIs
  <2> HIDE DEF m, two
  <2>6. \A i \in 1..m : at(i) \in 1..m + 1 /\ two[at(i)] = lines[i]
    BY <1>3, <2>3, <2>4
  <2>7. \A k \in 1..m + 1 : k = p \/ \E i \in 1..m : k = at(i)
    BY <1>3, <2>3, ShiftIs
  <2> HIDE DEF at
  <2>8. \A k \in ReferencesIn(two) : k = p \/ \E i \in ReferencesIn(lines) : k = at(i)
    BY <1>3, <2>5, <2>6, <2>7 DEF ReferencesIn
  <2>9. \A i \in ReferencesIn(lines) : /\ i \in 1..m /\ two[at(i)] = lines[i]
                                       /\ Resolves(rs, t, lines[i])
                                       /\ InCitations(lines, i) /\ InCitations(two, at(i))
    BY <1>4, <2>3, <2>6 DEF Sound
  <2>10. \A k \in ReferencesIn(two) : Resolves(rs, t, two[k]) /\ InCitations(two, k)
    BY <1>1, <2>3, <2>4, <2>8, <2>9
  <2>11. ASSUME NEW k \in ReferencesIn(two), NEW j \in ReferencesIn(two), k # j
         PROVE  Apart(rs, t, two[k], two[j])
    <3>1. CASE k = p
      <4>1. PICK y \in ReferencesIn(lines) : j = at(y)
        BY <2>8, <2>11, <3>1
      <4> QED
        BY <1>2, <2>4, <2>9, <3>1, <4>1
    <3>2. CASE j = p
      <4>1. PICK x \in ReferencesIn(lines) : k = at(x)
        BY <2>8, <2>11, <3>2
      <4> QED
        BY <1>2, <2>4, <2>9, <3>2, <4>1
    <3>3. CASE k # p /\ j # p
      <4>1. PICK x \in ReferencesIn(lines) : k = at(x)
        BY <2>8, <3>3
      <4>2. PICK y \in ReferencesIn(lines) : j = at(y)
        BY <2>8, <3>3
      <4>3. x # y
        BY <2>11, <4>1, <4>2
      <4>4. Apart(rs, t, lines[x], lines[y])
        BY <4>3 DEF Sound
      <4> QED
        BY <2>9, <4>1, <4>2, <4>4
    <3> QED
      BY <3>1, <3>2, <3>3
  <2>12. Sound(rs, t, two)
    BY <2>3, <2>10, <2>11 DEF Sound
  <2>13. KeepsLines(lines, two)
    BY <2>4, <2>6 DEF KeepsLines, m
  <2>14. \E i \in 1..Len(two) : two[i] = ref
    BY <2>3, <2>4
  <2> QED
    BY <2>1, <2>12, <2>13, <2>14 DEF new, ref
<1> QED
  BY <1>5, <1>6
-----------------------------------------------------------------------------
(* The invariants of the documents and of the calls that write them.         *)

File(c) == FileOf[call[c].req.target]

TextOf(c) ==
    /\ call[c].pc \in {"branch", "commit"} => File(c) \in GitTargets
    /\ call[c].pc = "branch" => Sound(rows, File(c), call[c].held)
    /\ call[c].pc \notin {"idle", "done"} /\ call[c].req.op = "cite"
         => call[c].req.target \in Spellings \union {NoTarget}

TextsInv ==
    /\ docs = [t \in Targets |-> docs[t]]
    /\ \A t \in Targets : Sound(rows, t, docs[t])
    /\ \A c \in Calls : TextOf(c)

LineOf(c) ==
    call[c].appended /\ File(c) \notin GitTargets =>
        /\ File(c) \in Targets /\ call[c].row \in 1..Len(rows)
        /\ HasLine(File(c), rows[call[c].row])

LinesInv == \A c \in Calls : LineOf(c)

(* The documents stay sound, and those without git lose no line.             *)
TextsGrow ==
    /\ docs' = [t \in Targets |-> docs'[t]]
    /\ \A t \in Targets : Sound(rows', t, docs'[t])
    /\ \A t \in Targets \ GitTargets : KeepsLines(docs[t], docs'[t])

(* A step of call c that keeps all that.                                     *)
TextMoves(c) == RowsInv' /\ RowsGrow /\ TextsGrow /\ TextOf(c)' /\ LineOf(c)'

LEMMA RowsStay ==
    ASSUME RowsInv, UNCHANGED rows
    PROVE  RowsInv' /\ RowsGrow
<1>1. Len(rows) \in Nat
  BY SeqIs DEF RowsInv
<1> QED
  BY <1>1 DEF RowsInv, RowsGrow, SameRow, IsRow

LEMMA TextsStay ==
    ASSUME RowsInv, RowsGrow, TextsInv, UNCHANGED docs
    PROVE  TextsGrow
<1>1. IsSeq(rows) /\ IsSeq(rows') /\ Len(rows) <= Len(rows')
      /\ \A i \in 1..Len(rows) : SameRow(rows'[i], rows[i])
  BY DEF RowsInv, RowsGrow
<1>2. ASSUME NEW t \in Targets
      PROVE  Sound(rows', t, docs[t])
  BY <1>1, SoundStays DEF TextsInv
<1> QED
  BY <1>2 DEF TextsGrow, TextsInv, KeepsLines

(* A step of call c that writes no document and prepares none to be written.  *)
LEMMA QuietMoves ==
    ASSUME CallInv, RowsInv, TextsInv, NEW c \in Calls, CallMoves(c), RowsInv', RowsGrow,
           UNCHANGED docs, ~call'[c].appended, call'[c].pc # "branch",
           call'[c].pc = "commit" => File(c) \in GitTargets
    PROVE  TextMoves(c)
<1>1. call'[c].req = call[c].req /\ call[c].pc \notin {"idle", "done"}
  BY DEF CallMoves
<1>2. TextOf(c)' /\ LineOf(c)'
  BY <1>1 DEF TextsInv, TextOf, LineOf, File
<1> QED
  BY <1>2, TextsStay DEF TextMoves

LEMMA DoneIs ==
    ASSUME CallInv, NEW c \in Calls, call[c].pc # "done", NEW answer,
           \/ call' = Done(c, answer)
           \/ \E n : call' = [Done(c, answer) EXCEPT ![c].row = n]
    PROVE  call'[c].pc = "done" /\ ~call'[c].appended
<1> DEFINE k == [call[c] EXCEPT !.pc = "done", !.answer = answer, !.page = <<>>, !.held = <<>>]
<1>1. Done(c, answer) = [call EXCEPT ![c] = k]
  BY DEF Done, CallInv
<1>2. IsCall(k) /\ k.pc = "done" /\ ~k.appended
  BY DEF CallInv, IsCall
<1> HIDE DEF k
<1>3. CASE call' = Done(c, answer)
  BY <1>1, <1>2, <1>3 DEF CallInv
<1>4. ASSUME NEW n, call' = [Done(c, answer) EXCEPT ![c].row = n]
      PROVE  call'[c].pc = "done" /\ ~call'[c].appended
  <2>1. call'[c] = [k EXCEPT !.row = n]
    BY <1>1, <1>4 DEF CallInv
  <2> QED
    BY <1>2, <2>1 DEF IsCall
<1> QED
  BY <1>3, <1>4

LEMMA AwaitIs ==
    ASSUME CallInv, NEW c \in Calls, call[c].pc # "done", NEW pc, Await(c, pc)
    PROVE  call'[c].pc = pc /\ ~call'[c].appended
<1>1. call'[c] = [call[c] EXCEPT !.pc = pc]
  BY DEF Await, CallInv
<1> QED
  BY <1>1 DEF CallInv, IsCall

(* A verified quote for a target: the row is stored, and its line is written  *)
(* or held.                                                                 *)
LEMMA IntoMoves ==
    ASSUME CallInv, RowsInv, TextsInv, NEW c \in Calls, CallMoves(c), call[c].req.op = "cite",
           NEW page, CitedInto(c, page)
    PROVE  TextMoves(c)
<1> DEFINE r    == call[c].req
           t    == FileOf[r.target]
           row  == NewRow(r, page, "verified")
           text == BuildCitationAppend(docs[t], Reference(row))
           n    == Len(rows) + 1
           ours == [call EXCEPT ![c].row = n]
<1>1. /\ VerifyQuote(page, r.quote) = "verified" /\ r.target # NoTarget /\ rows' = Append(rows, row)
      /\ \/ /\ call' = [ours EXCEPT ![c].pc = "done", ![c].answer = "thrown", ![c].page = <<>>]
            /\ docs' = docs
         \/ /\ t \in GitTargets /\ docs' = docs
            /\ call' = [ours EXCEPT ![c].pc = "branch", ![c].held = text, ![c].page = <<>>]
         \/ /\ t \notin GitTargets /\ docs' = [docs EXCEPT ![t] = text]
            /\ call' = [ours EXCEPT ![c].pc = "done", ![c].answer = "verified",
                                    ![c].appended = TRUE, ![c].page = <<>>]
  BY DEF CitedInto, AwaitsGit
<1>2. call[c].pc \notin {"idle", "done"} /\ call'[c].req = r /\ r.target \in Spellings
      /\ t \in Targets
  BY <1>1, CiteAssumption DEF CallMoves, TextsInv, TextOf
<1>3. RowsInv' /\ RowsGrow /\ Len(rows') = n /\ rows'[n] = row
  BY <1>1, StoreRow
<1>4. Len(rows) \in Nat /\ n \in 1..Len(rows') /\ IsSeq(rows) /\ IsSeq(rows')
      /\ \A i \in 1..Len(rows) : i \in 1..Len(rows') /\ i # n /\ SameRow(rows'[i], rows[i])
  BY <1>3, SeqIs DEF RowsInv, RowsGrow
<1>5. row.target = r.target /\ row.hash = page /\ row.quote = r.quote
  BY DEF NewRow
<1> HIDE DEF row
<1>6. Sound(rows, t, docs[t]) /\ Sound(rows', t, docs[t])
  BY <1>2, <1>3, <1>4, SoundStays DEF TextsInv, RowsGrow
<1>7. ASSUME NEW i \in ReferencesIn(docs[t])
      PROVE  \E m \in 1..Len(rows') : m # n /\ Stands(rows', t, docs[t][i], m)
  <2>1. PICK m \in 1..Len(rows) : Stands(rows, t, docs[t][i], m)
    BY <1>6 DEF Sound, Resolves
  <2>2. m \in 1..Len(rows') /\ m # n /\ Stands(rows', t, docs[t][i], m)
    BY <1>4, <2>1 DEF SameRow, Stands
  <2> QED
    BY <2>2
<1>8. Stands(rows', t, Reference(row), n)
  BY <1>1, <1>2, <1>3, <1>5 DEF Stands, Reference
<1>9. /\ Sound(rows', t, text) /\ KeepsLines(docs[t], text)
      /\ \E i \in 1..Len(text) : text[i] = Reference(row)
  <2> DEFINE rs == rows'
             lines == docs[t]
  <2>1. /\ IsSeq(rs) /\ n \in 1..Len(rs) /\ rs[n] = row /\ Sound(rs, t, lines)
        /\ Stands(rs, t, Reference(rs[n]), n)
        /\ \A i \in ReferencesIn(lines) :
             \E m \in 1..Len(rs) : m # n /\ Stands(rs, t, lines[i], m)
    BY <1>3, <1>4, <1>6, <1>7, <1>8
  <2>2. text = BuildCitationAppend(lines, Reference(rs[n]))
    BY <2>1
  <2> HIDE DEF rs, lines, n, t, text
  <2>3. /\ Sound(rs, t, text) /\ KeepsLines(lines, text)
        /\ \E i \in 1..Len(text) : text[i] = Reference(rs[n])
    BY <2>1, <2>2, BuildSound
  <2> QED
    BY <2>1, <2>3 DEF rs, lines
<1> HIDE DEF text, n, t
<1>10. CASE /\ docs' = docs
           /\ call' = [ours EXCEPT ![c].pc = "done", ![c].answer = "thrown", ![c].page = <<>>]
  <2>1. call'[c] = [call[c] EXCEPT !.row = n, !.pc = "done", !.answer = "thrown", !.page = <<>>]
    BY <1>10 DEF CallInv
  <2>2. call'[c].pc = "done" /\ ~call'[c].appended
    BY <1>2, <2>1 DEF CallInv, IsCall
  <2> QED
    BY <1>3, <1>10, <2>2, QuietMoves
<1>11. CASE /\ t \in GitTargets /\ docs' = docs
            /\ call' = [ours EXCEPT ![c].pc = "branch", ![c].held = text, ![c].page = <<>>]
  <2>1. call'[c] = [call[c] EXCEPT !.row = n, !.pc = "branch", !.held = text, !.page = <<>>]
    BY <1>11 DEF CallInv
  <2>2. call'[c].pc = "branch" /\ call'[c].held = text /\ ~call'[c].appended
    BY <1>2, <2>1 DEF CallInv, IsCall
  <2>3. TextOf(c)' /\ LineOf(c)'
    BY <1>2, <1>9, <1>11, <2>2 DEF TextOf, LineOf, File, t
  <2> QED
    BY <1>3, <1>11, <2>3, TextsStay DEF TextMoves
<1>12. CASE /\ t \notin GitTargets /\ docs' = [docs EXCEPT ![t] = text]
            /\ call' = [ours EXCEPT ![c].pc = "done", ![c].answer = "verified",
                                    ![c].appended = TRUE, ![c].page = <<>>]
  <2>1. call'[c] = [call[c] EXCEPT !.row = n, !.pc = "done", !.answer = "verified",
                                   !.appended = TRUE, !.page = <<>>]
    BY <1>12 DEF CallInv
  <2>2. call'[c].pc = "done" /\ call'[c].row = n
    BY <1>2, <2>1 DEF CallInv, IsCall
  <2>3. /\ docs' = [u \in Targets |-> docs'[u]] /\ docs'[t] = text
        /\ \A u \in Targets \ {t} : docs'[u] = docs[u]
    BY <1>2, <1>12 DEF TextsInv, t
  <2>4. TextsGrow
    <3>1. ASSUME NEW u \in Targets
          PROVE  Sound(rows', u, docs'[u])
      <4>1. CASE u = t
        BY <1>9, <2>3, <4>1
      <4>2. CASE u # t
        <5>1. Sound(rows, u, docs[u]) /\ docs'[u] = docs[u]
          BY <2>3, <4>2 DEF TextsInv
        <5> QED
          BY <1>3, <1>4, <5>1, SoundStays DEF RowsGrow
      <4> QED
        BY <4>1, <4>2
    <3>2. ASSUME NEW u \in Targets
          PROVE  KeepsLines(docs[u], docs'[u])
      BY <1>9, <2>3 DEF KeepsLines
    <3> QED
      BY <2>3, <3>1, <3>2 DEF TextsGrow
  <2>5. \E i \in DOMAIN docs'[t] : docs'[t][i] = Reference(rows'[n])
    <3>1. DOMAIN text = 1..Len(text)
      BY <1>9, SeqIs DEF Sound, IsText
    <3> QED
      BY <1>3, <1>9, <2>3, <3>1
  <2>6. File(c)' = t /\ call'[c].row = n /\ call'[c].pc = "done"
    BY <1>2, <2>2 DEF t, File
  <2>7. LineOf(c)'
    BY <1>2, <1>4, <2>5, <2>6 DEF LineOf, HasLine, Reference
  <2>8. TextOf(c)'
    BY <2>6 DEF TextOf
  <2> QED
    BY <1>3, <2>4, <2>7, <2>8 DEF TextMoves
<1> QED
  BY <1>1, <1>10, <1>11, <1>12 DEF t, text, n
LEMMA FetchedTexts ==
    ASSUME CallInv, RowsInv, TextsInv, NEW c \in Calls, CallMoves(c), NEW page, Fetched(c, page)
    PROVE  TextMoves(c)
<1>1. call[c].pc \notin {"idle", "done"}
  BY DEF CallMoves
<1>2. CASE CitedInto(c, page) /\ call[c].req.op = "cite"
  BY <1>2, IntoMoves
<1>3. ASSUME UNCHANGED docs, RowsInv', RowsGrow, NEW answer,
             \/ call' = Done(c, answer)
             \/ \E n : call' = [Done(c, answer) EXCEPT ![c].row = n]
      PROVE  TextMoves(c)
  <2>1. call'[c].pc = "done" /\ ~call'[c].appended
    BY <1>1, <1>3, DoneIs
  <2> QED
    BY <1>3, <2>1, QuietMoves
<1>4. CASE NotQuoted(c, page)
  <2>1. UNCHANGED <<rows, docs>> /\ \E answer : call' = Done(c, answer)
    BY <1>4 DEF NotQuoted, Answer
  <2> QED
    BY <1>3, <2>1, RowsStay
<1>5. CASE Unformatted(c, page) \/ CitedOnly(c, page)
  <2>1. /\ UNCHANGED docs
        /\ UNCHANGED rows \/ \E v : rows' = Append(rows, NewRow(call[c].req, page, v))
        /\ \E answer : \/ call' = Done(c, answer)
                       \/ \E n : call' = [Done(c, answer) EXCEPT ![c].row = n]
    BY <1>5 DEF Unformatted, CitedOnly, Throw
  <2>2. RowsInv' /\ RowsGrow
    BY <2>1, RowsStay, StoreRow
  <2> QED
    BY <1>3, <2>1, <2>2
<1>6. CASE Reverified(c, page)
  <2>1. /\ rows' = [rows EXCEPT ![call[c].row].checked = page]
        /\ UNCHANGED docs /\ \E answer : call' = Done(c, answer)
    BY <1>6 DEF Reverified, Answer
  <2>2. RowsInv' /\ RowsGrow
    BY <2>1, CheckRow
  <2> QED
    BY <1>3, <2>1, <2>2
<1> QED
  BY <1>2, <1>4, <1>5, <1>6 DEF Fetched

(* The text held over the await is written to a document under git.         *)
LEMMA BranchTexts ==
    ASSUME CallInv, RowsInv, TextsInv, NEW c \in Calls, CallMoves(c), call[c].pc = "branch",
           UNCHANGED rows, Await(c, "commit"),
           docs' = [docs EXCEPT ![File(c)] = call[c].held]
    PROVE  TextMoves(c)
<1> DEFINE t == File(c)
<1>1. RowsInv' /\ RowsGrow
  BY RowsStay
<1>2. t \in GitTargets /\ t \in Targets /\ Sound(rows, t, call[c].held) /\ File(c)' = t
  BY CiteAssumption DEF TextsInv, TextOf, CallMoves, File
<1>3. call'[c].pc = "commit" /\ ~call'[c].appended
  BY AwaitIs
<1>4. /\ docs' = [u \in Targets |-> docs'[u]] /\ docs'[t] = call[c].held
      /\ \A u \in Targets \ {t} : docs'[u] = docs[u]
  BY <1>2 DEF TextsInv
<1>5. ASSUME NEW u \in Targets
      PROVE  Sound(rows', u, docs'[u])
  <2>1. Sound(rows, u, docs'[u])
    BY <1>2, <1>4 DEF TextsInv
  <2> QED
    BY <2>1
<1>6. ASSUME NEW u \in Targets \ GitTargets
      PROVE  KeepsLines(docs[u], docs'[u])
  BY <1>2, <1>4 DEF KeepsLines
<1>7. TextsGrow
  BY <1>4, <1>5, <1>6 DEF TextsGrow
<1> HIDE DEF t
<1>8. File(c)' \in GitTargets
  BY <1>2
<1>9. call'[c].req = call[c].req /\ call[c].pc \notin {"idle", "done"} /\ TextOf(c)
  BY DEF CallMoves, TextsInv
<1>10. TextOf(c)' /\ LineOf(c)'
  BY <1>3, <1>8, <1>9 DEF TextOf, LineOf
<1> QED
  BY <1>1, <1>7, <1>10 DEF TextMoves

LEMMA CiteStepTexts ==
    ASSUME CallInv, RowsInv, TextsInv, NEW c \in Calls, CallMoves(c), CiteStep(c)
    PROVE  TextMoves(c)
<1>1. call[c].pc \notin {"idle", "done"} /\ call'[c].req = call[c].req
  BY DEF CallMoves
<1>2. ASSUME UNCHANGED <<rows, docs>>, NEW answer, call' = Done(c, answer)
      PROVE  TextMoves(c)
  BY <1>1, <1>2, RowsStay, DoneIs, QuietMoves
<1>3. ASSUME UNCHANGED <<rows, docs>>, Await(c, "request")
      PROVE  TextMoves(c)
  BY <1>1, <1>3, RowsStay, AwaitIs, QuietMoves
<1>4. CASE DnsAnswers(c)
  BY <1>2, <1>3, <1>4 DEF DnsAnswers, Answer
<1>5. CASE HeadersArrive(c)
  <2>1. CASE call' = [call EXCEPT ![c].pc = "body", ![c].page = source[call[c].req.source]]
    <3>1. call'[c] = [call[c] EXCEPT !.pc = "body", !.page = source[call[c].req.source]]
      BY <2>1 DEF CallInv
    <3>2. call'[c].pc = "body" /\ ~call'[c].appended
      BY <1>1, <3>1 DEF CallInv, IsCall
    <3> QED
      BY <1>5, <3>2, RowsStay, QuietMoves DEF HeadersArrive
  <2>2. CASE \E answer : Answer(c, answer)
    BY <1>2, <1>5, <2>2 DEF HeadersArrive, Answer
  <2> QED
    BY <1>5, <2>1, <2>2 DEF HeadersArrive
<1>6. CASE BodyArrives(c)
  BY <1>2, <1>6, FetchedTexts DEF BodyArrives, Answer, Throw
<1>7. CASE FileRead(c)
  BY <1>2, <1>7, FetchedTexts DEF FileRead, Answer
<1>8. CASE BranchKnown(c)
  BY <1>2, <1>8, BranchTexts DEF BranchKnown, Throw, File
<1>9. CASE Committed(c)
  <2>1. UNCHANGED <<rows, docs>> /\ call[c].pc = "commit"
    BY <1>9 DEF Committed
  <2>2. CASE Throw(c)
    BY <1>2, <2>1, <2>2 DEF Throw
  <2>3. CASE call' = [Done(c, "verified") EXCEPT ![c].appended = TRUE]
    <3> DEFINE k == [call[c] EXCEPT !.pc = "done", !.answer = "verified", !.page = <<>>,
                                    !.held = <<>>]
    <3>1. call'[c] = [k EXCEPT !.appended = TRUE]
      BY <2>3 DEF Done, CallInv
    <3>2. IsCall(k) /\ k.pc = "done"
      BY DEF CallInv, IsCall
    <3> HIDE DEF k
    <3>3. call'[c].pc = "done"
      BY <3>1, <3>2 DEF IsCall
    <3>4. File(c)' \in GitTargets
      BY <1>1, <2>1 DEF TextsInv, TextOf, File
    <3>5. TextOf(c)' /\ LineOf(c)'
      BY <3>3, <3>4 DEF TextOf, LineOf
    <3> QED
      BY <2>1, <3>5, RowsStay, TextsStay DEF TextMoves
  <2> QED
    BY <1>9, <2>2, <2>3 DEF Committed
<1> QED
  BY <1>4, <1>5, <1>6, <1>7, <1>8, <1>9 DEF CiteStep
-----------------------------------------------------------------------------
(* The steps of the service.                                                *)

WritesMove ==
    \/ \E c \in Calls : CiteStep(c) /\ CallMoves(c)
    \/ UNCHANGED <<rows, docs>> /\ CallsMove
    \/ /\ UNCHANGED <<call, rows>>
       /\ \E t \in Targets : \E line \in Additions[t] :
            docs' = [docs EXCEPT ![t] = Append(@, line)]

LEMMA WritesStep ==
    ASSUME CallInv, MenuInv, [ServiceNext]_serviceVars
    PROVE  WritesMove
<1>1. CallsMove
  BY CallsStep
<1>2. ASSUME NEW r \in Requests, ToolStep(r)
      PROVE  WritesMove
  BY <1>2, CiteStepMoves, OneCallEach DEF WritesMove, ToolStep
<1>3. ASSUME NEW r \in Requests, BeginTool(r)
      PROVE  WritesMove
  <2>1. UNCHANGED <<rows, docs>>
    BY <1>3 DEF BeginTool, Begin, Submit, Refuse, Reverify, RefuseReverify
  <2> QED
    BY <1>1, <2>1 DEF WritesMove
<1>4. CASE ProcessEnds
  BY <1>1, <1>4 DEF ProcessEnds, WritesMove
<1>5. CASE OtherEdit
  BY <1>5 DEF OtherEdit, WritesMove
<1>6. CASE UNCHANGED <<rows, docs>>
  BY <1>1, <1>6 DEF WritesMove
<1> QED
  BY <1>2, <1>3, <1>4, <1>5, <1>6 DEF ServiceNext, Handler, Transport, Respond, End, Restart, World,
     Tick, SourceChanges, citeVars, serviceVars

(* The calls that a step does not touch.                                    *)
LEMMA OthersKeep ==
    ASSUME RowsInv, TextsInv, LinesInv, RowsInv', RowsGrow, TextsGrow,
           NEW d \in Calls, call'[d] = call[d]
    PROVE  TextOf(d)' /\ LineOf(d)'
<1> DEFINE t == File(d)
           i == call[d].row
<1>1. File(d)' = t
  BY DEF File
<1>2. IsSeq(rows) /\ IsSeq(rows') /\ Len(rows) <= Len(rows')
      /\ \A n \in 1..Len(rows) : SameRow(rows'[n], rows[n]) /\ n \in 1..Len(rows')
  BY SeqIs DEF RowsInv, RowsGrow
<1>3. call[d].pc = "branch" => Sound(rows', t, call[d].held)
  BY <1>2, SoundStays DEF TextsInv, TextOf
<1>4. TextOf(d)'
  BY <1>1, <1>3 DEF TextsInv, TextOf
<1>5. ASSUME call[d].appended, t \notin GitTargets
      PROVE  /\ t \in Targets /\ i \in 1..Len(rows')
             /\ \E k \in DOMAIN docs'[t] : docs'[t][k] = Reference(rows'[i])
  <2>1. /\ t \in Targets /\ i \in 1..Len(rows)
        /\ \E k \in DOMAIN docs[t] : docs[t][k] = Reference(rows[i])
    BY <1>5 DEF LinesInv, LineOf, HasLine
  <2>2. Reference(rows'[i]) = Reference(rows[i])
    BY <1>2, <2>1 DEF SameRow, Reference
  <2>3. DOMAIN docs[t] = 1..Len(docs[t]) /\ DOMAIN docs'[t] = 1..Len(docs'[t])
    BY <2>1, SeqIs DEF TextsInv, TextsGrow, Sound, IsText
  <2>4. KeepsLines(docs[t], docs'[t])
    BY <1>5, <2>1 DEF TextsGrow
  <2> QED
    BY <1>2, <2>1, <2>2, <2>3, <2>4 DEF KeepsLines
<1>6. LineOf(d)'
  BY <1>1, <1>5 DEF LineOf, HasLine, Reference
<1> QED
  BY <1>4, <1>6

DocsInv == RowsInv /\ TextsInv /\ LinesInv

LEMMA DocsKept ==
    ASSUME CallInv, MenuInv, DocsInv, [ServiceNext]_serviceVars
    PROVE  DocsInv'
<1> USE DEF DocsInv
<1>1. ASSUME RowsInv', RowsGrow, TextsGrow, \A d \in Calls : TextOf(d)' /\ LineOf(d)'
      PROVE  DocsInv'
  <2>1. TextsInv'
    BY <1>1 DEF TextsInv, TextsGrow
  <2>2. LinesInv'
    BY <1>1 DEF LinesInv
  <2> QED
    BY <1>1, <2>1, <2>2
<1>2. ASSUME NEW c \in Calls, CiteStep(c), CallMoves(c)
      PROVE  DocsInv'
  <2>1. TextMoves(c)
    BY <1>2, CiteStepTexts
  <2>2. \A d \in Calls : d # c => TextOf(d)' /\ LineOf(d)'
    BY <1>2, <2>1, OthersKeep DEF CallMoves, TextMoves
  <2> QED
    BY <1>1, <2>1, <2>2 DEF TextMoves
<1>3. ASSUME UNCHANGED <<rows, docs>>, CallsMove, ~\E c \in Calls : CiteStep(c) /\ CallMoves(c)
      PROVE  DocsInv'
  <2>1. RowsInv' /\ RowsGrow /\ TextsGrow
    BY <1>3, RowsStay, TextsStay
  <2>2. \A d \in Calls : call'[d] = call[d] => TextOf(d)' /\ LineOf(d)'
    BY <2>1, OthersKeep
  <2>3. ASSUME NEW d \in Calls, CallsLost
        PROVE  TextOf(d)' /\ LineOf(d)'
    <3>1. CASE call'[d] = call[d]
      BY <2>2, <3>1
    <3>2. CASE call[d].pc \notin {"idle", "done"} /\ call'[d].pc = "done"
               /\ call'[d].appended = call[d].appended
      BY <3>2 DEF TextOf, LineOf, File, CallInv
    <3> QED
      BY <2>3, <3>1, <3>2 DEF CallsLost
  <2>4. ASSUME NEW c \in Calls, req[c].pc = "handling",
               CallBegins(c, req[c].is.cite, Who(req[c].sid))
        PROVE  TextOf(c)' /\ LineOf(c)'
    <3> DEFINE k == req[c].is.cite
    <3>1. k.target \in Spellings \union {NoTarget}
      <4>1. req[c].is \in setup.menu[c] /\ setup \in Setups /\ req[c].is.kind = "call"
        BY <2>4, OneCallEach DEF MenuInv
      <4> QED
        BY <4>1, MenusAssumption, OneCallEach
    <3> HIDE DEF k
    <3>2. /\ call'[c].pc \in {"request", "dns", "local", "done"} /\ ~call'[c].appended
          /\ call'[c].pc # "done" => call'[c].answer = "none"
          /\ call'[c].answer \notin {"thrown", "unknown"} => call'[c].req.op = k.op
          /\ call'[c].answer \notin {"thrown", "unknown"} /\ k.op = "cite"
               => call'[c].req.target = k.target
      BY <2>4 DEF CallBegins, k
    <3> QED
      BY <3>1, <3>2 DEF TextOf, LineOf
  <2>5. \A d \in Calls : TextOf(d)' /\ LineOf(d)'
    <3>1. CASE UNCHANGED call
      BY <2>2, <3>1
    <3>2. CASE CallsLost
      BY <2>3, <3>2
    <3>3. ASSUME NEW c \in Calls, req[c].pc = "handling",
                 CallBegins(c, req[c].is.cite, Who(req[c].sid))
          PROVE  \A d \in Calls : TextOf(d)' /\ LineOf(d)'
      <4>1. \A d \in Calls \ {c} : call'[d] = call[d]
        BY <3>3 DEF CallBegins
      <4> QED
        BY <2>2, <2>4, <3>3, <4>1
    <3> QED
      BY <1>3, <3>1, <3>2, <3>3 DEF CallsMove
  <2> QED
    BY <1>1, <2>1, <2>5
<1>4. ASSUME UNCHANGED <<call, rows>>, NEW t \in Targets, NEW line \in Additions[t],
             docs' = [docs EXCEPT ![t] = Append(@, line)]
      PROVE  DocsInv'
  <2>1. RowsInv' /\ RowsGrow
    BY <1>4, RowsStay
  <2>2. line.level \in Nat /\ "no" \notin DOMAIN line
    BY LinesAssumption
  <2>3. /\ docs' = [u \in Targets |-> docs'[u]] /\ docs'[t] = Append(docs[t], line)
        /\ \A u \in Targets \ {t} : docs'[u] = docs[u]
    BY <1>4 DEF TextsInv
  <2>4. ASSUME NEW u \in Targets
        PROVE  Sound(rows', u, docs'[u]) /\ KeepsLines(docs[u], docs'[u])
    <3>1. Sound(rows, u, docs[u])
      BY DEF TextsInv
    <3>2. CASE u = t
      BY <1>4, <2>2, <2>3, <3>1, <3>2, OtherLine
    <3>3. CASE u # t
      BY <1>4, <2>3, <3>1, <3>3 DEF KeepsLines
    <3> QED
      BY <3>2, <3>3
  <2>5. TextsGrow
    BY <2>3, <2>4 DEF TextsGrow
  <2>6. \A d \in Calls : TextOf(d)' /\ LineOf(d)'
    BY <1>4, <2>1, <2>5, OthersKeep
  <2> QED
    BY <1>1, <2>1, <2>5, <2>6
<1> QED
  BY <1>2, <1>3, <1>4, WritesStep DEF WritesMove

LEMMA DocsStart == ServiceInit => DocsInv
<1> SUFFICES ASSUME ServiceInit PROVE DocsInv
  OBVIOUS
<1>1. rows = <<>> /\ docs = Opening /\ call = [c \in Calls |-> NotBegun]
  BY DEF ServiceInit, CiteInit
<1>2. RowsInv
  <2>1. IsSeq(<<>>) /\ Len(<<>>) = 0
    <3>1. <<>> \in Seq({})
      OBVIOUS
    <3> QED
      BY <3>1 DEF IsSeq
  <2> QED
    BY <1>1, <2>1 DEF RowsInv
<1>3. ASSUME NEW t \in Targets
      PROVE  Sound(rows, t, docs[t])
  <2>1. /\ docs[t] \in Seq(Range(docs[t]))
        /\ \A line \in Range(docs[t]) : line.level \in Nat /\ "no" \notin DOMAIN line
    BY <1>1, LinesAssumption
  <2>2. \A i \in DOMAIN docs[t] : docs[t][i] \in Range(docs[t])
    BY DEF Range
  <2>3. IsSeq(docs[t]) /\ DOMAIN docs[t] = 1..Len(docs[t])
    BY <2>1 DEF IsSeq
  <2>4. IsText(docs[t]) /\ ReferencesIn(docs[t]) = {}
    BY <2>1, <2>2, <2>3 DEF IsText, ReferencesIn
  <2> QED
    BY <2>4 DEF Sound
<1>4. \A c \in Calls : TextOf(c) /\ LineOf(c)
  BY <1>1 DEF TextOf, LineOf, NotBegun
<1> QED
  BY <1>1, <1>2, <1>3, <1>4, LinesAssumption DEF DocsInv, TextsInv, LinesInv

LEMMA DocsAlways == ServiceSpec => [](ServingInv /\ DocsInv)
<1>1. ServiceInit => ServingInv /\ DocsInv
  BY ServingStarts, DocsStart
<1>2. ServingInv /\ DocsInv /\ [ServiceNext]_serviceVars => (ServingInv /\ DocsInv)'
  <2> SUFFICES ASSUME ServingInv, DocsInv, [ServiceNext]_serviceVars
               PROVE  (ServingInv /\ DocsInv)'
    OBVIOUS
  <2>1. CallInv /\ MenuInv
    BY DEF ServingInv
  <2> QED
    BY <2>1, ServingKept, DocsKept
<1> QED
  BY <1>1, <1>2, PTL DEF ServiceSpec

(* Whoever follows a reference line finds a registry row with its number, its *)
(* source, its hash and a quote that was found there, two lines have two rows *)
(* and no number is used twice under one spelling of the document: for any   *)
(* number of citations of any documents at once, with edits by others, and   *)
(* whatever fails or dies between the registry and the document.             *)
(* (registry.ts allocateAndInsertCitation, doc-cite.ts steps 4 to 6.)        *)
THEOREM ReferencesFound == ServiceSpec => []ReferencesResolve
<1>1. DocsInv => ReferencesResolve
  <2> SUFFICES ASSUME DocsInv PROVE ReferencesResolve
    OBVIOUS
  <2>1. DOMAIN rows = 1..Len(rows)
    BY SeqIs DEF DocsInv, RowsInv
  <2>2. \A t \in Targets : Sound(rows, t, docs[t])
    BY DEF DocsInv, TextsInv
  <2>3. \A t, line : RowsFor(t, line) = {n \in 1..Len(rows) : Stands(rows, t, line, n)}
    BY <2>1 DEF RowsFor, Stands
  <2>4. ASSUME NEW t \in Targets, NEW i \in ReferencesIn(docs[t])
        PROVE  /\ RowsFor(t, docs[t][i]) # {}
               /\ \A j \in ReferencesIn(docs[t]) : i # j =>
                    \E m \in RowsFor(t, docs[t][i]), n \in RowsFor(t, docs[t][j]) : m # n
               /\ InCitations(docs[t], i)
    <3> DEFINE line == docs[t][i]
    <3>1. /\ Resolves(rows, t, line) /\ InCitations(docs[t], i)
          /\ \A j \in ReferencesIn(docs[t]) : i # j => Apart(rows, t, line, docs[t][j])
      BY <2>2 DEF Sound
    <3> HIDE DEF line
    <3>2. RowsFor(t, line) # {}
      BY <2>3, <3>1 DEF Resolves
    <3>3. ASSUME NEW j \in ReferencesIn(docs[t]), i # j
          PROVE  \E m \in RowsFor(t, line), n \in RowsFor(t, docs[t][j]) : m # n
      BY <2>3, <3>1, <3>3 DEF Apart
    <3> QED
      BY <3>1, <3>2, <3>3 DEF line
  <2>5. \A m, n \in DOMAIN rows :
           m # n /\ rows[m].target = rows[n].target => rows[m].no # rows[n].no
    BY <2>1 DEF DocsInv, RowsInv
  <2> QED
    BY <2>4, <2>5 DEF ReferencesResolve
<1> QED
  BY <1>1, DocsAlways, PTL

(* Without git, a line that a call says it appended stays in its document,    *)
(* whatever other calls and clients do.  (doc-cite.ts step 6, executeWrite.)  *)
THEOREM AppendedKept == ServiceSpec => []AppendedStays
<1>1. DocsInv => AppendedStays
  BY DEF DocsInv, LinesInv, LineOf, AppendedStays, File
<1> QED
  BY <1>1, DocsAlways, PTL
=============================================================================
