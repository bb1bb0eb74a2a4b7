---------------------------- MODULE Router_proofs ----------------------------
(***************************************************************************)
(* Theorems about Router for any routers, routes, references and calls.    *)
(***************************************************************************)
EXTENDS Router, FiniteSetTheorems, NaturalsInduction, WellFoundedInduction, TLAPS

-----------------------------------------------------------------------------
(* What the sequences and the sums of the model are. *)

\* A set of naturals has a least one.
LEMMA Least ==
    ASSUME NEW S, S \subseteq Nat, S # {}
    PROVE  \E x \in S : \A y \in S : x <= y
  <1> DEFINE less == {p \in Nat \X Nat : p[1] < p[2]}
  <1>1. IsWellFoundedOn(less, Nat)
    BY NatLessThanWellFounded DEF OpToRel
  <1>2. PICK x \in S : \A y \in S : <<y, x>> \notin less
    <2> HIDE DEF less
    <2>1. QED
      BY <1>1, WFMin
  <1>3. ASSUME NEW y \in S PROVE x <= y
    <2>1. ~(y < x)
      BY <1>2
    <2>2. QED
      BY <2>1
  <1>4. QED
    BY <1>3

\* Induction over the naturals, stated of a set and not of a property.
LEMMA NatInduct ==
    ASSUME NEW S, 0 \in S, \A n \in Nat : n \in S => n + 1 \in S
    PROVE  Nat \subseteq S
  <1> DEFINE rest == Nat \ S
  <1> SUFFICES ASSUME rest # {} PROVE FALSE
    OBVIOUS
  <1>1. PICK x \in rest : \A y \in rest : x <= y
    <2> HIDE DEF rest
    <2>1. rest \subseteq Nat
      BY DEF rest
    <2>2. QED
      BY <2>1, Least
  <1>2. x \in Nat \ {0}
    OBVIOUS
  <1>3. x - 1 \in Nat /\ (x - 1) + 1 = x /\ ~(x <= x - 1)
    BY <1>2
  <1>4. x - 1 \in S
    BY <1>1, <1>3
  <1>5. QED
    BY <1>3, <1>4

\* s is the first m sequences of ss one behind the other.
Flat(S, ss, m, s) ==
    /\ s \in Seq(S)
    /\ \A x : x \in ToSet(s) <=> \E i \in 1..m : x \in ToSet(ss[i])
    /\ \A k, l \in DOMAIN s : k < l =>
          \E i, j \in 1..m : /\ i <= j /\ s[k] \in ToSet(ss[i]) /\ s[l] \in ToSet(ss[j])
                             /\ i = j => Len(ss[i]) \notin {0, 1}

\* The next sequence behind the others.
LEMMA FlatStep ==
    ASSUME NEW S, NEW ss \in Seq(Seq(S)), NEW m \in 1..Len(ss), NEW s, Flat(S, ss, m - 1, s)
    PROVE  Flat(S, ss, m, s \o ss[m])
  <1> DEFINE t == ss[m]
             u == s \o t
  <1>1. s \in Seq(S) /\ t \in Seq(S)
    BY DEF Flat
  <1>2. /\ Len(s) \in Nat /\ Len(t) \in Nat /\ DOMAIN s = 1..Len(s) /\ DOMAIN t = 1..Len(t)
        /\ u \in Seq(S) /\ Len(u) = Len(s) + Len(t) /\ DOMAIN u = 1..(Len(s) + Len(t))
        /\ \A i \in 1..(Len(s) + Len(t)) : u[i] = IF i <= Len(s) THEN s[i] ELSE t[i - Len(s)]
    BY <1>1
  <1>3. m \in Nat \ {0} /\ 1..m = 1..(m - 1) \union {m}
    OBVIOUS
  <1>4. \A i \in DOMAIN s : i \in DOMAIN u /\ u[i] = s[i]
    BY <1>2
  <1>5. \A i \in DOMAIN t : i + Len(s) \in DOMAIN u /\ u[i + Len(s)] = t[i]
    BY <1>2
  <1>6. \A i \in DOMAIN u : \/ i \in DOMAIN s /\ u[i] = s[i]
                            \/ i - Len(s) \in DOMAIN t /\ u[i] = t[i - Len(s)]
    BY <1>2
  <1> HIDE DEF t, u
  <1>7. ToSet(u) = ToSet(s) \union ToSet(t)
    BY <1>4, <1>5, <1>6 DEF ToSet
  <1>8. \A x : x \in ToSet(u) <=> \E i \in 1..m : x \in ToSet(ss[i])
    BY <1>3, <1>7 DEF Flat, t
  <1>9. ASSUME NEW k \in DOMAIN u, NEW l \in DOMAIN u, k < l
        PROVE  \E i, j \in 1..m : /\ i <= j /\ u[k] \in ToSet(ss[i]) /\ u[l] \in ToSet(ss[j])
                                  /\ i = j => Len(ss[i]) \notin {0, 1}
    <2>1. CASE l \in DOMAIN s
      <3>1. k \in DOMAIN s
        BY <1>2, <1>9, <2>1
      <3>2. PICK i \in 1..(m - 1), j \in 1..(m - 1) :
               /\ i <= j /\ s[k] \in ToSet(ss[i]) /\ s[l] \in ToSet(ss[j])
               /\ i = j => Len(ss[i]) \notin {0, 1}
        BY <1>9, <2>1, <3>1 DEF Flat
      <3>3. i \in 1..m /\ j \in 1..m /\ u[k] = s[k] /\ u[l] = s[l]
        BY <1>3, <1>4, <2>1, <3>1
      <3>4. QED
        BY <3>2, <3>3
    <2>2. CASE k \in DOMAIN s /\ l \notin DOMAIN s
      <3>1. u[k] \in ToSet(s)
        BY <1>4, <2>2 DEF ToSet
      <3>2. PICK i \in 1..(m - 1) : u[k] \in ToSet(ss[i])
        BY <3>1 DEF Flat
      <3>3. u[l] \in ToSet(t)
        BY <1>6, <2>2 DEF ToSet
      <3>4. i \in 1..m /\ m \in 1..m /\ i <= m /\ i # m
        BY <1>3
      <3>5. QED
        BY <3>2, <3>3, <3>4 DEF t
    <2>3. CASE k \notin DOMAIN s
      <3>1. l \notin DOMAIN s
        BY <1>2, <1>9, <2>3
      <3>2. u[k] \in ToSet(t) /\ u[l] \in ToSet(t)
        BY <1>6, <2>3, <3>1 DEF ToSet
      <3>3. Len(t) \notin {0, 1}
        <4>1. k \in Nat /\ l \in Nat /\ k < l /\ k > Len(s) /\ l <= Len(s) + Len(t)
          BY <1>2, <1>9, <2>3
        <4>2. Len(t) > 1
          BY <1>2, <4>1
        <4>3. PICK n \in Nat : n = Len(t)
          BY <1>2
        <4>4. n \notin {0, 1}
          BY <4>2, <4>3
        <4>5. QED
          BY <4>3, <4>4
      <3>4. m \in 1..m /\ m <= m
        BY <1>3
      <3>5. QED
        BY <3>2, <3>3, <3>4 DEF t
    <2>4. QED
      BY <2>1, <2>2, <2>3
  <1>10. QED
    BY <1>2, <1>8, <1>9 DEF Flat, u, t

\* FlattenSeq, with which the model puts the keys of several routes into one pipeline and
\* filters an answer, keeps the elements and their order.
LEMMA Flattened ==
    ASSUME NEW S, NEW ss \in Seq(Seq(S))
    PROVE  Flat(S, ss, Len(ss), FlattenSeq(ss))
  <1> DEFINE n == Len(ss)
             h(f, m) == [i \in 1..m |-> IF i = 1 THEN ss[i] ELSE f[i - 1] \o ss[i]]
  <1>1. n \in Nat
    OBVIOUS
  <1> HIDE DEF n
  <1>2. \A m \in Nat : \E f : f = h(f, m)
    <2> DEFINE P(m) == \E f : f = h(f, m)
               T    == {m \in Nat : P(m)}
    <2>1. P(0)
      <3>1. <<>> = h(<<>>, 0)
        OBVIOUS
      <3>2. QED
        BY <3>1
    <2>2. ASSUME NEW m \in Nat, P(m) PROVE P(m + 1)
      <3>1. PICK f : f = h(f, m)
        BY <2>2
      <3> DEFINE g == [i \in 1..(m + 1) |->
                          IF i \in 1..m THEN f[i]
                          ELSE IF i = 1 THEN ss[i] ELSE f[i - 1] \o ss[i]]
      <3>2. ASSUME NEW i \in 1..(m + 1)
            PROVE  g[i] = IF i = 1 THEN ss[i] ELSE g[i - 1] \o ss[i]
        <4>1. CASE i \in 1..m
          <5>1. g[i] = f[i] /\ (i # 1 => g[i - 1] = f[i - 1])
            BY <4>1
          <5>2. f[i] = IF i = 1 THEN ss[i] ELSE f[i - 1] \o ss[i]
            BY <3>1, <4>1
          <5>3. QED
            BY <5>1, <5>2
        <4>2. CASE i \notin 1..m
          <5>1. i = m + 1 /\ (i # 1 => i - 1 \in 1..m)
            BY <4>2
          <5>2. i # 1 => g[i - 1] = f[i - 1]
            BY <5>1
          <5>3. QED
            BY <4>2, <5>2
        <4>3. QED
          BY <4>1, <4>2
      <3>3. g = h(g, m + 1)
        BY <3>2
      <3> HIDE DEF g
      <3>4. QED
        BY <3>3
    <2> HIDE DEF P
    <2>3. 0 \in T /\ \A m \in Nat : m \in T => m + 1 \in T
      BY <2>1, <2>2
    <2>4. Nat \subseteq T
      <3> HIDE DEF T
      <3>1. QED
        BY <2>3, NatInduct
    <2>5. QED
      BY <2>4 DEF P
  <1> DEFINE F == CHOOSE f : f = h(f, n)
  <1>3. F = h(F, n)
    BY <1>1, <1>2, Zenon
  <1>4. n # 0 => FlattenSeq(ss) = F[n]
    BY DEF FlattenSeq, n
  <1> HIDE DEF F
  <1>5. \A m \in Nat : m \in 1..n => Flat(S, ss, m, F[m])
    <2> DEFINE T == {m \in Nat : m \in 1..n => Flat(S, ss, m, F[m])}
    <2>1. 0 \in T
      OBVIOUS
    <2>2. ASSUME NEW m \in Nat, m \in T PROVE m + 1 \in T
      <3> SUFFICES ASSUME m + 1 \in 1..n PROVE Flat(S, ss, m + 1, F[m + 1])
        OBVIOUS
      <3>1. F[m + 1] = IF m + 1 = 1 THEN ss[m + 1] ELSE F[(m + 1) - 1] \o ss[m + 1]
        BY <1>3
      <3>2. (m + 1) - 1 = m /\ m + 1 \in 1..Len(ss)
        BY DEF n
      <3>3. CASE m = 0
        <4>1. Flat(S, ss, (m + 1) - 1, <<>>)
          BY <3>3 DEF Flat, ToSet
        <4>2. Flat(S, ss, m + 1, <<>> \o ss[m + 1])
          BY <3>2, <4>1, FlatStep
        <4>3. ss[m + 1] \in Seq(S)
          BY <3>2
        <4>4. <<>> \o ss[m + 1] = ss[m + 1]
          BY <4>3
        <4>5. QED
          BY <3>1, <3>3, <4>2, <4>4
      <3>4. CASE m # 0
        <4>1. Flat(S, ss, (m + 1) - 1, F[m])
          <5>1. m \in 1..n
            BY <1>1, <3>4
          <5>2. Flat(S, ss, m, F[m])
            BY <2>2, <5>1
          <5>3. QED
            BY <3>2, <5>2
        <4>2. Flat(S, ss, m + 1, F[m] \o ss[m + 1])
          BY <3>2, <4>1, FlatStep
        <4>3. QED
          BY <3>1, <3>2, <3>4, <4>2
      <3>5. QED
        BY <3>3, <3>4
    <2> HIDE DEF T
    <2>3. Nat \subseteq T
      BY <2>1, <2>2, NatInduct
    <2>4. QED
      BY <2>3 DEF T
  <1>6. CASE n = 0
    <2>1. FlattenSeq(ss) = <<>>
      BY <1>6 DEF FlattenSeq, n
    <2>2. QED
      BY <1>6, <2>1 DEF Flat, ToSet, n
  <1>7. CASE n # 0
    BY <1>1, <1>4, <1>5, <1>7 DEF n
  <1>8. QED
    BY <1>6, <1>7
\* The sum of the distances of a group (FT.AGGREGATE's REDUCE SUM) is a natural.
LEMMA SumOfDistances ==
    ASSUME NEW t \in Statements, NEW S \in SUBSET References
    PROVE  MapThenSumSet(LAMBDA x : Distance(t, x), S) \in Nat
  <1> DEFINE el(s)   == CHOOSE x \in s : TRUE
             h(f, s) == IF s = {} THEN 0 ELSE Distance(t, el(s)) + f[s \ {el(s)}]
  <1>1. ASSUME NEW s \in SUBSET S, s # {}
        PROVE  /\ el(s) \in s /\ s \ {el(s)} \in SUBSET S
               /\ Distance(t, el(s)) \in Nat
               /\ Cardinality(s \ {el(s)}) = Cardinality(s) - 1
    <2>1. el(s) \in s
      BY <1>1
    <2>2. IsFiniteSet(s)
      BY FS_Subset, RouterAssumption
    <2> HIDE DEF el
    <2>3. Distance(t, el(s)) \in 0..MaxThreshold
      BY <2>1, RouterAssumption
    <2>4. Cardinality(s \ {el(s)}) = Cardinality(s) - 1
      BY <2>1, <2>2, FS_RemoveElement
    <2>5. QED
      BY <2>1, <2>3, <2>4, RouterAssumption
  <1>2. \A s \in SUBSET S : Cardinality(s) \in Nat /\ (Cardinality(s) = 0 <=> s = {})
    BY FS_Subset, FS_CardinalityType, FS_EmptySet, RouterAssumption
  <1> HIDE DEF el
  <1>3. \E f : \A s \in SUBSET S : f[s] = h(f, s)
    <2> DEFINE P(n) == \E f : \A s \in SUBSET S : Cardinality(s) <= n => f[s] = h(f, s)
               T    == {n \in Nat : P(n)}
    <2>1. P(0)
      <3> DEFINE z == [s \in SUBSET S |-> 0]
      <3>1. \A s \in SUBSET S : Cardinality(s) <= 0 => z[s] = h(z, s)
        BY <1>2
      <3> HIDE DEF z
      <3>2. QED
        BY <3>1
    <2>2. ASSUME NEW n \in Nat, P(n) PROVE P(n + 1)
      <3>1. PICK f : \A s \in SUBSET S : Cardinality(s) <= n => f[s] = h(f, s)
        BY <2>2
      <3> DEFINE g == [s \in SUBSET S |-> IF Cardinality(s) <= n THEN f[s] ELSE h(f, s)]
      <3>2. ASSUME NEW s \in SUBSET S, Cardinality(s) <= n + 1 PROVE g[s] = h(g, s)
        <4>1. g[s] = h(f, s)
          BY <3>1
        <4>2. s # {} => g[s \ {el(s)}] = f[s \ {el(s)}]
          BY <1>1, <1>2, <3>2
        <4>3. QED
          BY <4>1, <4>2
      <3> HIDE DEF g
      <3>3. QED
        BY <3>2
    <2> HIDE DEF P
    <2>3. 0 \in T /\ \A n \in Nat : n \in T => n + 1 \in T
      BY <2>1, <2>2
    <2>4. Nat \subseteq T
      <3> HIDE DEF T
      <3>1. QED
        BY <2>3, NatInduct
    <2>5. P(Cardinality(S)) /\ IsFiniteSet(S) /\ Cardinality(S) \in Nat
      BY <1>2, <2>4, FS_Subset, RouterAssumption
    <2>6. \A s \in SUBSET S : Cardinality(s) <= Cardinality(S)
      BY <2>5, FS_Subset
    <2>7. QED
      BY <2>5, <2>6 DEF P
  <1> DEFINE F == CHOOSE f : f = [s \in SUBSET S |-> h(f, s)]
  <1>4. F = [s \in SUBSET S |-> h(F, s)]
    <2>1. PICK f : \A s \in SUBSET S : f[s] = h(f, s)
      BY <1>3
    <2> DEFINE g == [s \in SUBSET S |-> f[s]]
    <2>2. ASSUME NEW s \in SUBSET S PROVE g[s] = h(g, s)
      BY <1>1, <2>1
    <2>3. g = [s \in SUBSET S |-> h(g, s)]
      BY <2>2
    <2> HIDE DEF g
    <2>4. \E q : q = [s \in SUBSET S |-> h(q, s)]
      BY <2>3
    <2>5. QED
      BY <2>4, Zenon
  <1>5. MapThenSumSet(LAMBDA x : Distance(t, x), S) = F[S]
    BY DEF MapThenSumSet, MapThenFoldSet, el
  <1> HIDE DEF F
  <1>6. \A n \in Nat : \A s \in SUBSET S : Cardinality(s) <= n => F[s] \in Nat
    <2> DEFINE T == {n \in Nat : \A s \in SUBSET S : Cardinality(s) <= n => F[s] \in Nat}
    <2>1. 0 \in T
      BY <1>2, <1>4
    <2>2. ASSUME NEW n \in Nat, n \in T PROVE n + 1 \in T
      <3> SUFFICES ASSUME NEW s \in SUBSET S, Cardinality(s) <= n + 1 PROVE F[s] \in Nat
        OBVIOUS
      <3>1. CASE s = {}
        BY <1>4, <3>1
      <3>2. CASE s # {}
        <4>1. F[s \ {el(s)}] \in Nat
          BY <1>1, <1>2, <2>2, <3>2
        <4>2. F[s] = Distance(t, el(s)) + F[s \ {el(s)}]
          BY <1>4, <3>2
        <4>3. QED
          BY <1>1, <3>2, <4>1, <4>2
      <3>3. QED
        BY <3>1, <3>2
    <2> HIDE DEF T
    <2>3. Nat \subseteq T
      BY <2>1, <2>2, NatInduct
    <2>4. QED
      BY <2>3 DEF T
  <1>7. QED
    BY <1>2, <1>5, <1>6
\* An order of a finite set has each of its elements.
LEMMA Orders ==
    ASSUME NEW S, IsFiniteSet(S), NEW s \in SetToSeqs(S)
    PROVE  s \in Seq(S) /\ ToSet(s) = S
  <1> DEFINE n == Cardinality(S)
             D == 1..n
  <1>1. n \in Nat
    BY FS_CardinalityType
  <1>2. s \in [D -> S] /\ \A i, j \in D : i # j => s[i] # s[j]
    BY DEF SetToSeqs
  <1>3. IsFiniteSet(D) /\ Cardinality(D) = n
    BY <1>1, FS_Interval
  <1>4. s \in Injection(D, S)
    BY <1>2 DEF Injection, IsInjective
  <1>5. s \in Surjection(D, S)
    BY <1>3, <1>4, FS_Injection
  <1> HIDE DEF n
  <1>6. s \in Seq(S)
    BY <1>1, <1>2
  <1>7. ToSet(s) = S
    BY <1>2, <1>5 DEF ToSet, Surjection
  <1>8. QED
    BY <1>6, <1>7

\* So has the order in which the references of a route are written.
LEMMA Order ==
    ASSUME NEW S, IsFiniteSet(S)
    PROVE  SetToSeq(S) \in Seq(S) /\ ToSet(SetToSeq(S)) = S
  <1> DEFINE n == Cardinality(S)
             s == SetToSeq(S)
  <1>1. \E f \in [1..n -> S] : IsInjective(f)
    BY FS_CardinalityType DEF ExistsBijection, Bijection, Injection
  <1>2. s \in [1..n -> S] /\ IsInjective(s)
    BY <1>1 DEF SetToSeq
  <1>3. s \in SetToSeqs(S)
    BY <1>2 DEF SetToSeqs, IsInjective
  <1>4. QED
    BY <1>3, Orders

-----------------------------------------------------------------------------
(* Lists of routes. *)

GoodRoutes(list) ==
    /\ list \in Seq(Route)
    /\ \A i \in DOMAIN list : list[i].references # {}

\* What New and AddRoute are given is a list of routes.
LEMMA GivenRoutes ==
    ASSUME NEW q \in Requests, q.op \in {"new", "add"}
    PROVE  /\ Given(q) \in Seq(Route)
           /\ q.op = "new" => Given(q) = q.routes /\ q.config \in Config
           /\ q.op = "add" => q.route \in Route /\ Given(q) = <<q.route>>
  <1>1. CASE q.op = "new"
    <2>1. q.routes \in Seq(Route) /\ q.config \in Config
      BY <1>1, RouterAssumption DEF Request
    <2>2. QED
      BY <1>1, <2>1, RouterAssumption DEF Given
  <1>2. CASE q.op = "add"
    <2>1. q.route \in Route
      BY <1>2, RouterAssumption DEF Request
    <2>2. <<q.route>> \in Seq(Route) /\ DOMAIN <<q.route>> = {1}
      BY <2>1
    <2>3. QED
      BY <1>2, <2>1, <2>2 DEF Given
  <1>3. QED
    BY <1>1, <1>2

\* The keys of a route are keys, and finitely many.
LEMMA RouteKeys ==
    ASSUME NEW route \in Route
    PROVE  KeysOf(route) \subseteq Keys /\ IsFiniteSet(KeysOf(route))
  <1>1. KeysOf(route) \subseteq Keys
    BY DEF KeysOf, Keys, Route
  <1>2. IsFiniteSet(Keys)
    BY RouterAssumption, FS_Product DEF Keys
  <1>3. QED
    BY <1>1, <1>2, FS_Subset

\* The pipeline of a New or an AddRoute has the keys of its routes and no others.
LEMMA PipelineKeys ==
    ASSUME NEW q \in Requests, q.op \in {"new", "add"}
    PROVE  /\ HSets(q) \in Seq(Keys)
           /\ \A i \in DOMAIN Given(q) : KeysOf(Given(q)[i]) \subseteq ToSet(HSets(q))
  <1> DEFINE ss == [i \in DOMAIN Given(q) |-> SetToSeq(KeysOf(Given(q)[i]))]
  <1>1. Given(q) \in Seq(Route)
    BY GivenRoutes
  <1>2. ASSUME NEW i \in DOMAIN Given(q)
        PROVE  /\ SetToSeq(KeysOf(Given(q)[i])) \in Seq(Keys)
               /\ ToSet(SetToSeq(KeysOf(Given(q)[i]))) = KeysOf(Given(q)[i])
    <2>1. Given(q)[i] \in Route
      BY <1>1
    <2>2. /\ KeysOf(Given(q)[i]) \subseteq Keys /\ IsFiniteSet(KeysOf(Given(q)[i]))
      BY <2>1, RouteKeys
    <2> HIDE DEF ss
    <2>3. /\ SetToSeq(KeysOf(Given(q)[i])) \in Seq(KeysOf(Given(q)[i]))
          /\ ToSet(SetToSeq(KeysOf(Given(q)[i]))) = KeysOf(Given(q)[i])
      BY <2>2, Order
    <2>4. QED
      BY <2>2, <2>3
  <1>3. Len(Given(q)) \in Nat /\ DOMAIN Given(q) = 1..Len(Given(q))
    BY <1>1
  <1>4. /\ ss \in Seq(Seq(Keys)) /\ Len(ss) = Len(Given(q))
        /\ \A i \in DOMAIN Given(q) : ToSet(ss[i]) = KeysOf(Given(q)[i])
    BY <1>2, <1>3
  <1>5. HSets(q) = FlattenSeq(ss)
    BY DEF HSets
  <1> HIDE DEF ss
  <1>6. Flat(Keys, ss, Len(ss), HSets(q))
    BY <1>4, <1>5, Flattened
  <1>7. QED
    BY <1>3, <1>4, <1>6 DEF Flat

\* validate changes nothing of a route but its threshold.
LEMMA DefaultedRoute ==
    ASSUME NEW route \in Route
    PROVE  /\ Defaulted(route) \in Route
           /\ Defaulted(route).name = route.name
           /\ Defaulted(route).references = route.references
  BY RouterAssumption DEF Defaulted, Route

\* AddRoute keeps a list of routes one, and lists none of them a second time.
LEMMA AddedRoutes ==
    ASSUME NEW list, GoodRoutes(list), NEW route \in Route, route.references # {}
    PROVE  GoodRoutes(Added(list, route)) /\ Doubles(Added(list, route)) \subseteq Doubles(list)
  <1> DEFINE I == {i \in 1..Len(list) : list[i].name = route.name}
  <1>1. list \in Seq(Route) /\ Len(list) \in Nat /\ DOMAIN list = 1..Len(list)
    BY DEF GoodRoutes
  <1>2. CASE I # {}
    <2>1. PICK k \in I : \A i \in I : k <= i
      <3>1. I \subseteq Nat
        BY <1>1
      <3> HIDE DEF I
      <3>2. QED
        BY <1>2, <3>1, Least
    <2>2. k \in DOMAIN list /\ list[k] \in Route
      BY <1>1, <2>1
    <2> DEFINE new   == Extended(list[k], route)
               added == [list EXCEPT ![k] = new]
    <2>3. new \in Route /\ new.name = list[k].name /\ new.references # {}
      BY <2>2 DEF Route, Extended
    <2>4. Added(list, route) = added
      <3>1. Min(I) = k
        BY <1>1, <2>1 DEF Min
      <3>2. k # 0
        BY <1>1, <2>2
      <3>3. Added(list, route) = [list EXCEPT ![Min(I)] = Extended(@, route)]
        BY <1>2, <3>1, <3>2 DEF Added, SelectInSeq
      <3>4. QED
        BY <3>1, <3>3
    <2> HIDE DEF new
    <2>5. /\ added \in Seq(Route) /\ DOMAIN added = DOMAIN list
          /\ \A i \in DOMAIN list : added[i] = IF i = k THEN new ELSE list[i]
      BY <1>1, <2>2, <2>3
    <2> HIDE DEF added
    <2>6. \A i \in DOMAIN list : added[i].name = list[i].name
      BY <2>3, <2>5
    <2>7. GoodRoutes(added)
      BY <2>3, <2>5 DEF GoodRoutes
    <2>8. Doubles(added) \subseteq Doubles(list)
      BY <2>5, <2>6 DEF Doubles
    <2>9. QED
      BY <2>4, <2>7, <2>8
  <1>3. CASE I = {}
    <2> DEFINE n     == Len(list) + 1
               added == Append(list, route)
    <2>1. Added(list, route) = added
      BY <1>3 DEF Added, SelectInSeq
    <2>2. /\ added \in Seq(Route) /\ DOMAIN added = DOMAIN list \union {n} /\ n \notin DOMAIN list
          /\ \A i \in DOMAIN list : added[i] = list[i]
          /\ added[n] = route
      BY <1>1
    <2>3. \A i \in DOMAIN list : list[i].name # route.name
      BY <1>1, <1>3
    <2> HIDE DEF added, n
    <2>4. GoodRoutes(added)
      BY <2>2, <2>3 DEF GoodRoutes
    <2>5. ASSUME NEW i \in DOMAIN added, NEW j \in DOMAIN added, j # i,
                 added[j].name = added[i].name
          PROVE  i \in DOMAIN list /\ j \in DOMAIN list /\ list[j].name = list[i].name
      BY <2>2, <2>3, <2>5
    <2>6. Doubles(added) \subseteq Doubles(list)
      BY <2>2, <2>5 DEF Doubles
    <2>7. QED
      BY <2>1, <2>4, <2>6
  <1>4. QED
    BY <1>2, <1>3

\* RemoveRoute keeps a list of routes one, and takes the route off it if it is there once.
LEMMA RemovedRoute ==
    ASSUME NEW list, GoodRoutes(list), NEW n,
           NEW rest, rest = RemoveFirstMatch(list, LAMBDA route : route.name = n)
    PROVE  GoodRoutes(rest) /\ (n \in Listed(rest) => n \in Doubles(list))
  <1> DEFINE I == {i \in 1..Len(list) : list[i].name = n}
             k == Min(I)
  <1>1. list \in Seq(Route) /\ Len(list) \in Nat /\ DOMAIN list = 1..Len(list)
    BY DEF GoodRoutes
  <1>2. CASE I = {}
    <2>1. rest = list
      BY <1>2 DEF RemoveFirstMatch
    <2>2. QED
      BY <1>1, <1>2, <2>1 DEF Listed
  <1>3. CASE I # {}
    <2>1. PICK m \in I : \A i \in I : m <= i
      <3>1. I \subseteq Nat
        BY <1>1
      <3> HIDE DEF I
      <3>2. QED
        BY <1>3, <3>1, Least
    <2>2. k = m
      BY <1>1, <2>1 DEF Min
    <2>3. rest = SubSeq(list, 1, k - 1) \o SubSeq(list, k + 1, Len(list))
      BY <1>3 DEF RemoveFirstMatch, RemoveAt, SelectInSeq
    <2>4. m \in 1..Len(list) /\ list[m].name = n
      BY <2>1
    <2> HIDE DEF I, k
    <2> DEFINE old(i) == IF i < m THEN i ELSE i + 1
    <2>5. /\ rest \in Seq(Route) /\ DOMAIN rest = 1..(Len(list) - 1)
          /\ \A i \in 1..(Len(list) - 1) : rest[i] = list[old(i)]
      <3> DEFINE a == SubSeq(list, 1, m - 1)
                 b == SubSeq(list, m + 1, Len(list))
      <3>1. a \in Seq(Route) /\ Len(a) = m - 1 /\ \A i \in 1..(m - 1) : a[i] = list[i]
        BY <1>1, <2>4
      <3>2. /\ b \in Seq(Route) /\ Len(b) = Len(list) - m
            /\ \A i \in 1..(Len(list) - m) : b[i] = list[m + i]
        BY <1>1, <2>4
      <3>3. rest = a \o b
        BY <2>2, <2>3
      <3> HIDE DEF a, b
      <3>4. /\ a \o b \in Seq(Route) /\ Len(a \o b) = Len(a) + Len(b)
            /\ \A i \in 1..(Len(a) + Len(b)) :
                  (a \o b)[i] = IF i <= Len(a) THEN a[i] ELSE b[i - Len(a)]
        <4>1. a \in Seq(Route) /\ b \in Seq(Route)
          BY <3>1, <3>2
        <4>2. a \o b \in Seq(Route) /\ Len(a \o b) = Len(a) + Len(b)
          BY <4>1
        <4>3. \A i \in 1..(Len(a) + Len(b)) :
                 (a \o b)[i] = IF i <= Len(a) THEN a[i] ELSE b[i - Len(a)]
          BY <4>1
        <4> QED BY <4>2, <4>3
      <3>5. Len(a) + Len(b) = Len(list) - 1 /\ Len(list) - 1 \in Nat
        BY <1>1, <2>4, <3>1, <3>2
      <3>6. rest \in Seq(Route) /\ Len(rest) = Len(list) - 1
        BY <3>3, <3>4, <3>5
      <3>7. ASSUME NEW i \in 1..(Len(list) - 1) PROVE rest[i] = list[old(i)]
        <4>1. rest[i] = IF i <= m - 1 THEN a[i] ELSE b[i - (m - 1)]
          BY <3>1, <3>3, <3>4, <3>5
        <4>2. CASE i < m
          BY <1>1, <2>4, <3>1, <4>1, <4>2
        <4>3. CASE ~(i < m)
          <5>1. i - (m - 1) \in 1..(Len(list) - m) /\ m + (i - (m - 1)) = i + 1 /\ ~(i <= m - 1)
            BY <1>1, <2>4, <4>3
          <5>2. QED
            BY <3>2, <4>1, <4>3, <5>1
        <4>4. QED
          BY <4>2, <4>3
      <3>8. DOMAIN rest = 1..(Len(list) - 1)
        BY <3>6
      <3> HIDE DEF old
      <3>9. QED
        BY <3>6, <3>7, <3>8
    <2>6. \A i \in 1..(Len(list) - 1) : old(i) \in DOMAIN list /\ old(i) # m
      BY <1>1, <2>4
    <2> HIDE DEF old
    <2>7. GoodRoutes(rest)
      <3> SUFFICES ASSUME NEW i \in DOMAIN rest
                   PROVE  rest[i].references # {}
        BY <2>5 DEF GoodRoutes
      <3>1. rest[i] = list[old(i)] /\ old(i) \in DOMAIN list
        BY <2>5, <2>6
      <3>2. QED
        BY <2>5, <2>6, <3>1 DEF GoodRoutes
    <2>8. ASSUME n \in Listed(rest) PROVE n \in Doubles(list)
      <3>1. PICK i \in DOMAIN rest : rest[i].name = n
        BY <2>8 DEF Listed
      <3>2. list[old(i)].name = n /\ old(i) \in DOMAIN list /\ old(i) # m
        BY <2>5, <2>6, <3>1
      <3>3. QED
        BY <1>1, <2>4, <3>2 DEF Doubles
    <2>9. QED
      BY <2>7, <2>8
  <1>4. QED
    BY <1>2, <1>3

-----------------------------------------------------------------------------
(* Types.  A call is at a command of its own operation. *)

CallAt(r) ==
    /\ pc[r] = "create" => req[r].op = "new"
    /\ pc[r] \in {"create", "embed", "hset"} =>
          /\ req[r].op \in {"new", "add"}
          /\ \A i \in DOMAIN Given(req[r]) : Given(req[r])[i].references # {}
    /\ pc[r] \in {"scan", "del"} => req[r].op = "remove"
    /\ pc[r] \in {"clear", "delete"} => req[r].op = pc[r]
    /\ pc[r] \in {"embed_statement", "aggregate"} => req[r].op \in {"route", "many"}

Shape == TypeOK /\ \A r \in Routers : CallAt(r)

\* Each list of routes of a process is one.
LEMMA ListsAreGood ==
    ASSUME TypeOK, NEW r \in Routers
    PROVE  GoodRoutes(routes[r])
  BY DEF TypeOK, GoodRoutes

\* The routers start with no call, no route and no key.
LEMMA InitShape == Init => Shape
  <1> SUFFICES ASSUME Init PROVE Shape
    OBVIOUS
  <1>1. [maxK |-> 1, aggregation |-> "avg"] \in Config
    BY DEF Config
  <1>2. /\ routes \in [Routers -> Seq(Route)] /\ todo \in [Routers -> Seq(Keys)]
        /\ matches \in [Routers -> Seq(Match)]
        /\ \A r \in Routers : routes[r] = <<>>
    BY DEF Init
  <1>3. \A r \in Routers : DOMAIN routes[r] = {}
    BY <1>2
  <1>4. req \in [Routers -> {NoRequest}] /\ \A r \in Routers : pc[r] = "idle"
    BY DEF Init
  <1>5. TypeOK
    BY <1>1, <1>2, <1>3, <1>4 DEF Init, TypeOK, Labels
  <1>6. \A r \in Routers : CallAt(r)
    BY <1>4 DEF CallAt
  <1>7. QED
    BY <1>5, <1>6 DEF Shape

\* A step of one router leaves the others at their commands.
LEMMA OthersStay ==
    ASSUME Shape, NEW r \in Routers, CallAt(r)',
           \A q \in Routers \ {r} : pc'[q] = pc[q] /\ req'[q] = req[q]
    PROVE  \A q \in Routers : CallAt(q)'
  <1> SUFFICES ASSUME NEW q \in Routers, q # r PROVE CallAt(q)'
    OBVIOUS
  <1>1. CallAt(q) /\ pc'[q] = pc[q] /\ req'[q] = req[q]
    BY DEF Shape
  <1>2. QED
    BY <1>1 DEF CallAt

\* Where a command that is answered or lost leaves its router.
LEMMA Moves ==
    ASSUME Shape, NEW r \in Routers, NEW l \in Labels, Goto(r, l) \/ Lose(r, l)
    PROVE  /\ pc' \in [Routers -> Labels] /\ faults' \in Nat /\ pc'[r] = l
           /\ \A q \in Routers \ {r} : pc'[q] = pc[q]
  <1>1. pc \in [Routers -> Labels] /\ faults \in Nat
    BY DEF Shape, TypeOK
  <1>2. pc' = [pc EXCEPT ![r] = l] /\ faults' \in {faults, faults + 1}
    BY DEF Goto, Lose
  <1>3. QED
    BY <1>1, <1>2

\* Removing keys leaves the histories sets of keys.
LEMMA RemoveTypes ==
    ASSUME TypeOK, NEW S, RemoveKeys(S)
    PROVE  /\ refs' \subseteq Keys
           /\ due' \in [Routers -> SUBSET Keys] /\ undone' \in [Routers -> SUBSET Keys]
  BY DEF TypeOK, RemoveKeys

\* The types of what the calls of a process keep there.
Histories ==
    /\ index \in BOOLEAN /\ refs \subseteq Keys
    /\ due \in [Routers -> SUBSET Keys] /\ undone \in [Routers -> SUBSET Keys]

Lists ==
    /\ made \in [Routers -> BOOLEAN] /\ routes \in [Routers -> Seq(Route)]
    /\ config \in [Routers -> Config]
    /\ \A r \in Routers : GoodRoutes(routes[r])

Cursors ==
    /\ todo \in [Routers -> Seq(Keys)] /\ matches \in [Routers -> Seq(Match)]
    /\ unseen \in [Routers -> SUBSET Keys] /\ batch \in [Routers -> SUBSET Keys]

\* A command that leaves the calls as they are keeps the types if its parts do.
LEMMA StepShape ==
    ASSUME Shape, NEW r \in Routers, NEW l \in Labels, Goto(r, l) \/ Lose(r, l),
           req' = req, calls' = calls, pc[r] # "idle",
           Histories', Lists', Cursors', CallAt(r)'
    PROVE  Shape'
  <1>1. /\ pc' \in [Routers -> Labels] /\ faults' \in Nat
        /\ \A q \in Routers \ {r} : pc'[q] = pc[q]
    BY Moves
  <1>2. \A q \in Routers : CallAt(q)'
    BY <1>1, OthersStay
  <1>3. \A q \in Routers : pc'[q] # "idle" => req'[q] \in Requests
    BY <1>1 DEF Shape, TypeOK
  <1>4. TypeOK'
    BY <1>1, <1>3 DEF TypeOK, Shape, Histories, Lists, Cursors, GoodRoutes
  <1>5. QED
    BY <1>2, <1>4 DEF Shape

\* The parts are typed.
LEMMA PartsTyped == TypeOK => Histories /\ Lists /\ Cursors
  BY ListsAreGood DEF TypeOK, Histories, Lists, Cursors, GoodRoutes

\* What New and AddRoute list, when all their keys are written.
LEMMA ListShape ==
    ASSUME Shape, NEW r \in Routers, pc[r] = "hset", List(r)
    PROVE  Lists' /\ (req[r].op = "add" => Doubles(routes'[r]) \subseteq Doubles(routes[r]))
  <1> DEFINE q == req[r]
  <1>1. q \in Requests /\ q.op \in {"new", "add"} /\ Lists
    BY PartsTyped DEF Shape, TypeOK, CallAt
  <1>2. \A i \in DOMAIN Given(q) : Given(q)[i].references # {}
    BY DEF Shape, CallAt
  <1>3. /\ Given(q) \in Seq(Route)
        /\ q.op = "new" => Given(q) = q.routes /\ q.config \in Config
        /\ q.op = "add" => q.route \in Route /\ Given(q) = <<q.route>>
    BY <1>1, GivenRoutes
  <1>4. made' \in [Routers -> BOOLEAN]
    BY <1>1 DEF List, Lists
  <1>5. config' \in [Routers -> Config]
    BY <1>1, <1>3 DEF List, Lists
  <1>6. PICK list : /\ GoodRoutes(list) /\ routes' = [routes EXCEPT ![r] = list]
                    /\ q.op = "add" => Doubles(list) \subseteq Doubles(routes[r])
    <2>1. CASE q.op = "new"
      <3> DEFINE list == [i \in DOMAIN q.routes |-> Defaulted(q.routes[i])]
      <3>1. ASSUME NEW i \in DOMAIN q.routes
            PROVE  /\ Defaulted(q.routes[i]) \in Route
                   /\ Defaulted(q.routes[i]).name = q.routes[i].name
                   /\ Defaulted(q.routes[i]).references # {}
        <4>1. q.routes[i] \in Route /\ q.routes[i].references # {}
          BY <1>2, <1>3, <2>1
        <4>2. QED
          BY <4>1, DefaultedRoute
      <3>2. list \in Seq(Route) /\ DOMAIN list = DOMAIN q.routes
        BY <1>3, <2>1, <3>1
      <3>3. GoodRoutes(list)
        BY <1>3, <2>1, <3>1, <3>2 DEF GoodRoutes
      <3>4. routes' = [routes EXCEPT ![r] = list]
        BY <2>1 DEF List
      <3> HIDE DEF list
      <3>5. QED
        BY <2>1, <3>3, <3>4
    <2>2. CASE q.op = "add"
      <3> DEFINE list == Added(routes[r], Defaulted(q.route))
      <3>1. q.route \in Route /\ q.route.references # {}
        <4>1. 1 \in DOMAIN Given(q) /\ Given(q)[1] = q.route
          BY <1>3, <2>2
        <4>2. QED
          BY <1>2, <1>3, <2>2, <4>1
      <3>2. Defaulted(q.route) \in Route /\ Defaulted(q.route).references # {}
        BY <3>1, DefaultedRoute
      <3>3. GoodRoutes(list) /\ Doubles(list) \subseteq Doubles(routes[r])
        BY <1>1, <3>2, AddedRoutes DEF Lists
      <3>4. routes' = [routes EXCEPT ![r] = list]
        BY <1>1, <2>2 DEF List, Lists
      <3> HIDE DEF list
      <3>5. QED
        BY <3>3, <3>4
    <2>3. QED
      BY <1>1, <2>1, <2>2
  <1>7. /\ routes' \in [Routers -> Seq(Route)]
        /\ \A p \in Routers : routes'[p] = IF p = r THEN list ELSE routes[p]
    BY <1>1, <1>6 DEF Lists, GoodRoutes
  <1>8. \A p \in Routers : GoodRoutes(routes'[p])
    BY <1>1, <1>6, <1>7 DEF Lists
  <1>9. Lists'
    BY <1>4, <1>5, <1>7, <1>8 DEF Lists, GoodRoutes
  <1>10. QED
    BY <1>6, <1>7, <1>9

-----------------------------------------------------------------------------
(* Answers. *)

\* The FILTER of thresholdFilter keeps the groups that are within, in their order.
LEMMA FilterKeepsOrder ==
    ASSUME NEW r \in Routers, NEW S, NEW s \in Seq(S)
    PROVE  /\ Filtered(r, s) \in Seq(S)
           /\ \A g : g \in ToSet(Filtered(r, s)) <=> g \in ToSet(s) /\ Within(r, g)
           /\ \A k, l \in DOMAIN Filtered(r, s) : k < l =>
                 \E i, j \in DOMAIN s : /\ i < j
                                        /\ Filtered(r, s)[k] = s[i] /\ Filtered(r, s)[l] = s[j]
  <1> DEFINE ss == [i \in DOMAIN s |-> IF Within(r, s[i]) THEN <<s[i]>> ELSE <<>>]
             F  == Filtered(r, s)
  <1>1. Len(s) \in Nat /\ DOMAIN s = 1..Len(s) /\ \A i \in DOMAIN s : s[i] \in S
    OBVIOUS
  <1>2. ASSUME NEW i \in DOMAIN s
        PROVE  /\ ss[i] \in Seq(S) /\ Len(ss[i]) \in {0, 1}
               /\ \A g : g \in ToSet(ss[i]) <=> g = s[i] /\ Within(r, s[i])
    <2>1. CASE Within(r, s[i])
      <3>1. ss[i] = <<s[i]>>
        BY <2>1
      <3> HIDE DEF ss
      <3>2. ss[i] \in Seq(S) /\ Len(ss[i]) = 1 /\ DOMAIN ss[i] = {1} /\ ss[i][1] = s[i]
        BY <1>1, <3>1
      <3>3. QED
        BY <2>1, <3>2 DEF ToSet
    <2>2. CASE ~Within(r, s[i])
      <3>1. ss[i] = <<>>
        BY <2>2
      <3> HIDE DEF ss
      <3>2. ss[i] \in Seq(S) /\ Len(ss[i]) = 0 /\ DOMAIN ss[i] = {}
        BY <3>1
      <3>3. QED
        BY <2>2, <3>2 DEF ToSet
    <2>3. QED
      BY <2>1, <2>2
  <1>3. F = FlattenSeq(ss)
    BY DEF Filtered
  <1>4. ss \in Seq(Seq(S)) /\ Len(ss) = Len(s)
    <2>1. ss \in [1..Len(s) -> Seq(S)]
      BY <1>1, <1>2
    <2> HIDE DEF ss
    <2>2. QED
      BY <1>1, <2>1
  <1> HIDE DEF ss, F
  <1>5. Flat(S, ss, Len(s), F)
    BY <1>3, <1>4, Flattened
  <1>6. ASSUME NEW g PROVE g \in ToSet(F) <=> g \in ToSet(s) /\ Within(r, g)
    <2>1. g \in ToSet(F) <=> \E i \in 1..Len(s) : g = s[i] /\ Within(r, s[i])
      <3>1. \A i \in 1..Len(s) : g \in ToSet(ss[i]) <=> g = s[i] /\ Within(r, s[i])
        BY <1>1, <1>2
      <3>2. g \in ToSet(F) <=> \E i \in 1..Len(s) : g \in ToSet(ss[i])
        BY <1>5 DEF Flat
      <3>3. QED
        BY <3>1, <3>2
    <2>2. QED
      BY <1>1, <2>1 DEF ToSet
  <1>7. ASSUME NEW k \in DOMAIN F, NEW l \in DOMAIN F, k < l
        PROVE  \E i, j \in DOMAIN s : i < j /\ F[k] = s[i] /\ F[l] = s[j]
    <2>1. PICK i \in 1..Len(s), j \in 1..Len(s) :
             /\ i <= j /\ F[k] \in ToSet(ss[i]) /\ F[l] \in ToSet(ss[j])
             /\ i = j => Len(ss[i]) \notin {0, 1}
      BY <1>5, <1>7 DEF Flat
    <2>2. F[k] = s[i] /\ F[l] = s[j] /\ Len(ss[i]) \in {0, 1}
      BY <1>1, <1>2, <2>1
    <2>3. i < j
      BY <1>1, <2>1, <2>2
    <2>4. QED
      BY <1>1, <2>2, <2>3
  <1>8. QED
    BY <1>5, <1>6, <1>7 DEF F, Flat

\* A group has a name, and the sum and number of some distances.
LEMMA Reduced ==
    ASSUME Shape, NEW r \in Routers, pc[r] = "aggregate", NEW n \in Names, InRange(r, n) # {}
    PROVE  Reduce(r, n) \in Match /\ Reduce(r, n).name = n
  <1> DEFINE t == req[r].statement
             S == InRange(r, n)
             D == {Distance(t, f) : f \in S}
  <1>1. t \in Statements
    <2>1. req[r] \in Requests /\ req[r].op \in {"route", "many"}
      BY DEF Shape, TypeOK, CallAt
    <2>2. QED
      BY <2>1, RouterAssumption DEF Request
  <1>2. S \in SUBSET References /\ IsFiniteSet(S) /\ Cardinality(S) \in Nat \ {0}
    <2>1. S \in SUBSET References
      BY DEF InRange
    <2>2. QED
      BY <2>1, RouterAssumption, FS_Subset, FS_CardinalityType, FS_EmptySet
  <1>3. MapThenSumSet(LAMBDA x : Distance(t, x), S) \in Nat
    BY <1>1, <1>2, SumOfDistances
  <1>4. Min(D) \in Nat
    <2>1. D \subseteq Nat /\ D # {}
      BY <1>1, <1>2, RouterAssumption
    <2> HIDE DEF D
    <2>2. \E d \in D : \A x \in D : d <= x
      BY <2>1, Least
    <2>3. QED
      BY <2>1, <2>2 DEF Min
  <1>5. CASE config[r].aggregation = "avg"
    <2>1. Reduce(r, n) = [name |-> n, sum |-> MapThenSumSet(LAMBDA x : Distance(t, x), S),
                          of |-> Cardinality(S)]
      BY <1>5 DEF Reduce
    <2>2. QED
      BY <1>2, <1>3, <2>1 DEF Match
  <1>6. CASE config[r].aggregation = "sum"
    <2>1. Reduce(r, n) = [name |-> n, sum |-> MapThenSumSet(LAMBDA x : Distance(t, x), S),
                          of |-> 1]
      BY <1>6 DEF Reduce
    <2>2. QED
      BY <1>3, <2>1 DEF Match
  <1>7. CASE config[r].aggregation \notin {"avg", "sum"}
    <2>1. Reduce(r, n) = [name |-> n, sum |-> Min(D), of |-> 1]
      BY <1>7 DEF Reduce
    <2>2. QED
      BY <1>4, <2>1 DEF Match
  <1>8. QED
    BY <1>5, <1>6, <1>7

\* The groups of a reply are finitely many.
LEMMA GroupsAreFinite ==
    ASSUME Shape, NEW r \in Routers, pc[r] = "aggregate"
    PROVE  Groups(r) \subseteq Match /\ IsFiniteSet(Groups(r))
  <1> DEFINE M == {n \in Names : InRange(r, n) # {}}
             f == [n \in M |-> Reduce(r, n)]
  <1>1. Groups(r) \subseteq Match
    BY Reduced DEF Groups
  <1>2. IsFiniteSet(M)
    BY RouterAssumption, FS_Subset
  <1>3. f \in Surjection(M, Groups(r))
    BY DEF Surjection, Groups
  <1>4. QED
    BY <1>1, <1>2, <1>3, FS_Surjection

\* A group is within the threshold of the route by which the FILTER finds its own.
LEMMA OwnThreshold ==
    ASSUME Shape, NEW r \in Routers, NEW g
    PROVE  Within(r, g) <=> \E i \in DOMAIN routes[r] :
                                /\ routes[r][i].name = g.name
                                /\ g.sum < routes[r][i].threshold * g.of
  BY DEF Within, ToSet

\* What is returned is ranked, within, and complete up to what is nearer.
LEMMA AnswerIsNearest ==
    ASSUME Shape, NEW r \in Routers, pc[r] = "aggregate", NEW answer \in Answers(r)
    PROVE  /\ answer \in Seq(Match) /\ IsRanked(answer)
           /\ \A g \in ToSet(answer) : g \in Groups(r) /\ Within(r, g)
           /\ \A g \in Groups(r), a \in ToSet(answer) :
                 Within(r, g) /\ Nearer(g, a) => g \in ToSet(answer)
  <1>1. PICK G : G = Groups(r) /\ G \subseteq Match /\ IsFiniteSet(G)
    BY GroupsAreFinite
  <1>2. PICK s \in SetToSeqs(G) :
           IsRanked(s) /\ answer = Filtered(r, SubSeq(s, 1, Min({MaxK(r), Len(s)})))
    BY <1>1 DEF Answers
  <1>3. s \in Seq(G) /\ ToSet(s) = G /\ Len(s) \in Nat /\ DOMAIN s = 1..Len(s)
    BY <1>1, Orders
  <1>4. PICK k \in 0..Len(s) : k = Min({MaxK(r), Len(s)})
    <2>1. MaxK(r) \in Nat
      BY DEF MaxK, Shape, TypeOK, Config
    <2>2. Min({MaxK(r), Len(s)}) \in {MaxK(r), Len(s)} /\ Min({MaxK(r), Len(s)}) <= Len(s)
      BY <1>3, <2>1 DEF Min
    <2>3. QED
      BY <1>3, <2>1, <2>2
  <1>5. PICK p : /\ p = SubSeq(s, 1, k)
                 /\ p \in Seq(G) /\ DOMAIN p = 1..k
                 /\ \A i \in 1..k : i \in DOMAIN s /\ p[i] = s[i]
    <2> DEFINE p == SubSeq(s, 1, k)
    <2>1. Len(p) = k /\ p \in Seq(G) /\ \A i \in 1..k : p[i] = s[i]
      <3>1. k \in Int /\ 0 <= k /\ k <= Len(s)
        BY <1>3, <1>4
      <3>2. p \in Seq(G)
        BY <1>3, <3>1
      <3>3. Len(p) = k
        BY <1>3, <3>1
      <3>4. \A i \in 1..k : p[i] = s[i]
        BY <1>3, <3>1
      <3>5. QED
        BY <3>2, <3>3, <3>4
    <2> HIDE DEF p
    <2>2. DOMAIN p = 1..k /\ \A i \in 1..k : i \in DOMAIN s
      BY <1>3, <1>4, <2>1
    <2>3. p = SubSeq(s, 1, k)
      BY DEF p
    <2>4. QED
      BY <2>1, <2>2, <2>3
  <1>6. answer = Filtered(r, p)
    BY <1>2, <1>4, <1>5
  <1>7. /\ answer \in Seq(G)
        /\ \A g : g \in ToSet(answer) <=> g \in ToSet(p) /\ Within(r, g)
        /\ \A m, l \in DOMAIN answer : m < l =>
              \E i, j \in DOMAIN p : i < j /\ answer[m] = p[i] /\ answer[l] = p[j]
    <2>1. p \in Seq(G)
      BY <1>5
    <2>2. Filtered(r, p) \in Seq(G)
      BY <2>1, FilterKeepsOrder
    <2>3. \A g : g \in ToSet(Filtered(r, p)) <=> g \in ToSet(p) /\ Within(r, g)
      BY <2>1, FilterKeepsOrder
    <2>4. \A m, l \in DOMAIN Filtered(r, p) : m < l =>
              \E i, j \in DOMAIN p : i < j /\ Filtered(r, p)[m] = p[i] /\ Filtered(r, p)[l] = p[j]
      BY <2>1, FilterKeepsOrder
    <2>5. QED
      BY <1>6, <2>2, <2>3, <2>4
  <1>8. IsRanked(answer)
    <2> SUFFICES ASSUME NEW m \in DOMAIN answer, NEW l \in DOMAIN answer, m < l
                 PROVE  ~Nearer(answer[l], answer[m])
      BY DEF IsRanked
    <2>1. PICK i \in DOMAIN p, j \in DOMAIN p : i < j /\ answer[m] = p[i] /\ answer[l] = p[j]
      BY <1>7
    <2>2. QED
      BY <1>2, <1>5, <2>1 DEF IsRanked
  <1>9. ASSUME NEW g \in G, NEW a \in ToSet(answer), Within(r, g), Nearer(g, a)
        PROVE  g \in ToSet(answer)
    <2>1. PICK i \in DOMAIN s : s[i] = g
      BY <1>3 DEF ToSet
    <2>2. a \in ToSet(p)
      BY <1>7
    <2>3. PICK j \in 1..k : a = s[j] /\ j \in DOMAIN s
      BY <1>5, <2>2 DEF ToSet
    <2>4. ~(j < i)
      BY <1>2, <1>9, <2>1, <2>3 DEF IsRanked
    <2>5. i \in 1..k
      BY <1>3, <1>4, <2>1, <2>3, <2>4
    <2>6. g \in ToSet(p)
      BY <1>5, <2>1, <2>5 DEF ToSet
    <2>7. QED
      BY <1>7, <1>9, <2>6
  <1>10. \A g \in ToSet(answer) : g \in G /\ Within(r, g)
    BY <1>7 DEF ToSet
  <1>11. answer \in Seq(Match)
    BY <1>1, <1>7
  <1>12. QED
    BY <1>1, <1>8, <1>9, <1>10, <1>11

-----------------------------------------------------------------------------
(* Every command keeps the types. *)

\* What a command leaves alone keeps its type.
LEMMA PartsKept ==
    ASSUME TypeOK
    PROVE  /\ UNCHANGED redis   => Histories'
           /\ UNCHANGED router  => Lists'
           /\ UNCHANGED cursors => Cursors'
  <1>1. Histories /\ Lists /\ Cursors
    BY PartsTyped
  <1>2. QED
    BY <1>1 DEF Histories, Lists, Cursors, redis, router, cursors, GoodRoutes

\* SearchIndex.Create (NewSemanticRouter).
LEMMA CreateShape ==
    ASSUME Shape, NEW r \in Routers, Create(r)
    PROVE  Shape'
  <1>1. PICK l \in {"embed", "err"} : Goto(r, l) \/ Lose(r, l)
    BY DEF Create
  <1>2. Histories'
    <2>1. CASE UNCHANGED redis
      BY <2>1, PartsKept DEF Shape
    <2>2. CASE RemoveKeys(refs) /\ index' = TRUE
      BY <2>2, RemoveTypes DEF Shape, Histories
    <2>3. CASE UNCHANGED <<refs, due, undone>> /\ index' = TRUE
      BY <2>3, PartsTyped DEF Shape, Histories
    <2>4. QED
      BY <2>1, <2>2, <2>3 DEF Create
  <1>3. Lists' /\ Cursors'
    BY PartsKept DEF Create, Shape
  <1>4. CallAt(r)'
    BY <1>1, Moves DEF Create, Shape, CallAt, Labels
  <1>5. QED
    BY <1>1, <1>2, <1>3, <1>4, StepShape DEF Create, Labels

\* EmbedMany, of the references of the routes given.
LEMMA EmbedShape ==
    ASSUME Shape, NEW r \in Routers, Embed(r) \/ EmbedStatement(r)
    PROVE  Shape'
  <1>1. PICK l \in {"hset", "aggregate", "err"} :
           /\ Goto(r, l) \/ Lose(r, l)
           /\ l = "hset" => Embed(r)
           /\ l = "aggregate" => EmbedStatement(r)
    BY DEF Embed, EmbedStatement
  <1>2. Histories' /\ Lists' /\ Cursors'
    BY PartsKept DEF Embed, EmbedStatement, Shape
  <1>3. CallAt(r)'
    BY <1>1, Moves DEF Embed, EmbedStatement, Shape, CallAt, Labels
  <1>4. QED
    BY <1>1, <1>2, <1>3, StepShape DEF Embed, EmbedStatement, Labels

\* A key of the pipeline.
LEMMA HeadKey ==
    ASSUME TypeOK, NEW r \in Routers, todo[r] # <<>>
    PROVE  /\ Head(todo[r]) \in Keys /\ Tail(todo[r]) \in Seq(Keys)
           /\ ToSet(todo[r]) = ToSet(Tail(todo[r])) \union {Head(todo[r])}
  <1> DEFINE s == todo[r]
             t == Tail(s)
  <1>1. s \in Seq(Keys) /\ s # <<>>
    BY DEF TypeOK
  <1> HIDE DEF s
  <1>2. /\ Len(s) \in Nat \ {0} /\ DOMAIN s = 1..Len(s) /\ Head(s) = s[1] /\ s[1] \in Keys
        /\ t \in Seq(Keys) /\ DOMAIN t = 1..(Len(s) - 1)
        /\ \A i \in 1..(Len(s) - 1) : t[i] = s[i + 1]
    BY <1>1
  <1> HIDE DEF t
  <1>3. \A i \in DOMAIN t : i + 1 \in DOMAIN s /\ t[i] = s[i + 1]
    BY <1>2
  <1>4. \A i \in DOMAIN s : i = 1 \/ (i - 1 \in DOMAIN t /\ s[i] = t[i - 1])
    BY <1>2
  <1>5. 1 \in DOMAIN s
    BY <1>2
  <1>6. ToSet(s) = ToSet(t) \union {s[1]}
    BY <1>3, <1>4, <1>5 DEF ToSet
  <1>7. QED
    BY <1>2, <1>6 DEF s, t

\* One HSET of the pipeline, or the routes listed behind the last.
LEMMA HSetShape ==
    ASSUME Shape, NEW r \in Routers, HSet(r)
    PROVE  Shape'
  <1>1. PICK l \in {"hset", "ok", "err"} :
           (Goto(r, l) \/ Lose(r, l)) /\ (l = "hset" => pc[r] = "hset")
    BY DEF HSet
  <1>2. Histories'
    <2>1. CASE UNCHANGED redis
      BY <2>1, PartsKept DEF Shape
    <2>2. CASE todo[r] # <<>> /\ ~UNCHANGED redis
      <3>1. Head(todo[r]) \in Keys
        BY <2>2, HeadKey DEF Shape
      <3>2. /\ refs' = refs \union {Head(todo[r])}
            /\ due' = [q \in Routers |-> due[q] \ {Head(todo[r])}]
            /\ undone' = [undone EXCEPT ![r] = @ \ {Head(todo[r])}]
            /\ index' = index
        BY <2>2 DEF HSet
      <3>3. QED
        BY <3>1, <3>2, PartsTyped DEF Shape, Histories
    <2>3. QED
      BY <2>1, <2>2 DEF HSet
  <1>3. Lists'
    BY ListShape, PartsKept DEF HSet, Shape
  <1>4. Cursors'
    <2>1. CASE todo' = todo
      BY <2>1, PartsTyped DEF HSet, Shape, Cursors
    <2>2. CASE todo[r] # <<>> /\ todo' = [todo EXCEPT ![r] = Tail(todo[r])]
      <3>1. Tail(todo[r]) \in Seq(Keys)
        BY <2>2, HeadKey DEF Shape
      <3>2. QED
        BY <2>2, <3>1, PartsTyped DEF HSet, Shape, Cursors
    <2>3. QED
      BY <2>1, <2>2, PartsTyped DEF HSet, redis, Shape, Cursors
  <1>5. CallAt(r)'
    BY <1>1, Moves DEF HSet, Shape, CallAt, Labels
  <1>6. QED
    BY <1>1, <1>2, <1>3, <1>4, <1>5, StepShape DEF HSet, Labels

\* The list RemoveRoute leaves.
LEMMA UnlistShape ==
    ASSUME Shape, NEW r \in Routers, Unlist(r), UNCHANGED <<made, config>>
    PROVE  /\ Lists'
           /\ req[r].name \in Listed(routes'[r]) => req[r].name \in Doubles(routes[r])
  <1> DEFINE n    == req[r].name
             rest == RemoveFirstMatch(routes[r], LAMBDA route : route.name = n)
  <1>1. Lists
    BY PartsTyped DEF Shape
  <1>2. routes' = [routes EXCEPT ![r] = rest]
    BY DEF Unlist
  <1>3. GoodRoutes(routes[r])
    BY <1>1 DEF Lists
  <1>4. GoodRoutes(rest) /\ (n \in Listed(rest) => n \in Doubles(routes[r]))
    BY <1>3, RemovedRoute
  <1> HIDE DEF rest
  <1>5. \A p \in Routers : routes'[p] = IF p = r THEN rest ELSE routes[p]
    BY <1>1, <1>2 DEF Lists
  <1>6. routes' \in [Routers -> Seq(Route)]
    BY <1>1, <1>2, <1>4 DEF Lists, GoodRoutes
  <1>7. \A p \in Routers : GoodRoutes(routes'[p])
    BY <1>1, <1>4, <1>5 DEF Lists
  <1>8. QED
    BY <1>1, <1>4, <1>5, <1>6, <1>7 DEF Lists, GoodRoutes

\* SCAN and DEL of RemoveRoute.
LEMMA RemoveShape ==
    ASSUME Shape, NEW r \in Routers, Scan(r) \/ Del(r)
    PROVE  Shape'
  <1>1. PICK l \in {"scan", "del", "ok", "err"} : Goto(r, l) \/ Lose(r, l)
    BY DEF Scan, Del, Finish
  <1>2. Histories'
    <2>1. CASE UNCHANGED redis
      BY <2>1, PartsKept DEF Shape
    <2>2. CASE RemoveKeys(batch[r]) /\ index' = index
      BY <2>2, RemoveTypes DEF Shape, Histories, TypeOK
    <2>3. QED
      BY <2>1, <2>2 DEF Scan, Del, redis
  <1>3. Lists'
    <2>1. UNCHANGED <<made, config>> /\ (Unlist(r) \/ routes' = routes)
      BY DEF Scan, Del, Finish
    <2>2. CASE Unlist(r)
      BY <2>1, <2>2, UnlistShape
    <2>3. CASE routes' = routes
      BY <2>1, <2>3, PartsKept DEF router, Shape
    <2>4. QED
      BY <2>1, <2>2, <2>3
  <1>4. Cursors'
    <2>1. CASE Scan(r)
      <3>1. CASE UNCHANGED <<unseen, batch>>
        BY <2>1, <3>1, PartsKept DEF Scan, cursors, Shape
      <3>2. CASE \E S \in SUBSET unseen[r] : /\ unseen' = [unseen EXCEPT ![r] = @ \ S]
                                            /\ batch' = [batch EXCEPT ![r] = S \intersect refs]
        BY <2>1, <3>2, PartsTyped DEF Scan, Shape, Cursors, TypeOK
      <3>3. QED
        BY <2>1, <3>1, <3>2 DEF Scan
    <2>2. CASE Del(r)
      BY <2>2, PartsTyped DEF Del, Shape, Cursors
    <2>3. QED
      BY <2>1, <2>2
  <1>5. CallAt(r)'
    BY <1>1, Moves DEF Scan, Del, Shape, CallAt, Labels
  <1>6. QED
    BY <1>1, <1>2, <1>3, <1>4, <1>5, StepShape DEF Scan, Del, Labels

\* Clear and Delete.
LEMMA EmptyShape ==
    ASSUME Shape, NEW r \in Routers, Empty(r)
    PROVE  Shape'
  <1>1. PICK l \in {"ok", "err"} : Goto(r, l) \/ Lose(r, l)
    BY DEF Empty
  <1>2. Histories'
    <2>1. CASE UNCHANGED redis
      BY <2>1, PartsKept DEF Shape
    <2>2. CASE RemoveKeys(refs) /\ index' \in BOOLEAN
      BY <2>2, RemoveTypes DEF Shape, Histories
    <2>3. QED
      BY <2>1, <2>2 DEF Empty
  <1>3. Lists' /\ Cursors'
    BY PartsKept DEF Empty, Shape
  <1>4. CallAt(r)'
    BY <1>1, Moves DEF Shape, CallAt, Labels
  <1>5. QED
    BY <1>1, <1>2, <1>3, <1>4, StepShape DEF Empty, Labels

\* FT.AGGREGATE of Route and RouteMany.
LEMMA AggregateShape ==
    ASSUME Shape, NEW r \in Routers, Aggregate(r)
    PROVE  Shape'
  <1>1. PICK l \in {"ok", "err"} : Goto(r, l) \/ Lose(r, l)
    BY DEF Aggregate
  <1>2. Histories' /\ Lists'
    BY PartsKept DEF Aggregate, Shape
  <1>3. Cursors'
    <2>1. CASE UNCHANGED matches
      BY <2>1, PartsKept DEF Aggregate, cursors, Shape
    <2>2. ASSUME NEW answer \in Answers(r), matches' = [matches EXCEPT ![r] = answer]
          PROVE  Cursors'
      <3>1. answer \in Seq(Match)
        BY AnswerIsNearest DEF Aggregate
      <3>2. QED
        BY <2>2, <3>1, PartsTyped DEF Aggregate, Shape, Cursors
    <2>3. QED
      BY <2>1, <2>2 DEF Aggregate
  <1>4. CallAt(r)'
    BY <1>1, Moves DEF Shape, CallAt, Labels
  <1>5. QED
    BY <1>1, <1>2, <1>3, <1>4, StepShape DEF Aggregate, Labels

\* Where a call goes first: to the error of validate, of Route without routes, or to the
\* command of its operation.
LEMMA FirstCommand ==
    ASSUME Shape, NEW r \in Routers, NEW q \in Requests, Begin(r, q)
    PROVE  \E l \in Labels :
              /\ Goto(r, l)
              /\ l = "create" => q.op = "new"
              /\ l = "embed" => q.op = "add"
              /\ l \in {"create", "embed"} =>
                    \A i \in DOMAIN Given(q) : Given(q)[i].references # {}
              /\ l = "scan" => q.op = "remove"
              /\ l \in {"clear", "delete"} => q.op = l
              /\ l = "embed_statement" => q.op \in {"route", "many"}
              /\ q.op = "remove" => l = "scan"
              /\ l \notin {"hset", "del", "aggregate", "idle"}
              /\ l = "ok" => q.op \in {"threshold", "config"}
  <1>1. q.op \in {"new", "add", "remove", "threshold", "config", "clear", "delete", "route",
                  "many"}
    BY RouterAssumption DEF Request
  <1> DEFINE refused == \/ q.op \in {"new", "add"} /\ \E i \in DOMAIN Given(q) : ~Valid(Given(q)[i])
                        \/ q.op \in {"route", "many"} /\ routes[r] = <<>>
  <1>2. CASE refused
    <2>1. Goto(r, "err")
      BY <1>2 DEF Begin
    <2>2. q.op # "remove"
      BY <1>2
    <2>3. QED
      BY <2>1, <2>2 DEF Labels
  <1>3. CASE ~refused
    <2>1. q.op \in {"new", "add"} => \A i \in DOMAIN Given(q) : Given(q)[i].references # {}
      BY <1>3 DEF Valid
    <2>2. Goto(r, CASE q.op = "new"               -> "create"
                    [] q.op = "add"               -> "embed"
                    [] q.op = "remove"            -> "scan"
                    [] q.op \in {"route", "many"} -> "embed_statement"
                    [] q.op \in {"clear", "delete"} -> q.op
                    [] OTHER                      -> "ok")
      BY <1>3 DEF Begin
    <2> HIDE DEF refused
    <2>3. CASE q.op = "new"
      BY <2>1, <2>2, <2>3 DEF Labels
    <2>4. CASE q.op = "add"
      BY <2>1, <2>2, <2>4 DEF Labels
    <2>5. CASE q.op = "remove"
      BY <2>2, <2>5 DEF Labels
    <2>6. CASE q.op \in {"route", "many"}
      <3>1. Goto(r, "embed_statement")
        BY <2>2, <2>6
      <3>2. QED
        BY <2>6, <3>1 DEF Labels
    <2>7. CASE q.op \in {"clear", "delete"}
      <3>1. Goto(r, q.op)
        BY <2>2, <2>7
      <3>2. QED
        BY <2>7, <3>1 DEF Labels
    <2>8. CASE q.op \in {"threshold", "config"}
      <3>1. Goto(r, "ok")
        BY <2>2, <2>8
      <3>2. QED
        BY <2>8, <3>1 DEF Labels
    <2>9. QED
      BY <1>1, <2>3, <2>4, <2>5, <2>6, <2>7, <2>8
  <1>4. QED
    BY <1>2, <1>3

\* UpdateRouteThresholds changes the threshold of one route.
LEMMA ThresholdShape ==
    ASSUME Shape, NEW r \in Routers, NEW q \in Requests, q.op = "threshold", SetThreshold(r, q)
    PROVE  Lists'
  <1> DEFINE list == routes[r]
             new  == [i \in DOMAIN list |->
                         IF list[i].name = q.name THEN [list[i] EXCEPT !.threshold = q.threshold]
                         ELSE list[i]]
  <1>1. Lists
    BY PartsTyped DEF Shape
  <1>2. GoodRoutes(list) /\ q.threshold \in Int
    BY <1>1, RouterAssumption DEF Lists, Request
  <1>3. routes' = [routes EXCEPT ![r] = new] /\ UNCHANGED <<made, config>>
    BY DEF SetThreshold
  <1> HIDE DEF list
  <1>4. /\ list \in Seq(Route) /\ Len(list) \in Nat /\ DOMAIN list = 1..Len(list)
    BY <1>2 DEF GoodRoutes
  <1>5. ASSUME NEW i \in DOMAIN list
        PROVE  /\ new[i] \in Route /\ new[i].name = list[i].name
               /\ new[i].references = list[i].references
    <2>1. list[i] \in Route
      BY <1>4
    <2>2. QED
      BY <1>2, <2>1 DEF Route
  <1>6. new \in Seq(Route) /\ DOMAIN new = DOMAIN list
    BY <1>4, <1>5
  <1> HIDE DEF new
  <1>7. GoodRoutes(new)
    BY <1>2, <1>5, <1>6 DEF GoodRoutes
  <1>8. \A p \in Routers : routes'[p] = IF p = r THEN new ELSE routes[p]
    BY <1>1, <1>3 DEF Lists
  <1>9. \A p \in Routers : routes'[p] \in Seq(Route) /\ GoodRoutes(routes'[p])
    <2>1. new \in Seq(Route)
      BY <1>4, <1>6
    <2>2. ASSUME NEW p \in Routers PROVE routes'[p] \in Seq(Route) /\ GoodRoutes(routes'[p])
      <3>1. CASE p = r
        <4>1. routes'[p] = new
          BY <1>8, <3>1
        <4>2. QED
          BY <1>7, <2>1, <4>1 DEF GoodRoutes
      <3>2. CASE p # r
        <4>1. routes'[p] = routes[p] /\ routes[p] \in Seq(Route) /\ GoodRoutes(routes[p])
          BY <1>1, <1>8, <3>2 DEF Lists
        <4>2. QED
          BY <4>1 DEF GoodRoutes
      <3>3. QED
        BY <3>1, <3>2
    <2>3. QED
      BY <2>2
  <1>10. QED
    BY <1>1, <1>3, <1>9 DEF Lists

\* A call begins with what its operation has to do.
LEMMA BeginShape ==
    ASSUME Shape, NEW r \in Routers, NEW q \in Requests, Begin(r, q)
    PROVE  Shape'
  <1>1. PICK l \in Labels :
           /\ Goto(r, l)
           /\ l = "create" => q.op = "new"
           /\ l = "embed" => q.op = "add"
           /\ l \in {"create", "embed"} => \A i \in DOMAIN Given(q) : Given(q)[i].references # {}
           /\ l = "scan" => q.op = "remove"
           /\ l \in {"clear", "delete"} => q.op = l
           /\ l = "embed_statement" => q.op \in {"route", "many"}
           /\ l \notin {"hset", "del", "aggregate", "idle"}
    BY FirstCommand
  <1>2. /\ pc' \in [Routers -> Labels] /\ faults' \in Nat /\ pc'[r] = l
        /\ \A p \in Routers \ {r} : pc'[p] = pc[p]
    BY <1>1, Moves
  <1>3. /\ req' \in [Routers -> Requests \union {NoRequest}]
        /\ \A p \in Routers : req'[p] = IF p = r THEN q ELSE req[p]
    BY DEF Begin, Shape, TypeOK
  <1>4. \A p \in Routers : CallAt(p)'
    <2>1. CallAt(r)'
      BY <1>1, <1>2, <1>3 DEF CallAt
    <2>2. QED
      BY <1>2, <1>3, <2>1, OthersStay
  <1>5. \A p \in Routers : pc'[p] # "idle" => req'[p] \in Requests
    BY <1>2, <1>3 DEF Shape, TypeOK
  <1>6. Histories'
    <2>1. index' = index /\ refs' = refs
      BY DEF Begin
    <2>2. PICK S : S \subseteq Keys /\ due' = [due EXCEPT ![r] = S]
      <3>1. refs \subseteq Keys
        BY DEF Shape, TypeOK
      <3>2. QED
        BY <3>1 DEF Begin
    <2>3. undone' = [undone EXCEPT ![r] = {}]
      BY DEF Begin
    <2>4. QED
      BY <2>1, <2>2, <2>3, PartsTyped DEF Shape, Histories
  <1>7. Lists'
    <2>1. CASE q.op = "new"
      <3>1. /\ made' = [made EXCEPT ![r] = FALSE] /\ routes' = [routes EXCEPT ![r] = <<>>]
            /\ config' = config
        BY <2>1 DEF Begin
      <3>2. GoodRoutes(<<>>)
        BY DEF GoodRoutes
      <3>3. Lists
        BY PartsTyped DEF Shape
      <3>4. \A p \in Routers : routes'[p] = IF p = r THEN <<>> ELSE routes[p]
        BY <3>1, <3>3 DEF Lists
      <3>5. \A p \in Routers : routes'[p] \in Seq(Route) /\ GoodRoutes(routes'[p])
        BY <3>2, <3>3, <3>4 DEF Lists, GoodRoutes
      <3>6. QED
        BY <3>1, <3>3, <3>5 DEF Lists
    <2>2. CASE q.op = "threshold"
      BY <2>2, ThresholdShape DEF Begin
    <2>3. CASE q.op = "config"
      <3>1. q.config \in Config
        BY <2>3, RouterAssumption DEF Request
      <3>2. config' = [config EXCEPT ![r] = q.config] /\ UNCHANGED <<made, routes>>
        BY <2>3 DEF Begin, SetConfig
      <3>3. Lists
        BY PartsTyped DEF Shape
      <3>4. QED
        BY <3>1, <3>2, <3>3 DEF Lists, GoodRoutes
    <2>4. CASE q.op \notin {"new", "threshold", "config"}
      BY <2>4, PartsKept DEF Begin, Shape
    <2>5. QED
      BY <2>1, <2>2, <2>3, <2>4
  <1>8. Cursors'
    <2>1. PICK s : s \in Seq(Keys) /\ todo' = [todo EXCEPT ![r] = s]
      <3>1. CASE q.op \in {"new", "add"}
        BY <3>1, PipelineKeys DEF Begin
      <3>2. CASE q.op \notin {"new", "add"}
        <4>1. todo' = [todo EXCEPT ![r] = <<>>] /\ <<>> \in Seq(Keys)
          BY <3>2 DEF Begin
        <4>2. QED
          BY <4>1
      <3>3. QED
        BY <3>1, <3>2
    <2>2. PICK S : S \subseteq Keys /\ unseen' = [unseen EXCEPT ![r] = S]
      <3>1. CASE q.op = "remove"
        <4>1. Globbed(q.name) \subseteq Names
          BY <3>1, RouterAssumption DEF Request
        <4>2. unseen' = [unseen EXCEPT ![r] = Globbed(q.name) \X References]
          BY <3>1 DEF Begin
        <4>3. QED
          BY <4>1, <4>2 DEF Keys
      <3>2. CASE q.op # "remove"
        BY <3>2 DEF Begin
      <3>3. QED
        BY <3>1, <3>2
    <2>3. matches' = [matches EXCEPT ![r] = <<>>] /\ batch' = batch
      BY DEF Begin
    <2>4. Cursors /\ <<>> \in Seq(Match)
      BY PartsTyped DEF Shape
    <2>5. QED
      BY <2>1, <2>2, <2>3, <2>4 DEF Cursors
  <1>9. calls' \in Nat
    BY DEF Begin, Shape, TypeOK
  <1>10. TypeOK'
    BY <1>2, <1>3, <1>5, <1>6, <1>7, <1>8, <1>9
    DEF TypeOK, Histories, Lists, Cursors, GoodRoutes
  <1>11. QED
    BY <1>4, <1>10 DEF Shape

\* Every step keeps the types.
LEMMA NextShape == Shape /\ [Next]_vars => Shape'
  <1> SUFFICES ASSUME Shape, [Next]_vars PROVE Shape'
    OBVIOUS
  <1>1. ASSUME NEW r \in Routers, Step(r) PROVE Shape'
    BY <1>1, CreateShape, EmbedShape, HSetShape, RemoveShape, EmptyShape, AggregateShape DEF Step
  <1>2. ASSUME NEW r \in Routers, NEW q \in Requests, Begin(r, q) PROVE Shape'
    BY <1>2, BeginShape
  <1>3. CASE UNCHANGED vars
    BY <1>3 DEF vars, redis, router, cursors, Shape, TypeOK, CallAt, Given
  <1>4. QED
    BY <1>1, <1>2, <1>3 DEF Next

\* Routers that share one index, each adding, removing, clearing and matching routes of its
\* own, keep lists of valid routes, each with some reference, and keys.
THEOREM RouterTypes == Spec => []TypeOK
  <1>1. Init => Shape
    BY InitShape
  <1>2. Shape /\ [Next]_vars => Shape'
    BY NextShape
  <1>3. Shape => TypeOK
    BY DEF Shape
  <1>4. QED
    BY <1>1, <1>2, <1>3, PTL DEF Spec

-----------------------------------------------------------------------------
(* RemoveRoute. *)

\* What a RemoveRoute still owes is there, and is ahead of its SCAN or in its batch.  No batch
\* is left over from a RemoveRoute before it.
RemovingAt(r) ==
    /\ due[r] \subseteq refs
    /\ pc[r] # "del" => batch[r] = {}
    /\ pc[r] \in {"scan", "del"} => due[r] \subseteq unseen[r] \union batch[r]

Removing == \A r \in Routers : RemovingAt(r)

\* What is so when RemoveRoute returns without error.
Finished(r) ==
    /\ due'[r] = {}
    /\ req[r].name \in Listed(routes'[r]) => req[r].name \in Doubles(routes[r])

\* What a step of one router does to a RemoveRoute of another: it takes keys, and what it
\* takes from Redis it takes from what is owed.
LEMMA OthersRemove ==
    ASSUME Shape, NEW r \in Routers, RemovingAt(r),
           pc'[r] = pc[r], req'[r] = req[r], routes'[r] = routes[r],
           unseen'[r] = unseen[r], batch'[r] = batch[r],
           due'[r] \subseteq due[r], due'[r] \subseteq refs'
    PROVE  RemovingAt(r)'
  <1>1. due'[r] \subseteq unseen[r] \union batch[r] \/ pc[r] \notin {"scan", "del"}
    BY DEF RemovingAt
  <1>2. QED
    BY <1>1 DEF RemovingAt

\* How a step changes the keys and what is owed: some are removed from both, or one is
\* written and owed no more, or neither changes but for the router whose call it is.
LEMMA KeysMove ==
    ASSUME Shape, Removing, NEW r \in Routers, Step(r)
    PROVE  \A p \in Routers : due'[p] \subseteq due[p] /\ due'[p] \subseteq refs'
  <1>1. \A p \in Routers : due[p] \subseteq refs
    BY DEF Removing, RemovingAt
  <1>2. ASSUME NEW S, RemoveKeys(S)
        PROVE  \A p \in Routers : due'[p] \subseteq due[p] /\ due'[p] \subseteq refs'
    BY <1>1, <1>2 DEF RemoveKeys
  <1>3. ASSUME UNCHANGED <<refs, due>>
        PROVE  \A p \in Routers : due'[p] \subseteq due[p] /\ due'[p] \subseteq refs'
    BY <1>1, <1>3
  <1>4. CASE Create(r)
    <2>1. RemoveKeys(refs) \/ UNCHANGED <<refs, due>>
      BY <1>4 DEF Create, redis
    <2>2. ASSUME RemoveKeys(refs)
          PROVE  \A p \in Routers : due'[p] \subseteq due[p] /\ due'[p] \subseteq refs'
      BY <1>1, <2>2 DEF RemoveKeys
    <2>3. QED
      BY <1>3, <2>1, <2>2
  <1>5. CASE HSet(r)
    <2>1. CASE UNCHANGED <<refs, due>>
      BY <1>3, <2>1
    <2>2. CASE /\ refs' = refs \union {Head(todo[r])}
               /\ due' = [q \in Routers |-> due[q] \ {Head(todo[r])}]
      BY <1>1, <2>2
    <2>3. QED
      BY <1>5, <2>1, <2>2 DEF HSet, redis
  <1>6. CASE Scan(r) \/ Embed(r) \/ EmbedStatement(r) \/ Aggregate(r)
    BY <1>3, <1>6 DEF Scan, Embed, EmbedStatement, Aggregate, redis
  <1>7. CASE Del(r)
    <2>1. RemoveKeys(batch[r]) \/ UNCHANGED <<refs, due>>
      BY <1>7 DEF Del
    <2>2. ASSUME RemoveKeys(batch[r])
          PROVE  \A p \in Routers : due'[p] \subseteq due[p] /\ due'[p] \subseteq refs'
      BY <1>1, <2>2 DEF RemoveKeys
    <2>3. QED
      BY <1>3, <2>1, <2>2
  <1>8. CASE Empty(r)
    <2>1. RemoveKeys(refs) \/ UNCHANGED <<refs, due>>
      BY <1>8 DEF Empty, redis
    <2>2. ASSUME RemoveKeys(refs)
          PROVE  \A p \in Routers : due'[p] \subseteq due[p] /\ due'[p] \subseteq refs'
      BY <1>1, <2>2 DEF RemoveKeys
    <2>3. QED
      BY <1>3, <2>1, <2>2
  <1>9. QED
    BY <1>4, <1>5, <1>6, <1>7, <1>8 DEF Step

\* A step is of one router's process: the lists, cursors and places of the others stay.
LEMMA OthersStand ==
    ASSUME Shape, NEW r \in Routers, Step(r), NEW p \in Routers, p # r
    PROVE  /\ pc'[p] = pc[p] /\ req'[p] = req[p] /\ routes'[p] = routes[p]
           /\ todo'[p] = todo[p] /\ unseen'[p] = unseen[p] /\ batch'[p] = batch[p]
  <1>1. req' = req
    BY DEF Step, Create, Embed, HSet, Scan, Del, Empty, EmbedStatement, Aggregate
  <1>2. pc'[p] = pc[p]
    <2>1. \E l : pc' = [pc EXCEPT ![r] = l]
      BY DEF Step, Create, Embed, HSet, Scan, Del, Empty, EmbedStatement, Aggregate, Finish,
             Goto, Lose
    <2>2. QED
      BY <2>1 DEF Shape, TypeOK
  <1>3. routes'[p] = routes[p]
    <2>1. routes' = routes \/ \E l : routes' = [routes EXCEPT ![r] = l]
      BY DEF Step, Create, Embed, HSet, Scan, Del, Empty, EmbedStatement, Aggregate, Finish,
             Unlist, List, router
    <2>2. QED
      BY <2>1 DEF Shape, TypeOK
  <1>4. todo'[p] = todo[p]
    <2>1. todo' = todo \/ \E l : todo' = [todo EXCEPT ![r] = l]
      BY DEF Step, Create, Embed, HSet, Scan, Del, Empty, EmbedStatement, Aggregate, cursors
    <2>2. QED
      BY <2>1 DEF Shape, TypeOK
  <1>5. unseen'[p] = unseen[p] /\ batch'[p] = batch[p]
    <2>1. /\ unseen' = unseen \/ \E l : unseen' = [unseen EXCEPT ![r] = l]
          /\ batch' = batch \/ \E l : batch' = [batch EXCEPT ![r] = l]
      BY DEF Step, Create, Embed, HSet, Scan, Del, Empty, EmbedStatement, Aggregate, cursors
    <2>2. QED
      BY <2>1 DEF Shape, TypeOK
  <1>6. QED
    BY <1>1, <1>2, <1>3, <1>4, <1>5

\* A page of SCAN takes what it passes into the batch.
LEMMA ScanRemoves ==
    ASSUME Shape, Removing, NEW r \in Routers, Scan(r)
    PROVE  /\ RemovingAt(r)'
           /\ pc'[r] = "ok" => Finished(r)
  <1>1. /\ pc[r] = "scan" /\ due' = due /\ refs' = refs /\ req' = req
        /\ due[r] \subseteq refs /\ due[r] \subseteq unseen[r] /\ batch[r] = {}
        /\ req[r].op = "remove"
    BY DEF Scan, redis, Removing, RemovingAt, Shape, CallAt
  <1>2. CASE Lose(r, "err") /\ UNCHANGED <<unseen, batch, routes>>
    <2>1. pc'[r] = "err"
      BY <1>2, Moves DEF Labels
    <2>2. QED
      BY <1>1, <1>2, <2>1 DEF RemovingAt
  <1>3. ASSUME NEW S \in SUBSET unseen[r],
               unseen' = [unseen EXCEPT ![r] = @ \ S],
               batch' = [batch EXCEPT ![r] = S \intersect refs],
               IF S \intersect refs # {} THEN Goto(r, "del") /\ UNCHANGED routes
               ELSE IF S # unseen[r] THEN Goto(r, "scan") /\ UNCHANGED routes
               ELSE Finish(r)
        PROVE  RemovingAt(r)' /\ (pc'[r] = "ok" => Finished(r))
    <2>1. unseen'[r] = unseen[r] \ S /\ batch'[r] = S \intersect refs
      BY <1>3 DEF Shape, TypeOK
    <2>2. due[r] \subseteq unseen'[r] \union batch'[r]
      BY <1>1, <2>1
    <2>3. CASE S \intersect refs # {}
      <3>1. pc'[r] = "del"
        BY <1>3, <2>3, Moves DEF Labels
      <3>2. QED
        BY <1>1, <2>2, <3>1 DEF RemovingAt
    <2>4. CASE S \intersect refs = {} /\ S # unseen[r]
      <3>1. pc'[r] = "scan"
        BY <1>3, <2>4, Moves DEF Labels
      <3>2. QED
        BY <1>1, <2>1, <2>2, <2>4, <3>1 DEF RemovingAt
    <2>5. CASE S \intersect refs = {} /\ S = unseen[r]
      <3>1. Goto(r, "ok") /\ Unlist(r)
        BY <1>3, <2>5 DEF Finish
      <3>2. pc'[r] = "ok"
        BY <3>1, Moves DEF Labels
      <3>3. req[r].name \in Listed(routes'[r]) => req[r].name \in Doubles(routes[r])
        BY <3>1, UnlistShape DEF Scan
      <3>4. due'[r] = {} /\ due[r] = {}
        BY <1>1, <2>5
      <3>5. RemovingAt(r)'
        BY <1>1, <2>1, <2>5, <3>2, <3>4 DEF RemovingAt
      <3>6. QED
        BY <3>3, <3>4, <3>5 DEF Finished
    <2>6. QED
      BY <2>3, <2>4, <2>5
  <1>4. QED
    BY <1>2, <1>3 DEF Scan

\* DEL of a batch takes it from what is owed.
LEMMA DelRemoves ==
    ASSUME Shape, Removing, NEW r \in Routers, Del(r)
    PROVE  /\ RemovingAt(r)'
           /\ pc'[r] = "ok" => Finished(r)
  <1>1. /\ pc[r] = "del" /\ req' = req /\ unseen' = unseen /\ batch'[r] = {}
        /\ due[r] \subseteq unseen[r] \union batch[r]
    BY DEF Del, Removing, RemovingAt, Shape, CallAt, TypeOK
  <1>2. due'[r] \subseteq refs'
    BY KeysMove DEF Step
  <1>3. CASE Lose(r, "err")
    <2>1. pc'[r] = "err"
      BY <1>3, Moves DEF Labels
    <2>2. QED
      BY <1>1, <1>2, <2>1 DEF RemovingAt
  <1>4. CASE RemoveKeys(batch[r]) /\ unseen[r] = {} /\ Finish(r)
    <2>1. Goto(r, "ok") /\ Unlist(r)
      BY <1>4 DEF Finish
    <2>2. pc'[r] = "ok"
      BY <2>1, Moves DEF Labels
    <2>3. req[r].name \in Listed(routes'[r]) => req[r].name \in Doubles(routes[r])
      BY <2>1, UnlistShape DEF Del
    <2>4. due'[r] = {}
      BY <1>1, <1>4 DEF RemoveKeys
    <2>5. RemovingAt(r)'
      BY <1>1, <1>2, <2>2, <2>4 DEF RemovingAt
    <2>6. QED
      BY <2>3, <2>4, <2>5 DEF Finished
  <1>5. CASE RemoveKeys(batch[r]) /\ Goto(r, "scan")
    <2>1. pc'[r] = "scan"
      BY <1>5, Moves DEF Labels
    <2>2. due'[r] \subseteq unseen[r]
      BY <1>1, <1>5 DEF RemoveKeys
    <2>3. QED
      BY <1>1, <1>2, <2>1, <2>2 DEF RemovingAt
  <1>6. QED
    BY <1>3, <1>4, <1>5 DEF Del

\* No other command is of a RemoveRoute.
LEMMA NoRemoval ==
    ASSUME Shape, Removing, NEW r \in Routers, Step(r), ~Scan(r), ~Del(r)
    PROVE  RemovingAt(r)'
  <1>1. /\ pc[r] \in {"create", "embed", "hset", "clear", "delete", "embed_statement",
                      "aggregate"}
        /\ batch' = batch /\ req' = req
    BY DEF Step, Create, Embed, HSet, Empty, EmbedStatement, Aggregate, cursors
  <1>2. pc'[r] \in {"embed", "hset", "ok", "err", "aggregate"}
    <2>1. \E l \in {"embed", "hset", "ok", "err", "aggregate"} : pc' = [pc EXCEPT ![r] = l]
      BY DEF Step, Create, Embed, HSet, Empty, EmbedStatement, Aggregate, Goto, Lose
    <2>2. QED
      BY <2>1 DEF Shape, TypeOK
  <1>3. req[r].op # "remove"
    BY <1>1 DEF Shape, CallAt
  <1>4. due'[r] \subseteq refs'
    BY KeysMove
  <1>5. QED
    BY <1>1, <1>2, <1>3, <1>4 DEF Removing, RemovingAt

\* RemoveRoute of router.go returns without error only when all the keys the route had
\* are gone and the process has taken the route off its list, though other processes
\* write, remove and clear in between; a route it listed twice stays listed once.
THEOREM RemovalIsComplete == Spec => RemoveIsComplete
  <1> DEFINE A == \A r \in Routers :
                    pc[r] \in {"scan", "del"} /\ pc'[r] = "ok" =>
                        /\ due'[r] = {}
                        /\ req[r].name \in Listed(routes'[r]) =>
                              req[r].name \in Doubles(routes[r])
  <1>1. Init => Removing
    BY DEF Init, Removing, RemovingAt
  <1>2. Shape /\ Removing /\ [Next]_vars => Removing'
    <2> SUFFICES ASSUME Shape, Removing, [Next]_vars PROVE Removing'
      OBVIOUS
    <2>1. ASSUME NEW r \in Routers, Step(r) PROVE Removing'
      <3>1. RemovingAt(r)'
        BY <2>1, ScanRemoves, DelRemoves, NoRemoval
      <3>2. ASSUME NEW p \in Routers, p # r PROVE RemovingAt(p)'
        <4>1. /\ pc'[p] = pc[p] /\ req'[p] = req[p] /\ routes'[p] = routes[p]
              /\ unseen'[p] = unseen[p] /\ batch'[p] = batch[p]
          BY <2>1, <3>2, OthersStand
        <4>2. due'[p] \subseteq due[p] /\ due'[p] \subseteq refs' /\ RemovingAt(p)
          BY <2>1, KeysMove DEF Removing
        <4>3. QED
          BY <4>1, <4>2, OthersRemove
      <3>3. QED
        BY <3>1, <3>2 DEF Removing
    <2>2. ASSUME NEW r \in Routers, NEW q \in Requests, Begin(r, q) PROVE Removing'
      <3>1. PICK l \in Labels :
               /\ Goto(r, l)
               /\ q.op = "remove" => l = "scan"
               /\ l = "scan" => q.op = "remove"
               /\ l # "del"
        BY <2>2, FirstCommand
      <3>2. pc'[r] = l /\ \A p \in Routers \ {r} : pc'[p] = pc[p]
        BY <3>1, Moves
      <3>3. /\ refs' = refs /\ batch' = batch /\ batch[r] = {} /\ req'[r] = q
            /\ \A p \in Routers \ {r} : req'[p] = req[p]
        BY <2>2 DEF Begin, Removing, RemovingAt, Shape, TypeOK
      <3>4. \A p \in Routers \ {r} : routes'[p] = routes[p]
        <4>1. routes' = routes \/ \E list : routes' = [routes EXCEPT ![r] = list]
          BY <2>2 DEF Begin, SetThreshold, SetConfig, router
        <4>2. QED
          BY <4>1 DEF Shape, TypeOK
      <3> DEFINE globbed == Globbed(q.name) \X References
      <3>5. /\ due'[r] = IF q.op = "remove" THEN globbed \intersect refs ELSE {}
            /\ unseen'[r] = IF q.op = "remove" THEN globbed ELSE {}
            /\ \A p \in Routers \ {r} : due'[p] = due[p] /\ unseen'[p] = unseen[p]
        BY <2>2 DEF Begin, Shape, TypeOK
      <3> HIDE DEF globbed
      <3>6. RemovingAt(r)'
        BY <3>1, <3>2, <3>3, <3>5 DEF RemovingAt
      <3>7. ASSUME NEW p \in Routers, p # r PROVE RemovingAt(p)'
        <4>1. RemovingAt(p)
          BY DEF Removing
        <4>2. due'[p] \subseteq due[p] /\ due'[p] \subseteq refs'
          BY <3>3, <3>5, <3>7, <4>1 DEF RemovingAt
        <4>3. QED
          BY <3>2, <3>3, <3>4, <3>5, <3>7, <4>1, <4>2, OthersRemove
      <3>8. QED
        BY <3>6, <3>7 DEF Removing
    <2>3. CASE UNCHANGED vars
      BY <2>3 DEF vars, redis, router, cursors, Removing, RemovingAt
    <2>4. QED
      BY <2>1, <2>2, <2>3 DEF Next
  <1>3. Shape /\ Removing /\ [Next]_vars => [A]_vars
    <2> SUFFICES ASSUME Shape, Removing, [Next]_vars, NEW r \in Routers,
                        pc[r] \in {"scan", "del"}, pc'[r] = "ok"
                 PROVE  Finished(r)
      BY DEF Finished
    <2>1. ~UNCHANGED vars
      BY DEF vars
    <2>2. ASSUME NEW p \in Routers, Step(p) PROVE p = r
      BY <2>2, OthersStand
    <2>3. ASSUME NEW p \in Routers, NEW q \in Requests, Begin(p, q) PROVE FALSE
      <3>1. p # r
        BY <2>3 DEF Begin
      <3>2. PICK l \in Labels : Goto(p, l)
        BY <2>3, FirstCommand
      <3>3. pc'[r] = pc[r]
        BY <3>1, <3>2, Moves
      <3>4. QED
        BY <3>3
    <2>4. Step(r)
      BY <2>1, <2>2, <2>3 DEF Next
    <2>5. Scan(r) \/ Del(r)
      BY <2>4 DEF Step, Create, Embed, HSet, Empty, EmbedStatement, Aggregate
    <2>6. QED
      BY <2>5, ScanRemoves, DelRemoves
  <1> HIDE DEF A
  <1>4. Spec => [][A]_vars
    BY <1>1, <1>2, <1>3, InitShape, NextShape, PTL DEF Spec
  <1>5. QED
    BY <1>4, PTL DEF A, RemoveIsComplete

-----------------------------------------------------------------------------
(* Indexing. *)

\* While a New or an AddRoute is at work, each key it was given is in Redis, was removed
\* again since the call began, or is still to be written.
IndexingAt(r) ==
    pc[r] \in {"create", "embed", "hset"} =>
        \A i \in DOMAIN Given(req[r]) :
            KeysOf(Given(req[r])[i]) \subseteq refs \union undone[r] \union ToSet(todo[r])

Indexing == \A r \in Routers : IndexingAt(r)

\* What a step of a router leaves of the keys of any router's call: only what is removed
\* from Redis goes, and is noted, and what is written goes from the pipeline it is of.
LEMMA KeysNoted ==
    ASSUME Shape, NEW r \in Routers, Step(r), NEW p \in Routers
    PROVE  refs \union undone[p] \union ToSet(todo[p])
               \subseteq refs' \union undone'[p] \union ToSet(todo'[p])
  <1>1. ASSUME NEW S, RemoveKeys(S), todo' = todo
        PROVE  refs \union undone[p] \union ToSet(todo[p])
                   \subseteq refs' \union undone'[p] \union ToSet(todo'[p])
    BY <1>1 DEF RemoveKeys
  <1>2. ASSUME UNCHANGED <<refs, undone, todo>>
        PROVE  refs \union undone[p] \union ToSet(todo[p])
                   \subseteq refs' \union undone'[p] \union ToSet(todo'[p])
    BY <1>2
  <1>3. CASE Create(r) \/ Empty(r)
    <2>1. /\ todo' = todo
          /\ \/ UNCHANGED <<refs, undone>>
             \/ /\ refs' = refs \ refs
                /\ undone' = [q \in Routers |-> undone[q] \union (refs \intersect refs)]
      BY <1>3 DEF Create, Empty, redis, cursors, RemoveKeys
    <2>2. QED
      BY <2>1
  <1>4. CASE Del(r)
    <2>1. /\ todo' = todo
          /\ \/ UNCHANGED <<refs, undone>>
             \/ /\ refs' = refs \ batch[r]
                /\ undone' = [q \in Routers |-> undone[q] \union (batch[r] \intersect refs)]
      BY <1>4 DEF Del, RemoveKeys
    <2>2. QED
      BY <2>1
  <1>5. CASE Scan(r) \/ Embed(r) \/ EmbedStatement(r) \/ Aggregate(r)
    BY <1>2, <1>5 DEF Scan, Embed, EmbedStatement, Aggregate, redis, cursors
  <1>6. CASE HSet(r)
    <2>1. CASE UNCHANGED <<refs, undone, todo>>
      BY <1>2, <2>1
    <2>2. CASE /\ todo[r] # <<>>
               /\ refs' = refs \union {Head(todo[r])}
               /\ undone' = [undone EXCEPT ![r] = @ \ {Head(todo[r])}]
               /\ todo' = [todo EXCEPT ![r] = Tail(@)]
      <3>1. ToSet(todo[r]) = ToSet(Tail(todo[r])) \union {Head(todo[r])}
        BY <2>2, HeadKey DEF Shape
      <3>2. CASE p = r
        <4>1. undone'[p] = undone[p] \ {Head(todo[r])} /\ todo'[p] = Tail(todo[r])
          BY <2>2, <3>2 DEF Shape, TypeOK
        <4>2. QED
          BY <2>2, <3>1, <3>2, <4>1
      <3>3. CASE p # r
        <4>1. undone'[p] = undone[p] /\ todo'[p] = todo[p]
          BY <2>2, <3>3 DEF Shape, TypeOK
        <4>2. QED
          BY <2>2, <4>1
      <3>4. QED
        BY <3>2, <3>3
    <2>3. QED
      BY <1>6, <2>1, <2>2 DEF HSet, redis
  <1>7. QED
    BY <1>3, <1>4, <1>5, <1>6 DEF Step

\* Every step keeps it.
LEMMA NextIndexing == Shape /\ Indexing /\ [Next]_vars => Indexing'
  <1> SUFFICES ASSUME Shape, Indexing, [Next]_vars PROVE Indexing'
    OBVIOUS
  <1>1. ASSUME NEW r \in Routers, Step(r), NEW p \in Routers PROVE IndexingAt(p)'
    <2>1. pc'[p] \in {"create", "embed", "hset"} => pc[p] \in {"create", "embed", "hset"}
      <3>1. CASE p # r
        BY <1>1, <3>1, OthersStand
      <3>2. CASE p = r
        <4>1. pc[r] \in {"create", "embed", "hset"}
                 \/ \E l \in {"scan", "del", "ok", "err", "aggregate"} : pc' = [pc EXCEPT ![r] = l]
          BY <1>1 DEF Step, Create, Embed, HSet, Scan, Del, Empty, EmbedStatement, Aggregate,
                      Finish, Goto, Lose
        <4>2. QED
          BY <3>2, <4>1 DEF Shape, TypeOK
      <3>3. QED
        BY <3>1, <3>2
    <2>2. req'[p] = req[p]
      BY <1>1 DEF Step, Create, Embed, HSet, Scan, Del, Empty, EmbedStatement, Aggregate
    <2>3. refs \union undone[p] \union ToSet(todo[p])
              \subseteq refs' \union undone'[p] \union ToSet(todo'[p])
      BY <1>1, KeysNoted
    <2> SUFFICES ASSUME pc'[p] \in {"create", "embed", "hset"}, NEW i \in DOMAIN Given(req[p])
                 PROVE  KeysOf(Given(req[p])[i])
                            \subseteq refs' \union undone'[p] \union ToSet(todo'[p])
      BY <2>2 DEF IndexingAt, Given
    <2>4. KeysOf(Given(req[p])[i]) \subseteq refs \union undone[p] \union ToSet(todo[p])
      BY <2>1 DEF Indexing, IndexingAt
    <2>5. QED
      BY <2>3, <2>4
  <1>2. ASSUME NEW r \in Routers, NEW q \in Requests, Begin(r, q), NEW p \in Routers
        PROVE  IndexingAt(p)'
    <2>1. PICK l \in Labels :
             /\ Goto(r, l)
             /\ l = "create" => q.op = "new"
             /\ l = "embed" => q.op = "add"
             /\ l # "hset"
      BY <1>2, FirstCommand
    <2>2. pc'[r] = l /\ \A o \in Routers \ {r} : pc'[o] = pc[o]
      BY <2>1, Moves
    <2>3. /\ refs' = refs /\ req' = [req EXCEPT ![r] = q]
          /\ undone' = [undone EXCEPT ![r] = {}]
          /\ todo' = [todo EXCEPT ![r] = IF q.op \in {"new", "add"} THEN HSets(q) ELSE <<>>]
      BY <1>2 DEF Begin
    <2>4. CASE p = r
      <3>1. req'[p] = q
        BY <2>3, <2>4 DEF Shape, TypeOK
      <3> SUFFICES ASSUME l \in {"create", "embed"}, NEW i \in DOMAIN Given(q)
                   PROVE  KeysOf(Given(q)[i])
                              \subseteq refs' \union undone'[p] \union ToSet(todo'[p])
        BY <2>1, <2>2, <2>4, <3>1 DEF IndexingAt, Given
      <3>2. todo'[p] = HSets(q)
        BY <2>1, <2>3, <2>4 DEF Shape, TypeOK
      <3>3. KeysOf(Given(q)[i]) \subseteq ToSet(HSets(q))
        BY <2>1, PipelineKeys
      <3>4. QED
        BY <3>2, <3>3
    <2>5. CASE p # r
      <3>1. pc'[p] = pc[p] /\ req'[p] = req[p] /\ undone'[p] = undone[p] /\ todo'[p] = todo[p]
        BY <2>2, <2>3, <2>5 DEF Shape, TypeOK
      <3>2. IndexingAt(p)
        BY DEF Indexing
      <3>3. QED
        BY <2>3, <3>1, <3>2 DEF IndexingAt, Given
    <2>6. QED
      BY <2>4, <2>5
  <1>3. CASE UNCHANGED vars
    BY <1>3 DEF vars, redis, router, cursors, Indexing, IndexingAt, Given
  <1>4. QED
    BY <1>1, <1>2, <1>3 DEF Next, Indexing

\* A New or an AddRoute lists its routes only behind the last key of their references.
LEMMA ListedIsIndexed ==
    ASSUME Shape, Indexing, [Next]_vars, NEW r \in Routers,
           routes'[r] # routes[r], pc[r] \in {"embed", "hset"}
    PROVE  /\ \A i \in DOMAIN Given(req[r]) :
                 KeysOf(Given(req[r])[i]) \subseteq refs' \union undone'[r]
           /\ req[r].op = "add" => Doubles(routes'[r]) \subseteq Doubles(routes[r])
  <1>1. HSet(r)
    <2>1. ~UNCHANGED vars
      BY DEF vars, router
    <2>2. ASSUME NEW p \in Routers, Step(p) PROVE p = r
      BY <2>2, OthersStand
    <2>3. ASSUME NEW p \in Routers, NEW q \in Requests, Begin(p, q) PROVE FALSE
      <3>1. p # r
        BY <2>3 DEF Begin
      <3>2. routes' = routes \/ \E list : routes' = [routes EXCEPT ![p] = list]
        BY <2>3 DEF Begin, SetThreshold, SetConfig, router
      <3>3. QED
        BY <3>1, <3>2 DEF Shape, TypeOK
    <2>4. Step(r)
      BY <2>1, <2>2, <2>3 DEF Next
    <2>5. ~Embed(r)
      BY DEF Embed, router
    <2>6. QED
      BY <2>4, <2>5 DEF Step, Create, Scan, Del, Empty, EmbedStatement, Aggregate
  <1>2. todo[r] = <<>> /\ refs' = refs /\ undone' = undone /\ pc[r] = "hset" /\ List(r)
    BY <1>1 DEF HSet, router, redis
  <1>3. ToSet(todo[r]) = {}
    BY <1>2 DEF ToSet
  <1>4. \A i \in DOMAIN Given(req[r]) :
           KeysOf(Given(req[r])[i]) \subseteq refs \union undone[r] \union ToSet(todo[r])
    BY DEF Indexing, IndexingAt
  <1>5. req[r].op = "add" => Doubles(routes'[r]) \subseteq Doubles(routes[r])
    BY <1>2, ListShape
  <1>6. QED
    BY <1>2, <1>3, <1>4, <1>5

\* A process lists the routes of a New or an AddRoute only when the pipeline of their
\* references is through: what it lists is in Redis, or was taken out again by another.
\* An AddRoute never lists a route a second time.
THEOREM RoutesAreIndexed == Spec => ListsWhatIsIndexed
  <1> DEFINE A == \A r \in Routers :
                     routes'[r] # routes[r] /\ pc[r] \in {"embed", "hset"} =>
                         /\ \A i \in DOMAIN Given(req[r]) :
                               KeysOf(Given(req[r])[i]) \subseteq refs' \union undone'[r]
                         /\ req[r].op = "add" =>
                               Doubles(routes'[r]) \subseteq Doubles(routes[r])
  <1>1. Init => Indexing
    BY DEF Init, Indexing, IndexingAt
  <1>2. Shape /\ Indexing /\ [Next]_vars => [A]_vars
    BY ListedIsIndexed
  <1> HIDE DEF A
  <1>3. Spec => [][A]_vars
    BY <1>1, <1>2, NextIndexing, InitShape, NextShape, PTL DEF Spec
  <1>4. QED
    BY <1>3 DEF A, ListsWhatIsIndexed

\* Route and RouteMany answer with groups of the routes their process lists, each within
\* its own threshold, nearest first, and leave none out that is nearer than one of them.
THEOREM AnswersAreNearest == Spec => NearestFirst
  <1> DEFINE mine(r) == {g \in Groups(r) :
                           \E i \in DOMAIN routes[r] :
                               /\ routes[r][i].name = g.name
                               /\ g.sum < routes[r][i].threshold * g.of}
             A == \A r \in Routers : Replied(r) =>
                    LET answer == matches'[r]
                        own    == {g \in Groups(r) :
                                     \E i \in DOMAIN routes[r] :
                                         /\ routes[r][i].name = g.name
                                         /\ g.sum < routes[r][i].threshold * g.of}
                    IN  /\ IsRanked(answer)
                        /\ \A i \in DOMAIN answer :
                              /\ answer[i] \in own
                              /\ \A g \in own : Nearer(g, answer[i]) => g \in ToSet(answer)
  <1>1. ASSUME Shape, [Next]_vars, NEW r \in Routers, Replied(r)
        PROVE  /\ IsRanked(matches'[r])
               /\ \A i \in DOMAIN matches'[r] :
                     /\ matches'[r][i] \in mine(r)
                     /\ \A g \in mine(r) : Nearer(g, matches'[r][i]) => g \in ToSet(matches'[r])
    <2>1. pc[r] = "aggregate" /\ pc'[r] = "ok"
      BY <1>1 DEF Replied
    <2>2. Aggregate(r)
      <3>1. ~UNCHANGED vars
        BY <2>1 DEF vars
      <3>2. ASSUME NEW p \in Routers, Step(p) PROVE p = r
        BY <1>1, <2>1, <3>2, OthersStand
      <3>3. ASSUME NEW p \in Routers, NEW q \in Requests, Begin(p, q) PROVE FALSE
        <4>1. p # r
          BY <2>1, <3>3 DEF Begin
        <4>2. PICK l \in Labels : Goto(p, l)
          BY <1>1, <3>3, FirstCommand
        <4>3. pc'[r] = pc[r]
          BY <1>1, <4>1, <4>2, Moves
        <4>4. QED
          BY <2>1, <4>3
      <3>4. Step(r)
        BY <1>1, <3>1, <3>2, <3>3 DEF Next
      <3>5. QED
        BY <2>1, <3>4 DEF Step, Create, Embed, HSet, Scan, Del, Empty, EmbedStatement
    <2>3. PICK answer \in Answers(r) : matches' = [matches EXCEPT ![r] = answer]
      <3>1. Goto(r, "err") \/ Lose(r, "err") => pc'[r] = "err"
        BY <1>1, Moves DEF Labels
      <3>2. QED
        BY <2>1, <2>2, <3>1 DEF Aggregate
    <2>4. matches'[r] = answer
      BY <1>1, <2>3 DEF Shape, TypeOK
    <2>5. /\ IsRanked(answer)
          /\ \A g \in ToSet(answer) : g \in Groups(r) /\ Within(r, g)
          /\ \A g \in Groups(r), a \in ToSet(answer) :
                Within(r, g) /\ Nearer(g, a) => g \in ToSet(answer)
      BY <1>1, <2>1, <2>3, AnswerIsNearest
    <2>6. \A g : g \in mine(r) <=> g \in Groups(r) /\ Within(r, g)
      BY <1>1, OwnThreshold
    <2> HIDE DEF mine
    <2>7. \A i \in DOMAIN answer : answer[i] \in ToSet(answer)
      BY DEF ToSet
    <2>8. QED
      BY <2>4, <2>5, <2>6, <2>7
  <1>2. Shape /\ [Next]_vars => [A]_vars
    BY <1>1
  <1> HIDE DEF A
  <1>3. Spec => [][A]_vars
    BY <1>2, InitShape, NextShape, PTL DEF Spec
  <1>4. QED
    BY <1>3, PTL DEF A, NearestFirst
=============================================================================
