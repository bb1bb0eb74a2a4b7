----------------------- MODULE EmbeddingsCache_proofs -----------------------
(***************************************************************************)
(* Theorems about EmbeddingsCache for any callers, texts, models, batch size *)
(* and number of calls and lost commands.                                    *)
(***************************************************************************)
EXTENDS EmbeddingsCache, FiniteSetTheorems, SequenceTheorems, TLAPS

USE DEF cursors, work

\* Which calls can be at which command, and where in their texts they are.
CallAt(c) ==
    /\ IF pc[c] = "idle" THEN req[c] = NoRequest ELSE req[c] \in Requests
    /\ pc[c] \in {"read", "refresh", "inner"} => req[c].op = "embed"
    /\ pc[c] \in {"hset", "expire"} => req[c].op \in {"embed", "set"}
    /\ pc[c] = "drop" => req[c].op = "drop"
    /\ pc[c] \in {"scan", "del"} => req[c].op = "clear"
    /\ pc[c] = "expire" => current[c] \in Texts
    /\ req[c].op = "embed" => Len(out[c]) = Len(texts(c))
    /\ pc[c] = "read" => pos[c] \in DOMAIN out[c] \/ texts(c) = <<>>
    /\ pc[c] = "refresh" => pos[c] \in DOMAIN out[c]
    /\ pc[c] \in {"read", "refresh"} => embedded[c] = <<>>
    /\ pc[c] = "inner" => Len(embedded[c]) <= Cardinality(missed(c))

Shape == TypeOK /\ \A c \in Callers : CallAt(c)

\* What is owed to a call was there when it began, and is there still.
DueIsThere == \A c \in Callers : due[c] \subseteq Present

\* What a Clear owes it has yet to visit, or to delete.
ClearAt(c) ==
    /\ pc[c] = "scan" => due[c] \subseteq unseen[c]
    /\ pc[c] = "del" => due[c] \subseteq unseen[c] \union batch[c]
    /\ req[c].op = "clear" /\ pc[c] = "ok" => due[c] = {}

\* A text whose lookup missed had no entry at some moment of the call.
MissesAt(c) ==
    careful[c] =>
        /\ pc[c] = "read" => \A n \in missed(c) : n < pos[c] => Key(c, texts(c)[n]) \notin due[c]
        /\ pc[c] \in {"refresh", "inner"} =>
              \A n \in missed(c) : Key(c, texts(c)[n]) \notin due[c]

DueInv == DueIsThere /\ \A c \in Callers : ClearAt(c) /\ MissesAt(c)

\* Two texts share an entry only if they are one text, embedded by one model.
KeysApart ==
    \A c, d \in Callers, t, u \in Texts : Key(c, t) = Key(d, u) => t = u /\ Model(c) = Model(d)

\* An entry has the vector of its text.
EntriesAreRight ==
    \A c \in Callers, t \in Texts :
        store[Key(c, t)] # NoEntry => store[Key(c, t)].vec = Vector(c, t)

\* What a call has so far is right, and complete when it writes or returns.
OutAt(c) ==
    req[c].op = "embed" =>
        /\ \A n \in DOMAIN out[c] : out[c][n] \in {Miss, Vector(c, texts(c)[n])}
        /\ pc[c] \in {"hset", "expire", "ok"} => missed(c) = {}
        /\ pc[c] = "inner" =>
              \A i \in 1..Len(embedded[c]) : embedded[c][i] = Vector(c, MissTexts(c)[i])

OutInv == EntriesAreRight /\ \A c \in Callers : OutAt(c)

-----------------------------------------------------------------------------
(* Constants. *)

\* The vector of a text is no miss, and an entry is not its absence.
LEMMA Vectors1 ==
    /\ Miss \notin Vectors /\ NoEntry.vec = Miss
    /\ NoEntry \notin [vec : Vectors, expires : BOOLEAN]
    /\ \A c \in Callers, t \in Texts : Vector(c, t) \in Vectors /\ Key(c, t) \in Keys
  <1>1. Miss \notin Vectors
    BY EmbeddingsCacheAssumption DEF Miss, Vectors
  <1>2. NoEntry.vec = Miss
    BY DEF NoEntry
  <1>3. NoEntry \notin [vec : Vectors, expires : BOOLEAN]
    BY <1>1, <1>2
  <1>4. \A c \in Callers, t \in Texts : Vector(c, t) \in Vectors /\ Key(c, t) \in Keys
    BY DEF Vector, Vectors, Keys
  <1>5. QED
    BY <1>1, <1>2, <1>3, <1>4

\* What the requests are made of.
LEMMA RequestFacts ==
    ASSUME NEW r \in Requests
    PROVE  /\ r.op \in DOMAIN First /\ First[r.op] \in Labels
           /\ First[r.op] \in {"read", "hset", "drop", "scan", "ok"}
           /\ First[r.op] = "read" <=> r.op = "embed"
           /\ First[r.op] = "hset" <=> r.op = "set"
           /\ First[r.op] = "drop" <=> r.op = "drop"
           /\ First[r.op] = "scan" <=> r.op = "clear"
           /\ r.op \in {"embed", "drop"} => r.texts \in Seq(Texts)
           /\ r.op = "set" => r.texts[1] \in Texts /\ r.ttl \in BOOLEAN
           /\ r.op = "set_ttl" => r.ttl \in BOOLEAN
           /\ r # NoRequest
  <1>1. r \in Request
    BY EmbeddingsCacheAssumption
  <1>2. r.op \in {"embed", "set", "drop", "clear", "set_ttl"}
    BY <1>1 DEF Request
  <1>3. r.op = "set" => r.texts[1] \in Texts /\ r.ttl \in BOOLEAN
    BY <1>1 DEF Request
  <1>4. r.op = "set_ttl" => r.ttl \in BOOLEAN
    BY <1>1 DEF Request
  <1>5. r.op \in {"embed", "drop"} => r.texts \in Seq(Texts)
    BY <1>1 DEF Request
  <1>6. QED
    BY <1>2, <1>3, <1>4, <1>5 DEF First, Labels, Finished, NoRequest

\* The rank of n in a set of numbers: the position of a missing text among those missing.
Rank(S, n) == Cardinality({m \in S : m <= n})

\* The elements of a set of numbers have the ranks from 1 to its size, one each.
LEMMA Ranks ==
    ASSUME NEW N \in Nat, NEW S \in SUBSET (1..N)
    PROVE  /\ Cardinality(S) \in Nat /\ Cardinality(S) <= N
           /\ \A n \in S : Rank(S, n) \in 1..Cardinality(S)
           /\ \A n, m \in S : Rank(S, n) = Rank(S, m) => n = m
           /\ \A i \in 1..Cardinality(S) : \E n \in S : Rank(S, n) = i
  <1> DEFINE C == Cardinality(S)
             f == [n \in S |-> Rank(S, n)]
  <1>1. IsFiniteSet(1..N) /\ Cardinality(1..N) = N
    BY FS_Interval
  <1>2. IsFiniteSet(S) /\ C \in Nat /\ C <= N
    BY <1>1, FS_Subset, FS_CardinalityType
  <1>3. ASSUME NEW n \in S PROVE Rank(S, n) \in 1..C
    <2> DEFINE T == {m \in S : m <= n}
    <2>1. IsFiniteSet(T) /\ Cardinality(T) \in Nat /\ Cardinality(T) <= C
      BY <1>2, FS_Subset, FS_CardinalityType
    <2>2. n \in T
      OBVIOUS
    <2>3. Cardinality(T) # 0
      BY <2>1, <2>2, FS_EmptySet
    <2>4. QED
      BY <2>1, <2>3, <1>2 DEF Rank
  <1>4. ASSUME NEW n \in S, NEW m \in S, n < m PROVE Rank(S, n) # Rank(S, m)
    <2> DEFINE A == {j \in S : j <= n}
               B == {j \in S : j <= m}
    <2>0. \A j \in S : j \in Int
      OBVIOUS
    <2>3. n \in Int /\ m \in Int /\ ~(m <= n) /\ m <= m
      BY <1>4, <2>0
    <2>4. \A j \in S : j <= n => j <= m
      BY <1>4, <2>0, <2>3
    <2>1. A \subseteq B /\ m \in B /\ m \notin A
      BY <2>3, <2>4
    <2>2. IsFiniteSet(B)
      BY <1>2, FS_Subset
    <2>5. Cardinality(A) # Cardinality(B)
      BY <2>1, <2>2, FS_Subset
    <2>6. QED
      BY <2>5 DEF Rank
  <1>5. \A n, m \in S : Rank(S, n) = Rank(S, m) => n = m
    BY <1>4
  <1>6. f \in Injection(S, 1..C)
    BY <1>3, <1>5 DEF Injection, IsInjective
  <1>7. IsFiniteSet(1..C) /\ Cardinality(1..C) = C
    BY <1>2, FS_Interval
  <1>8. f \in Surjection(S, 1..C)
    <2> HIDE DEF f, C
    <2>1. Cardinality(S) = Cardinality(1..C)
      BY <1>7 DEF C
    <2>2. QED
      BY <1>6, <1>7, <2>1, FS_Injection
  <1>9. \A i \in 1..C : \E n \in S : Rank(S, n) = i
    BY <1>8 DEF Surjection
  <1>10. QED
    BY <1>2, <1>3, <1>5, <1>9

\* The texts an embedding is missing for, each at its rank among them.
LEMMA Missing ==
    ASSUME NEW c \in Callers, out[c] \in Seq(Vectors \union {Miss}),
           texts(c) \in Seq(Texts), Len(out[c]) = Len(texts(c))
    PROVE  /\ missed(c) \subseteq 1..Len(out[c])
           /\ Cardinality(missed(c)) \in Nat /\ Cardinality(missed(c)) <= Len(out[c])
           /\ MissTexts(c) \in Seq(Texts) /\ Len(MissTexts(c)) = Cardinality(missed(c))
           /\ \A n \in missed(c) : /\ Rank(missed(c), n) \in 1..Cardinality(missed(c))
                                   /\ MissTexts(c)[Rank(missed(c), n)] = texts(c)[n]
  <1> DEFINE S == missed(c)
             C == Cardinality(S)
             N == Len(out[c])
  <1>1. N \in Nat /\ S \in SUBSET (1..N)
    BY DEF missed
  <1>2. /\ C \in Nat /\ C <= N
        /\ \A n \in S : Rank(S, n) \in 1..C
        /\ \A n, m \in S : Rank(S, n) = Rank(S, m) => n = m
        /\ \A i \in 1..C : \E n \in S : Rank(S, n) = i
    BY <1>1, Ranks
  <1> DEFINE At(i) == CHOOSE n \in S : Rank(S, n) = i
  <1>3. MissTexts(c) = [i \in 1..C |-> texts(c)[At(i)]]
    BY DEF MissTexts, Rank
  <1>4. \A i \in 1..C : At(i) \in S
    BY <1>2
  <1>5. \A n \in S : At(Rank(S, n)) = n
    BY <1>2
  <1>6. \A n \in S : texts(c)[n] \in Texts
    BY <1>1
  <1> HIDE DEF S, C, N, At
  <1>7. MissTexts(c) \in [1..C -> Texts]
    BY <1>3, <1>4, <1>6
  <1>8. MissTexts(c) \in Seq(Texts) /\ Len(MissTexts(c)) = C
    BY <1>2, <1>7
  <1>9. \A n \in S : MissTexts(c)[Rank(S, n)] = texts(c)[n]
    BY <1>2, <1>3, <1>5
  <1>10. QED
    BY <1>1, <1>2, <1>8, <1>9 DEF S, C, N

-----------------------------------------------------------------------------
(* The shape. *)

\* Before the first call.
LEMMA InitShape == Init => Shape
  <1> SUFFICES ASSUME Init PROVE Shape
    OBVIOUS
  <1> USE DEF Init
  <1>1. TypeOK
    BY EmbeddingsCacheAssumption DEF TypeOK, Labels, Finished
  <1>2. ASSUME NEW c \in Callers PROVE CallAt(c)
    BY DEF CallAt, NoRequest
  <1>3. QED
    BY <1>1, <1>2 DEF Shape

\* The other callers are where they were, and lose at most what is owed to them.
Others(c) ==
    \A d \in Callers \ {c} :
        /\ pc'[d] = pc[d] /\ req'[d] = req[d] /\ pos'[d] = pos[d] /\ ttl'[d] = ttl[d]
        /\ out'[d] = out[d] /\ embedded'[d] = embedded[d] /\ current'[d] = current[d]
        /\ unseen'[d] = unseen[d] /\ batch'[d] = batch[d] /\ careful'[d] = careful[d]
        /\ due'[d] \subseteq due[d]

\* A call that moves, and the call it makes, as they are told by the actions.
LEMMA Moves ==
    ASSUME TypeOK, NEW c \in Callers, NEW label \in Labels, Goto(c, label) \/ Lose(c, label)
    PROVE  /\ pc' \in [Callers -> Labels] /\ careful' \in [Callers -> BOOLEAN] /\ faults' \in Nat
           /\ pc'[c] = label /\ (careful'[c] => careful[c])
           /\ \A d \in Callers \ {c} : pc'[d] = pc[d] /\ careful'[d] = careful[d]
  <1>1. CASE Goto(c, label)
    BY <1>1 DEF Goto, TypeOK
  <1>2. CASE Lose(c, label)
    BY <1>2 DEF Lose, TypeOK
  <1>3. QED
    BY <1>1, <1>2

\* Removing entries.
LEMMA Removes ==
    ASSUME TypeOK, NEW S, Remove(S)
    PROVE  /\ store' \in [Keys -> [vec : Vectors, expires : BOOLEAN] \union {NoEntry}]
           /\ due' \in [Callers -> SUBSET Keys] /\ immortal' \in SUBSET Keys
           /\ \A d \in Callers : due'[d] = due[d] \ S
           /\ \A k \in Keys : store'[k] = IF k \in S THEN NoEntry ELSE store[k]
  BY DEF Remove, TypeOK

\* Renewing the expiration of an entry.
LEMMA Renews ==
    ASSUME TypeOK, NEW k \in Keys, Renewed(k)
    PROVE  /\ store' \in [Keys -> [vec : Vectors, expires : BOOLEAN] \union {NoEntry}]
           /\ immortal' \in SUBSET Keys
           /\ \A j \in Keys : /\ store'[j] = NoEntry <=> store[j] = NoEntry
                              /\ store'[j].vec = store[j].vec
                              /\ j # k => store'[j] = store[j]
           /\ store[k] # NoEntry => store'[k].expires
  <1>1. store[k] \in [vec : Vectors, expires : BOOLEAN] \union {NoEntry}
    BY DEF TypeOK
  <1>2. CASE store[k] = NoEntry
    BY <1>2 DEF Renewed, TypeOK
  <1>3. CASE store[k] # NoEntry
    <2> DEFINE e == [store[k] EXCEPT !.expires = TRUE]
    <2>1. e \in [vec : Vectors, expires : BOOLEAN] /\ e.vec = store[k].vec /\ e.expires
      BY <1>1, <1>3
    <2>2. store' = [store EXCEPT ![k] = e] /\ immortal' = immortal \ {k}
      BY <1>3 DEF Renewed
    <2>3. e # NoEntry
      BY <2>1, Vectors1
    <2> HIDE DEF e
    <2>4. QED
      BY <1>3, <2>1, <2>2, <2>3 DEF TypeOK
  <1>4. QED
    BY <1>2, <1>3

\* What every step of a call keeps.
LEMMA CallAtStays ==
    ASSUME TypeOK, NEW d \in Callers, CallAt(d), pc'[d] = pc[d], req'[d] = req[d],
           pos'[d] = pos[d], out'[d] = out[d], embedded'[d] = embedded[d],
           current'[d] = current[d]
    PROVE  CallAt(d)'
  BY DEF CallAt, texts, missed

\* A call begins.
LEMMA BeginTypes ==
    ASSUME Shape, NEW c \in Callers, NEW r \in Requests, Begin(c, r)
    PROVE  TypeOK' /\ Others(c)
  <1> USE DEF Begin
  <1>1. First[r.op] \in Labels
    BY RequestFacts
  <1>2. /\ pc' \in [Callers -> Labels] /\ req' \in [Callers -> Requests \union {NoRequest}]
        /\ pos' \in [Callers -> Nat \ {0}] /\ calls' \in Nat /\ faults' \in Nat
        /\ unseen' \in [Callers -> SUBSET Keys] /\ careful' \in [Callers -> BOOLEAN]
        /\ due' \in [Callers -> SUBSET Keys]
    BY <1>1 DEF Shape, TypeOK, Present
  <1>3. ttl' \in [Callers -> BOOLEAN]
    BY RequestFacts DEF Shape, TypeOK
  <1>4. unsaved' \in [Callers -> SUBSET Texts]
    BY RequestFacts DEF Shape, TypeOK
  <1>5. <<>> \in Seq(Vectors) /\ Len(<<>>) = 0 /\ <<>> \in Seq(Vectors \union {Miss})
    OBVIOUS
  <1>6. embedded' \in [Callers -> Seq(Vectors)] /\ embedded'[c] = <<>>
    BY <1>5 DEF Shape, TypeOK
  <1>7. ASSUME r.op = "embed"
        PROVE  [n \in DOMAIN r.texts |-> Miss] \in Seq(Vectors \union {Miss})
    BY <1>7, RequestFacts
  <1> DEFINE o == IF r.op = "embed" THEN [n \in DOMAIN r.texts |-> Miss] ELSE <<>>
  <1>8. o \in Seq(Vectors \union {Miss})
    BY <1>5, <1>7
  <1>9. out' = [out EXCEPT ![c] = o]
    OBVIOUS
  <1> HIDE DEF o
  <1>10. out' \in [Callers -> Seq(Vectors \union {Miss})]
    BY <1>8, <1>9 DEF Shape, TypeOK
  <1>11. Len(out'[c]) \in Nat
    BY <1>10
  <1>12. \A d \in Callers : Len(embedded'[d]) <= Len(out'[d])
    BY <1>5, <1>6, <1>9, <1>11 DEF Shape, TypeOK
  <1>13. TypeOK'
    BY <1>2, <1>3, <1>4, <1>6, <1>10, <1>12 DEF Shape, TypeOK
  <1>14. Others(c)
    BY DEF Others, Shape, TypeOK
  <1>15. QED
    BY <1>13, <1>14

\* The shape is kept if the types are, and the call that moved is where it may be.
LEMMA ShapeKept ==
    ASSUME Shape, TypeOK', NEW c \in Callers, Others(c), CallAt(c)'
    PROVE  Shape'
  <1>1. ASSUME NEW d \in Callers \ {c} PROVE CallAt(d)'
    BY CallAtStays DEF Shape, Others
  <1>2. QED
    BY <1>1 DEF Shape

\* A call begins at the first command of its operation.
LEMMA BeginShape ==
    ASSUME Shape, NEW c \in Callers, NEW r \in Requests, Begin(c, r)
    PROVE  Shape' /\ Others(c)
  <1>1. TypeOK' /\ Others(c)
    BY BeginTypes
  <1>2. /\ pc'[c] = First[r.op] /\ req'[c] = r /\ pos'[c] = 1 /\ embedded'[c] = <<>>
        /\ r.op = "embed" => out'[c] = [n \in DOMAIN r.texts |-> Miss]
    BY DEF Begin, Shape, TypeOK
  <1>3. r.op = "embed" => Len(out'[c]) = Len(r.texts) /\ (1 \in DOMAIN out'[c] \/ r.texts = <<>>)
    BY <1>2, RequestFacts
  <1>4. pc'[c] \in {"read", "hset", "drop", "scan", "ok"} /\ r # NoRequest
    BY <1>2, RequestFacts
  <1>5. CallAt(c)'
    BY <1>2, <1>3, <1>4, RequestFacts DEF CallAt, texts
  <1>6. QED
    BY <1>1, <1>5, ShapeKept

\* A lookup.  The vectors so far are a list of vectors and misses.
LEMMA ReadShape ==
    ASSUME Shape, NEW c \in Callers, Read(c)
    PROVE  Shape' /\ Others(c)
  <1> DEFINE n == pos[c]
             k == Key(c, texts(c)[n])
             v == IF store[k] = NoEntry THEN Miss ELSE store[k].vec
             o == [out[c] EXCEPT ![n] = v]
             label == IF n < Len(texts(c)) THEN "read" ELSE AfterReads(c, o)
  <1>1. pc[c] = "read" /\ texts(c) # <<>> /\ req[c].op = "embed" /\ req[c] \in Requests
    BY DEF Read, Shape, CallAt
  <1>2. /\ texts(c) \in Seq(Texts) /\ Len(out[c]) = Len(texts(c)) /\ n \in DOMAIN out[c]
        /\ embedded[c] = <<>>
    BY <1>1, RequestFacts DEF Shape, CallAt, texts
  <1>3. out[c] \in Seq(Vectors \union {Miss}) /\ n \in 1..Len(out[c])
    BY <1>2 DEF Shape, TypeOK
  <1>4. texts(c)[n] \in Texts /\ k \in Keys
    BY <1>2, <1>3, Vectors1
  <1>5. v \in Vectors \union {Miss}
    BY <1>4 DEF Shape, TypeOK
  <1>6. /\ out' = [out EXCEPT ![c] = o]
        /\ pos' = [pos EXCEPT ![c] = IF n < Len(texts(c)) THEN n + 1 ELSE 1]
        /\ Goto(c, label)
    BY DEF Read
  <1>7. label \in {"read", "refresh", "inner", "ok"} /\ (label = "read" => n < Len(texts(c)))
        /\ (label = "refresh" => 1 \in DOMAIN o)
    <2>1. CASE n < Len(texts(c))
      BY <2>1
    <2>2. CASE ~(n < Len(texts(c)))
      <3>1. 1 \in DOMAIN o
        BY <1>3
      <3>2. QED
        BY <2>2, <3>1 DEF AfterReads
    <2>3. QED
      BY <2>1, <2>2
  <1> HIDE DEF v
  <1>8. o \in Seq(Vectors \union {Miss}) /\ Len(o) = Len(out[c])
    BY <1>3, <1>5
  <1> HIDE DEF o
  <1>9. out' \in [Callers -> Seq(Vectors \union {Miss})] /\ out'[c] = o
    BY <1>6, <1>8 DEF Shape, TypeOK
  <1> HIDE DEF label
  <1>10. label \in Labels
    BY <1>7 DEF Labels, Finished
  <1>11. /\ pc' \in [Callers -> Labels] /\ careful' \in [Callers -> BOOLEAN] /\ faults' \in Nat
         /\ pc'[c] = label /\ \A d \in Callers \ {c} : pc'[d] = pc[d] /\ careful'[d] = careful[d]
    BY <1>6, <1>10, Moves DEF Shape
  <1>12. pos' \in [Callers -> Nat \ {0}] /\ pos'[c] = IF n < Len(texts(c)) THEN n + 1 ELSE 1
    BY <1>3, <1>6 DEF Shape, TypeOK
  <1>13. /\ UNCHANGED <<store, ttl, req, embedded, unsaved, current, unseen, batch, calls, due,
                        immortal>>
    BY DEF Read
  <1>14. \A d \in Callers : Len(embedded'[d]) <= Len(out'[d])
    BY <1>6, <1>8, <1>9, <1>13 DEF Shape, TypeOK
  <1>15. TypeOK'
    BY <1>9, <1>11, <1>12, <1>13, <1>14 DEF Shape, TypeOK
  <1>16. Others(c)
    BY <1>6, <1>11, <1>13 DEF Others, Shape, TypeOK
  <1>17. Len(embedded'[c]) <= Cardinality(missed(c))'
    <2>1. texts(c)' = texts(c) /\ embedded'[c] = <<>>
      BY <1>2, <1>13 DEF texts
    <2>2. Cardinality(missed(c)') \in Nat
      BY <1>2, <1>8, <1>9, Ranks DEF missed
    <2>3. QED
      BY <2>1, <2>2
  <1>18. pc'[c] = "read" => pos'[c] \in DOMAIN out'[c]
    BY <1>2, <1>3, <1>7, <1>8, <1>9, <1>11, <1>12
  <1>19. pc'[c] = "refresh" => pos'[c] \in DOMAIN out'[c]
    BY <1>2, <1>3, <1>7, <1>8, <1>9, <1>11, <1>12 DEF label
  <1>20. CallAt(c)'
    BY <1>1, <1>2, <1>7, <1>8, <1>9, <1>11, <1>13, <1>17, <1>18, <1>19 DEF CallAt, texts
  <1>21. QED
    BY <1>15, <1>16, <1>20, ShapeKept

\* The lookups are lost: everything is a miss.
LEMMA ReadFailsShape ==
    ASSUME Shape, NEW c \in Callers, ReadFails(c)
    PROVE  Shape' /\ Others(c)
  <1> DEFINE o == [n \in DOMAIN out[c] |-> Miss]
  <1>1. pc[c] = "read" /\ req[c].op = "embed" /\ req[c] \in Requests /\ Lose(c, "inner")
    BY DEF ReadFails, Shape, CallAt
  <1>2. /\ Len(out[c]) = Len(texts(c)) /\ embedded[c] = <<>>
    BY <1>1 DEF Shape, CallAt
  <1>3. o \in Seq(Vectors \union {Miss}) /\ Len(o) = Len(out[c])
    BY DEF Shape, TypeOK
  <1>4. out' = [out EXCEPT ![c] = o] /\ UNCHANGED <<store, ttl, req, embedded, pos, unsaved,
                                                    current, unseen, batch, calls, due, immortal>>
    BY DEF ReadFails
  <1> HIDE DEF o
  <1>5. out' \in [Callers -> Seq(Vectors \union {Miss})] /\ out'[c] = o
    BY <1>3, <1>4 DEF Shape, TypeOK
  <1>6. "inner" \in Labels
    BY DEF Labels
  <1>7. /\ pc' \in [Callers -> Labels] /\ careful' \in [Callers -> BOOLEAN] /\ faults' \in Nat
        /\ pc'[c] = "inner" /\ \A d \in Callers \ {c} : pc'[d] = pc[d] /\ careful'[d] = careful[d]
    BY <1>1, <1>6, Moves DEF Shape
  <1>8. \A d \in Callers : Len(embedded'[d]) <= Len(out'[d])
    BY <1>3, <1>4, <1>5 DEF Shape, TypeOK
  <1>9. TypeOK'
    BY <1>4, <1>5, <1>7, <1>8 DEF Shape, TypeOK
  <1>10. Others(c)
    BY <1>4, <1>7 DEF Others, Shape, TypeOK
  <1>11. Len(embedded'[c]) <= Cardinality(missed(c))'
    <2>1. Cardinality(missed(c)') \in Nat
      BY <1>5, <1>3, Ranks DEF missed
    <2>2. QED
      BY <1>2, <1>4, <2>1
  <1>12. CallAt(c)'
    BY <1>1, <1>2, <1>3, <1>4, <1>5, <1>7, <1>11 DEF CallAt, texts
  <1>13. QED
    BY <1>9, <1>10, <1>12, ShapeKept

\* A call that moves without a change of its texts or vectors.
LEMMA MoveShape ==
    ASSUME Shape, NEW c \in Callers, NEW label \in Labels, Goto(c, label) \/ Lose(c, label),
           UNCHANGED <<ttl, req, embedded, out, calls>>,
           store' \in [Keys -> [vec : Vectors, expires : BOOLEAN] \union {NoEntry}],
           pos' \in [Callers -> Nat \ {0}], \A d \in Callers \ {c} : pos'[d] = pos[d],
           unsaved' \in [Callers -> SUBSET Texts], current' \in [Callers -> Texts \union {<<>>}],
           \A d \in Callers \ {c} : current'[d] = current[d],
           unseen' \in [Callers -> SUBSET Keys], batch' \in [Callers -> SUBSET Keys],
           \A d \in Callers \ {c} : unseen'[d] = unseen[d] /\ batch'[d] = batch[d],
           due' \in [Callers -> SUBSET Keys], \A d \in Callers : due'[d] \subseteq due[d],
           immortal' \in SUBSET Keys,
           pc[c] # "idle",
           label \in {"read", "refresh"} => label = pc[c] /\ pos'[c] \in DOMAIN out[c],
           label = "inner" => pc[c] \in {"read", "refresh", "inner"},
           label = "expire" => pc[c] = "hset" /\ current'[c] \in Texts,
           label = "hset" => pc[c] \in {"hset", "expire"},
           label = "drop" => pc[c] = "drop",
           label \in {"scan", "del"} => pc[c] \in {"scan", "del"},
           label # "idle"
    PROVE  Shape' /\ Others(c)
  <1>1. /\ pc' \in [Callers -> Labels] /\ careful' \in [Callers -> BOOLEAN] /\ faults' \in Nat
        /\ pc'[c] = label /\ \A d \in Callers \ {c} : pc'[d] = pc[d] /\ careful'[d] = careful[d]
    BY Moves DEF Shape
  <1>2. TypeOK'
    BY <1>1 DEF Shape, TypeOK
  <1>3. Others(c)
    BY <1>1 DEF Others, Shape, TypeOK
  <1>4. Cardinality(missed(c)) \in Nat
    BY Ranks DEF missed, Shape, TypeOK
  <1>5. label = "inner" => Len(embedded[c]) <= Cardinality(missed(c))
    BY <1>4 DEF Shape, CallAt
  <1>6. label \in {"read", "refresh"} => embedded[c] = <<>>
    BY DEF Shape, CallAt
  <1>7. CallAt(c)'
    BY <1>1, <1>5, <1>6 DEF Shape, CallAt, texts, missed
  <1>8. QED
    BY <1>2, <1>3, <1>7, ShapeKept

\* Refreshing the expiration of an entry that was found.
LEMMA RefreshShape ==
    ASSUME Shape, NEW c \in Callers, Refresh(c)
    PROVE  Shape' /\ Others(c)
  <1> DEFINE n    == pos[c]
             last == n = Len(out[c])
             then == IF ~last THEN "refresh" ELSE IF missed(c) = {} THEN "ok" ELSE "inner"
  <1>1. /\ pc[c] = "refresh" /\ req[c].op = "embed" /\ req[c] \in Requests
        /\ n \in DOMAIN out[c] /\ Len(out[c]) = Len(texts(c))
    BY DEF Refresh, Shape, CallAt
  <1>2. texts(c)[n] \in Texts /\ n \in 1..Len(out[c])
    BY <1>1, RequestFacts DEF texts, Shape, TypeOK
  <1>3. Key(c, texts(c)[n]) \in Keys
    BY <1>2, Vectors1
  <1>4. /\ pos' = [pos EXCEPT ![c] = IF last THEN 1 ELSE n + 1]
        /\ Goto(c, then) \/ Lose(c, then)
        /\ Renewed(Key(c, texts(c)[n])) \/ UNCHANGED <<store, immortal>>
        /\ UNCHANGED <<ttl, req, embedded, out, unsaved, current, unseen, batch, calls, due>>
    BY DEF Refresh
  <1>5. /\ store' \in [Keys -> [vec : Vectors, expires : BOOLEAN] \union {NoEntry}]
        /\ immortal' \in SUBSET Keys
    BY <1>3, <1>4, Renews DEF Shape, TypeOK
  <1>6. /\ pos' \in [Callers -> Nat \ {0}] /\ \A d \in Callers \ {c} : pos'[d] = pos[d]
        /\ ~last => pos'[c] \in DOMAIN out[c]
    BY <1>2, <1>4 DEF Shape, TypeOK
  <1>7. then \in {"refresh", "ok", "inner"} /\ then \in Labels /\ (then = "refresh" => ~last)
    BY DEF Labels, Finished
  <1> HIDE DEF then, last
  <1>8. QED
    BY <1>1, <1>4, <1>5, <1>6, <1>7, MoveShape DEF Shape, TypeOK

\* A step that changes nothing but where the call is.
LEMMA ReturnShape ==
    ASSUME Shape, NEW c \in Callers, ReadNone(c) \/ InnerFails(c)
    PROVE  Shape' /\ Others(c)
  <1>1. /\ pc[c] # "idle" /\ \E label \in {"ok", "err"} : Goto(c, label)
        /\ UNCHANGED <<store, ttl, req, embedded, pos, out, unsaved, current, unseen, batch,
                       calls, due, immortal>>
    BY DEF ReadNone, InnerFails
  <1>2. PICK label \in {"ok", "err"} : Goto(c, label)
    BY <1>1
  <1>3. label \in Labels
    BY DEF Labels, Finished
  <1>4. QED
    BY <1>1, <1>2, <1>3, MoveShape DEF Shape, TypeOK

\* A text to write, and the entry that is written.
LEMMA HSetShape ==
    ASSUME Shape, NEW c \in Callers, NEW t \in Texts, HSet(c, t)
    PROVE  Shape' /\ Others(c)
  <1> DEFINE k == Key(c, t)
             old == store[k] # NoEntry /\ store[k].expires
             e == [vec |-> Vector(c, t), expires |-> old]
  <1>1. pc[c] = "hset" /\ k \in Keys /\ e \in [vec : Vectors, expires : BOOLEAN]
    <2>1. pc[c] = "hset" /\ k \in Keys /\ Vector(c, t) \in Vectors
      BY Vectors1 DEF HSet
    <2>2. old \in BOOLEAN
      BY <2>1 DEF Shape, TypeOK
    <2>3. QED
      BY <2>1, <2>2
  <1> HIDE DEF e
  <1>2. /\ store' = [store EXCEPT ![k] = e] \/ store' = store
        /\ immortal' = immortal \/ immortal' = immortal \union {k}
    BY DEF HSet, e
  <1> HIDE DEF k
  <1>3. /\ store' \in [Keys -> [vec : Vectors, expires : BOOLEAN] \union {NoEntry}]
        /\ immortal' \in SUBSET Keys
    BY <1>1, <1>2 DEF Shape, TypeOK
  <1>4. /\ current' = [current EXCEPT ![c] = t]
        /\ UNCHANGED <<ttl, req, embedded, pos, out, unseen, batch, calls, due>>
        /\ unsaved' = unsaved \/ unsaved' = [unsaved EXCEPT ![c] = unsaved[c] \ {t}]
        /\ \E label \in {"expire", "ok", "err", "hset"} : Goto(c, label) \/ Lose(c, label)
    <2>1. \E label \in {"expire", "ok", "err", "hset"} : Goto(c, label) \/ Lose(c, label)
      BY DEF HSet, AfterWrite
    <2>2. QED
      BY <2>1 DEF HSet
  <1>5. PICK label \in {"expire", "ok", "err", "hset"} : Goto(c, label) \/ Lose(c, label)
    BY <1>4
  <1>6. label \in Labels
    BY DEF Labels, Finished
  <1>7. /\ current' \in [Callers -> Texts \union {<<>>}] /\ current'[c] = t
        /\ \A d \in Callers \ {c} : current'[d] = current[d]
        /\ unsaved' \in [Callers -> SUBSET Texts]
    BY <1>4 DEF Shape, TypeOK
  <1>8. QED
    BY <1>1, <1>3, <1>4, <1>5, <1>6, <1>7, MoveShape DEF Shape, TypeOK

\* Its EXPIRE.
LEMMA ExpireShape ==
    ASSUME Shape, NEW c \in Callers, Expire(c)
    PROVE  Shape' /\ Others(c)
  <1> DEFINE k == Key(c, current[c])
  <1>1. pc[c] = "expire" /\ k \in Keys
    BY Vectors1 DEF Expire, Shape, CallAt
  <1>2. /\ \/ Renewed(k)
           \/ store' = store /\ immortal' \in {immortal, immortal \union {k}}
        /\ unsaved' = unsaved \/ unsaved' = [unsaved EXCEPT ![c] = unsaved[c] \ {current[c]}]
        /\ UNCHANGED <<ttl, req, embedded, pos, out, current, unseen, batch, calls, due>>
    <2>1. Renewed(k) \/ (store' = store /\ immortal' \in {immortal, immortal \union {k}})
      BY DEF Expire
    <2>2. QED
      BY <2>1 DEF Expire
  <1>3. \E l \in {"ok", "hset"} : Goto(c, l) \/ Lose(c, l)
    BY DEF Expire, AfterWrite
  <1>4. PICK label \in {"ok", "hset"} : Goto(c, label) \/ Lose(c, label)
    BY <1>3
  <1>5. /\ store' \in [Keys -> [vec : Vectors, expires : BOOLEAN] \union {NoEntry}]
        /\ immortal' \in SUBSET Keys
    BY <1>1, <1>2, Renews DEF Shape, TypeOK
  <1>6. label \in Labels
    BY DEF Labels, Finished
  <1>7. unsaved' \in [Callers -> SUBSET Texts]
    BY <1>2 DEF Shape, TypeOK
  <1>8. QED
    BY <1>1, <1>2, <1>4, <1>5, <1>6, <1>7, MoveShape DEF Shape, TypeOK

\* Removing what a Drop names.
LEMMA DropShape ==
    ASSUME Shape, NEW c \in Callers, Drop(c)
    PROVE  Shape' /\ Others(c)
  <1>1. /\ pc[c] = "drop"
        /\ UNCHANGED <<ttl, req, embedded, pos, out, unsaved, current, unseen, batch, calls>>
    BY DEF Drop
  <1>2. \E l \in {"ok", "err"} : Goto(c, l) \/ Lose(c, l)
    BY DEF Drop
  <1>3. PICK label \in {"ok", "err"} : Goto(c, label) \/ Lose(c, label)
    BY <1>2
  <1>4. (\E S : Remove(S)) \/ UNCHANGED <<store, due, immortal>>
    BY DEF Drop
  <1>5. /\ store' \in [Keys -> [vec : Vectors, expires : BOOLEAN] \union {NoEntry}]
        /\ due' \in [Callers -> SUBSET Keys] /\ \A d \in Callers : due'[d] \subseteq due[d]
        /\ immortal' \in SUBSET Keys
    BY <1>4, Removes DEF Shape, TypeOK
  <1>6. label \in Labels
    BY DEF Labels, Finished
  <1>7. QED
    BY <1>1, <1>3, <1>5, <1>6, MoveShape DEF Shape, TypeOK

\* A SCAN of Clear.
LEMMA ScanShape ==
    ASSUME Shape, NEW c \in Callers, Scan(c)
    PROVE  Shape' /\ Others(c)
  <1>1. /\ pc[c] = "scan"
        /\ UNCHANGED <<store, ttl, req, embedded, pos, out, unsaved, current, calls, due,
                       immortal>>
    BY DEF Scan
  <1>2. \E l \in {"ok", "err", "del", "scan"} : Goto(c, l) \/ Lose(c, l)
    BY DEF Scan
  <1>3. PICK label \in {"ok", "err", "del", "scan"} : Goto(c, label) \/ Lose(c, label)
    BY <1>2
  <1>4. \/ \E S \in SUBSET unseen[c] : /\ unseen' = [unseen EXCEPT ![c] = unseen[c] \ S]
                                       /\ batch' = [batch EXCEPT ![c] = S \intersect Present]
        \/ UNCHANGED <<unseen, batch>>
    BY DEF Scan
  <1>5. /\ unseen' \in [Callers -> SUBSET Keys] /\ batch' \in [Callers -> SUBSET Keys]
        /\ \A d \in Callers \ {c} : unseen'[d] = unseen[d] /\ batch'[d] = batch[d]
    <2>1. CASE UNCHANGED <<unseen, batch>>
      BY <2>1 DEF Shape, TypeOK
    <2>2. CASE ~UNCHANGED <<unseen, batch>>
      <3>1. PICK S \in SUBSET unseen[c] : /\ unseen' = [unseen EXCEPT ![c] = unseen[c] \ S]
                                         /\ batch' = [batch EXCEPT ![c] = S \intersect Present]
        BY <1>4, <2>2
      <3>2. unseen[c] \subseteq Keys /\ S \subseteq Keys
        BY DEF Shape, TypeOK
      <3>3. QED
        BY <3>1, <3>2 DEF Shape, TypeOK
    <2>3. QED
      BY <2>1, <2>2
  <1>6. label \in Labels
    BY DEF Labels, Finished
  <1>7. QED
    BY <1>1, <1>3, <1>5, <1>6, MoveShape DEF Shape, TypeOK

\* A DEL of Clear.
LEMMA DelShape ==
    ASSUME Shape, NEW c \in Callers, Del(c)
    PROVE  Shape' /\ Others(c)
  <1>1. /\ pc[c] = "del"
        /\ UNCHANGED <<ttl, req, embedded, pos, out, unsaved, current, unseen, batch, calls>>
    BY DEF Del
  <1>2. \E l \in {"ok", "err", "scan"} : Goto(c, l) \/ Lose(c, l)
    BY DEF Del
  <1>3. PICK label \in {"ok", "err", "scan"} : Goto(c, label) \/ Lose(c, label)
    BY <1>2
  <1>4. Remove(batch[c]) \/ UNCHANGED <<store, due, immortal>>
    BY DEF Del
  <1>5. /\ store' \in [Keys -> [vec : Vectors, expires : BOOLEAN] \union {NoEntry}]
        /\ due' \in [Callers -> SUBSET Keys] /\ \A d \in Callers : due'[d] \subseteq due[d]
        /\ immortal' \in SUBSET Keys
    BY <1>4, Removes DEF Shape, TypeOK
  <1>6. label \in Labels
    BY DEF Labels, Finished
  <1>7. QED
    BY <1>1, <1>3, <1>5, <1>6, MoveShape DEF Shape, TypeOK

\* What a request to the inner vectorizer adds to the embeddings: those of the texts of
\* the batch, at their places among the missing ones.
InnerAdds(c, embeddings) ==
    /\ embeddings \in Seq(Vectors) /\ Len(embeddings) <= Len(MissTexts(c))
    /\ \A i \in 1..Len(embeddings) :
          embeddings[i] = IF i <= Len(embedded[c]) THEN embedded[c][i]
                          ELSE Vector(c, MissTexts(c)[i])
    /\ IF Len(embeddings) < Len(MissTexts(c))
       THEN /\ embedded' = [embedded EXCEPT ![c] = embeddings]
            /\ Goto(c, "inner")
            /\ UNCHANGED <<out, unsaved>>
       ELSE /\ embedded' = [embedded EXCEPT ![c] = <<>>]
            /\ out' = [out EXCEPT ![c] = Placed(c, embeddings)]
            /\ unsaved' = [unsaved EXCEPT ![c] = {texts(c)[n] : n \in missed(c)}]
            /\ Goto(c, "hset")

\* What is known of a call whose texts are embedded.
LEMMA AtInner ==
    ASSUME Shape, NEW c \in Callers, pc[c] = "inner"
    PROVE  /\ req[c].op = "embed" /\ req[c] \in Requests
           /\ out[c] \in Seq(Vectors \union {Miss}) /\ embedded[c] \in Seq(Vectors)
           /\ texts(c) \in Seq(Texts) /\ Len(out[c]) = Len(texts(c))
           /\ missed(c) \subseteq 1..Len(out[c])
           /\ Cardinality(missed(c)) \in Nat /\ Cardinality(missed(c)) <= Len(out[c])
           /\ MissTexts(c) \in Seq(Texts) /\ Len(MissTexts(c)) = Cardinality(missed(c))
           /\ Len(embedded[c]) \in Nat /\ Len(embedded[c]) <= Len(MissTexts(c))
  <1>1. /\ req[c].op = "embed" /\ req[c] \in Requests /\ Len(out[c]) = Len(texts(c))
        /\ Len(embedded[c]) <= Cardinality(missed(c))
    BY DEF Shape, CallAt
  <1>2. out[c] \in Seq(Vectors \union {Miss}) /\ embedded[c] \in Seq(Vectors)
    BY DEF Shape, TypeOK
  <1>3. texts(c) \in Seq(Texts)
    BY <1>1, RequestFacts DEF texts
  <1>4. QED
    BY <1>1, <1>2, <1>3, Missing

\* A request embeds the next batch of the missing texts.
LEMMA InnerEffect ==
    ASSUME Shape, NEW c \in Callers, Inner(c)
    PROVE  \E embeddings : InnerAdds(c, embeddings)
  <1> DEFINE M == MissTexts(c)
             L == Len(embedded[c])
             B == BatchEnd(c)
             some == SubSeq(M, L + 1, B)
             new  == [i \in DOMAIN some |-> Vector(c, some[i])]
             embeddings == embedded[c] \o new
  <1>1. /\ embedded[c] \in Seq(Vectors) /\ M \in Seq(Texts) /\ L \in Nat /\ L <= Len(M)
        /\ Len(M) \in Nat
    BY AtInner DEF Inner
  <1>2. B \in Nat /\ L <= B /\ B <= Len(M)
    BY <1>1, EmbeddingsCacheAssumption DEF BatchEnd
  <1>3. /\ some \in Seq(Texts) /\ Len(some) = B - L
        /\ \A i \in 1..(B - L) : some[i] = M[L + i]
    BY <1>1, <1>2
  <1>4. /\ new \in Seq(Vectors) /\ Len(new) = B - L
        /\ \A i \in 1..(B - L) : new[i] = Vector(c, M[L + i])
    <2>1. B - L \in Nat
      BY <1>1, <1>2
    <2> HIDE DEF B, L, M, some
    <2>2. DOMAIN some = 1..(B - L) /\ \A i \in 1..(B - L) : some[i] \in Texts
      BY <1>3, <2>1
    <2>3. /\ DOMAIN new = 1..(B - L)
          /\ \A i \in 1..(B - L) : new[i] = Vector(c, some[i]) /\ new[i] \in Vectors
      BY <2>2, Vectors1
    <2>4. new \in [1..(B - L) -> Vectors]
      <3>1. new = [i \in 1..(B - L) |-> new[i]]
        BY <2>3
      <3> HIDE DEF new
      <3>2. QED
        BY <2>3, <3>1
    <2> HIDE DEF new
    <2>5. new \in Seq(Vectors) /\ Len(new) = B - L
      BY <2>1, <2>4
    <2>6. QED
      BY <1>3, <2>3, <2>5
  <1> HIDE DEF new
  <1>5. /\ embeddings \in Seq(Vectors) /\ Len(embeddings) = B
        /\ \A i \in 1..B : embeddings[i] = IF i <= L THEN embedded[c][i] ELSE new[i - L]
    <2> DEFINE old == embedded[c]
    <2>1. old \in Seq(Vectors) /\ Len(old) = L
      BY <1>1
    <2> HIDE DEF B, L, M, old
    <2>2. (old \o new) \in Seq(Vectors) /\ Len(old \o new) = L + (B - L)
      BY <1>4, <2>1
    <2>3. \A i \in 1..(L + (B - L)) : (old \o new)[i] = IF i <= L THEN old[i] ELSE new[i - L]
      BY <1>4, <2>1
    <2>4. L + (B - L) = B
      BY <1>1, <1>2
    <2>5. QED
      BY <2>2, <2>3, <2>4 DEF old
  <1>6. \A i \in 1..B : i > L => i - L \in 1..(B - L) /\ new[i - L] = Vector(c, M[i])
    BY <1>1, <1>2, <1>4
  <1>7. IF Len(embeddings) < Len(M)
        THEN /\ embedded' = [embedded EXCEPT ![c] = embeddings]
             /\ Goto(c, "inner")
             /\ UNCHANGED <<out, unsaved>>
        ELSE /\ embedded' = [embedded EXCEPT ![c] = <<>>]
             /\ out' = [out EXCEPT ![c] = Placed(c, embeddings)]
             /\ unsaved' = [unsaved EXCEPT ![c] = {texts(c)[n] : n \in missed(c)}]
             /\ Goto(c, "hset")
    BY DEF Inner, new
  <1> HIDE DEF embeddings
  <1>8. \A i \in 1..Len(embeddings) :
           embeddings[i] = IF i <= L THEN embedded[c][i] ELSE Vector(c, M[i])
    <2> SUFFICES ASSUME NEW i \in 1..B
                 PROVE  embeddings[i] = IF i <= L THEN embedded[c][i] ELSE Vector(c, M[i])
      BY <1>5
    <2>1. CASE i <= L
      BY <1>5, <2>1
    <2>2. CASE i > L
      BY <1>1, <1>2, <1>5, <1>6, <2>2
    <2>3. QED
      BY <1>1, <1>2, <2>1, <2>2
  <1>9. InnerAdds(c, embeddings)
    BY <1>2, <1>5, <1>7, <1>8 DEF InnerAdds
  <1>10. QED
    BY <1>9

\* The embeddings are put at the places of the missing texts.
LEMMA Places ==
    ASSUME Shape, NEW c \in Callers, pc[c] = "inner",
           NEW embeddings \in Seq(Vectors), Len(embeddings) = Len(MissTexts(c))
    PROVE  /\ Placed(c, embeddings) \in Seq(Vectors \union {Miss})
           /\ Len(Placed(c, embeddings)) = Len(out[c])
           /\ \A n \in DOMAIN out[c] :
                 Placed(c, embeddings)[n] =
                    IF n \in missed(c) THEN embeddings[Rank(missed(c), n)] ELSE out[c][n]
           /\ \A n \in missed(c) : Rank(missed(c), n) \in DOMAIN embeddings
  <1> DEFINE P == Placed(c, embeddings)
  <1>1. P = [n \in DOMAIN out[c] |->
               IF n \in missed(c) THEN embeddings[Rank(missed(c), n)] ELSE out[c][n]]
    BY DEF Placed, Rank
  <1>2. \A n \in missed(c) : Rank(missed(c), n) \in 1..Cardinality(missed(c))
    BY AtInner, Missing
  <1>3. \A n \in missed(c) : Rank(missed(c), n) \in DOMAIN embeddings
    BY <1>2, AtInner
  <1>4. \A n \in missed(c) : embeddings[Rank(missed(c), n)] \in Vectors
    BY <1>3
  <1>5. /\ out[c] \in Seq(Vectors \union {Miss}) /\ Len(out[c]) \in Nat
        /\ DOMAIN out[c] = 1..Len(out[c])
    BY AtInner
  <1>6. \A n \in DOMAIN out[c] : out[c][n] \in Vectors \union {Miss}
    BY <1>5
  <1> HIDE DEF P
  <1>7. P \in [1..Len(out[c]) -> Vectors \union {Miss}]
    BY <1>1, <1>4, <1>5, <1>6
  <1>8. P \in Seq(Vectors \union {Miss}) /\ Len(P) = Len(out[c])
    BY <1>5, <1>7
  <1>9. QED
    BY <1>1, <1>3, <1>8 DEF P

\* A batch of embeddings comes back.
LEMMA InnerShape ==
    ASSUME Shape, NEW c \in Callers, Inner(c)
    PROVE  Shape' /\ Others(c)
  <1>1. PICK embeddings : InnerAdds(c, embeddings)
    BY InnerEffect
  <1>2. pc[c] = "inner"
    BY DEF Inner
  <1>3. /\ embeddings \in Seq(Vectors) /\ Len(embeddings) \in Nat
        /\ Len(embeddings) <= Len(MissTexts(c)) /\ Len(MissTexts(c)) <= Len(out[c])
        /\ Len(MissTexts(c)) \in Nat /\ Len(out[c]) \in Nat
    BY <1>1, <1>2, AtInner DEF InnerAdds
  <1>4. UNCHANGED <<store, ttl, req, pos, current, unseen, batch, calls, due, immortal>>
    BY DEF Inner
  <1>5. CASE Len(embeddings) < Len(MissTexts(c))
    <2>1. /\ embedded' = [embedded EXCEPT ![c] = embeddings]
          /\ Goto(c, "inner") /\ UNCHANGED <<out, unsaved>>
      BY <1>1, <1>5 DEF InnerAdds
    <2>2. "inner" \in Labels
      BY DEF Labels
    <2>3. /\ pc' \in [Callers -> Labels] /\ careful' \in [Callers -> BOOLEAN] /\ faults' \in Nat
          /\ pc'[c] = "inner"
          /\ \A d \in Callers \ {c} : pc'[d] = pc[d] /\ careful'[d] = careful[d]
      BY <2>1, <2>2, Moves DEF Shape
    <2>4. /\ embedded' \in [Callers -> Seq(Vectors)]
          /\ \A d \in Callers : Len(embedded'[d]) <= Len(out'[d])
      BY <1>3, <2>1 DEF Shape, TypeOK
    <2>5. TypeOK'
      BY <1>4, <2>1, <2>3, <2>4 DEF Shape, TypeOK
    <2>6. Others(c)
      BY <1>4, <2>1, <2>3 DEF Others, Shape, TypeOK
    <2>7. Len(embedded'[c]) <= Cardinality(missed(c))'
      <3>1. embedded'[c] = embeddings /\ missed(c)' = missed(c)
        BY <2>1 DEF Shape, TypeOK, missed
      <3>2. Len(MissTexts(c)) = Cardinality(missed(c))
        BY <1>2, AtInner
      <3>3. QED
        BY <1>3, <3>1, <3>2
    <2>8. CallAt(c)'
      BY <1>2, <1>4, <2>1, <2>3, <2>7 DEF Shape, CallAt, texts
    <2>9. QED
      BY <2>5, <2>6, <2>8, ShapeKept
  <1>6. CASE ~(Len(embeddings) < Len(MissTexts(c)))
    <2> DEFINE P == Placed(c, embeddings)
    <2>1. /\ embedded' = [embedded EXCEPT ![c] = <<>>] /\ out' = [out EXCEPT ![c] = P]
          /\ unsaved' = [unsaved EXCEPT ![c] = {texts(c)[n] : n \in missed(c)}]
          /\ Goto(c, "hset")
      BY <1>1, <1>6 DEF InnerAdds
    <2>2. "hset" \in Labels
      BY DEF Labels
    <2>3. /\ pc' \in [Callers -> Labels] /\ careful' \in [Callers -> BOOLEAN] /\ faults' \in Nat
          /\ pc'[c] = "hset"
          /\ \A d \in Callers \ {c} : pc'[d] = pc[d] /\ careful'[d] = careful[d]
      BY <2>1, <2>2, Moves DEF Shape
    <2>4. P \in Seq(Vectors \union {Miss}) /\ Len(P) = Len(out[c])
      BY <1>2, <1>3, <1>6, Places
    <2> HIDE DEF P
    <2>5. out' \in [Callers -> Seq(Vectors \union {Miss})] /\ out'[c] = P
      BY <2>1, <2>4 DEF Shape, TypeOK
    <2>6. <<>> \in Seq(Vectors) /\ Len(<<>>) = 0
      OBVIOUS
    <2>7. embedded' \in [Callers -> Seq(Vectors)] /\ embedded'[c] = <<>>
      BY <2>1, <2>6 DEF Shape, TypeOK
    <2>8. \A d \in Callers : Len(embedded'[d]) <= Len(out'[d])
      BY <1>3, <2>1, <2>4, <2>5, <2>6, <2>7 DEF Shape, TypeOK
    <2>9. unsaved' \in [Callers -> SUBSET Texts]
      <3>1. \A n \in missed(c) : texts(c)[n] \in Texts
        BY <1>2, AtInner
      <3>2. {texts(c)[n] : n \in missed(c)} \in SUBSET Texts
        BY <3>1
      <3>3. QED
        BY <2>1, <3>2 DEF Shape, TypeOK
    <2>10. TypeOK'
      BY <1>4, <2>3, <2>5, <2>7, <2>8, <2>9 DEF Shape, TypeOK
    <2>11. Others(c)
      BY <1>4, <2>1, <2>3 DEF Others, Shape, TypeOK
    <2>12. CallAt(c)'
      BY <1>2, <1>4, <2>3, <2>4, <2>5, AtInner DEF CallAt, texts
    <2>13. QED
      BY <2>10, <2>11, <2>12, ShapeKept
  <1>7. QED
    BY <1>5, <1>6

\* A command or a request of a call leaves the others alone.
LEMMA StepShape ==
    ASSUME Shape, NEW c \in Callers, Step(c)
    PROVE  Shape' /\ Others(c)
  BY ReadShape, ReadFailsShape, ReturnShape, RefreshShape, InnerShape, HSetShape, ExpireShape,
     DropShape, ScanShape, DelShape DEF Step

\* An entry expires.
LEMMA EvictShape ==
    ASSUME Shape, NEW k \in Keys, Evict(k)
    PROVE  Shape'
  <1>1. /\ UNCHANGED <<ttl, pc, req, embedded, pos, out, unsaved, current, unseen, batch, calls,
                       faults, careful>>
        /\ Remove({k})
    BY DEF Evict
  <1>2. TypeOK'
    BY <1>1, Removes DEF Shape, TypeOK
  <1>3. \A c \in Callers : CallAt(c)'
    BY <1>1, CallAtStays DEF Shape
  <1>4. QED
    BY <1>2, <1>3 DEF Shape

\* Every step keeps the shape.
LEMMA NextShape == Shape /\ [Next]_vars => Shape'
  <1> SUFFICES ASSUME Shape, [Next]_vars PROVE Shape'
    OBVIOUS
  <1>1. CASE UNCHANGED vars
    <2>1. TypeOK'
      BY <1>1 DEF vars, Shape, TypeOK
    <2>2. \A c \in Callers : CallAt(c)'
      BY <1>1, CallAtStays DEF vars, Shape
    <2>3. QED
      BY <2>1, <2>2 DEF Shape
  <1>2. CASE Next
    BY <1>2, StepShape, BeginShape, EvictShape DEF Next
  <1>3. QED
    BY <1>1, <1>2

\* The variables of the caches and their callers keep their types (embeddings.go,
\* cached_vectorizer.go): in particular no more embeddings are kept than there are texts.
THEOREM TypeCorrect == Spec => []TypeOK
  <1>1. Shape => TypeOK
    BY DEF Shape
  <1>2. QED
    BY <1>1, InitShape, NextShape, PTL DEF Spec

-----------------------------------------------------------------------------
(* What a lost command costs. *)

\* Only a request to the inner vectorizer fails an embedding.
LEMMA StepFails ==
    ASSUME Shape, [Next]_vars, NEW c \in Callers, Embedding(c), pc'[c] = "err", pc[c] # "err"
    PROVE  pc[c] = "inner"
  <1>0. pc \in [Callers -> Labels] /\ req[c].op = "embed" /\ pc[c] # "idle"
    BY DEF Shape, TypeOK, Embedding
  <1>1. ~UNCHANGED vars
    BY DEF vars
  <1>2. ~(\E k \in Keys : Evict(k))
    BY DEF Evict
  <1>3. ASSUME NEW d \in Callers, NEW r \in Requests PROVE ~Begin(d, r)
    <2>1. First[r.op] # "err"
      BY RequestFacts
    <2>2. QED
      BY <1>0, <2>1 DEF Begin
  <1>4. PICK d \in Callers : Step(d)
    BY <1>1, <1>2, <1>3 DEF Next
  <1>5. d = c
    BY <1>4, StepShape DEF Others
  <1>6. ~Read(c) /\ ~ReadFails(c) /\ ~ReadNone(c)
    BY <1>0 DEF Read, ReadFails, ReadNone, Goto, Lose, AfterReads
  <1>7. ~Refresh(c)
    BY <1>0 DEF Refresh, Goto, Lose
  <1>8. \A t \in Texts : ~HSet(c, t)
    BY <1>0 DEF HSet, Goto, Lose, AfterWrite
  <1>9. ~Expire(c)
    BY <1>0 DEF Expire, Goto, Lose, AfterWrite
  <1>10. ~Drop(c) /\ ~Scan(c) /\ ~Del(c)
    BY <1>0 DEF Drop, Scan, Del, Shape, CallAt
  <1>11. Inner(c) \/ InnerFails(c)
    BY <1>4, <1>5, <1>6, <1>7, <1>8, <1>9, <1>10 DEF Step
  <1>12. QED
    BY <1>11 DEF Inner, InnerFails

\* EmbedMany and Embed of cached_vectorizer.go fall back to the inner vectorizer: no lost
\* lookup, refresh or write-back fails them.
THEOREM OnlyInnerErrors == Spec => OnlyInnerFails
  <1>1. Shape /\ [Next]_vars => (\A c \in Callers :
            Embedding(c) /\ pc'[c] = "err" /\ pc[c] # "err" => pc[c] = "inner")
    BY StepFails
  <1>2. QED
    BY <1>1, InitShape, NextShape, PTL DEF Spec, OnlyInnerFails

-----------------------------------------------------------------------------
(* Expiration. *)

\* Whether the entry at k expires, or is accounted for.
Accounted(k) ==
    \/ store[k] = NoEntry \/ store[k].expires \/ k \in immortal
    \/ \E c \in Callers : pc[c] = "expire" /\ Key(c, current[c]) = k

\* What a step does to entries and accounts, for one key.
LEMMA StepAccounts ==
    ASSUME Shape, NEW c \in Callers, Step(c), NEW k \in Keys, Accounted(k)
    PROVE  Accounted(k)'
  <1>0. Others(c) /\ TypeOK /\ CallAt(c)
    BY StepShape DEF Shape
  <1>1. ASSUME NEW d \in Callers, d # c, pc[d] = "expire", Key(d, current[d]) = k
        PROVE  Accounted(k)'
    <2>1. pc'[d] = "expire" /\ current'[d] = current[d]
      BY <1>0, <1>1 DEF Others
    <2>2. Key(d, current[d])' = Key(d, current[d])
      BY <2>1 DEF Key
    <2>3. QED
      BY <1>1, <2>1, <2>2 DEF Accounted
  <1>2. CASE pc[c] # "expire" /\ store'[k] = store[k] /\ (k \in immortal => k \in immortal')
    BY <1>1, <1>2 DEF Accounted
  <1>3. CASE UNCHANGED <<store, immortal>> /\ pc[c] # "expire"
    BY <1>2, <1>3
  <1>4. CASE Refresh(c)
    <2>1. /\ pc[c] = "refresh"
          /\ Renewed(Key(c, texts(c)[pos[c]])) \/ UNCHANGED <<store, immortal>>
      BY <1>4 DEF Refresh
    <2>2. CASE Renewed(Key(c, texts(c)[pos[c]]))
      <3> DEFINE j == Key(c, texts(c)[pos[c]])
      <3>1. j \in Keys
        <4>1. req[c].op = "embed" /\ req[c] \in Requests /\ pos[c] \in DOMAIN out[c]
              /\ Len(out[c]) = Len(texts(c))
          BY <1>0, <2>1 DEF CallAt
        <4>2. texts(c)[pos[c]] \in Texts
          BY <4>1, <1>0, RequestFacts DEF texts, TypeOK
        <4>3. QED
          BY <4>2, Vectors1
      <3>2. CASE j = k
        <4>1. store'[k] = NoEntry \/ store'[k].expires
          BY <1>0, <2>2, <3>1, <3>2, Renews
        <4>2. QED
          BY <4>1 DEF Accounted
      <3>3. CASE j # k
        <4>1. store'[k] = store[k] /\ (k \in immortal => k \in immortal')
          BY <1>0, <2>2, <3>1, <3>3, Renews DEF Renewed
        <4>2. QED
          BY <1>2, <2>1, <4>1
      <3>4. QED
        BY <3>2, <3>3
    <2>3. QED
      BY <1>3, <2>1, <2>2
  <1>5. ASSUME NEW t \in Texts, HSet(c, t) PROVE Accounted(k)'
    <2> DEFINE j == Key(c, t)
               old == store[j] # NoEntry /\ store[j].expires
               e == [vec |-> Vector(c, t), expires |-> old]
    <2>1. j \in Keys /\ pc[c] = "hset"
      BY <1>5, Vectors1 DEF HSet
    <2>2. CASE j # k
      <3>1. /\ store' = [store EXCEPT ![j] = e] \/ store' = store
            /\ immortal \subseteq immortal'
        BY <1>5 DEF HSet
      <3> HIDE DEF e, j
      <3>2. store'[k] = store[k]
        BY <1>0, <2>2, <3>1 DEF TypeOK
      <3>3. QED
        BY <1>2, <2>1, <3>1, <3>2
    <2>3. CASE j = k /\ store' = store
      BY <1>2, <1>5, <2>1, <2>3 DEF HSet
    <2>4. CASE j = k /\ store' # store
      <3>1. store' = [store EXCEPT ![j] = e] /\ e.expires = old
        BY <1>5, <2>4 DEF HSet
      <3> HIDE DEF e
      <3>2. store'[k] = e
        BY <1>0, <2>1, <2>4, <3>1 DEF TypeOK
      <3>3. CASE old
        BY <3>1, <3>2, <3>3 DEF Accounted
      <3>4. CASE ~old /\ Goto(c, "expire")
        <4>1. pc'[c] = "expire" /\ current'[c] = t
          BY <1>0, <1>5, <3>4 DEF HSet, Goto, TypeOK
        <4>2. Key(c, current[c])' = j
          BY <4>1 DEF Key
        <4>3. QED
          BY <2>4, <4>1, <4>2 DEF Accounted
      <3>5. CASE ~old /\ ~Goto(c, "expire")
        <4>1. k \in immortal'
          BY <1>5, <2>4, <3>5 DEF HSet
        <4>2. QED
          BY <4>1 DEF Accounted
      <3>6. QED
        BY <3>3, <3>4, <3>5
    <2>5. QED
      BY <2>2, <2>3, <2>4
  <1>6. CASE Expire(c)
    <2> DEFINE j == Key(c, current[c])
    <2>1. j \in Keys /\ pc[c] = "expire"
      BY <1>0, <1>6, Vectors1 DEF Expire, CallAt
    <2>2. CASE Renewed(j)
      <3>1. CASE j = k
        <4>1. store'[k] = NoEntry \/ store'[k].expires
          BY <1>0, <2>1, <2>2, <3>1, Renews
        <4>2. QED
          BY <4>1 DEF Accounted
      <3>2. CASE j # k
        <4>1. store'[k] = store[k] /\ (k \in immortal => k \in immortal')
          BY <1>0, <2>1, <2>2, <3>2, Renews DEF Renewed
        <4>2. QED
          BY <1>1, <2>1, <3>2, <4>1 DEF Accounted
      <3>3. QED
        BY <3>1, <3>2
    <2>3. CASE ~Renewed(j)
      <3>1. /\ store' = store
            /\ immortal' = immortal \union {i \in {j} \intersect Present : ~store[i].expires}
        BY <1>6, <2>3 DEF Expire
      <3>2. CASE j = k
        BY <2>1, <3>1, <3>2 DEF Accounted, Present
      <3>3. CASE j # k
        BY <1>1, <3>1, <3>3 DEF Accounted
      <3>4. QED
        BY <3>2, <3>3
    <2>4. QED
      BY <2>2, <2>3
  <1>7. CASE Drop(c) \/ Del(c)
    <2>1. pc[c] # "expire" /\ ((\E S : Remove(S)) \/ UNCHANGED <<store, immortal>>)
      BY <1>7 DEF Drop, Del
    <2>2. CASE \E S : Remove(S)
      <3>1. PICK S : Remove(S)
        BY <2>2
      <3>2. CASE k \in S
        BY <1>0, <3>1, <3>2, Removes DEF Accounted
      <3>3. CASE k \notin S
        <4>1. store'[k] = store[k] /\ (k \in immortal => k \in immortal')
          BY <1>0, <3>1, <3>3, Removes DEF Remove
        <4>2. QED
          BY <1>2, <2>1, <4>1
      <3>4. QED
        BY <3>2, <3>3
    <2>3. QED
      BY <1>3, <2>1, <2>2
  <1>8. CASE Read(c) \/ ReadFails(c) \/ ReadNone(c) \/ Inner(c) \/ InnerFails(c) \/ Scan(c)
    <2>1. UNCHANGED <<store, immortal>> /\ pc[c] # "expire"
      BY <1>8 DEF Read, ReadFails, ReadNone, Inner, InnerFails, Scan
    <2>2. QED
      BY <1>3, <2>1
  <1>9. QED
    BY <1>4, <1>5, <1>6, <1>7, <1>8 DEF Step

\* Every entry is accounted for.
LEMMA NextAccounts ==
    ASSUME Shape, [Next]_vars, NEW k \in Keys, Accounted(k)
    PROVE  Accounted(k)'
  <1>1. CASE UNCHANGED vars
    <2>1. UNCHANGED <<store, immortal, pc, current>>
      BY <1>1 DEF vars
    <2>2. QED
      BY <2>1 DEF Accounted, Key
  <1>2. ASSUME NEW c \in Callers, Step(c) PROVE Accounted(k)'
    BY <1>2, StepAccounts
  <1>3. ASSUME NEW c \in Callers, NEW r \in Requests, Begin(c, r) PROVE Accounted(k)'
    <2>1. UNCHANGED <<store, immortal, current>> /\ pc[c] # "expire"
      BY <1>3 DEF Begin, Finished
    <2>2. \A d \in Callers : d # c => pc'[d] = pc[d]
      BY <1>3, BeginShape DEF Others
    <2>3. QED
      BY <2>1, <2>2 DEF Accounted, Key
  <1>4. ASSUME NEW j \in Keys, Evict(j) PROVE Accounted(k)'
    <2>1. Remove({j}) /\ UNCHANGED <<pc, current>>
      BY <1>4 DEF Evict
    <2>2. CASE j = k
      BY <2>1, <2>2, Removes DEF Shape, Accounted
    <2>3. CASE j # k
      <3>1. store'[k] = store[k] /\ (k \in immortal => k \in immortal')
        BY <2>1, <2>3, Removes DEF Remove, Shape
      <3>2. QED
        BY <2>1, <3>1 DEF Accounted, Key
    <2>4. QED
      BY <2>2, <2>3
  <1>5. QED
    BY <1>1, <1>2, <1>3, <1>4 DEF Next

\* expire, SetWithTTL and MSet of embeddings.go: an entry written under a TTL expires,
\* unless its EXPIRE was lost or is about to be sent.
THEOREM EverythingExpires == Spec => []EntriesExpire
  <1> DEFINE I == Shape /\ \A k \in Keys : Accounted(k)
  <1>1. Init => I
    BY InitShape DEF Init, Accounted
  <1>2. I /\ [Next]_vars => I'
    <2> SUFFICES ASSUME I, [Next]_vars PROVE I'
      OBVIOUS
    <2>1. Keys' = Keys
      BY DEF Keys, Key
    <2>2. QED
      BY <2>1, NextShape, NextAccounts
  <1>3. I => EntriesExpire
    BY DEF EntriesExpire, Accounted, Present
  <1> HIDE DEF I
  <1>4. QED
    BY <1>1, <1>2, <1>3, PTL DEF Spec

-----------------------------------------------------------------------------
(* What is owed. *)

\* An entry is written again, renewed or removed; nothing that is owed goes otherwise.
LEMMA StepOwes ==
    ASSUME Shape, DueIsThere, NEW c \in Callers, Step(c)
    PROVE  DueIsThere' /\ \A d \in Callers : due'[d] \subseteq due[d]
  <1>0. TypeOK /\ TypeOK'
    BY StepShape DEF Shape
  <1>1. CASE (\E S : Remove(S))
    <2>1. PICK S : Remove(S)
      BY <1>1
    <2>2. \A d \in Callers : due'[d] = due[d] \ S /\ due[d] \subseteq Keys
      BY <1>0, <2>1, Removes DEF TypeOK
    <2>3. \A k \in Keys \ S : store'[k] = store[k]
      BY <1>0, <2>1, Removes
    <2>4. QED
      BY <2>2, <2>3 DEF DueIsThere, Present
  <1>2. CASE due' = due /\ \A k \in Keys : store[k] # NoEntry => store'[k] # NoEntry
    BY <1>2 DEF DueIsThere, Present
  <1>3. CASE UNCHANGED <<store, due>>
    BY <1>2, <1>3
  <1>4. ASSUME NEW k \in Keys, Renewed(k), due' = due
        PROVE  DueIsThere' /\ \A d \in Callers : due'[d] \subseteq due[d]
    <2>1. \A j \in Keys : store[j] # NoEntry => store'[j] # NoEntry
      BY <1>0, <1>4, Renews
    <2>2. QED
      BY <1>2, <1>4, <2>1
  <1>5. CASE Refresh(c)
    <2>1. pc[c] = "refresh" /\ due' = due
          /\ (Renewed(Key(c, texts(c)[pos[c]])) \/ UNCHANGED store)
      BY <1>5 DEF Refresh
    <2>2. /\ req[c].op = "embed" /\ req[c] \in Requests /\ pos[c] \in DOMAIN out[c]
          /\ Len(out[c]) = Len(texts(c))
      BY <2>1 DEF Shape, CallAt
    <2>3. texts(c)[pos[c]] \in Texts
      BY <1>0, <2>2, RequestFacts DEF texts, TypeOK
    <2>4. Key(c, texts(c)[pos[c]]) \in Keys
      BY <2>3, Vectors1
    <2>5. QED
      BY <1>3, <1>4, <2>1, <2>4
  <1>6. ASSUME NEW t \in Texts, HSet(c, t)
        PROVE  DueIsThere' /\ \A d \in Callers : due'[d] \subseteq due[d]
    <2> DEFINE k == Key(c, t)
               e == [vec |-> Vector(c, t), expires |-> store[k] # NoEntry /\ store[k].expires]
    <2>1. (store' = store \/ store' = [store EXCEPT ![k] = e]) /\ due' = due
      BY <1>6 DEF HSet
    <2>2. e # NoEntry
      <3>1. e.vec = Vector(c, t) /\ Vector(c, t) \in Vectors
        BY Vectors1
      <3> HIDE DEF e
      <3>2. QED
        BY <3>1, Vectors1
    <2> HIDE DEF e, k
    <2>3. \A j \in Keys : store[j] # NoEntry => store'[j] # NoEntry
      BY <1>0, <2>1, <2>2 DEF TypeOK
    <2>4. QED
      BY <1>2, <2>1, <2>3
  <1>7. CASE Expire(c)
    <2>1. /\ pc[c] = "expire" /\ due' = due
          /\ Renewed(Key(c, current[c])) \/ UNCHANGED store
      BY <1>7 DEF Expire
    <2>2. Key(c, current[c]) \in Keys
      BY <2>1, Vectors1 DEF Shape, CallAt
    <2>3. QED
      BY <1>3, <1>4, <2>1, <2>2
  <1>8. CASE Drop(c) \/ Del(c)
    BY <1>1, <1>3, <1>8 DEF Drop, Del
  <1>9. CASE Read(c) \/ ReadFails(c) \/ ReadNone(c) \/ Inner(c) \/ InnerFails(c) \/ Scan(c)
    BY <1>3, <1>9 DEF Read, ReadFails, ReadNone, Inner, InnerFails, Scan
  <1>10. QED
    BY <1>5, <1>6, <1>7, <1>8, <1>9 DEF Step

\* A Clear goes on with what it owes.
LEMMA StepClears ==
    ASSUME Shape, DueIsThere, NEW c \in Callers, ClearAt(c), Step(c)
    PROVE  ClearAt(c)'
  <1>0. TypeOK /\ TypeOK' /\ CallAt(c) /\ CallAt(c)' /\ due'[c] \subseteq due[c]
    BY StepShape, StepOwes DEF Shape
  <1>1. CASE Scan(c)
    <2>1. pc[c] = "scan" /\ due' = due /\ due[c] \subseteq unseen[c] /\ due[c] \subseteq Present
      BY <1>1 DEF Scan, ClearAt, DueIsThere
    <2>2. CASE Lose(c, "err")
      <3>1. pc'[c] = "err"
        BY <1>0, <2>2 DEF Lose, TypeOK
      <3>2. QED
        BY <3>1 DEF ClearAt
    <2>3. CASE ~Lose(c, "err")
      <3>1. PICK S \in SUBSET unseen[c] :
               /\ unseen' = [unseen EXCEPT ![c] = @ \ S]
               /\ batch' = [batch EXCEPT ![c] = S \intersect Present]
               /\ Goto(c, IF S \intersect Present # {} THEN "del"
                          ELSE IF S = unseen[c] THEN "ok" ELSE "scan")
        BY <1>1, <2>3 DEF Scan
      <3>2. /\ unseen'[c] = unseen[c] \ S /\ batch'[c] = S \intersect Present
            /\ pc'[c] = IF S \intersect Present # {} THEN "del"
                        ELSE IF S = unseen[c] THEN "ok" ELSE "scan"
        BY <1>0, <3>1 DEF Goto, TypeOK
      <3>3. pc'[c] = "scan" => due'[c] \subseteq unseen'[c]
        BY <2>1, <3>2
      <3>4. pc'[c] = "del" => due'[c] \subseteq unseen'[c] \union batch'[c]
        BY <2>1, <3>2
      <3>5. pc'[c] = "ok" => due'[c] = {}
        BY <2>1, <3>2
      <3>6. QED
        BY <3>3, <3>4, <3>5 DEF ClearAt
    <2>4. QED
      BY <2>2, <2>3
  <1>2. CASE Del(c)
    <2>1. /\ pc[c] = "del" /\ UNCHANGED <<unseen, batch>>
          /\ due[c] \subseteq unseen[c] \union batch[c]
      BY <1>2 DEF Del, ClearAt
    <2>2. CASE Lose(c, "err")
      <3>1. pc'[c] = "err"
        BY <1>0, <2>2 DEF Lose, TypeOK
      <3>2. QED
        BY <3>1 DEF ClearAt
    <2>3. CASE ~Lose(c, "err")
      <3>1. Remove(batch[c]) /\ Goto(c, IF unseen[c] = {} THEN "ok" ELSE "scan")
        BY <1>2, <2>3 DEF Del
      <3>2. due'[c] = due[c] \ batch[c] /\ pc'[c] = IF unseen[c] = {} THEN "ok" ELSE "scan"
        BY <1>0, <3>1, Removes DEF Goto, TypeOK
      <3>3. QED
        BY <2>1, <3>2 DEF ClearAt
    <2>4. QED
      BY <2>2, <2>3
  <1>3. CASE ~Scan(c) /\ ~Del(c)
    <2>1. pc[c] \in {"read", "refresh", "inner", "hset", "expire", "drop"} /\ req' = req
      BY <1>3 DEF Step, Read, ReadFails, ReadNone, Refresh, Inner, InnerFails, HSet, Expire, Drop
    <2>2. req'[c].op # "clear"
      BY <1>0, <2>1 DEF CallAt
    <2>3. pc'[c] \notin {"scan", "del"}
      BY <1>0, <2>2 DEF CallAt
    <2>4. QED
      BY <2>2, <2>3 DEF ClearAt
  <1>4. QED
    BY <1>1, <1>2, <1>3

\* A lookup misses what is not there.
LEMMA ReadMisses ==
    ASSUME Shape, DueIsThere, NEW c \in Callers, MissesAt(c), Read(c)
    PROVE  MissesAt(c)'
  <1> DEFINE n == pos[c]
             k == Key(c, texts(c)[n])
             v == IF store[k] = NoEntry THEN Miss ELSE store[k].vec
             o == [out[c] EXCEPT ![n] = v]
             label == IF n < Len(texts(c)) THEN "read" ELSE AfterReads(c, o)
  <1>1. pc[c] = "read" /\ texts(c) # <<>> /\ req[c].op = "embed" /\ req[c] \in Requests
    BY DEF Read, Shape, CallAt
  <1>2. /\ texts(c) \in Seq(Texts) /\ Len(out[c]) = Len(texts(c)) /\ n \in DOMAIN out[c]
    BY <1>1, RequestFacts DEF Shape, CallAt, texts
  <1>3. out[c] \in Seq(Vectors \union {Miss}) /\ n \in 1..Len(out[c])
    BY <1>2 DEF Shape, TypeOK
  <1>4. texts(c)[n] \in Texts /\ k \in Keys
    BY <1>2, <1>3, Vectors1
  <1>5. v = Miss => k \notin due[c]
    <2>1. v = Miss => store[k] = NoEntry
      BY <1>4, Vectors1 DEF Shape, TypeOK
    <2>2. QED
      BY <2>1 DEF DueIsThere, Present
  <1>6. /\ out' = [out EXCEPT ![c] = o]
        /\ pos' = [pos EXCEPT ![c] = IF n < Len(texts(c)) THEN n + 1 ELSE 1]
        /\ Goto(c, label) /\ UNCHANGED <<req, due>>
    BY DEF Read
  <1> HIDE DEF v
  <1>7. DOMAIN o = 1..Len(out[c]) /\ o[n] = v /\ \A m \in DOMAIN o : m # n => o[m] = out[c][m]
    BY <1>3
  <1> HIDE DEF o, label
  <1>8. /\ out'[c] = o /\ pos'[c] = IF n < Len(texts(c)) THEN n + 1 ELSE 1
        /\ pc'[c] = label /\ careful'[c] = careful[c]
    BY <1>6 DEF Goto, Shape, TypeOK
  <1>9. \A m \in DOMAIN o : Key(c, texts(c)[m])' = Key(c, texts(c)[m])
    BY <1>6 DEF texts, Key
  <1>10. ASSUME careful'[c], NEW m \in missed(c)', m <= n
         PROVE  Key(c, texts(c)[m])' \notin due'[c]
    <2>1. m \in DOMAIN o /\ o[m] = Miss /\ m \in 1..Len(out[c])
      BY <1>7, <1>8 DEF missed
    <2>2. CASE m = n
      BY <1>5, <1>6, <1>7, <1>9, <2>1, <2>2
    <2>3. CASE m # n
      <3>1. m \in missed(c) /\ m < n
        BY <1>3, <1>7, <1>10, <2>1, <2>3 DEF missed
      <3>2. Key(c, texts(c)[m]) \notin due[c]
        BY <1>1, <1>8, <1>10, <3>1 DEF MissesAt
      <3>3. QED
        BY <1>6, <1>9, <2>1, <3>2
    <2>4. QED
      BY <2>2, <2>3
  <1>11. \A m \in missed(c)' : m \in 1..Len(out[c])
    BY <1>7, <1>8 DEF missed
  <1>12. CASE n < Len(texts(c))
    <2>1. pc'[c] = "read" /\ pos'[c] = n + 1
      BY <1>8, <1>12 DEF label
    <2>2. \A m \in missed(c)' : m < pos'[c] => m <= n
      BY <1>3, <1>11, <2>1
    <2>3. QED
      BY <1>10, <2>1, <2>2 DEF MissesAt
  <1>13. CASE ~(n < Len(texts(c)))
    <2>1. \A m \in missed(c)' : m <= n
      BY <1>2, <1>3, <1>11, <1>13
    <2>2. pc'[c] \in {"refresh", "inner", "ok"}
      BY <1>8, <1>13 DEF label, AfterReads
    <2>3. QED
      BY <1>10, <2>1, <2>2 DEF MissesAt
  <1>14. QED
    BY <1>12, <1>13

\* What a call that is not disturbed has missed, it still has.
LEMMA MissesStay ==
    ASSUME NEW c \in Callers, MissesAt(c), req'[c] = req[c], out'[c] = out[c],
           (pc'[c] = pc[c] /\ pos'[c] = pos[c])
              \/ (pc'[c] \in {"refresh", "inner"} /\ pc[c] \in {"refresh", "inner"}),
           careful'[c] => careful[c], due'[c] \subseteq due[c]
    PROVE  MissesAt(c)'
  <1>1. missed(c)' = missed(c) /\ \A n : Key(c, texts(c)[n])' = Key(c, texts(c)[n])
    BY DEF missed, texts, Key
  <1>2. QED
    BY <1>1 DEF MissesAt

\* The texts a call has missed are those it had to.
LEMMA StepMisses ==
    ASSUME Shape, DueIsThere, NEW c \in Callers, MissesAt(c), Step(c)
    PROVE  MissesAt(c)'
  <1>0. TypeOK /\ CallAt(c) /\ CallAt(c)' /\ due'[c] \subseteq due[c]
    BY StepShape, StepOwes DEF Shape
  <1>1. CASE ReadFails(c)
    <2>1. ~careful'[c]
      BY <1>0, <1>1 DEF ReadFails, Lose, TypeOK
    <2>2. QED
      BY <2>1 DEF MissesAt
  <1>2. CASE Refresh(c)
    <2> DEFINE last == pos[c] = Len(out[c])
               then == IF ~last THEN "refresh" ELSE IF missed(c) = {} THEN "ok" ELSE "inner"
    <2>1. pc[c] = "refresh" /\ UNCHANGED <<req, out, due>> /\ (Goto(c, then) \/ Lose(c, then))
      BY <1>2 DEF Refresh
    <2>2. then \in {"refresh", "inner", "ok"} /\ then \in Labels
      BY DEF Labels, Finished
    <2> HIDE DEF then, last
    <2>3. pc'[c] = then /\ (careful'[c] => careful[c])
      BY <1>0, <2>1, <2>2, Moves
    <2>4. CASE then = "ok"
      BY <2>3, <2>4 DEF MissesAt
    <2>5. CASE then # "ok"
      BY <1>0, <2>1, <2>2, <2>3, <2>5, MissesStay
    <2>6. QED
      BY <2>4, <2>5
  <1>3. CASE Inner(c)
    <2>1. PICK embeddings : InnerAdds(c, embeddings)
      BY <1>3, InnerEffect
    <2>2. pc[c] = "inner" /\ UNCHANGED <<req, due>>
      BY <1>3 DEF Inner
    <2>3. CASE Goto(c, "inner") /\ UNCHANGED out
      <3>1. pc'[c] = "inner" /\ careful' = careful
        BY <1>0, <2>3 DEF Goto, TypeOK
      <3>2. QED
        BY <1>0, <2>2, <2>3, <3>1, MissesStay
    <2>4. CASE Goto(c, "hset")
      <3>1. pc'[c] = "hset"
        BY <1>0, <2>4 DEF Goto, TypeOK
      <3>2. QED
        BY <3>1 DEF MissesAt
    <2>5. QED
      BY <2>1, <2>3, <2>4 DEF InnerAdds
  <1>4. CASE ReadNone(c) \/ InnerFails(c)
    <2>1. pc'[c] \in {"ok", "err"}
      BY <1>0, <1>4 DEF ReadNone, InnerFails, Goto, TypeOK
    <2>2. QED
      BY <2>1 DEF MissesAt
  <1>5. CASE Expire(c) \/ Drop(c) \/ Scan(c) \/ Del(c) \/ \E t \in Texts : HSet(c, t)
    <2>1. \E l \in {"expire", "ok", "err", "hset", "scan", "del"} : Goto(c, l) \/ Lose(c, l)
      <3>1. ASSUME NEW t \in Texts, HSet(c, t)
            PROVE  \E l \in {"expire", "ok", "err", "hset"} : Goto(c, l) \/ Lose(c, l)
        BY <3>1 DEF HSet, AfterWrite
      <3>2. CASE Expire(c)
        BY <3>2 DEF Expire, AfterWrite
      <3>3. CASE Drop(c)
        BY <3>3 DEF Drop
      <3>4. CASE Scan(c)
        BY <3>4 DEF Scan
      <3>5. CASE Del(c)
        BY <3>5 DEF Del
      <3>6. QED
        BY <1>5, <3>1, <3>2, <3>3, <3>4, <3>5
    <2>2. PICK l \in {"expire", "ok", "err", "hset", "scan", "del"} : Goto(c, l) \/ Lose(c, l)
      BY <2>1
    <2>3. pc'[c] = l
      BY <1>0, <2>2 DEF Goto, Lose, TypeOK
    <2>4. QED
      BY <2>3 DEF MissesAt
  <1>6. CASE Read(c)
    BY <1>6, ReadMisses
  <1>7. QED
    BY <1>1, <1>2, <1>3, <1>4, <1>5, <1>6 DEF Step

\* What a step does not touch is owed as before.
LEMMA OwedStays ==
    ASSUME NEW d \in Callers, ClearAt(d), MissesAt(d), pc'[d] = pc[d], req'[d] = req[d],
           pos'[d] = pos[d], out'[d] = out[d], unseen'[d] = unseen[d], batch'[d] = batch[d],
           careful'[d] = careful[d], due'[d] \subseteq due[d]
    PROVE  ClearAt(d)' /\ MissesAt(d)'
  <1>1. ClearAt(d)'
    BY DEF ClearAt
  <1>2. missed(d)' = missed(d) /\ \A n : Key(d, texts(d)[n])' = Key(d, texts(d)[n])
    BY DEF missed, texts, Key
  <1>3. MissesAt(d)'
    BY <1>2 DEF MissesAt
  <1>4. QED
    BY <1>1, <1>3

\* Before the first call nothing is owed.
LEMMA InitDue == Init => DueInv
  BY DEF Init, DueInv, DueIsThere, ClearAt, MissesAt, NoRequest

\* Every step leaves what is owed in the entries, and to be visited by its Clear.
LEMMA NextDue == Shape /\ DueInv /\ [Next]_vars => DueInv'
  <1> SUFFICES ASSUME Shape, DueInv, [Next]_vars PROVE DueInv'
    OBVIOUS
  <1>0. TypeOK /\ DueIsThere /\ \A d \in Callers : ClearAt(d) /\ MissesAt(d)
    BY DEF Shape, DueInv
  <1>1. CASE UNCHANGED vars
    <2>1. \A d \in Callers : ClearAt(d)' /\ MissesAt(d)'
      BY <1>0, <1>1, OwedStays DEF vars
    <2>2. DueIsThere'
      BY <1>0, <1>1 DEF vars, DueIsThere, Present, Keys, Key
    <2>3. QED
      BY <2>1, <2>2 DEF DueInv
  <1>2. ASSUME NEW c \in Callers, Step(c) PROVE DueInv'
    <2>1. DueIsThere' /\ \A d \in Callers : due'[d] \subseteq due[d]
      BY <1>0, <1>2, StepOwes
    <2>2. ClearAt(c)' /\ MissesAt(c)'
      BY <1>0, <1>2, StepClears, StepMisses
    <2>3. ASSUME NEW d \in Callers, d # c PROVE ClearAt(d)' /\ MissesAt(d)'
      BY <1>0, <1>2, <2>1, <2>3, StepShape, OwedStays DEF Others
    <2>4. QED
      BY <2>1, <2>2, <2>3 DEF DueInv
  <1>3. ASSUME NEW c \in Callers, NEW r \in Requests, Begin(c, r) PROVE DueInv'
    <2>1. /\ pc'[c] = First[r.op] /\ req'[c] = r /\ pos'[c] = 1 /\ store' = store
          /\ unseen'[c] = Keys /\ due' = [due EXCEPT ![c] = Present]
      BY <1>0, <1>3 DEF Begin, TypeOK
    <2>0. Keys' = Keys
      BY DEF Keys, Key
    <2>2. due'[c] = Present /\ Present \subseteq Keys /\ Present' = Present
      BY <1>0, <2>0, <2>1 DEF TypeOK, Present
    <2>3. DueIsThere'
      BY <1>0, <2>1, <2>2 DEF DueIsThere, TypeOK
    <2>4. ClearAt(c)'
      <3>1. First[r.op] \in {"read", "hset", "drop", "scan", "ok"}
            /\ (r.op = "clear" => First[r.op] = "scan")
        BY RequestFacts
      <3>2. QED
        BY <2>1, <2>2, <3>1 DEF ClearAt
    <2>5. MissesAt(c)'
      <3>1. First[r.op] \notin {"refresh", "inner"}
        BY RequestFacts
      <3>2. \A n \in missed(c)' : ~(n < pos'[c])
        <4>1. out'[c] \in Seq(Vectors \union {Miss})
          BY <1>3, BeginShape DEF Shape, TypeOK
        <4>2. QED
          BY <2>1, <4>1 DEF missed
      <3>3. QED
        BY <2>1, <3>1, <3>2 DEF MissesAt
    <2>6. ASSUME NEW d \in Callers, d # c PROVE ClearAt(d)' /\ MissesAt(d)'
      BY <1>0, <1>3, <2>6, BeginShape, OwedStays DEF Others
    <2>7. QED
      BY <2>3, <2>4, <2>5, <2>6 DEF DueInv
  <1>4. ASSUME NEW k \in Keys, Evict(k) PROVE DueInv'
    <2>1. Remove({k}) /\ UNCHANGED <<pc, req, pos, out, unseen, batch, careful>>
      BY <1>4 DEF Evict
    <2>2. /\ \A d \in Callers : due'[d] = due[d] \ {k}
          /\ \A j \in Keys \ {k} : store'[j] = store[j]
      BY <1>0, <2>1, Removes
    <2>3. DueIsThere'
      <3>1. Keys' = Keys
        BY DEF Keys, Key
      <3>2. QED
        BY <1>0, <2>2, <3>1 DEF DueIsThere, Present
    <2>4. \A d \in Callers : ClearAt(d)' /\ MissesAt(d)'
      BY <1>0, <2>1, <2>2, OwedStays
    <2>5. QED
      BY <2>3, <2>4 DEF DueInv
  <1>5. QED
    BY <1>1, <1>2, <1>3, <1>4 DEF Next

\* Clear of embeddings.go: what was there when it began, and was there all along, is
\* removed when it returns without error, whatever others write meanwhile.
THEOREM ClearsEverything == Spec => []ClearRemovesAll
  <1>1. DueInv => ClearRemovesAll
    BY DEF DueInv, ClearAt, ClearRemovesAll
  <1>2. QED
    BY <1>1, InitShape, NextShape, InitDue, NextDue, PTL DEF Spec

\* EmbedMany of cached_vectorizer.go: no text is embedded whose entry was there from the
\* beginning of the call until its lookup.
THEOREM CachedTextsAreSpared == Spec => []CachedTextsAreNotEmbedded
  <1>1. DueInv => CachedTextsAreNotEmbedded
    BY DEF DueInv, MissesAt, CachedTextsAreNotEmbedded
  <1>2. QED
    BY <1>1, InitShape, NextShape, InitDue, NextDue, PTL DEF Spec

-----------------------------------------------------------------------------
(* The vectorizer.  Where no two texts share an entry, what is in the cache is the vector *)
(* of its text, and what a call returns is what its texts' model makes of them.           *)

\* Entries that are as right as they were.
LEMMA EntriesStay ==
    ASSUME EntriesAreRight,
           \A k \in Keys : \/ store'[k] = NoEntry
                           \/ store[k] # NoEntry /\ store'[k].vec = store[k].vec
    PROVE  EntriesAreRight'
  <1>1. \A c \in Callers, t \in Texts : /\ Key(c, t) \in Keys /\ Key(c, t)' = Key(c, t)
                                        /\ Vector(c, t)' = Vector(c, t)
    BY DEF Keys, Key, Vector
  <1>2. QED
    BY <1>1 DEF EntriesAreRight

\* Whoever writes an entry, its vector is that of its text.
LEMMA StepEntries ==
    ASSUME KeysApart, Shape, EntriesAreRight, NEW c \in Callers, Step(c)
    PROVE  EntriesAreRight'
  <1>0. TypeOK /\ CallAt(c)
    BY DEF Shape
  <1>1. ASSUME UNCHANGED store PROVE EntriesAreRight'
    BY <1>1, EntriesStay
  <1>2. ASSUME NEW k \in Keys, Renewed(k) PROVE EntriesAreRight'
    <2>1. \A j \in Keys : \/ store'[j] = NoEntry
                          \/ store[j] # NoEntry /\ store'[j].vec = store[j].vec
      BY <1>0, <1>2, Renews
    <2>2. QED
      BY <2>1, EntriesStay
  <1>3. ASSUME NEW S, Remove(S) PROVE EntriesAreRight'
    <2>1. \A j \in Keys : \/ store'[j] = NoEntry
                          \/ store[j] # NoEntry /\ store'[j].vec = store[j].vec
      BY <1>0, <1>3, Removes
    <2>2. QED
      BY <2>1, EntriesStay
  <1>4. CASE Refresh(c)
    <2>1. pc[c] = "refresh" /\ (Renewed(Key(c, texts(c)[pos[c]])) \/ UNCHANGED store)
      BY <1>4 DEF Refresh
    <2>2. /\ req[c].op = "embed" /\ req[c] \in Requests /\ pos[c] \in DOMAIN out[c]
          /\ Len(out[c]) = Len(texts(c))
      BY <1>0, <2>1 DEF CallAt
    <2>3. texts(c)[pos[c]] \in Texts
      BY <1>0, <2>2, RequestFacts DEF texts, TypeOK
    <2>4. Key(c, texts(c)[pos[c]]) \in Keys
      BY <2>3, Vectors1
    <2>5. QED
      BY <1>1, <1>2, <2>1, <2>4
  <1>5. CASE Expire(c)
    <2>1. pc[c] = "expire" /\ (Renewed(Key(c, current[c])) \/ UNCHANGED store)
      BY <1>5 DEF Expire
    <2>2. Key(c, current[c]) \in Keys
      BY <1>0, <2>1, Vectors1 DEF CallAt
    <2>3. QED
      BY <1>1, <1>2, <2>1, <2>2
  <1>6. ASSUME NEW t \in Texts, HSet(c, t) PROVE EntriesAreRight'
    <2> DEFINE k == Key(c, t)
               e == [vec |-> Vector(c, t), expires |-> store[k] # NoEntry /\ store[k].expires]
    <2>1. store' = store \/ store' = [store EXCEPT ![k] = e]
      BY <1>6 DEF HSet
    <2>2. k \in Keys /\ e.vec = Vector(c, t)
      BY Vectors1
    <2> HIDE DEF e
    <2>3. CASE store' = [store EXCEPT ![k] = e]
      <3>1. SUFFICES ASSUME NEW d \in Callers, NEW u \in Texts, store'[Key(d, u)] # NoEntry
                     PROVE  store'[Key(d, u)].vec = Vector(d, u)
        BY DEF EntriesAreRight, Key, Vector
      <3>2. Key(d, u) \in Keys
        BY Vectors1
      <3> DEFINE j == Key(d, u)
      <3>3. CASE j = k
        <4>1. Vector(d, u) = Vector(c, t)
          BY <3>3 DEF KeysApart, Vector
        <4>2. store'[j] = e
          BY <1>0, <2>2, <2>3, <3>3 DEF TypeOK
        <4>3. QED
          BY <2>2, <4>1, <4>2
      <3>4. CASE j # k
        <4> HIDE DEF j, k
        <4>1. store'[j] = store[j]
          BY <1>0, <2>2, <2>3, <3>2, <3>4 DEF TypeOK, j
        <4>2. QED
          BY <3>1, <4>1 DEF EntriesAreRight, j
      <3>5. QED
        BY <3>3, <3>4
    <2>4. QED
      BY <1>1, <2>1, <2>3
  <1>7. CASE Drop(c) \/ Del(c)
    BY <1>1, <1>3, <1>7 DEF Drop, Del
  <1>8. CASE Read(c) \/ ReadFails(c) \/ ReadNone(c) \/ Inner(c) \/ InnerFails(c) \/ Scan(c)
    BY <1>1, <1>8 DEF Read, ReadFails, ReadNone, Inner, InnerFails, Scan
  <1>9. QED
    BY <1>4, <1>5, <1>6, <1>7, <1>8 DEF Step

\* A call that keeps what it has.
LEMMA OutStays ==
    ASSUME NEW c \in Callers, OutAt(c), req'[c] = req[c], out'[c] = out[c],
           embedded'[c] = embedded[c],
           pc'[c] \in {"hset", "expire", "ok"} => missed(c) = {} \/ pc'[c] = pc[c],
           pc'[c] = "inner" => pc[c] = "inner" \/ embedded[c] = <<>>
    PROVE  OutAt(c)'
  <1>1. missed(c)' = missed(c) /\ texts(c)' = texts(c)
    BY DEF missed, texts
  <1>2. MissTexts(c)' = MissTexts(c)
    BY <1>1 DEF MissTexts
  <1>3. \A t : Vector(c, t)' = Vector(c, t)
    BY DEF Vector
  <1>4. embedded[c] = <<>> => \A i \in 1..Len(embedded[c]) : FALSE
    OBVIOUS
  <1>5. QED
    BY <1>1, <1>2, <1>3, <1>4 DEF OutAt

\* A lookup finds the vector of the text, or nothing.
LEMMA ReadOut ==
    ASSUME Shape, EntriesAreRight, NEW c \in Callers, OutAt(c), Read(c)
    PROVE  OutAt(c)'
  <1> DEFINE n == pos[c]
             k == Key(c, texts(c)[n])
             v == IF store[k] = NoEntry THEN Miss ELSE store[k].vec
             o == [out[c] EXCEPT ![n] = v]
             label == IF n < Len(texts(c)) THEN "read" ELSE AfterReads(c, o)
  <1>1. pc[c] = "read" /\ texts(c) # <<>> /\ req[c].op = "embed" /\ req[c] \in Requests
    BY DEF Read, Shape, CallAt
  <1>2. /\ texts(c) \in Seq(Texts) /\ Len(out[c]) = Len(texts(c)) /\ n \in DOMAIN out[c]
        /\ embedded[c] = <<>>
    BY <1>1, RequestFacts DEF Shape, CallAt, texts
  <1>3. out[c] \in Seq(Vectors \union {Miss}) /\ n \in 1..Len(out[c])
    BY <1>2 DEF Shape, TypeOK
  <1>4. texts(c)[n] \in Texts
    BY <1>2, <1>3
  <1>5. v \in {Miss, Vector(c, texts(c)[n])}
    BY <1>4 DEF EntriesAreRight
  <1>6. out' = [out EXCEPT ![c] = o] /\ Goto(c, label) /\ UNCHANGED <<req, embedded>>
    BY DEF Read
  <1> HIDE DEF v
  <1>7. DOMAIN o = 1..Len(out[c]) /\ o[n] = v /\ \A m \in DOMAIN o : m # n => o[m] = out[c][m]
    BY <1>3
  <1> HIDE DEF o, label
  <1>8. out'[c] = o /\ pc'[c] = label
    BY <1>6 DEF Goto, Shape, TypeOK
  <1>9. texts(c)' = texts(c) /\ \A t : Vector(c, t)' = Vector(c, t)
    BY <1>6 DEF texts, Vector
  <1>10. \A m \in DOMAIN o : out[c][m] \in {Miss, Vector(c, texts(c)[m])}
    BY <1>1, <1>3, <1>7 DEF OutAt
  <1>11. \A m \in DOMAIN o : o[m] \in {Miss, Vector(c, texts(c)[m])}
    BY <1>5, <1>7, <1>10
  <1>12. label \notin {"hset", "expire"} /\ (label = "ok" => \A m \in DOMAIN o : o[m] # Miss)
    BY DEF label, AfterReads
  <1>13. pc'[c] \in {"hset", "expire", "ok"} => missed(c)' = {}
    BY <1>8, <1>12 DEF missed
  <1>14. Len(embedded'[c]) = 0
    BY <1>2, <1>6
  <1>15. QED
    BY <1>8, <1>9, <1>11, <1>13, <1>14 DEF OutAt

\* The embeddings of the inner vectorizer reach the texts they are made of.
LEMMA InnerOut ==
    ASSUME Shape, NEW c \in Callers, OutAt(c), Inner(c)
    PROVE  OutAt(c)'
  <1>0. pc[c] = "inner" /\ req' = req
    BY DEF Inner
  <1>1. PICK embeddings : InnerAdds(c, embeddings)
    BY InnerEffect
  <1>2. /\ req[c].op = "embed" /\ req[c] \in Requests
        /\ out[c] \in Seq(Vectors \union {Miss}) /\ texts(c) \in Seq(Texts)
        /\ Len(out[c]) = Len(texts(c)) /\ Len(MissTexts(c)) \in Nat
        /\ Len(MissTexts(c)) = Cardinality(missed(c))
    BY <1>0, AtInner
  <1>3. /\ embeddings \in Seq(Vectors) /\ Len(embeddings) \in Nat
        /\ Len(embeddings) <= Len(MissTexts(c))
    BY <1>1 DEF InnerAdds
  <1>4. \A i \in 1..Len(embeddings) : embeddings[i] = Vector(c, MissTexts(c)[i])
    <2>1. \A i \in 1..Len(embedded[c]) : embedded[c][i] = Vector(c, MissTexts(c)[i])
      BY <1>0, <1>2 DEF OutAt
    <2>2. \A i \in 1..Len(embeddings) :
             embeddings[i] = IF i <= Len(embedded[c]) THEN embedded[c][i]
                             ELSE Vector(c, MissTexts(c)[i])
      BY <1>1 DEF InnerAdds
    <2>3. Len(embedded[c]) \in Nat
      BY <1>0, AtInner
    <2>4. QED
      BY <1>3, <2>1, <2>2, <2>3
  <1>5. texts(c)' = texts(c) /\ \A t : Vector(c, t)' = Vector(c, t)
    BY <1>0 DEF texts, Vector
  <1>6. CASE Len(embeddings) < Len(MissTexts(c))
    <2>1. /\ embedded' = [embedded EXCEPT ![c] = embeddings]
          /\ Goto(c, "inner") /\ UNCHANGED out
      BY <1>1, <1>6 DEF InnerAdds
    <2>2. embedded'[c] = embeddings /\ pc'[c] = "inner"
      BY <2>1 DEF Goto, Shape, TypeOK
    <2>3. MissTexts(c)' = MissTexts(c)
      BY <1>5, <2>1 DEF MissTexts, missed
    <2>4. QED
      BY <1>0, <1>2, <1>4, <1>5, <2>1, <2>2, <2>3 DEF OutAt
  <1>7. CASE ~(Len(embeddings) < Len(MissTexts(c)))
    <2> DEFINE P == Placed(c, embeddings)
    <2>1. out' = [out EXCEPT ![c] = P] /\ Goto(c, "hset")
      BY <1>1, <1>7 DEF InnerAdds
    <2>2. Len(embeddings) = Len(MissTexts(c))
      BY <1>2, <1>3, <1>7
    <2>3. /\ P \in Seq(Vectors \union {Miss}) /\ Len(P) = Len(out[c])
          /\ \A n \in DOMAIN out[c] :
                P[n] = IF n \in missed(c) THEN embeddings[Rank(missed(c), n)] ELSE out[c][n]
          /\ \A n \in missed(c) : Rank(missed(c), n) \in DOMAIN embeddings
      BY <1>0, <1>3, <2>2, Places
    <2> HIDE DEF P
    <2>4. out'[c] = P /\ pc'[c] = "hset" /\ DOMAIN P = DOMAIN out[c]
      BY <1>2, <2>1, <2>3 DEF Goto, Shape, TypeOK
    <2>5. ASSUME NEW n \in DOMAIN out[c] PROVE P[n] = Vector(c, texts(c)[n]) /\ P[n] # Miss
      <3>1. texts(c)[n] \in Texts
        BY <1>2
      <3>2. CASE n \in missed(c)
        <4>1. /\ Rank(missed(c), n) \in 1..Len(embeddings)
              /\ P[n] = embeddings[Rank(missed(c), n)]
          BY <1>3, <2>3, <3>2
        <4>2. MissTexts(c)[Rank(missed(c), n)] = texts(c)[n]
          BY <1>2, <3>2, Missing
        <4>3. QED
          BY <1>4, <3>1, <4>1, <4>2, Vectors1
      <3>3. CASE n \notin missed(c)
        <4>1. P[n] = out[c][n] /\ out[c][n] # Miss
          BY <2>3, <3>3 DEF missed
        <4>2. out[c][n] \in {Miss, Vector(c, texts(c)[n])}
          BY <1>2 DEF OutAt
        <4>3. QED
          BY <4>1, <4>2
      <3>4. QED
        BY <3>2, <3>3
    <2>6. missed(c)' = {}
      BY <2>4, <2>5 DEF missed
    <2>7. QED
      BY <1>5, <2>4, <2>5, <2>6 DEF OutAt
  <1>8. QED
    BY <1>6, <1>7

\* What a call has got so far stays right, step by step.
LEMMA StepOut ==
    ASSUME Shape, EntriesAreRight, NEW c \in Callers, OutAt(c), Step(c)
    PROVE  OutAt(c)'
  <1>0. TypeOK /\ CallAt(c)
    BY DEF Shape
  <1>1. CASE ReadFails(c)
    <2>1. /\ pc'[c] = "inner" /\ out'[c] = [n \in DOMAIN out[c] |-> Miss]
          /\ pc[c] = "read" /\ embedded'[c] = embedded[c]
      BY <1>0, <1>1 DEF ReadFails, Lose, TypeOK
    <2>2. embedded'[c] = <<>>
      BY <1>0, <2>1 DEF CallAt
    <2>3. QED
      BY <2>1, <2>2 DEF OutAt
  <1>2. CASE ReadNone(c)
    <2>1. /\ pc[c] = "read" /\ texts(c) = <<>> /\ pc'[c] = "ok"
          /\ UNCHANGED <<req, out, embedded>>
      BY <1>0, <1>2 DEF ReadNone, Goto, TypeOK
    <2>2. Len(out[c]) = 0 /\ out[c] \in Seq(Vectors \union {Miss})
      BY <1>0, <2>1 DEF CallAt, TypeOK
    <2>3. missed(c) = {}
      BY <2>2 DEF missed
    <2>4. QED
      BY <2>1, <2>3, OutStays
  <1>3. CASE Refresh(c)
    <2> DEFINE last == pos[c] = Len(out[c])
               then == IF ~last THEN "refresh" ELSE IF missed(c) = {} THEN "ok" ELSE "inner"
    <2>1. /\ pc[c] = "refresh" /\ UNCHANGED <<req, out, embedded>>
          /\ Goto(c, then) \/ Lose(c, then)
      BY <1>3 DEF Refresh
    <2>2. then \in {"refresh", "inner", "ok"} /\ (then = "ok" => missed(c) = {})
      OBVIOUS
    <2> HIDE DEF then, last
    <2>3. pc'[c] = then /\ embedded[c] = <<>>
      BY <1>0, <2>1 DEF Goto, Lose, TypeOK, CallAt
    <2>4. QED
      BY <2>1, <2>2, <2>3, OutStays
  <1>4. CASE InnerFails(c)
    <2>1. pc'[c] = "err" /\ UNCHANGED <<req, out, embedded>>
      BY <1>0, <1>4 DEF InnerFails, Goto, TypeOK
    <2>2. QED
      BY <2>1, OutStays
  <1>5. ASSUME pc[c] \in {"hset", "expire"}, UNCHANGED <<req, out, embedded>>,
               NEW l \in {"expire", "ok", "err", "hset"}, Goto(c, l) \/ Lose(c, l)
        PROVE  OutAt(c)'
    <2>1. pc'[c] = l
      BY <1>0, <1>5 DEF Goto, Lose, TypeOK
    <2>2. CASE req[c].op = "embed"
      <3>1. missed(c) = {}
        BY <1>5, <2>2 DEF OutAt
      <3>2. QED
        BY <1>5, <2>1, <3>1, OutStays
    <2>3. CASE req[c].op # "embed"
      BY <1>5, <2>3 DEF OutAt
    <2>4. QED
      BY <2>2, <2>3
  <1>6. ASSUME NEW t \in Texts, HSet(c, t) PROVE OutAt(c)'
    <2>1. pc[c] = "hset" /\ UNCHANGED <<req, out, embedded>>
      BY <1>6 DEF HSet
    <2>2. \E l \in {"expire", "ok", "err", "hset"} : Goto(c, l) \/ Lose(c, l)
      BY <1>6 DEF HSet, AfterWrite
    <2>3. QED
      BY <1>5, <2>1, <2>2
  <1>7. CASE Expire(c)
    <2>1. pc[c] = "expire" /\ UNCHANGED <<req, out, embedded>>
      BY <1>7 DEF Expire
    <2>2. \E l \in {"ok", "hset"} : Goto(c, l) \/ Lose(c, l)
      BY <1>7 DEF Expire, AfterWrite
    <2>3. QED
      BY <1>5, <2>1, <2>2
  <1>8. CASE Drop(c) \/ Scan(c) \/ Del(c)
    <2>1. pc[c] \in {"drop", "scan", "del"} /\ req' = req
      BY <1>8 DEF Drop, Scan, Del
    <2>2. req'[c].op # "embed"
      BY <1>0, <2>1 DEF CallAt
    <2>3. QED
      BY <2>2 DEF OutAt
  <1>9. CASE Read(c) \/ Inner(c)
    BY <1>9, ReadOut, InnerOut
  <1>10. QED
    BY <1>1, <1>2, <1>3, <1>4, <1>6, <1>7, <1>8, <1>9 DEF Step

\* An empty cache is right, and no call has any vectors.
LEMMA InitOut == Init => OutInv
  <1> SUFFICES ASSUME Init PROVE OutInv
    OBVIOUS
  <1>1. EntriesAreRight
    BY Vectors1 DEF Init, EntriesAreRight
  <1>2. \A c \in Callers : OutAt(c)
    BY DEF Init, OutAt, NoRequest
  <1>3. QED
    BY <1>1, <1>2 DEF OutInv

\* Every step keeps the entries and the vectors of the calls right.
LEMMA NextOut ==
    ASSUME KeysApart, Shape, OutInv, [Next]_vars
    PROVE  OutInv'
  <1>0. TypeOK /\ EntriesAreRight /\ \A d \in Callers : OutAt(d)
    BY DEF Shape, OutInv
  <1>1. CASE UNCHANGED vars
    <2>1. EntriesAreRight'
      BY <1>0, <1>1, EntriesStay DEF vars
    <2>2. \A d \in Callers : OutAt(d)'
      BY <1>0, <1>1, OutStays DEF vars
    <2>3. QED
      BY <2>1, <2>2 DEF OutInv
  <1>2. ASSUME NEW c \in Callers, Step(c) PROVE OutInv'
    <2>1. EntriesAreRight'
      BY <1>0, <1>2, StepEntries
    <2>2. OutAt(c)'
      BY <1>0, <1>2, StepOut
    <2>3. ASSUME NEW d \in Callers, d # c PROVE OutAt(d)'
      BY <1>0, <1>2, <2>3, StepShape, OutStays DEF Others
    <2>4. QED
      BY <2>1, <2>2, <2>3 DEF OutInv
  <1>3. ASSUME NEW c \in Callers, NEW r \in Requests, Begin(c, r) PROVE OutInv'
    <2>1. EntriesAreRight'
      BY <1>0, <1>3, EntriesStay DEF Begin
    <2>2. OutAt(c)'
      <3>1. /\ pc'[c] = First[r.op] /\ req'[c] = r
            /\ r.op = "embed" => out'[c] = [n \in DOMAIN r.texts |-> Miss]
        BY <1>0, <1>3 DEF Begin, TypeOK
      <3>2. r.op = "embed" => First[r.op] = "read"
        BY RequestFacts
      <3>3. QED
        BY <3>1, <3>2 DEF OutAt
    <2>3. ASSUME NEW d \in Callers, d # c PROVE OutAt(d)'
      BY <1>0, <1>3, <2>3, BeginShape, OutStays DEF Others
    <2>4. QED
      BY <2>1, <2>2, <2>3 DEF OutInv
  <1>4. ASSUME NEW k \in Keys, Evict(k) PROVE OutInv'
    <2>1. Remove({k}) /\ UNCHANGED <<pc, req, out, embedded>>
      BY <1>4 DEF Evict
    <2>2. \A j \in Keys : \/ store'[j] = NoEntry
                          \/ store[j] # NoEntry /\ store'[j].vec = store[j].vec
      BY <1>0, <2>1, Removes
    <2>3. \A d \in Callers : OutAt(d)'
      BY <1>0, <2>1, OutStays
    <2>4. QED
      BY <1>0, <2>2, <2>3, EntriesStay DEF OutInv
  <1>5. QED
    BY <1>1, <1>2, <1>3, <1>4 DEF Next

\* What a caller of the vectorizer asked last, and what became of it.
Asked    == [c \in Callers |-> IF req[c].op = "embed" THEN req[c].texts ELSE <<>>]
ResultOf(c) == IF req[c].op # "embed" THEN <<"idle">>
               ELSE IF pc[c] = "ok" THEN <<"vectors", out[c]>>
               ELSE IF pc[c] = "err" THEN <<"error">> ELSE <<"running">>
Result   == [c \in Callers |-> ResultOf(c)]

\* Only the call that makes a step gets a result by it.
LEMMA OthersResults ==
    ASSUME NEW c \in Callers, Others(c)
    PROVE  /\ \A d \in Callers \ {c} : ResultOf(d)' = ResultOf(d)
           /\ Result' = [Result EXCEPT ![c] = ResultOf(c)']
  <1>1. \A d \in Callers \ {c} : ResultOf(d)' = ResultOf(d)
    BY DEF Others, ResultOf
  <1> DEFINE F(d) == ResultOf(d)'
  <1>2. Result' = [d \in Callers |-> F(d)]
    BY DEF Result
  <1>3. \A d \in Callers : F(d) = IF d = c THEN F(c) ELSE ResultOf(d)
    BY <1>1
  <1> HIDE DEF F
  <1>4. Result' = [Result EXCEPT ![c] = F(c)]
    BY <1>2, <1>3 DEF Result
  <1>5. QED
    BY <1>1, <1>4 DEF F

\* A step of a call runs on, answers or fails.
LEMMA StepRefines ==
    ASSUME Shape, OutInv, OutInv', NEW c \in Callers, Step(c)
    PROVE  /\ Asked' = Asked
           /\ \/ Result' = Result
              \/ /\ Result[c] = <<"running">>
                 /\ Result' = [Result EXCEPT ![c] =
                       <<"vectors", [n \in DOMAIN Asked[c] |-> Vector(c, Asked[c][n])]>>]
              \/ Result[c] = <<"running">> /\ Result' = [Result EXCEPT ![c] = <<"error">>]
  <1>0. TypeOK /\ CallAt(c) /\ TypeOK' /\ CallAt(c)' /\ Others(c)
    BY StepShape DEF Shape
  <1>1. req' = req /\ pc[c] \notin Finished
    BY DEF Step, Read, ReadFails, ReadNone, Refresh, Inner, InnerFails, HSet, Expire, Drop, Scan,
           Del, Finished
  <1>2. Asked' = Asked
    BY <1>1 DEF Asked
  <1>3. Result' = [Result EXCEPT ![c] = ResultOf(c)']
    BY <1>0, OthersResults
  <1>4. CASE ResultOf(c)' = ResultOf(c)
    BY <1>2, <1>3, <1>4 DEF Result
  <1>5. CASE ResultOf(c)' # ResultOf(c)
    <2>1. req[c].op = "embed" /\ Result[c] = <<"running">>
      BY <1>1, <1>5 DEF ResultOf, Result, Finished
    <2>2. pc'[c] \in {"ok", "err"}
      BY <1>1, <1>5, <2>1 DEF ResultOf, Finished
    <2>3. CASE pc'[c] = "err"
      <3>1. ResultOf(c)' = <<"error">>
        BY <1>1, <2>1, <2>3 DEF ResultOf
      <3>2. QED
        BY <1>2, <1>3, <2>1, <3>1
    <2>4. CASE pc'[c] = "ok"
      <3>1. ResultOf(c)' = <<"vectors", out'[c]>> /\ Asked[c] = texts(c)
        BY <1>1, <2>1, <2>4 DEF ResultOf, Asked, texts
      <3>2. /\ out'[c] \in Seq(Vectors \union {Miss}) /\ texts(c) \in Seq(Texts)
            /\ Len(out'[c]) = Len(texts(c))
        <4>1. req[c] \in Requests
          BY <1>0, <1>1 DEF CallAt, Finished
        <4>2. Len(out'[c]) = Len(texts(c))
          BY <1>0, <1>1, <2>1 DEF CallAt, texts
        <4>3. QED
          BY <1>0, <2>1, <4>1, <4>2, RequestFacts DEF TypeOK, texts
      <3>3. \A n \in DOMAIN out'[c] : out'[c][n] = Vector(c, texts(c)[n])
        BY <1>1, <2>1, <2>4 DEF OutInv, OutAt, missed, texts, Vector
      <3>4. out'[c] = [n \in DOMAIN texts(c) |-> Vector(c, texts(c)[n])]
        BY <3>2, <3>3
      <3>5. QED
        BY <1>2, <1>3, <2>1, <3>1, <3>4
    <2>5. QED
      BY <2>2, <2>3, <2>4
  <1>6. QED
    BY <1>4, <1>5

\* A new call asks, or turns to the cache itself.
LEMMA BeginRefines ==
    ASSUME Shape, NEW c \in Callers, NEW r \in Requests, Begin(c, r)
    PROVE  /\ Result[c] # <<"running">>
           /\ IF r.op = "embed"
              THEN /\ Asked' = [Asked EXCEPT ![c] = r.texts]
                   /\ Result' = [Result EXCEPT ![c] = <<"running">>]
              ELSE /\ Asked' = [Asked EXCEPT ![c] = <<>>]
                   /\ Result' = [Result EXCEPT ![c] = <<"idle">>]
  <1>1. /\ pc[c] \in Finished /\ pc'[c] = First[r.op] /\ req' = [req EXCEPT ![c] = r]
        /\ req'[c] = r
    BY DEF Begin, Shape, TypeOK
  <1>2. CallAt(c) /\ req \in [Callers -> Requests \union {NoRequest}]
    BY DEF Shape, TypeOK
  <1>3. ResultOf(c) # <<"running">>
    BY <1>1, <1>2 DEF ResultOf, Finished, CallAt, NoRequest
  <1>4. Result' = [Result EXCEPT ![c] = ResultOf(c)']
    BY BeginShape, OthersResults
  <1>5. ResultOf(c)' = IF r.op = "embed" THEN <<"running">> ELSE <<"idle">>
    BY <1>1, RequestFacts DEF ResultOf
  <1>6. Asked' = [Asked EXCEPT ![c] = IF r.op = "embed" THEN r.texts ELSE <<>>]
    BY <1>1, <1>2 DEF Asked
  <1>7. QED
    BY <1>3, <1>4, <1>5, <1>6 DEF Result

\* CachedVectorizer of cached_vectorizer.go is a vectorizer, if no two texts share an entry:
\* whatever is evicted, dropped, cleared or lost between its lookups and its write-back, and
\* whatever other vectorizers do to the cache, the vectors it returns are those of its texts,
\* in their order.
THEOREM ImplementsAVectorizer ==
    ASSUME KeysApart
    PROVE  Spec => ImplementsVectorizer
  <1> DEFINE I == Shape /\ OutInv
  <1>1. Init => I
    BY InitShape, InitOut
  <1>2. I /\ [Next]_vars => I'
    BY NextShape, NextOut
  <1>3. Init => V!Init
    BY DEF Init, V!Init, NoRequest
  <1>4. I /\ I' /\ [Next]_vars => [V!Next]_<<Asked, Result>>
    <2> SUFFICES ASSUME I, I', [Next]_vars PROVE [V!Next]_<<Asked, Result>>
      OBVIOUS
    <2>1. CASE UNCHANGED <<pc, req, out>>
      <3>1. Asked' = Asked /\ Result' = Result
        BY <2>1 DEF Asked, Result, ResultOf
      <3>2. QED
        BY <3>1
    <2>2. ASSUME NEW c \in Callers, Step(c) PROVE [V!Next]_<<Asked, Result>>
      <3>1. \/ UNCHANGED <<Asked, Result>>
            \/ V!Answer(c)
            \/ V!Fail(c)
        BY <2>2, StepRefines DEF V!Answer, V!Fail, Asked, Result, ResultOf
      <3>2. QED
        BY <3>1 DEF V!Next
    <2>3. ASSUME NEW c \in Callers, NEW r \in Requests, Begin(c, r) PROVE V!Next
      <3>1. CASE r.op = "embed"
        <4>1. r.texts \in {q.texts : q \in {q \in Requests : q.op = "embed"}} \union {<<>>}
          BY <3>1
        <4>2. /\ Result[c] # <<"running">>
              /\ Asked' = [Asked EXCEPT ![c] = r.texts]
              /\ Result' = [Result EXCEPT ![c] = <<"running">>]
          BY <2>3, <3>1, BeginRefines
        <4>3. V!Call(c)
          BY <4>1, <4>2 DEF V!Call, Asked, Result, ResultOf
        <4>4. QED
          BY <4>3 DEF V!Next
      <3>2. CASE r.op # "embed"
        <4>1. V!Forget(c)
          BY <2>3, <3>2, BeginRefines DEF V!Forget, Asked, Result, ResultOf
        <4>2. QED
          BY <4>1 DEF V!Next
      <3>3. QED
        BY <3>1, <3>2
    <2>4. ASSUME NEW k \in Keys, Evict(k) PROVE UNCHANGED <<pc, req, out>>
      BY <2>4 DEF Evict
    <2>5. QED
      BY <2>1, <2>2, <2>3, <2>4 DEF Next, vars
  <1>5. QED
    BY <1>1, <1>2, <1>3, <1>4, PTL DEF Spec, ImplementsVectorizer, V!Spec, Asked, Result, ResultOf
=============================================================================
