--------------------------- MODULE History_proofs ---------------------------
(***************************************************************************)
(* Theorems about History for any clients, sessions, messages and times.     *)
(***************************************************************************)
EXTENDS History, FiniteSetTheorems, TLAPS

-----------------------------------------------------------------------------
(* What a search can return: prefixes and suffixes of orders of a set. *)

\* An order of a finite set has each of its elements.
LEMMA Orders ==
    ASSUME NEW S, IsFiniteSet(S), NEW s \in SetToSeqs(S)
    PROVE  s \in Seq(S) /\ Len(s) = Cardinality(S) /\ ToSet(s) = S /\ Len(s) \in Nat
  <1> DEFINE n == Cardinality(S)
             D == 1..n
  <1>1. n \in Nat
    BY FS_CardinalityType
  <1>2. s \in [D -> S] /\ \A i, j \in D : i # j => s[i] # s[j]
    BY DEF SetToSeqs
  <1>3. IsFiniteSet(D) /\ Cardinality(D) = n
    BY <1>1, FS_Interval
  <1>4. s \in Injection(D, S)
    BY <1>2 DEF Injection, IsInjective
  <1>5. s \in Surjection(D, S)
    BY <1>3, <1>4, FS_Injection
  <1> HIDE DEF n
  <1>6. s \in Seq(S) /\ Len(s) = n
    BY <1>1, <1>2
  <1>7. ToSet(s) = S
    BY <1>2, <1>5 DEF ToSet, Surjection
  <1>8. QED
    BY <1>1, <1>6, <1>7 DEF n

\* The first k of an order: all of them, or k.
LEMMA EarliestOf ==
    ASSUME NEW S, IsFiniteSet(S), NEW k \in Nat \ {0}, NEW t \in Earliest(S, k)
    PROVE  t \in Seq(S) /\ (Len(t) < k => ToSet(t) = S)
  <1>1. PICK s \in SetToSeqs(S) : t = SubSeq(s, 1, IF k < Len(s) THEN k ELSE Len(s))
    BY DEF Earliest, ByTime
  <1>2. s \in Seq(S) /\ Len(s) \in Nat /\ ToSet(s) = S
    BY Orders
  <1>3. CASE k < Len(s)
    BY <1>1, <1>2, <1>3
  <1>4. CASE ~(k < Len(s))
    <2>1. t = SubSeq(s, 1, Len(s))
      BY <1>1, <1>4
    <2>2. t = s
      BY <1>2, <2>1
    <2>3. QED
      BY <1>2, <2>2
  <1>5. QED
    BY <1>3, <1>4

\* The last k of an order of time: nothing left out is later than they are.
LEMMA LatestOf ==
    ASSUME NEW S, IsFiniteSet(S), NEW k \in Nat \ {0}, NEW t \in Latest(S, k)
    PROVE  /\ t \in Seq(S) /\ Len(t) <= k /\ IsChronological(t)
           /\ t = <<>> => S = {}
           /\ \A e \in S \ ToSet(t), f \in ToSet(t) : e.ts <= f.ts
  <1>1. PICK s \in SetToSeqs(S) :
           /\ IsChronological(s)
           /\ t = SubSeq(s, IF k < Len(s) THEN Len(s) - k + 1 ELSE 1, Len(s))
    BY DEF Latest, ByTime
  <1>2. s \in Seq(S) /\ Len(s) \in Nat /\ ToSet(s) = S
    BY Orders
  <1> DEFINE o == IF k < Len(s) THEN Len(s) - k ELSE 0
  <1>3. o \in Nat /\ o <= Len(s) /\ Len(s) - o <= k /\ (o = Len(s) => Len(s) = 0)
    BY <1>2
  <1>4. t = SubSeq(s, o + 1, Len(s))
    BY <1>1, <1>2
  <1> HIDE DEF o
  <1>5. /\ t \in Seq(S) /\ Len(t) = Len(s) - o
        /\ \A i \in 1..(Len(s) - o) : t[i] = s[o + i]
    BY <1>2, <1>3, <1>4
  <1>6. DOMAIN s = 1..Len(s) /\ DOMAIN t = 1..(Len(s) - o)
    BY <1>2, <1>3, <1>5
  <1>7. IsChronological(t)
    <2> SUFFICES ASSUME NEW i \in DOMAIN t, NEW j \in DOMAIN t, i < j
                 PROVE  t[i].ts <= t[j].ts
      BY DEF IsChronological
    <2>1. t[i] = s[o + i] /\ t[j] = s[o + j]
      BY <1>5, <1>6
    <2>2. i \in 1..(Len(s) - o) /\ j \in 1..(Len(s) - o)
      BY <1>6
    <2>3. o + i \in 1..Len(s) /\ o + j \in 1..Len(s) /\ o + i < o + j
      BY <1>2, <1>3, <2>2
    <2>4. s[o + i].ts <= s[o + j].ts
      BY <1>1, <1>6, <2>3 DEF IsChronological
    <2>5. QED
      BY <2>1, <2>4
  <1>8. ASSUME t = <<>> PROVE S = {}
    <2>1. Len(s) = 0
      BY <1>2, <1>3, <1>5, <1>8
    <2>2. QED
      BY <1>2, <1>6, <2>1 DEF ToSet
  <1>9. ASSUME NEW e \in S \ ToSet(t), NEW f \in ToSet(t) PROVE e.ts <= f.ts
    <2>1. PICK i \in 1..Len(s) : e = s[i]
      BY <1>2, <1>6 DEF ToSet
    <2>2. PICK j \in 1..(Len(s) - o) : f = t[j]
      BY <1>6 DEF ToSet
    <2>3. ASSUME i > o PROVE FALSE
      <3>1. i - o \in 1..(Len(s) - o) /\ o + (i - o) = i
        BY <1>2, <1>3, <2>3
      <3>2. t[i - o] = e
        BY <1>5, <2>1, <3>1
      <3>3. QED
        BY <1>6, <3>1, <3>2 DEF ToSet
    <2>4. o + j \in 1..Len(s) /\ i < o + j
      BY <1>2, <1>3, <2>3
    <2>5. f = s[o + j]
      BY <1>5, <2>2
    <2>6. QED
      BY <1>1, <1>6, <2>1, <2>4, <2>5 DEF IsChronological
  <1>10. QED
    BY <1>2, <1>3, <1>5, <1>7, <1>8, <1>9

-----------------------------------------------------------------------------
(* Types, and which calls are at which command. *)

NoRequest == [op |-> "none"]

CallAt(h) ==
    /\ pc[h] = "idle" => req[h] = NoRequest
    /\ pc[h] = "embed" => queue[h] = <<>> /\ req[h].op \in {"add", "store", "relevant"}
    /\ pc[h] \in {"stamp", "hset", "hset_err"} => req[h].op \in {"add", "store"}
    /\ pc[h] = "stamp" => \/ Len(queue[h]) < Len(req[h].messages)
                          \/ queue[h] = <<>> /\ req[h].messages = <<>>
    /\ pc[h] \in {"hset", "hset_err"} => queue[h] # <<>>
    /\ pc[h] = "recent" => req[h].op \in {"recent", "relevant"}
    /\ pc[h] = "relevant" => req[h].op = "relevant"
    /\ pc[h] \in {"recent", "relevant"} \/ (pc[h] = "embed" /\ req[h].op = "relevant")
          => req[h].query.topK >= 0
    /\ pc[h] = "messages" => req[h].op = "messages"
    /\ pc[h] \in {"new", "dropindex", "create"} => req[h].op = "new"

Shape ==
    /\ TypeOK
    /\ req \in [Clients -> Requests \union {NoRequest}]
    /\ queue \in [Clients -> Seq(Entry)] /\ shown \in [Clients -> Seq(Entry)]
    /\ IsFiniteSet(entries)
    /\ \A h \in Clients : CallAt(h)

\* The arguments of a call are those of its operation.
LEMMA RequestFacts ==
    ASSUME NEW q \in Requests
    PROVE  /\ q.op \in {"add", "store", "recent", "relevant", "drop", "messages", "clear",
                        "delete", "new", "set_threshold"}
           /\ q.op \in {"add", "store"} => q.messages \in Seq(Message) /\ q.session \in Sessions
           /\ q.op \in {"recent", "relevant"} => q.query \in Query
           /\ q.op = "relevant" => q.threshold \in Int
           /\ q.op = "drop" => q.id \in Ids \union {NoId}
           /\ q.op \in {"new", "set_threshold"} => q.threshold \in Int
  <1>1. q \in Request
    BY HistoryAssumption
  <1>2. QED
    BY <1>1 DEF Request

\* What is read is made of entries of the session and roles that are asked for.
LEMMA OfEntries ==
    ASSUME Shape, NEW s, NEW r
    PROVE  Of(s, r) \subseteq entries /\ IsFiniteSet(Of(s, r)) /\ Of(s, r) \subseteq Entry
  <1>1. Of(s, r) \subseteq entries /\ entries \subseteq Entry
    BY DEF Of, Shape, TypeOK
  <1>2. QED
    BY <1>1, FS_Subset DEF Shape

\* A search asks for at least one message.
LEMMA SearchSize ==
    ASSUME NEW q \in Query, q.topK >= 0
    PROVE  TopK(q) \in Nat \ {0}
  BY DEF TopK, Query

\* A command that was answered, refused or lost.
LEMMA Moves ==
    ASSUME Shape, NEW h \in Clients, NEW l \in Labels, Goto(h, l) \/ Fault(h, l) \/ Lose(h)
    PROVE  /\ pc' \in [Clients -> Labels] /\ faults' \in Nat
           /\ pc'[h] \in {l, "err"}
           /\ \A g \in Clients \ {h} : pc'[g] = pc[g]
  <1>1. pc \in [Clients -> Labels] /\ faults \in Nat
    BY DEF Shape, TypeOK
  <1>2. PICK m \in {l, "err"} : pc' = [pc EXCEPT ![h] = m]
    BY DEF Goto, Fault, Lose
  <1>3. faults' \in {faults, faults + 1}
    BY DEF Goto, Fault, Lose
  <1>4. m \in Labels
    BY DEF Labels
  <1>5. pc' \in [Clients -> Labels] /\ pc'[h] = m /\ \A g \in Clients \ {h} : pc'[g] = pc[g]
    BY <1>1, <1>2, <1>4
  <1>6. QED
    BY <1>1, <1>2, <1>3, <1>5

\* A step of one client leaves the others where they are in their calls.
LEMMA OthersKeep ==
    ASSUME Shape, NEW h \in Clients, CallAt(h)',
           \A g \in Clients \ {h} : pc'[g] = pc[g] /\ req'[g] = req[g] /\ queue'[g] = queue[g]
    PROVE  \A g \in Clients : CallAt(g)'
  <1> SUFFICES ASSUME NEW g \in Clients, g # h PROVE CallAt(g)'
    OBVIOUS
  <1>1. CallAt(g) /\ pc'[g] = pc[g] /\ req'[g] = req[g] /\ queue'[g] = queue[g]
    BY DEF Shape
  <1>2. QED
    BY <1>1 DEF CallAt

\* A step that changes no more than a place, what was read, or what is deleted.
LEMMA SmallStep ==
    ASSUME Shape, NEW h \in Clients, NEW l \in Labels, Goto(h, l) \/ Lose(h),
           UNCHANGED <<now, req, queue, lastId, calls, given, exchanges>>,
           index' \in BOOLEAN, entries' \subseteq entries, removed' \subseteq Keys,
           threshold' \in [Clients -> Int], target' \in [Clients -> Keys \union {NoId}],
           shown' \in [Clients -> Seq(Entry)],
           pc[h] # "idle", CallAt(h)'
    PROVE  Shape'
  <1>1. /\ pc' \in [Clients -> Labels] /\ faults' \in Nat
        /\ pc'[h] # "idle" \/ l = "idle"
        /\ \A g \in Clients \ {h} : pc'[g] = pc[g]
    BY Moves
  <1>2. \A g \in Clients : pc'[g] # "idle" => req'[g] \in Requests
    <2>1. req[h] \in Requests
      BY DEF Shape, TypeOK
    <2>2. QED
      BY <1>1, <2>1 DEF Shape, TypeOK
  <1>3. IsFiniteSet(entries')
    BY FS_Subset DEF Shape
  <1>4. \A g \in Clients : CallAt(g)'
    BY <1>1, OthersKeep
  <1>5. TypeOK'
    BY <1>1, <1>2 DEF Shape, TypeOK
  <1>6. QED
    BY <1>3, <1>4, <1>5 DEF Shape

\* A reply is a sequence of entries.
LEMMA ReplyShape ==
    ASSUME Shape, NEW h \in Clients, NEW answers, answers \subseteq Seq(Entry),
           Reply(h, answers),
           UNCHANGED <<index, entries, threshold, now, req, queue, target, lastId, calls,
                       removed, given, exchanges>>,
           pc[h] \in {"recent", "relevant", "messages"}
    PROVE  Shape'
  <1>1. shown' \in [Clients -> Seq(Entry)]
    <2>1. CASE UNCHANGED shown
      BY <2>1 DEF Shape
    <2>2. CASE ~UNCHANGED shown
      <3>1. PICK s \in answers : shown' = [shown EXCEPT ![h] = s]
        BY <2>2 DEF Reply
      <3>2. QED
        BY <3>1 DEF Shape
    <2>3. QED
      BY <2>1, <2>2
  <1>2. PICK l \in {"ok", "err"} : Goto(h, l) \/ Lose(h)
    BY DEF Reply
  <1>3. l \in Labels /\ pc'[h] \in {"ok", "err"}
    BY <1>2, Moves DEF Labels
  <1>4. CallAt(h)'
    BY <1>3 DEF CallAt
  <1>5. UNCHANGED <<index, entries, threshold, target, removed>>
    OBVIOUS
  <1>6. QED
    BY <1>1, <1>2, <1>3, <1>4, <1>5, SmallStep DEF Shape, TypeOK

\* Nothing is in Redis, and nobody is in a call, at first.
LEMMA InitShape == Init => Shape
  <1> SUFFICES ASSUME Init PROVE Shape
    OBVIOUS
  <1>1. IsFiniteSet({}) /\ <<>> \in Seq(Entry)
    BY FS_EmptySet
  <1>2. TypeOK
    BY <1>1, HistoryAssumption DEF Init, TypeOK, Labels
  <1>3. QED
    BY <1>1, <1>2 DEF Init, Shape, CallAt, NoRequest

\* A call begins at the first command of its operation, or is refused.
LEMMA BeginShape ==
    ASSUME Shape, NEW h \in Clients, NEW q \in Requests, Begin(h, q)
    PROVE  Shape'
  <1> DEFINE l == IF Refused(q) THEN "err" ELSE First(q)
  <1>1. l \in Labels \ {"idle"} /\ Goto(h, l)
    BY RequestFacts DEF First, Labels, Begin
  <1>2. /\ pc' = [pc EXCEPT ![h] = l] /\ faults' = faults
        /\ req' = [req EXCEPT ![h] = q]
        /\ queue' = [queue EXCEPT ![h] = <<>>]
        /\ shown' = [shown EXCEPT ![h] = <<>>]
        /\ UNCHANGED <<index, entries, now, lastId, removed, given, exchanges>>
    BY <1>1 DEF Begin, Goto
  <1>3. target' \in [Clients -> Keys \union {NoId}]
    BY RequestFacts DEF Begin, Shape, TypeOK, Keys
  <1>4. threshold' \in [Clients -> Int]
    BY RequestFacts DEF Begin, Shape, TypeOK
  <1>5. calls' \in Nat
    BY DEF Begin, Shape, TypeOK
  <1>6. /\ req' \in [Clients -> Requests \union {NoRequest}]
        /\ queue' \in [Clients -> Seq(Entry)] /\ shown' \in [Clients -> Seq(Entry)]
    BY <1>2 DEF Shape
  <1> HIDE DEF l
  <1>7. TypeOK'
    <2>1. \A g \in Clients : pc'[g] # "idle" => req'[g] \in Requests
      BY <1>2 DEF Shape, TypeOK
    <2>2. \A g \in Clients : \A i \in DOMAIN queue'[g] : queue'[g][i].role \in ValidRoles
      BY <1>2 DEF Shape, TypeOK
    <2>3. pc' \in [Clients -> Labels]
      BY <1>1, <1>2 DEF Shape, TypeOK
    <2>4. QED
      BY <1>2, <1>3, <1>4, <1>5, <1>6, <2>1, <2>2, <2>3 DEF Shape, TypeOK
  <1>8. CallAt(h)'
    <2>1. pc'[h] = l /\ req'[h] = q /\ queue'[h] = <<>>
      BY <1>2 DEF Shape, TypeOK
    <2>2. l \notin {"stamp", "hset", "hset_err", "idle", "dropindex", "create"}
      BY RequestFacts DEF l, First
    <2>3. /\ l = "embed" => q.op \in {"add", "store", "relevant"}
          /\ l = "recent" => q.op = "recent"
          /\ l = "relevant" => q.op = "relevant"
          /\ l = "messages" => q.op = "messages"
          /\ l = "new" => q.op = "new"
      BY RequestFacts DEF l, First
    <2>4. l \in {"recent", "relevant"} \/ (l = "embed" /\ q.op = "relevant")
             => q.query.topK >= 0
      <3>1. SUFFICES ASSUME q.op \in {"recent", "relevant"}, l # "err"
                     PROVE  q.query.topK >= 0
        BY <2>3
      <3>2. q.query.topK \in Int
        BY <3>1, RequestFacts DEF Query
      <3>3. QED
        BY <3>1, <3>2 DEF l, Refused
    <2>5. QED
      BY <2>1, <2>2, <2>3, <2>4 DEF CallAt
  <1>9. \A g \in Clients \ {h} : pc'[g] = pc[g] /\ req'[g] = req[g] /\ queue'[g] = queue[g]
    BY <1>2 DEF Shape, TypeOK
  <1>10. QED
    BY <1>2, <1>6, <1>7, <1>8, <1>9, OthersKeep DEF Shape

\* The embedding comes, or fails.
LEMMA EmbedShape ==
    ASSUME Shape, NEW h \in Clients, Embed(h)
    PROVE  Shape'
  <1>1. PICK l \in {"err", "relevant", "stamp"} :
           /\ Goto(h, l)
           /\ l = "relevant" => req[h].op = "relevant"
           /\ l = "stamp" => req[h].op # "relevant"
    BY DEF Embed
  <1>2. l \in Labels
    BY DEF Labels
  <1>3. /\ pc[h] = "embed" /\ req' = req /\ queue' = queue
        /\ pc'[h] = l
    BY <1>1 DEF Embed, Goto, Shape, TypeOK
  <1>4. queue[h] = <<>> /\ req[h].op \in {"add", "store", "relevant"}
        /\ (req[h].op = "relevant" => req[h].query.topK >= 0)
    BY <1>3 DEF Shape, CallAt
  <1>5. l = "stamp" => Len(queue[h]) < Len(req[h].messages) \/ req[h].messages = <<>>
    <2>1. ASSUME l = "stamp" PROVE req[h].messages \in Seq(Message)
      <3>1. req[h] \in Requests
        BY <1>3 DEF Shape, TypeOK
      <3>2. QED
        BY <1>1, <1>4, <2>1, <3>1, RequestFacts
    <2>2. QED
      BY <1>4, <2>1
  <1>6. CallAt(h)'
    BY <1>1, <1>3, <1>4, <1>5 DEF CallAt
  <1>7. UNCHANGED <<index, entries, threshold, target, shown, removed>>
    BY DEF Embed
  <1>8. UNCHANGED <<now, req, queue, lastId, calls, given, exchanges>>
    BY DEF Embed
  <1>9. QED
    BY <1>1, <1>2, <1>3, <1>6, <1>7, <1>8, SmallStep DEF Shape, TypeOK

\* What Stamp does with the next message: it gets an entry of the call's session, under its
\* own id, which is given then, or a new one; the two of a Store always get new ones.
Stamped(h, e) ==
    LET n == Len(queue[h]) + 1
        k == Len(req[h].messages)
    IN  /\ e \in Entry /\ e.role \in ValidRoles /\ e.session = req[h].session
        /\ e.key \in Keys /\ (req[h].op = "store" => e.key = lastId + 1)
        /\ \/ e.key = lastId + 1 /\ given' = given
           \/ given' = given \union {e.key}
        /\ n <= k /\ (req[h].op = "store" => k = 2)
        /\ lastId' = lastId + 1 /\ lastId' \in 1..MaxMessages
        /\ queue' = [queue EXCEPT ![h] = Append(@, e)]
        /\ Goto(h, IF n < k THEN "stamp" ELSE "hset")
        /\ exchanges' = IF req[h].op = "store" /\ n = 2
                        THEN exchanges \union {<<queue[h][1].key, e.key>>} ELSE exchanges

\* Stamp refuses a role, has nothing to send, or stamps a message.
LEMMA StampEffect ==
    ASSUME Shape, NEW h \in Clients, Stamp(h)
    PROVE  \/ /\ \E l \in {"ok", "err"} : Goto(h, l)
              /\ UNCHANGED <<queue, lastId, given, exchanges>>
           \/ \E e : Stamped(h, e)
  <1> DEFINE batch == req[h].messages
             n     == Len(queue[h]) + 1
             m     == batch[n]
             key   == IF m.id = NoId THEN lastId + 1 ELSE m.id
             e     == [key |-> key, session |-> req[h].session, role |-> m.role,
                       content |-> m.content, ts |-> IF m.ts = Now THEN now ELSE m.ts]
  <1>1. /\ req[h] \in Requests /\ req[h].op \in {"add", "store"}
        /\ Len(queue[h]) < Len(batch) \/ batch = <<>>
        /\ queue[h] \in Seq(Entry)
    BY DEF Stamp, Shape, TypeOK, CallAt
  <1>2. batch \in Seq(Message) /\ req[h].session \in Sessions
    BY <1>1, RequestFacts
  <1>3. /\ lastId \in 0..MaxMessages /\ lastId < MaxMessages /\ now \in 1..MaxTime
        /\ MaxMessages \in Nat /\ MaxTime \in Nat
    BY HistoryAssumption DEF Stamp, Shape, TypeOK
  <1>4. CASE batch = <<>> \/ m.role \notin ValidRoles
    BY <1>4 DEF Stamp
  <1>5. CASE batch # <<>> /\ m.role \in ValidRoles
    <2>1. n \in 1..Len(batch)
      BY <1>1, <1>2, <1>5
    <2>2. m \in Message
      BY <1>2, <2>1
    <2>3. /\ key \in Keys
          /\ \/ key = lastId + 1 /\ given' = given
             \/ given' = given \union {key}
      <3>1. key \in Keys
        BY <1>3, <2>2 DEF Message, Keys, Generated
      <3>2. m.id = NoId => key = lastId + 1 /\ given' = given
        BY <1>5 DEF Stamp
      <3>3. m.id # NoId => given' = given \union {key}
        BY <1>5 DEF Stamp
      <3>4. QED
        BY <3>1, <3>2, <3>3
    <2>4. req[h].op = "store" => Len(batch) = 2 /\ key = lastId + 1
      <3>1. ASSUME req[h].op = "store" PROVE Len(batch) = 2 /\ \A i \in 1..2 : batch[i].id = NoId
        BY <1>1, <3>1, HistoryAssumption
      <3>2. QED
        BY <2>1, <3>1
    <2>5. /\ queue' = [queue EXCEPT ![h] = Append(@, e)]
          /\ lastId' = lastId + 1
          /\ Goto(h, IF n < Len(batch) THEN "stamp" ELSE "hset")
          /\ exchanges' = IF req[h].op = "store" /\ n = 2
                          THEN exchanges \union {<<queue[h][1].key, key>>} ELSE exchanges
      BY <1>5 DEF Stamp
    <2>6. (IF m.ts = Now THEN now ELSE m.ts) \in Nat
      BY <1>3, <2>2 DEF Message
    <2> HIDE DEF key
    <2>7. e \in Entry /\ e.key = key /\ e.role = m.role /\ e.session = req[h].session
      BY <1>2, <2>2, <2>3, <2>6 DEF Entry, Message
    <2>8. lastId' \in 1..MaxMessages
      BY <1>3, <2>5
    <2> HIDE DEF e
    <2>9. Stamped(h, e)
      BY <1>5, <2>1, <2>3, <2>4, <2>5, <2>7, <2>8 DEF Stamped
    <2>10. QED
      BY <2>9
  <1>6. QED
    BY <1>4, <1>5

\* A stamped message is another to send.
LEMMA StampShape ==
    ASSUME Shape, NEW h \in Clients, Stamp(h)
    PROVE  Shape'
  <1>1. /\ UNCHANGED <<index, entries, threshold, now, req, target, shown, calls, removed>>
        /\ pc[h] = "stamp" /\ req[h].op \in {"add", "store"} /\ req[h] \in Requests
        /\ queue[h] \in Seq(Entry)
    BY DEF Stamp, Shape, TypeOK, CallAt
  <1>2. CASE \E l \in {"ok", "err"} : Goto(h, l) /\ UNCHANGED <<queue, lastId, given, exchanges>>
    <2>1. PICK l \in {"ok", "err"} : Goto(h, l) /\ UNCHANGED <<queue, lastId, given, exchanges>>
      BY <1>2
    <2>2. l \in Labels /\ pc'[h] \in {"ok", "err"}
      BY <2>1, Moves DEF Labels
    <2>3. CallAt(h)'
      BY <2>2 DEF CallAt
    <2>4. QED
      BY <1>1, <2>1, <2>2, <2>3, SmallStep DEF Shape, TypeOK
  <1>3. CASE \E e : Stamped(h, e)
    <2>1. PICK e : Stamped(h, e)
      BY <1>3
    <2> DEFINE n == Len(queue[h]) + 1
               k == Len(req[h].messages)
               l == IF n < k THEN "stamp" ELSE "hset"
               q == Append(queue[h], e)
    <2>2. l \in Labels /\ pc' = [pc EXCEPT ![h] = l] /\ faults' = faults
      BY <2>1 DEF Stamped, Goto, Labels
    <2>3. /\ e \in Entry /\ e.role \in ValidRoles /\ e.key \in Keys
          /\ queue' = [queue EXCEPT ![h] = q]
          /\ lastId' \in 1..MaxMessages
      BY <2>1 DEF Stamped, Entry
    <2>4. k \in Nat /\ n <= k
      BY <1>1, <2>1, RequestFacts DEF Stamped
    <2>5. /\ q \in Seq(Entry) /\ Len(q) = n /\ n \in Nat /\ q # <<>>
          /\ \A i \in DOMAIN q : q[i].role \in ValidRoles
      <3>1. \A i \in DOMAIN queue[h] : queue[h][i].role \in ValidRoles
        BY DEF Shape, TypeOK
      <3>2. q \in Seq(Entry) /\ Len(q) = n /\ n \in Nat \ {0} /\ DOMAIN q = 1..n
        BY <1>1, <2>3
      <3>3. \A i \in 1..n : q[i] = IF i = n THEN e ELSE queue[h][i]
        BY <1>1, <2>3
      <3>4. DOMAIN queue[h] = 1..(n - 1)
        BY <1>1
      <3> HIDE DEF q, n
      <3>5. ASSUME NEW i \in DOMAIN q PROVE q[i].role \in ValidRoles
        <4>1. CASE i = n
          BY <2>3, <3>2, <3>3, <4>1
        <4>2. CASE i # n
          <5>1. i \in 1..(n - 1)
            BY <3>2, <4>2
          <5>2. QED
            BY <3>1, <3>2, <3>3, <3>4, <4>2, <5>1
        <4>3. QED
          BY <4>1, <4>2
      <3>6. q # <<>>
        BY <3>2
      <3>7. QED
        BY <3>2, <3>5, <3>6
    <2> HIDE DEF q
    <2>6. queue' \in [Clients -> Seq(Entry)]
      BY <2>3, <2>5 DEF Shape
    <2>7. exchanges' \subseteq Keys \X Keys
      <3>1. CASE ~(req[h].op = "store" /\ n = 2)
        BY <2>1, <3>1 DEF Stamped, Shape, TypeOK
      <3>2. CASE req[h].op = "store" /\ n = 2
        <4>1. queue[h][1] \in Entry
          BY <1>1, <3>2
        <4>2. queue[h][1].key \in Keys
          BY <4>1 DEF Entry
        <4>3. QED
          BY <2>1, <2>3, <3>2, <4>2 DEF Stamped, Shape, TypeOK
      <3>3. QED
        BY <3>1, <3>2
    <2> HIDE DEF l
    <2>8. TypeOK'
      <3>1. \A g \in Clients : pc'[g] # "idle" => req'[g] \in Requests
        BY <1>1, <2>2 DEF Shape, TypeOK
      <3>2. \A g \in Clients : \A i \in DOMAIN queue'[g] : queue'[g][i].role \in ValidRoles
        BY <2>3, <2>5 DEF Shape, TypeOK
      <3>3. pc' \in [Clients -> Labels]
        BY <2>2 DEF Shape, TypeOK
      <3>4. shown' \in [Clients -> Seq(Entry)]
        BY <1>1 DEF Shape
      <3>5. given' \subseteq Keys
        BY <2>1 DEF Stamped, Shape, TypeOK
      <3>6. QED
        BY <1>1, <2>2, <2>3, <2>6, <2>7, <3>1, <3>2, <3>3, <3>4, <3>5 DEF Shape, TypeOK
    <2>9. CallAt(h)'
      <3>1. pc'[h] = l /\ queue'[h] = q /\ req'[h] = req[h]
        BY <1>1, <2>2, <2>3 DEF Shape, TypeOK
      <3>2. l \in {"stamp", "hset"} /\ (l = "stamp" => n < k)
        BY DEF l
      <3>3. QED
        BY <1>1, <2>5, <3>1, <3>2 DEF CallAt
    <2>10. \A g \in Clients \ {h} : pc'[g] = pc[g] /\ req'[g] = req[g] /\ queue'[g] = queue[g]
      BY <1>1, <2>2, <2>3 DEF Shape, TypeOK
    <2>11. QED
      BY <1>1, <2>6, <2>8, <2>9, <2>10, OthersKeep DEF Shape
  <1>4. QED
    BY <1>2, <1>3, StampEffect

\* HSET: the first of the queue is written, under a key that nothing else has then, or Redis
\* refuses it, and the rest follows, or the connection breaks, before or after.
LEMMA HSetEffect ==
    ASSUME Shape, NEW h \in Clients, HSet(h)
    PROVE  /\ queue[h] \in Seq(Entry) /\ queue[h] # <<>> /\ Head(queue[h]) \in Entry
           /\ Tail(queue[h]) \in Seq(Entry) /\ Len(Tail(queue[h])) = Len(queue[h]) - 1
           /\ \A i \in 1..Len(Tail(queue[h])) : Tail(queue[h])[i] = queue[h][i + 1]
           /\ \E l \in Labels : /\ Goto(h, l) \/ Fault(h, l) \/ Lose(h)
                                /\ l \in {"ok", "err"} \/ Tail(queue[h]) # <<>>
                                /\ l \in {"ok", "err", "hset", "hset_err"}
           /\ \/ UNCHANGED <<entries, queue, removed>> /\ Lose(h)
              \/ /\ \/ /\ removed' = removed
                       /\ entries' = {f \in entries : f.key # Head(queue[h]).key}
                                        \union {Head(queue[h])}
                    \/ /\ removed' = removed \union {Head(queue[h]).key}
                       /\ entries' = entries
                 /\ queue' = [queue EXCEPT ![h] = Tail(queue[h])]
  <1>1. queue[h] \in Seq(Entry) /\ queue[h] # <<>>
    BY DEF HSet, Shape, CallAt
  <1>2. /\ Head(queue[h]) \in Entry
        /\ Tail(queue[h]) \in Seq(Entry) /\ Len(Tail(queue[h])) = Len(queue[h]) - 1
        /\ \A i \in 1..Len(Tail(queue[h])) : Tail(queue[h])[i] = queue[h][i + 1]
    BY <1>1
  <1>3. \E l \in Labels : /\ Goto(h, l) \/ Fault(h, l) \/ Lose(h)
                          /\ l \in {"ok", "err"} \/ Tail(queue[h]) # <<>>
                          /\ l \in {"ok", "err", "hset", "hset_err"}
    <2>1. \A l \in {"hset", "hset_err"} :
             LET m == After(Tail(queue[h]), l)
             IN  /\ m \in Labels /\ m \in {"ok", "err", "hset", "hset_err"}
                 /\ m \in {"ok", "err"} \/ Tail(queue[h]) # <<>>
      BY DEF After, Labels
    <2>2. PICK l \in {"hset", "hset_err"} :
             \/ Goto(h, After(Tail(queue[h]), l)) \/ Fault(h, After(Tail(queue[h]), l))
             \/ Lose(h)
      BY DEF HSet
    <2>3. QED
      BY <2>1, <2>2
  <1>4. \/ UNCHANGED <<entries, queue, removed>> /\ Lose(h)
        \/ /\ \/ /\ removed' = removed
                 /\ entries' = {f \in entries : f.key # Head(queue[h]).key}
                                  \union {Head(queue[h])}
              \/ /\ removed' = removed \union {Head(queue[h]).key}
                 /\ entries' = entries
           /\ queue' = [queue EXCEPT ![h] = Tail(queue[h])]
    BY DEF HSet
  <1>5. QED
    BY <1>1, <1>2, <1>3, <1>4

\* A message is written under its key.
LEMMA HSetShape ==
    ASSUME Shape, NEW h \in Clients, HSet(h)
    PROVE  Shape'
  <1> DEFINE e == Head(queue[h])
             q == Tail(queue[h])
  <1>1. /\ UNCHANGED <<index, threshold, now, req, target, shown, lastId, calls, given,
                       exchanges>>
        /\ pc[h] # "idle" /\ req[h].op \in {"add", "store"} /\ req[h] \in Requests
    BY DEF HSet, Shape, TypeOK, CallAt
  <1>2. PICK l \in Labels : /\ Goto(h, l) \/ Fault(h, l) \/ Lose(h)
                            /\ l \in {"ok", "err"} \/ q # <<>>
                            /\ l \in {"ok", "err", "hset", "hset_err"}
    BY HSetEffect
  <1>3. /\ pc' \in [Clients -> Labels] /\ faults' \in Nat
        /\ pc'[h] \in {l, "err"}
        /\ \A g \in Clients \ {h} : pc'[g] = pc[g]
    BY <1>2, Moves
  <1>4. /\ e \in Entry /\ q \in Seq(Entry) /\ queue[h] \in Seq(Entry)
        /\ \A i \in DOMAIN q : i + 1 \in DOMAIN queue[h] /\ q[i] = queue[h][i + 1]
    <2>1. /\ e \in Entry /\ q \in Seq(Entry) /\ queue[h] \in Seq(Entry)
          /\ Len(q) = Len(queue[h]) - 1
          /\ \A i \in 1..Len(q) : q[i] = queue[h][i + 1]
      BY HSetEffect
    <2> HIDE DEF q
    <2>2. DOMAIN q = 1..Len(q) /\ DOMAIN queue[h] = 1..Len(queue[h])
      BY <2>1
    <2>3. Len(q) \in Nat /\ Len(queue[h]) \in Nat
      BY <2>1
    <2>4. \A i \in 1..Len(q) : i + 1 \in 1..Len(queue[h])
      BY <2>1, <2>3
    <2>5. QED
      BY <2>1, <2>2, <2>4
  <1>5. CASE UNCHANGED <<entries, queue, removed>> /\ Lose(h)
    <2>1. pc'[h] = "err"
      BY <1>5 DEF Lose, Fault, Shape, TypeOK
    <2>2. CallAt(h)'
      BY <1>1, <2>1 DEF CallAt
    <2>3. "err" \in Labels
      BY DEF Labels
    <2>4. QED
      BY <1>1, <1>5, <2>2, <2>3, SmallStep DEF Shape, TypeOK
  <1>6. CASE /\ \/ /\ removed' = removed
                   /\ entries' = {f \in entries : f.key # e.key} \union {e}
                \/ removed' = removed \union {e.key} /\ entries' = entries
             /\ queue' = [queue EXCEPT ![h] = q]
    <2> HIDE DEF e, q
    <2>1. queue' \in [Clients -> Seq(Entry)] /\ queue'[h] = q
          /\ \A g \in Clients \ {h} : queue'[g] = queue[g]
      BY <1>4, <1>6 DEF Shape
    <2>2. entries' \subseteq Entry /\ \A f, g \in entries' : f.key = g.key => f = g
      BY <1>4, <1>6 DEF Shape, TypeOK
    <2>3. IsFiniteSet(entries')
      <3>1. IsFiniteSet({f \in entries : f.key # e.key})
        BY FS_Subset DEF Shape
      <3>2. IsFiniteSet({f \in entries : f.key # e.key} \union {e})
        BY <3>1, FS_AddElement
      <3>3. QED
        BY <1>6, <3>2 DEF Shape
    <2>4. TypeOK'
      <3>1. \A g \in Clients : pc'[g] # "idle" => req'[g] \in Requests
        BY <1>1, <1>3 DEF Shape, TypeOK
      <3>2. ASSUME NEW g \in Clients, NEW i \in DOMAIN queue'[g]
            PROVE  queue'[g][i].role \in ValidRoles
        <4>1. \A c \in Clients : \A j \in DOMAIN queue[c] : queue[c][j].role \in ValidRoles
          BY DEF Shape, TypeOK
        <4>2. CASE g = h
          BY <1>4, <2>1, <4>1, <4>2
        <4>3. CASE g # h
          BY <2>1, <4>1, <4>3
        <4>4. QED
          BY <4>2, <4>3
      <3>3. shown' \in [Clients -> Seq(Entry)]
        BY <1>1 DEF Shape
      <3>4. removed' \subseteq Keys
        BY <1>4, <1>6 DEF Shape, TypeOK, Entry
      <3>5. QED
        BY <1>1, <1>3, <2>1, <2>2, <3>1, <3>2, <3>3, <3>4 DEF Shape, TypeOK
    <2>5. CallAt(h)'
      BY <1>1, <1>2, <1>3, <2>1 DEF CallAt
    <2>6. \A g \in Clients : CallAt(g)'
      BY <1>1, <1>3, <2>1, <2>5, OthersKeep
    <2>7. QED
      BY <1>1, <2>1, <2>3, <2>4, <2>6 DEF Shape
  <1>7. QED
    BY <1>5, <1>6, HSetEffect

\* What a read returns is a sequence of entries.
LEMMA ReadAnswers ==
    ASSUME Shape, NEW S, S \subseteq entries, NEW k \in Nat \ {0}
    PROVE  /\ Earliest(S, k) \subseteq Seq(Entry) /\ Latest(S, k) \subseteq Seq(Entry)
           /\ SetToSeqs(S) \subseteq Seq(Entry)
  <1>1. IsFiniteSet(S) /\ S \subseteq Entry /\ Seq(S) \subseteq Seq(Entry)
    <2>1. IsFiniteSet(S)
      BY FS_Subset DEF Shape
    <2>2. S \subseteq Entry
      BY DEF Shape, TypeOK
    <2>3. QED
      BY <2>1, <2>2
  <1>2. Earliest(S, k) \subseteq Seq(S)
    BY <1>1, EarliestOf
  <1>3. Latest(S, k) \subseteq Seq(S)
    BY <1>1, LatestOf
  <1>4. SetToSeqs(S) \subseteq Seq(S)
    BY <1>1, Orders
  <1>5. QED
    BY <1>1, <1>2, <1>3, <1>4

\* A search asks for a number of messages.
LEMMA SearchQuery ==
    ASSUME Shape, NEW h \in Clients, pc[h] \in {"recent", "relevant"}
    PROVE  req[h].query \in Query /\ TopK(req[h].query) \in Nat \ {0}
  <1>1. /\ req[h] \in Requests /\ req[h].op \in {"recent", "relevant"}
        /\ req[h].query.topK >= 0
    BY DEF Shape, TypeOK, CallAt
  <1>2. req[h].query \in Query
    BY <1>1, RequestFacts
  <1>3. QED
    BY <1>1, <1>2, SearchSize

\* Reads change what was read.
LEMMA ReadShape ==
    ASSUME Shape, NEW h \in Clients, Recent(h) \/ Messages(h) \/ GetRelevant(h)
    PROVE  Shape'
  <1>1. UNCHANGED <<index, entries, threshold, now, req, queue, target, lastId, calls,
                    removed, given, exchanges>>
    BY DEF Recent, Messages, GetRelevant
  <1>2. CASE Recent(h)
    <2> DEFINE q == req[h].query
               A == Latest(Of(q.session, q.roles), TopK(q))
    <2>1. pc[h] = "recent" /\ Reply(h, A)
      BY <1>2 DEF Recent
    <2>2. A \subseteq Seq(Entry)
      BY <2>1, SearchQuery, OfEntries, ReadAnswers
    <2> HIDE DEF A
    <2>3. QED
      BY <1>1, <2>1, <2>2, ReplyShape
  <1>3. CASE Messages(h)
    <2> DEFINE A == Earliest(Of(SessionOf(h), {}), FullHistory)
    <2>1. pc[h] = "messages" /\ Reply(h, A)
      BY <1>3 DEF Messages
    <2>2. A \subseteq Seq(Entry)
      BY HistoryAssumption, OfEntries, ReadAnswers
    <2> HIDE DEF A
    <2>3. QED
      BY <1>1, <2>1, <2>2, ReplyShape
  <1>4. CASE GetRelevant(h)
    <2> DEFINE q    == req[h].query
               d    == IF req[h].threshold = 0 THEN threshold[h] ELSE req[h].threshold
               near == {e \in Of(q.session, q.roles) : e.content \in Relevant(d)}
               A    == UNION {SetToSeqs(S) : S \in {T \in SUBSET near :
                           IF Cardinality(near) <= TopK(q) THEN T = near
                           ELSE Cardinality(T) = TopK(q)}}
    <2>1. /\ pc[h] = "relevant"
          /\ \/ (Goto(h, "err") \/ Lose(h)) /\ UNCHANGED shown
             \/ (Goto(h, "recent") \/ Lose(h)) /\ UNCHANGED shown
             \/ Reply(h, A)
      BY <1>4 DEF GetRelevant
    <2>2. A \subseteq Seq(Entry)
      <3>1. near \subseteq entries
        BY OfEntries
      <3> HIDE DEF near
      <3>2. \A S \in SUBSET near : SetToSeqs(S) \subseteq Seq(Entry)
        BY <3>1, ReadAnswers
      <3>3. QED
        BY <3>2
    <2> HIDE DEF A
    <2>3. CASE Reply(h, A)
      BY <1>1, <2>1, <2>2, <2>3, ReplyShape
    <2>4. ASSUME NEW l \in {"err", "recent"}, Goto(h, l) \/ Lose(h), UNCHANGED shown
          PROVE  Shape'
      <3>1. l \in Labels /\ pc'[h] \in {l, "err"}
        BY <2>4, Moves DEF Labels
      <3>2. CallAt(h)'
        <4>1. req[h].op = "relevant" /\ req[h].query.topK >= 0
          BY <2>1 DEF Shape, CallAt
        <4>2. QED
          BY <1>1, <3>1, <4>1 DEF CallAt
      <3>3. QED
        BY <1>1, <2>1, <2>4, <3>1, <3>2, SmallStep DEF Shape, TypeOK
    <2>5. QED
      BY <2>1, <2>3, <2>4
  <1>5. QED
    BY <1>2, <1>3, <1>4

\* Drop without an id finds what to delete.
LEMMA ReadLatestShape ==
    ASSUME Shape, NEW h \in Clients, ReadLatest(h)
    PROVE  Shape'
  <1>1. PICK l \in {"ok", "del", "err"} : Goto(h, l) \/ Lose(h)
    BY DEF ReadLatest
  <1>2. l \in Labels /\ pc'[h] \in {"ok", "del", "err"}
    BY <1>1, Moves DEF Labels
  <1>3. CallAt(h)'
    BY <1>2 DEF CallAt
  <1>4. target' \in [Clients -> Keys \union {NoId}]
    <2>1. CASE UNCHANGED target
      BY <2>1 DEF Shape, TypeOK
    <2>2. CASE ~UNCHANGED target
      <3>1. PICK s \in Latest(Of(SessionOf(h), {}), 1) :
               target' = [target EXCEPT ![h] = IF s = <<>> THEN NoId ELSE s[1].key]
        BY <2>2 DEF ReadLatest
      <3>2. s \in Seq(Entry)
        <4> DEFINE S == Of(SessionOf(h), {})
        <4>1. S \subseteq entries /\ 1 \in Nat \ {0}
          BY OfEntries
        <4> HIDE DEF S
        <4>2. Latest(S, 1) \subseteq Seq(Entry)
          BY <4>1, ReadAnswers
        <4>3. QED
          BY <3>1, <4>2 DEF S
      <3>3. s # <<>> => s[1] \in Entry
        BY <3>2
      <3>4. s # <<>> => s[1].key \in Keys
        BY <3>3 DEF Entry
      <3>5. QED
        BY <3>1, <3>4 DEF Shape, TypeOK
    <2>3. QED
      BY <2>1, <2>2
  <1>5. /\ UNCHANGED <<index, entries, threshold, now, req, queue, shown, lastId, calls,
                       removed, given, exchanges>>
        /\ pc[h] = "latest"
    BY DEF ReadLatest
  <1>6. QED
    BY <1>1, <1>2, <1>3, <1>4, <1>5, SmallStep DEF Shape, TypeOK

\* Deleting leaves a part of the entries.
LEMMA Removal ==
    ASSUME Shape, NEW S, RemoveKeys(S)
    PROVE  entries' \subseteq entries /\ removed' \subseteq Keys /\ removed \subseteq removed'
  <1>1. \A e \in entries : e.key \in Keys
    BY DEF Shape, TypeOK, Entry
  <1>2. QED
    BY <1>1 DEF RemoveKeys, Shape, TypeOK

\* DEL, Clear and Delete leave a part of the entries.
LEMMA RemoveShape ==
    ASSUME Shape, NEW h \in Clients, Del(h) \/ Empty(h)
    PROVE  Shape'
  <1>1. PICK l \in {"ok", "err"} : Goto(h, l) \/ Lose(h)
    BY DEF Del, Empty
  <1>2. l \in Labels /\ pc'[h] \in {"ok", "err"}
    BY <1>1, Moves DEF Labels
  <1>3. CallAt(h)'
    BY <1>2 DEF CallAt
  <1>4. entries' \subseteq entries /\ removed' \subseteq Keys
    <2>1. CASE UNCHANGED <<entries, removed>>
      BY <2>1 DEF Shape, TypeOK
    <2>2. CASE RemoveKeys({target[h]}) \/ RemoveKeys(Keys)
      BY <2>2, Removal
    <2>3. QED
      BY <2>1, <2>2 DEF Del, Empty
  <1>5. /\ UNCHANGED <<threshold, now, req, queue, target, shown, lastId, calls, given,
                       exchanges>>
        /\ pc[h] \in {"del", "clear", "delete"} /\ index' \in BOOLEAN
    BY DEF Del, Empty, Shape, TypeOK
  <1>6. QED
    BY <1>1, <1>2, <1>3, <1>4, <1>5, SmallStep DEF Shape, TypeOK

\* A new history has a threshold of its own.
LEMMA NewShape ==
    ASSUME Shape, NEW h \in Clients, New(h) \/ DropIndex(h) \/ Create(h)
    PROVE  Shape'
  <1>1. PICK l \in {"ok", "err", "dropindex", "create"} : Goto(h, l) \/ Lose(h)
    BY DEF New, DropIndex, Create, Made
  <1>2. l \in Labels /\ pc'[h] \in {"ok", "err", "dropindex", "create"}
    BY <1>1, Moves DEF Labels
  <1>3. /\ req[h] \in Requests /\ req[h].op = "new" /\ pc[h] # "idle"
        /\ UNCHANGED <<entries, now, req, queue, target, shown, lastId, calls, removed,
                       given, exchanges>>
        /\ index' \in BOOLEAN
    BY DEF New, DropIndex, Create, Shape, TypeOK, CallAt
  <1>4. CallAt(h)'
    BY <1>2, <1>3 DEF CallAt
  <1>5. threshold' \in [Clients -> Int]
    <2>1. req[h].threshold \in Int /\ DefaultThreshold \in Int
      BY <1>3, RequestFacts, HistoryAssumption
    <2>2. QED
      BY <2>1 DEF New, DropIndex, Create, Made, Shape, TypeOK
  <1>6. QED
    BY <1>1, <1>2, <1>3, <1>4, <1>5, SmallStep DEF Shape, TypeOK

\* The shape is kept by every step.
LEMMA NextShape == Shape /\ [Next]_vars => Shape'
  <1> SUFFICES ASSUME Shape, [Next]_vars PROVE Shape'
    OBVIOUS
  <1>1. ASSUME NEW h \in Clients, Step(h) PROVE Shape'
    BY <1>1, EmbedShape, StampShape, HSetShape, ReadShape, ReadLatestShape, RemoveShape,
       NewShape DEF Step
  <1>2. CASE Tick
    <2>1. now' \in 1..MaxTime
      BY <1>2, HistoryAssumption DEF Tick, Shape, TypeOK
    <2>2. QED
      BY <1>2, <2>1 DEF Tick, Shape, TypeOK, CallAt
  <1>3. CASE UNCHANGED vars
    BY <1>3 DEF vars, Shape, TypeOK, CallAt
  <1>4. QED
    BY <1>1, <1>2, <1>3, BeginShape DEF Next

\* The variables keep their types (history.go, semantic.go): in particular no message with a
\* role that is not valid is ever sent, and one key has one hash.
THEOREM TypeCorrect == Spec => []TypeOK
  <1>1. Shape => TypeOK
    BY DEF Shape
  <1>2. QED
    BY <1>1, InitShape, NextShape, PTL DEF Spec

-----------------------------------------------------------------------------
(* Reading. *)

\* What a read that succeeds owes its caller.
ReadIsRight(h) ==
    LET q      == req[h].query
        answer == shown'[h]
        mine   == {e \in entries : /\ e.session = q.session
                                   /\ q.roles # {} => e.role \in q.roles}
    IN  /\ ToSet(answer) \subseteq mine /\ Len(answer) <= TopK(q)
        /\ answer = <<>> => mine = {} \/ (req[h].op = "relevant" /\ ~req[h].fallBack)
        /\ pc[h] = "recent" =>
              /\ IsChronological(answer)
              /\ \A e \in mine \ ToSet(answer), f \in ToSet(answer) : e.ts <= f.ts

\* A step of one client is not one of another.
LEMMA OneMoves ==
    ASSUME Shape, NEW g \in Clients, NEW h \in Clients \ {g},
           Step(g) \/ \E q \in Requests : Begin(g, q)
    PROVE  pc'[h] = pc[h]
  <1>1. ASSUME NEW l, Goto(g, l) PROVE pc'[h] = pc[h]
    BY <1>1 DEF Goto, Shape, TypeOK
  <1>2. ASSUME NEW l, Fault(g, l) PROVE pc'[h] = pc[h]
    BY <1>2 DEF Fault, Shape, TypeOK
  <1>3. (\E l : Goto(g, l)) \/ \E l : Fault(g, l)
    <2>1. CASE \E q \in Requests : Begin(g, q)
      BY <2>1 DEF Begin
    <2>2. CASE Embed(g)
      BY <2>2 DEF Embed
    <2>3. CASE Stamp(g)
      BY <2>3, StampEffect DEF Stamped
    <2>4. CASE HSet(g)
      BY <2>4, HSetEffect DEF Lose
    <2>5. CASE Recent(g) \/ Messages(g) \/ GetRelevant(g)
      BY <2>5 DEF Recent, Messages, GetRelevant, Reply, Lose
    <2>6. CASE ReadLatest(g) \/ Del(g) \/ Empty(g)
      BY <2>6 DEF ReadLatest, Del, Empty, Lose
    <2>7. CASE New(g) \/ DropIndex(g) \/ Create(g)
      BY <2>7 DEF New, DropIndex, Create, Made, Lose
    <2>8. QED
      BY <2>1, <2>2, <2>3, <2>4, <2>5, <2>6, <2>7 DEF Step
  <1>4. QED
    BY <1>1, <1>2, <1>3

\* A read ends at its own command.
LEMMA ReadEnds ==
    ASSUME Shape, Next, NEW h \in Clients, pc[h] \in {"recent", "relevant"}, pc'[h] = "ok"
    PROVE  Recent(h) \/ GetRelevant(h)
  <1>1. ~Tick /\ \A q \in Requests : ~Begin(h, q)
    BY DEF Tick, Begin
  <1>2. PICK g \in Clients : Step(g) \/ \E q \in Requests : Begin(g, q)
    BY <1>1 DEF Next
  <1>3. g = h
    BY <1>2, OneMoves
  <1>4. Step(h)
    BY <1>1, <1>2, <1>3
  <1>5. QED
    BY <1>4 DEF Step, Embed, Stamp, HSet, Messages, ReadLatest, Del, Empty, New, DropIndex, Create

\* A reply without error is one of the answers.
LEMMA Replied ==
    ASSUME Shape, NEW h \in Clients, NEW answers, Reply(h, answers), pc'[h] = "ok"
    PROVE  index /\ shown'[h] \in answers
  <1>1. ~Lose(h) /\ ~Goto(h, "err")
    BY DEF Lose, Fault, Goto, Shape, TypeOK
  <1>2. index /\ \E s \in answers : shown' = [shown EXCEPT ![h] = s]
    BY <1>1 DEF Reply
  <1>3. QED
    BY <1>2 DEF Shape

\* GetRecent returns the last messages.
LEMMA RecentRight ==
    ASSUME Shape, NEW h \in Clients, Recent(h), pc'[h] = "ok"
    PROVE  ReadIsRight(h)
  <1> DEFINE q      == req[h].query
             answer == shown'[h]
             mine   == {e \in entries : /\ e.session = q.session
                                        /\ q.roles # {} => e.role \in q.roles}
             k      == TopK(q)
  <1>1. k \in Nat \ {0}
    BY SearchQuery DEF Recent
  <1>2. Of(q.session, q.roles) = mine
    BY DEF Of
  <1>3. IsFiniteSet(Of(q.session, q.roles))
    BY OfEntries
  <1>4. Reply(h, Latest(Of(q.session, q.roles), k))
    BY DEF Recent
  <1>5. answer \in Latest(mine, k)
    BY <1>2, <1>4, Replied
  <1>6. IsFiniteSet(mine)
    BY <1>2, <1>3
  <1> HIDE DEF answer, mine, k, q
  <1>7. /\ answer \in Seq(mine) /\ Len(answer) <= k /\ IsChronological(answer)
        /\ answer = <<>> => mine = {}
        /\ \A e \in mine \ ToSet(answer), f \in ToSet(answer) : e.ts <= f.ts
    BY <1>1, <1>5, <1>6, LatestOf
  <1>8. ToSet(answer) \subseteq mine
    BY <1>7 DEF ToSet
  <1>9. QED
    BY <1>7, <1>8 DEF ReadIsRight, answer, mine, k, q

\* GetRelevant returns messages that are near, all of them or as many as asked for.
LEMMA RelevantRight ==
    ASSUME Shape, NEW h \in Clients, GetRelevant(h), pc'[h] = "ok"
    PROVE  ReadIsRight(h)
  <1> DEFINE q      == req[h].query
             answer == shown'[h]
             mine   == {e \in entries : /\ e.session = q.session
                                        /\ q.roles # {} => e.role \in q.roles}
             k      == TopK(q)
             d      == IF req[h].threshold = 0 THEN threshold[h] ELSE req[h].threshold
             near   == {e \in Of(q.session, q.roles) : e.content \in Relevant(d)}
             pages  == {T \in SUBSET near : IF Cardinality(near) <= k THEN T = near
                                            ELSE Cardinality(T) = k}
             A      == UNION {SetToSeqs(S) : S \in pages}
  <1>1. pc[h] = "relevant"
    BY DEF GetRelevant
  <1>2. k \in Nat \ {0}
    BY <1>1, SearchQuery
  <1>3. ~Lose(h) /\ ~Goto(h, "err") /\ ~Goto(h, "recent")
    BY DEF Lose, Fault, Goto, Shape, TypeOK
  <1>4. Reply(h, A) /\ ~(index /\ near = {} /\ req[h].fallBack)
    BY <1>3 DEF GetRelevant
  <1> HIDE DEF A
  <1>5. index /\ answer \in A
    BY <1>4, Replied
  <1>6. PICK S \in pages : answer \in SetToSeqs(S)
    BY <1>5 DEF A
  <1>7. near \subseteq mine
    BY DEF Of
  <1>8. IsFiniteSet(near)
    <2>1. IsFiniteSet(Of(q.session, q.roles)) /\ near \subseteq Of(q.session, q.roles)
      BY OfEntries
    <2> HIDE DEF near
    <2>2. QED
      BY <2>1, FS_Subset
  <1> HIDE DEF near, answer, mine, k, q
  <1>9. S \subseteq near /\ ((S = near /\ Cardinality(near) <= k) \/ Cardinality(S) = k)
    BY <1>6
  <1>10. IsFiniteSet(S)
    BY <1>8, <1>9, FS_Subset
  <1>11. Len(answer) = Cardinality(S) /\ ToSet(answer) = S
    BY <1>6, <1>10, Orders
  <1>12. Len(answer) <= k
    BY <1>2, <1>9, <1>11
  <1>13. answer = <<>> => near = {}
    <2>1. ASSUME answer = <<>> PROVE Cardinality(S) = 0
      BY <1>11, <2>1
    <2>2. ASSUME answer = <<>> PROVE near = {}
      BY <1>2, <1>8, <1>9, <2>1, <2>2, FS_EmptySet
    <2>3. QED
      BY <2>2
  <1>14. req[h].op = "relevant" /\ pc[h] # "recent"
    BY <1>1 DEF Shape, CallAt
  <1>15. ToSet(answer) \subseteq mine
    BY <1>7, <1>9, <1>11
  <1>16. answer = <<>> => ~req[h].fallBack
    BY <1>4, <1>5, <1>13
  <1>17. QED
    BY <1>12, <1>14, <1>15, <1>16 DEF ReadIsRight, answer, mine, k, q

\* GetRecent and GetRelevant of semantic.go return what is of the session and the roles asked
\* for, no more than asked for, and by time without a gap.
THEOREM ReadsAreRecent == Spec => RecentIsLatest
  <1>1. ASSUME Shape, Next, NEW h \in Clients, pc[h] \in {"recent", "relevant"}, pc'[h] = "ok"
        PROVE  ReadIsRight(h)
    BY <1>1, ReadEnds, RecentRight, RelevantRight
  <1>2. Shape /\ [Next]_vars =>
           [\A h \in Clients : pc[h] \in {"recent", "relevant"} /\ pc'[h] = "ok"
                                  => ReadIsRight(h)]_vars
    BY <1>1
  <1>3. Shape /\ [Next]_vars =>
           [\A h \in Clients :
          pc[h] \in {"recent", "relevant"} /\ pc'[h] = "ok" =>
              LET q      == req[h].query
                  answer == shown'[h]
                  mine   == {e \in entries : /\ e.session = q.session
                                             /\ q.roles # {} => e.role \in q.roles}
              IN  /\ ToSet(answer) \subseteq mine /\ Len(answer) <= TopK(q)
                  /\ answer = <<>> => mine = {} \/ (req[h].op = "relevant" /\ ~req[h].fallBack)
                  /\ pc[h] = "recent" =>
                        /\ IsChronological(answer)
                        /\ \A e \in mine \ ToSet(answer), f \in ToSet(answer) : e.ts <= f.ts]_vars
    BY <1>2 DEF ReadIsRight
  <1>4. QED
    BY <1>3, InitShape, NextShape, PTL DEF Spec, RecentIsLatest

-----------------------------------------------------------------------------
(* A prompt before its answer. *)

Queued    == UNION {ToSet(queue[h]) : h \in Clients}
Hashes    == entries \union Queued
Accounted == {e.key : e \in entries} \union removed

\* Keys that callers gave or that were stamped: a new one is none of them, or was given.
Past == given \union 1..lastId

KeysAreOld ==
    /\ \A e \in Hashes : e.key \in Past
    /\ \A h \in Clients : Shown(h) \subseteq Past
    /\ exchanges \subseteq (1..lastId) \X (1..lastId)

\* A stamped key that nobody gives to another message stays in its session.
SessionsAgree ==
    \A e, f \in Hashes : e.key = f.key /\ e.key \notin given => e.session = f.session

OwnQueue(h) ==
    pc[h] = "stamp" => \A e \in ToSet(queue[h]) :
        e.session = req[h].session /\ (req[h].op = "store" => e.key \in 1..lastId)

\* Where the answer a is written, the prompt p is, or was deleted; where a is to be written,
\* p is sent before.
Sent(h, p, a) ==
    \A i \in DOMAIN queue[h] : queue[h][i].key = a =>
        p \in Accounted \/ \E j \in 1..(i - 1) : queue[h][j].key = p

Paired(p, a) ==
    /\ \A e, f \in Hashes : e.key = p /\ f.key = a => e.session = f.session
    /\ a \in {e.key : e \in entries} => p \in Accounted
    /\ \A h \in Clients : Sent(h, p, a)

PairInv ==
    /\ KeysAreOld /\ SessionsAgree
    /\ \A h \in Clients : OwnQueue(h)
    /\ \A x \in exchanges : x[1] \notin given /\ x[2] \notin given => Paired(x[1], x[2])

\* An exchange is of two stamped keys.
LEMMA Stamps ==
    ASSUME Shape, PairInv, NEW x \in exchanges
    PROVE  /\ x[1] \in 1..lastId /\ x[2] \in 1..lastId /\ x = <<x[1], x[2]>>
           /\ lastId + 1 \notin {x[1], x[2]}
  <1>1. x \in (1..lastId) \X (1..lastId)
    BY DEF PairInv, KeysAreOld
  <1>2. lastId \in Nat
    BY HistoryAssumption DEF Shape, TypeOK
  <1>3. lastId + 1 \notin 1..lastId
    BY <1>2
  <1>4. QED
    BY <1>1, <1>3

\* Nothing is paired at first.
LEMMA InitPairs == Init => PairInv
  <1> SUFFICES ASSUME Init PROVE PairInv
    OBVIOUS
  <1>1. \A h \in Clients : queue[h] = <<>> /\ shown[h] = <<>> /\ pc[h] = "idle"
    BY DEF Init
  <1>2. entries = {} /\ exchanges = {}
    BY DEF Init
  <1>3. Hashes = {}
    BY <1>1, <1>2 DEF Hashes, Queued, ToSet
  <1>4. \A h \in Clients : Shown(h) = {}
    BY <1>1 DEF Shown
  <1>5. QED
    BY <1>1, <1>2, <1>3, <1>4 DEF PairInv, KeysAreOld, SessionsAgree, OwnQueue

\* Steps that neither stamp nor write keep pairs: they drop queues, delete, and read.
LEMMA QuietPairs ==
    ASSUME Shape, Shape', PairInv,
           entries' \subseteq entries, Accounted \subseteq Accounted',
           lastId' = lastId, given' = given, exchanges' = exchanges,
           \A g \in Clients : queue'[g] = queue[g] \/ queue'[g] = <<>>,
           \A g \in Clients : pc'[g] = "stamp" =>
               queue'[g] = <<>> \/ (pc[g] = "stamp" /\ req'[g] = req[g]),
           \A g \in Clients : Shown(g)' \subseteq Shown(g) \union {e.key : e \in entries}
    PROVE  PairInv'
  <1>1. ToSet(<<>>) = {} /\ DOMAIN <<>> = {}
    BY DEF ToSet
  <1>2. Hashes' \subseteq Hashes
    <2>1. \A g \in Clients : ToSet(queue'[g]) \subseteq ToSet(queue[g])
      BY <1>1
    <2>2. Queued' \subseteq Queued
      BY <2>1 DEF Queued
    <2>3. QED
      BY <2>2 DEF Hashes
  <1>3. Past' = Past
    BY DEF Past
  <1>4. KeysAreOld'
    <2>1. {e.key : e \in entries} \subseteq Past
      BY DEF PairInv, KeysAreOld, Hashes
    <2>2. QED
      BY <1>2, <1>3, <2>1 DEF PairInv, KeysAreOld
  <1>5. SessionsAgree'
    BY <1>2 DEF PairInv, SessionsAgree
  <1>6. ASSUME NEW g \in Clients PROVE OwnQueue(g)'
    BY <1>1 DEF PairInv, OwnQueue
  <1>7. ASSUME NEW x \in exchanges, x[1] \notin given, x[2] \notin given
        PROVE  Paired(x[1], x[2])'
    <2>1. Paired(x[1], x[2])
      BY <1>7 DEF PairInv
    <2>2. \A e, f \in Hashes' : e.key = x[1] /\ f.key = x[2] => e.session = f.session
      BY <1>2, <2>1 DEF Paired
    <2>3. x[2] \in {e.key : e \in entries'} => x[1] \in Accounted'
      BY <2>1 DEF Paired
    <2>4. ASSUME NEW g \in Clients PROVE Sent(g, x[1], x[2])'
      <3>1. Sent(g, x[1], x[2])
        BY <2>1 DEF Paired
      <3>2. CASE queue'[g] = <<>>
        BY <1>1, <3>2 DEF Sent
      <3>3. CASE queue'[g] = queue[g]
        BY <3>1, <3>3 DEF Sent
      <3>4. QED
        BY <3>2, <3>3
    <2>5. QED
      BY <2>2, <2>3, <2>4 DEF Paired
  <1>8. QED
    BY <1>4, <1>5, <1>6, <1>7 DEF PairInv

\* A stamped message gets a key of its own, behind the messages stamped before it.
LEMMA StampPairs ==
    ASSUME Shape, Shape', PairInv, NEW h \in Clients, NEW e, Stamped(h, e), pc[h] = "stamp",
           UNCHANGED <<entries, req, shown, removed>>
    PROVE  PairInv'
  <1> DEFINE new == lastId + 1
             n   == Len(queue[h]) + 1
  <1>1. /\ e \in Entry /\ e.session = req[h].session
        /\ (e.key = new /\ given' = given) \/ given' = given \union {e.key}
        /\ req[h].op = "store" => e.key = new
        /\ lastId' = new /\ new \in 1..MaxMessages /\ lastId \in Nat
        /\ queue[h] \in Seq(Entry)
        /\ queue'[h] = Append(queue[h], e)
        /\ \A g \in Clients \ {h} : queue'[g] = queue[g] /\ pc'[g] = pc[g]
        /\ exchanges' = IF req[h].op = "store" /\ n = 2
                        THEN exchanges \union {<<queue[h][1].key, e.key>>} ELSE exchanges
    <2>1. /\ queue \in [Clients -> Seq(Entry)] /\ lastId \in Nat /\ pc \in [Clients -> Labels]
      BY DEF Shape, TypeOK
    <2>2. /\ e \in Entry /\ e.session = req[h].session
          /\ (e.key = new /\ given' = given) \/ given' = given \union {e.key}
          /\ req[h].op = "store" => e.key = new
          /\ lastId' = new /\ new \in 1..MaxMessages
      BY HistoryAssumption DEF Stamped
    <2>3. /\ queue'[h] = Append(queue[h], e)
          /\ \A g \in Clients \ {h} : queue'[g] = queue[g] /\ pc'[g] = pc[g]
      BY <2>1 DEF Stamped, Goto
    <2>4. exchanges' = IF req[h].op = "store" /\ n = 2
                       THEN exchanges \union {<<queue[h][1].key, e.key>>} ELSE exchanges
      BY DEF Stamped
    <2> QED BY <2>1, <2>2, <2>3, <2>4
  <1> DEFINE q == queue[h]
             r == queue'[h]
  <1>2. /\ n \in Nat \ {0} /\ DOMAIN q = 1..(n - 1) /\ DOMAIN r = 1..n
        /\ \A i \in 1..(n - 1) : r[i] = q[i]
        /\ r[n] = e
    <2> HIDE DEF new
    <2>1. n \in Nat \ {0} /\ DOMAIN q = 1..(n - 1)
      BY <1>1
    <2>2. Len(Append(q, e)) = n /\ DOMAIN Append(q, e) = 1..n
      BY <1>1
    <2>3. (\A i \in 1..(n - 1) : Append(q, e)[i] = q[i]) /\ Append(q, e)[n] = e
      BY <1>1
    <2>4. QED
      BY <1>1, <2>1, <2>2, <2>3
  <1> HIDE DEF q, r, n
  <1>3. ToSet(r) = ToSet(q) \union {e}
    BY <1>2 DEF ToSet
  <1>4. Queued' = Queued \union {e}
    <2>1. ASSUME NEW g \in Clients
          PROVE  ToSet(queue'[g]) = ToSet(queue[g]) \union (IF g = h THEN {e} ELSE {})
      BY <1>1, <1>3 DEF q, r
    <2>2. QED
      BY <2>1 DEF Queued
  <1>5. Hashes' = Hashes \union {e}
    BY <1>4 DEF Hashes
  <1>6. /\ Past \subseteq Past' /\ e.key \in Past' /\ given \subseteq given'
        /\ new \in Past => new \in given
        /\ e.key \notin given' => e.key = new /\ new \notin Past
    <2>1. 1..new = 1..lastId \union {new} /\ new \notin 1..lastId
      BY <1>1
    <2>2. new \in Past => new \in given
      BY <2>1 DEF Past
    <2>3. given \subseteq given' /\ (e.key \notin given' => e.key = new /\ new \notin given)
      BY <1>1
    <2>4. Past \subseteq Past' /\ e.key \in Past'
      BY <1>1, <2>1, <2>3 DEF Past
    <2>5. QED
      BY <2>2, <2>3, <2>4
  <1>7. \A f \in Hashes : f.key \in Past
    BY DEF PairInv, KeysAreOld
  <1>8. \A f \in Hashes : f.key = e.key => e.key \in given'
    BY <1>6, <1>7
  <1>9. \A f \in ToSet(q) : f \in Hashes /\ f.session = req[h].session
                            /\ (req[h].op = "store" => f.key \in 1..lastId)
    BY DEF PairInv, OwnQueue, Hashes, Queued, q
  <1>10. KeysAreOld'
    <2>1. exchanges' \subseteq (1..new) \X (1..new)
      <3>1. exchanges \subseteq (1..new) \X (1..new)
        BY <1>1 DEF PairInv, KeysAreOld
      <3>2. CASE req[h].op = "store" /\ n = 2
        <4>1. q[1] \in ToSet(q)
          BY <1>2, <3>2 DEF ToSet
        <4>2. q[1].key \in 1..lastId
          BY <1>9, <3>2, <4>1
        <4>3. q[1].key \in 1..new /\ e.key \in 1..new
          BY <1>1, <3>2, <4>2
        <4>4. QED
          BY <1>1, <3>1, <4>3 DEF q
      <3>3. QED
        BY <1>1, <3>1, <3>2
    <2>2. \A g \in Clients : Shown(g)' = Shown(g)
      BY DEF Shown
    <2>3. QED
      BY <1>1, <1>5, <1>6, <1>7, <2>1, <2>2 DEF PairInv, KeysAreOld
  <1>11. SessionsAgree'
    BY <1>5, <1>6, <1>8 DEF PairInv, SessionsAgree
  <1>12. ASSUME NEW g \in Clients PROVE OwnQueue(g)'
    <2>1. CASE g = h
      <3>1. 1..lastId \subseteq 1..new /\ (req[h].op = "store" => e.key \in 1..new)
        BY <1>1
      <3>2. QED
        BY <1>1, <1>3, <1>9, <2>1, <3>1 DEF OwnQueue, r
    <2>2. CASE g # h
      <3>1. 1..lastId \subseteq 1..new
        BY <1>1
      <3>2. QED
        BY <1>1, <2>2, <3>1 DEF PairInv, OwnQueue
    <2>3. QED
      BY <2>1, <2>2
  <1>13. ASSUME NEW x \in exchanges, x[1] \notin given', x[2] \notin given'
         PROVE  Paired(x[1], x[2])'
    <2>1. Paired(x[1], x[2])
      BY <1>6, <1>13 DEF PairInv
    <2>2. e.key # x[1] /\ e.key # x[2]
      BY <1>6, <1>13, Stamps
    <2>3. \A f, g \in Hashes' : f.key = x[1] /\ g.key = x[2] => f.session = g.session
      BY <1>5, <2>1, <2>2 DEF Paired
    <2>4. Accounted' = Accounted
      BY DEF Accounted
    <2>5. ASSUME NEW g \in Clients PROVE Sent(g, x[1], x[2])'
      <3>1. Sent(g, x[1], x[2])
        BY <2>1 DEF Paired
      <3>2. CASE g # h
        BY <1>1, <2>4, <3>1, <3>2 DEF Sent
      <3>3. CASE g = h
        <4> SUFFICES ASSUME NEW i \in DOMAIN r, r[i].key = x[2]
                     PROVE  x[1] \in Accounted \/ \E j \in 1..(i - 1) : r[j].key = x[1]
          BY <2>4, <3>3 DEF Sent, r
        <4>1. i \in DOMAIN q /\ q[i].key = x[2] /\ i \in 1..(n - 1)
          BY <1>2, <2>2
        <4>2. x[1] \in Accounted \/ \E j \in 1..(i - 1) : q[j].key = x[1]
          BY <3>1, <3>3, <4>1 DEF Sent, q
        <4>3. \A j \in 1..(i - 1) : r[j] = q[j]
          BY <1>2, <4>1
        <4>4. QED
          BY <4>2, <4>3
      <3>4. QED
        BY <3>2, <3>3
    <2>6. x[2] \in {f.key : f \in entries'} => x[1] \in Accounted'
      BY <2>1, <2>4 DEF Paired
    <2>7. QED
      BY <2>3, <2>5, <2>6 DEF Paired
  <1>14. ASSUME req[h].op = "store", n = 2, NEW p, p = q[1].key, p \notin given',
                e.key \notin given'
         PROVE  Paired(p, e.key)'
    <2>1. q[1] \in ToSet(q) /\ q[1] = r[1]
      BY <1>2, <1>14 DEF ToSet
    <2>2. q[1] \in Hashes /\ q[1].session = e.session /\ p \notin given
      BY <1>1, <1>6, <1>9, <1>14, <2>1
    <2>3. e.key = new /\ p # e.key /\ new \notin Past
      BY <1>1, <1>6, <1>7, <1>14, <2>2
    <2>4. ASSUME NEW f \in Hashes', NEW g \in Hashes', f.key = p, g.key = e.key
          PROVE  f.session = g.session
      <3>1. f \in Hashes /\ g = e
        BY <1>5, <1>7, <2>3, <2>4
      <3>2. f.session = q[1].session
        BY <1>14, <2>2, <2>4, <3>1 DEF PairInv, SessionsAgree
      <3>3. QED
        BY <2>2, <3>1, <3>2
    <2>5. e.key \notin {f.key : f \in entries'}
      BY <1>7, <2>3 DEF Hashes
    <2>6. ASSUME NEW g \in Clients PROVE Sent(g, p, e.key)'
      <3>1. CASE g # h
        <4>1. \A i \in DOMAIN queue[g] : queue[g][i] \in Hashes
          BY DEF Hashes, Queued, ToSet
        <4>2. \A i \in DOMAIN queue[g] : queue[g][i].key # e.key
          BY <1>7, <2>3, <4>1
        <4>3. QED
          BY <1>1, <3>1, <4>2 DEF Sent
      <3>2. CASE g = h
        <4>1. \A i \in 1..(n - 1) : r[i] \in Hashes
          BY <1>2, <1>9 DEF ToSet
        <4>2. \A i \in 1..(n - 1) : r[i].key # e.key
          BY <1>7, <2>3, <4>1
        <4>3. ASSUME NEW i \in DOMAIN r, r[i].key = e.key PROVE i = 2
          BY <1>2, <1>14, <4>2, <4>3
        <4>4. 1 \in 1..(2 - 1) /\ r[1].key = p
          BY <1>14, <2>1
        <4>5. QED
          BY <3>2, <4>3, <4>4 DEF Sent, r
      <3>3. QED
        BY <3>1, <3>2
    <2>7. QED
      BY <2>4, <2>5, <2>6 DEF Paired
  <1>15. ASSUME NEW x \in exchanges', x[1] \notin given', x[2] \notin given'
         PROVE  Paired(x[1], x[2])'
    <2>1. CASE x \in exchanges
      BY <1>13, <1>15, <2>1
    <2>2. CASE x \notin exchanges
      <3>1. req[h].op = "store" /\ n = 2 /\ x = <<q[1].key, e.key>>
        BY <1>1, <2>2 DEF q
      <3>2. x[1] = q[1].key /\ x[2] = e.key
        BY <3>1
      <3>3. QED
        BY <1>14, <1>15, <3>1, <3>2
    <2>3. QED
      BY <2>1, <2>2
  <1>16. QED
    BY <1>10, <1>11, <1>12, <1>15 DEF PairInv

\* A message is written after those before it in its pipeline.
LEMMA HSetPairs ==
    ASSUME Shape, Shape', PairInv, NEW h \in Clients, HSet(h)
    PROVE  PairInv'
  <1> DEFINE e == Head(queue[h])
             q == queue[h]
             r == queue'[h]
  <1>1. /\ UNCHANGED <<req, shown, lastId, given, exchanges>>
        /\ \A g \in Clients \ {h} : pc'[g] = pc[g]
        /\ pc'[h] # "stamp"
    <2>1. PICK l \in Labels : /\ Goto(h, l) \/ Fault(h, l) \/ Lose(h)
                              /\ l \in {"ok", "err", "hset", "hset_err"}
      BY HSetEffect
    <2>2. pc'[h] \in {l, "err"} /\ \A g \in Clients \ {h} : pc'[g] = pc[g]
      BY <2>1, Moves
    <2>3. QED
      BY <2>1, <2>2 DEF HSet
  <1>2. CASE UNCHANGED <<entries, queue, removed>>
    <2>1. Accounted' = Accounted /\ \A g \in Clients : Shown(g)' = Shown(g)
      BY <1>1, <1>2 DEF Accounted, Shown
    <2>2. QED
      BY <1>1, <1>2, <2>1, QuietPairs
  <1>3. CASE /\ \/ /\ removed' = removed
                   /\ entries' = {f \in entries : f.key # e.key} \union {e}
                \/ removed' = removed \union {e.key} /\ entries' = entries
             /\ queue' = [queue EXCEPT ![h] = Tail(queue[h])]
    <2>1. /\ q \in Seq(Entry) /\ q # <<>> /\ e = q[1] /\ e \in Entry
          /\ r \in Seq(Entry) /\ Len(r) = Len(q) - 1
          /\ \A i \in 1..Len(r) : r[i] = q[i + 1]
          /\ \A g \in Clients \ {h} : queue'[g] = queue[g]
      <3>1. r = Tail(queue[h]) /\ \A g \in Clients \ {h} : queue'[g] = queue[g]
        BY <1>3 DEF Shape
      <3>2. q \in Seq(Entry) /\ q # <<>> /\ e \in Entry
            /\ Tail(queue[h]) \in Seq(Entry) /\ Len(Tail(queue[h])) = Len(q) - 1
            /\ \A i \in 1..Len(Tail(queue[h])) : Tail(queue[h])[i] = q[i + 1]
        BY HSetEffect
      <3>3. e = q[1]
        BY <3>2
      <3>4. QED
        BY <3>1, <3>2, <3>3
    <2> HIDE DEF r, q, e
    <2>2. /\ DOMAIN q = 1..Len(q) /\ DOMAIN r = 1..Len(r)
          /\ Len(q) \in Nat \ {0} /\ Len(r) \in Nat /\ Len(r) = Len(q) - 1
      BY <2>1
    <2>3. ToSet(r) \subseteq ToSet(q) /\ e \in ToSet(q)
      BY <2>1, <2>2 DEF ToSet
    <2>4. Queued' \subseteq Queued /\ e \in Queued
      BY <2>1, <2>3 DEF Queued, q, r
    <2>5. Hashes' \subseteq Hashes
      BY <1>3, <2>4 DEF Hashes
    <2>6. /\ {f.key : f \in entries'} \subseteq {f.key : f \in entries} \union {e.key}
          /\ Accounted' = Accounted \union {e.key}
      <3>1. CASE removed' = removed /\ entries' = {f \in entries : f.key # e.key} \union {e}
        <4>1. ASSUME NEW f \in entries, f.key # e.key PROVE f \in entries'
          BY <3>1, <4>1
        <4>2. e \in entries' /\ \A f \in entries' : f \in entries \/ f = e
          BY <3>1
        <4>3. {f.key : f \in entries'} = {f.key : f \in entries} \union {e.key}
          BY <4>1, <4>2
        <4>4. QED
          BY <3>1, <4>3 DEF Accounted
      <3>2. CASE removed' = removed \union {e.key} /\ entries' = entries
        BY <3>2 DEF Accounted
      <3>3. QED
        BY <1>3, <3>1, <3>2
    <2>7. Accounted' = Accounted \union {e.key}
      BY <2>6
    <2>8. KeysAreOld'
      <3>1. Past' = Past /\ \A g \in Clients : Shown(g)' = Shown(g)
        BY <1>1 DEF Past, Shown
      <3>2. QED
        BY <1>1, <2>5, <3>1 DEF PairInv, KeysAreOld
    <2>9. SessionsAgree'
      BY <1>1, <2>5 DEF PairInv, SessionsAgree
    <2>10. ASSUME NEW g \in Clients PROVE OwnQueue(g)'
      BY <1>1, <2>1 DEF PairInv, OwnQueue
    <2>11. ASSUME NEW x \in exchanges, x[1] \notin given, x[2] \notin given
           PROVE  Paired(x[1], x[2])'
      <3>1. Paired(x[1], x[2])
        BY <2>11 DEF PairInv
      <3>2. \A f, g \in Hashes' : f.key = x[1] /\ g.key = x[2] => f.session = g.session
        BY <2>5, <3>1 DEF Paired
      <3>3. x[2] \in {f.key : f \in entries'} => x[1] \in Accounted'
        <4>1. CASE x[2] \in {f.key : f \in entries}
          BY <2>7, <3>1, <4>1 DEF Paired
        <4>2. CASE x[2] = e.key
          <5>1. Sent(h, x[1], x[2])
            BY <3>1 DEF Paired
          <5>2. 1 \in DOMAIN q /\ q[1].key = x[2] /\ 1..(1 - 1) = {}
            BY <2>1, <2>2, <4>2
          <5>3. x[1] \in Accounted
            BY <5>1, <5>2 DEF Sent, q
          <5>4. QED
            BY <2>7, <5>3
        <4>3. QED
          BY <2>6, <4>1, <4>2
      <3>4. ASSUME NEW g \in Clients PROVE Sent(g, x[1], x[2])'
        <4>1. Sent(g, x[1], x[2])
          BY <3>1 DEF Paired
        <4>2. CASE g # h
          <5>1. queue'[g] = queue[g] /\ Accounted \subseteq Accounted'
            BY <2>1, <2>7, <4>2
          <5>2. QED
            BY <4>1, <5>1 DEF Sent
        <4>3. CASE g = h
          <5> SUFFICES ASSUME NEW i \in DOMAIN r, r[i].key = x[2]
                       PROVE  x[1] \in Accounted' \/ \E j \in 1..(i - 1) : r[j].key = x[1]
            BY <4>3 DEF Sent, r
          <5>1. i \in 1..Len(r) /\ i + 1 \in DOMAIN q /\ q[i + 1].key = x[2]
            BY <2>1, <2>2
          <5>2. x[1] \in Accounted \/ \E j \in 1..((i + 1) - 1) : q[j].key = x[1]
            BY <4>1, <4>3, <5>1 DEF Sent, q
          <5>3. CASE x[1] \in Accounted
            BY <2>7, <5>3
          <5>4. ASSUME NEW j \in 1..((i + 1) - 1), q[j].key = x[1]
                PROVE  x[1] \in Accounted' \/ \E k \in 1..(i - 1) : r[k].key = x[1]
            <6>1. CASE j = 1
              BY <2>1, <2>7, <5>4, <6>1
            <6>2. CASE j # 1
              <7>1. j - 1 \in 1..(i - 1) /\ j - 1 \in 1..Len(r) /\ (j - 1) + 1 = j
                BY <2>2, <5>1, <6>2
              <7>2. r[j - 1] = q[j]
                BY <2>1, <7>1
              <7>3. QED
                BY <5>4, <7>1, <7>2
            <6>3. QED
              BY <6>1, <6>2
          <5>5. QED
            BY <5>2, <5>3, <5>4
        <4>4. QED
          BY <4>2, <4>3
      <3>5. QED
        BY <3>2, <3>3, <3>4 DEF Paired
    <2>12. QED
      BY <1>1, <2>8, <2>9, <2>10, <2>11 DEF PairInv
  <1>4. QED
    BY <1>2, <1>3, HSetEffect

\* What is removed is accounted for.
LEMMA RemovedCounts ==
    ASSUME NEW S, RemoveKeys(S)
    PROVE  Accounted \subseteq Accounted'
  BY DEF RemoveKeys, Accounted

\* A read shows what is there.
LEMMA ShownIsThere ==
    ASSUME Shape, NEW h \in Clients, Recent(h) \/ Messages(h) \/ GetRelevant(h)
    PROVE  \A g \in Clients : Shown(g)' \subseteq Shown(g) \union {e.key : e \in entries}
  <1>1. ASSUME NEW answers, answers \subseteq Seq(entries), Reply(h, answers)
        PROVE  \A g \in Clients : Shown(g)' \subseteq Shown(g) \union {e.key : e \in entries}
    <2>1. CASE UNCHANGED shown
      BY <2>1 DEF Shown
    <2>2. CASE ~UNCHANGED shown
      <3>1. PICK s \in answers : shown' = [shown EXCEPT ![h] = s]
        BY <1>1, <2>2 DEF Reply
      <3>2. shown'[h] = s /\ \A g \in Clients \ {h} : shown'[g] = shown[g]
        BY <3>1 DEF Shape
      <3>3. s \in Seq(entries)
        BY <1>1, <3>1
      <3>4. \A i \in DOMAIN s : s[i] \in entries
        BY <3>3
      <3>5. QED
        BY <3>2, <3>4 DEF Shown
    <2>3. QED
      BY <2>1, <2>2
  <1>2. ASSUME NEW S, S \subseteq entries
        PROVE  /\ \A k \in Nat \ {0} : Earliest(S, k) \union Latest(S, k) \subseteq Seq(entries)
               /\ SetToSeqs(S) \subseteq Seq(entries)
    <2>1. IsFiniteSet(S) /\ Seq(S) \subseteq Seq(entries)
      <3>1. IsFiniteSet(S)
        BY <1>2, FS_Subset DEF Shape
      <3>2. QED
        BY <1>2, <3>1
    <2>2. \A k \in Nat \ {0} : Earliest(S, k) \subseteq Seq(S) /\ Latest(S, k) \subseteq Seq(S)
      BY <2>1, EarliestOf, LatestOf
    <2>3. SetToSeqs(S) \subseteq Seq(S)
      BY <2>1, Orders
    <2>4. QED
      BY <2>1, <2>2, <2>3
  <1>3. CASE Recent(h)
    <2> DEFINE S == Of(req[h].query.session, req[h].query.roles)
               k == TopK(req[h].query)
    <2>1. Reply(h, Latest(S, k)) /\ k \in Nat \ {0} /\ S \subseteq entries
      BY <1>3, SearchQuery, OfEntries DEF Recent
    <2> HIDE DEF S, k
    <2>2. Latest(S, k) \subseteq Seq(entries)
      BY <1>2, <2>1
    <2>3. QED
      BY <1>1, <2>1, <2>2
  <1>4. CASE Messages(h)
    <2> DEFINE S == Of(SessionOf(h), {})
    <2>1. /\ Reply(h, Earliest(S, FullHistory)) /\ FullHistory \in Nat \ {0}
          /\ S \subseteq entries
      BY <1>4, HistoryAssumption, OfEntries DEF Messages
    <2> HIDE DEF S
    <2>2. Earliest(S, FullHistory) \subseteq Seq(entries)
      BY <1>2, <2>1
    <2>3. QED
      BY <1>1, <2>1, <2>2
  <1>5. CASE GetRelevant(h)
    <2> DEFINE q    == req[h].query
               d    == IF req[h].threshold = 0 THEN threshold[h] ELSE req[h].threshold
               near == {e \in Of(q.session, q.roles) : e.content \in Relevant(d)}
               A    == UNION {SetToSeqs(S) : S \in {T \in SUBSET near :
                           IF Cardinality(near) <= TopK(q) THEN T = near
                           ELSE Cardinality(T) = TopK(q)}}
    <2>1. UNCHANGED shown \/ Reply(h, A)
      BY <1>5 DEF GetRelevant
    <2>2. A \subseteq Seq(entries)
      <3>1. near \subseteq entries
        BY OfEntries
      <3> HIDE DEF near
      <3>2. \A S \in SUBSET near : SetToSeqs(S) \subseteq Seq(entries)
        BY <1>2, <3>1
      <3>3. QED
        BY <3>2
    <2> HIDE DEF A
    <2>3. CASE UNCHANGED shown
      BY <2>3 DEF Shown
    <2>4. QED
      BY <1>1, <2>1, <2>2, <2>3
  <1>6. QED
    BY <1>3, <1>4, <1>5

\* Pairs are kept by every step.
LEMMA NextPairs == Shape /\ Shape' /\ PairInv /\ [Next]_vars => PairInv'
  <1> SUFFICES ASSUME Shape, Shape', PairInv, [Next]_vars PROVE PairInv'
    OBVIOUS
  <1>1. UNCHANGED shown => \A g \in Clients : Shown(g)' = Shown(g)
    BY DEF Shown
  <1>2. UNCHANGED <<entries, removed>> => Accounted' = Accounted
    BY DEF Accounted
  <1>3. ASSUME NEW h \in Clients, NEW q \in Requests, Begin(h, q) PROVE PairInv'
    <2>1. /\ UNCHANGED <<entries, lastId, removed, given, exchanges>>
          /\ queue'[h] = <<>> /\ shown'[h] = <<>>
          /\ \A g \in Clients \ {h} : /\ queue'[g] = queue[g] /\ shown'[g] = shown[g]
                                      /\ pc'[g] = pc[g] /\ req'[g] = req[g]
      BY <1>3 DEF Begin, Goto, Shape, TypeOK
    <2>2. \A g \in Clients : Shown(g)' \subseteq Shown(g)
      BY <2>1 DEF Shown
    <2>3. \A g \in Clients : queue'[g] = queue[g] \/ queue'[g] = <<>>
      BY <2>1
    <2>4. \A g \in Clients : pc'[g] = "stamp" =>
              queue'[g] = <<>> \/ (pc[g] = "stamp" /\ req'[g] = req[g])
      BY <2>1
    <2>5. QED
      BY <1>2, <2>1, <2>2, <2>3, <2>4, QuietPairs
  <1>4. ASSUME NEW h \in Clients, Embed(h) PROVE PairInv'
    <2>1. /\ UNCHANGED <<entries, req, queue, shown, lastId, removed, given, exchanges>>
          /\ queue[h] = <<>>
      BY <1>4 DEF Embed, Shape, CallAt
    <2>2. \A g \in Clients \ {h} : pc'[g] = pc[g]
      BY <1>4, OneMoves DEF Step
    <2>3. \A g \in Clients : pc'[g] = "stamp" =>
              queue'[g] = <<>> \/ (pc[g] = "stamp" /\ req'[g] = req[g])
      BY <2>1, <2>2
    <2>4. QED
      BY <1>1, <1>2, <2>1, <2>3, QuietPairs
  <1>5. ASSUME NEW h \in Clients, Stamp(h) PROVE PairInv'
    <2>1. UNCHANGED <<entries, req, shown, removed>> /\ pc[h] = "stamp"
      BY <1>5 DEF Stamp
    <2>2. CASE \E e : Stamped(h, e)
      BY <2>1, <2>2, StampPairs
    <2>3. CASE /\ \E l \in {"ok", "err"} : Goto(h, l)
               /\ UNCHANGED <<queue, lastId, given, exchanges>>
      <3>1. \A g \in Clients : pc'[g] = "stamp" => pc[g] = "stamp"
        BY <2>1, <2>3 DEF Goto, Shape, TypeOK
      <3>2. QED
        BY <1>1, <1>2, <2>1, <2>3, <3>1, QuietPairs
    <2>4. QED
      BY <1>5, <2>2, <2>3, StampEffect
  <1>6. ASSUME NEW h \in Clients, Recent(h) \/ Messages(h) \/ GetRelevant(h) PROVE PairInv'
    <2>1. UNCHANGED <<entries, req, queue, lastId, removed, given, exchanges>>
      BY <1>6 DEF Recent, Messages, GetRelevant
    <2>2. (\E l \in {"ok", "err", "recent"} : Goto(h, l)) \/ Lose(h)
      BY <1>6 DEF Recent, Messages, GetRelevant, Reply
    <2>3. \A g \in Clients : pc'[g] = "stamp" => pc[g] = "stamp"
      BY <2>2 DEF Goto, Lose, Fault, Shape, TypeOK
    <2>4. QED
      BY <1>2, <1>6, <2>1, <2>3, ShownIsThere, QuietPairs
  <1>7. ASSUME NEW h \in Clients,
               ReadLatest(h) \/ Del(h) \/ Empty(h) \/ New(h) \/ DropIndex(h) \/ Create(h)
        PROVE  PairInv'
    <2>1. UNCHANGED <<req, queue, shown, lastId, given, exchanges>>
      BY <1>7 DEF ReadLatest, Del, Empty, New, DropIndex, Create
    <2>2. (\E l \in {"ok", "err", "del", "dropindex", "create"} : Goto(h, l)) \/ Lose(h)
      BY <1>7 DEF ReadLatest, Del, Empty, New, DropIndex, Create, Made
    <2>3. \A g \in Clients : pc'[g] = "stamp" => pc[g] = "stamp"
      BY <2>2 DEF Goto, Lose, Fault, Shape, TypeOK
    <2>4. UNCHANGED <<entries, removed>> \/ \E S : RemoveKeys(S)
      BY <1>7 DEF ReadLatest, Del, Empty, New, DropIndex, Create
    <2>5. entries' \subseteq entries /\ Accounted \subseteq Accounted'
      <3>1. CASE UNCHANGED <<entries, removed>>
        BY <1>2, <3>1
      <3>2. CASE \E S : RemoveKeys(S)
        BY <3>2, Removal, RemovedCounts
      <3>3. QED
        BY <2>4, <3>1, <3>2
    <2>6. QED
      BY <1>1, <2>1, <2>3, <2>5, QuietPairs
  <1>8. CASE Tick \/ UNCHANGED vars
    <2>1. UNCHANGED <<entries, pc, req, queue, shown, lastId, removed, given, exchanges>>
      BY <1>8 DEF Tick, vars
    <2>2. QED
      BY <1>1, <1>2, <2>1, QuietPairs
  <1>9. QED
    BY <1>3, <1>4, <1>5, <1>6, <1>7, <1>8, HSetPairs DEF Next, Step

\* Messages that read everything of a session has the prompt of every answer it has.
LEMMA MessagesHasPrompts ==
    ASSUME Shape, PairInv, NEW h \in Clients, Messages(h), ~UNCHANGED shown,
           Len(shown'[h]) < FullHistory,
           NEW x \in exchanges, x[2] \in Shown(h)', x[1] \notin given, x[2] \notin given
    PROVE  x[1] \in Shown(h)' \union removed
  <1> DEFINE S == Of(SessionOf(h), {})
             s == shown'[h]
  <1>1. s \in Earliest(S, FullHistory)
    <2> HIDE DEF S
    <2>1. Reply(h, Earliest(S, FullHistory))
      BY DEF Messages, S
    <2>2. QED
      BY <2>1 DEF Reply, Shape
  <1>2. IsFiniteSet(S) /\ FullHistory \in Nat \ {0}
    BY HistoryAssumption, OfEntries
  <1>3. S = {e \in entries : e.session = SessionOf(h)}
    BY DEF Of
  <1> HIDE DEF S
  <1>4. s \in Seq(S) /\ ToSet(s) = S
    BY <1>1, <1>2, EarliestOf
  <1> HIDE DEF s
  <1>5. Shown(h)' = {e.key : e \in S}
    <2>1. Shown(h)' = {s[i].key : i \in DOMAIN s}
      BY DEF Shown, s
    <2>2. S = {s[i] : i \in DOMAIN s}
      BY <1>4 DEF ToSet
    <2>3. QED
      BY <2>1, <2>2
  <1>6. PICK f \in S : f.key = x[2]
    BY <1>5
  <1>7. Paired(x[1], x[2])
    BY DEF PairInv
  <1>8. x[1] \in Accounted
    BY <1>3, <1>6, <1>7 DEF Paired
  <1>9. ASSUME x[1] \notin removed PROVE x[1] \in Shown(h)'
    <2>1. PICK e \in entries : e.key = x[1]
      BY <1>8, <1>9 DEF Accounted
    <2>2. e.session = f.session
      BY <1>3, <1>6, <1>7, <2>1 DEF Paired, Hashes
    <2>3. e \in S
      BY <1>3, <1>6, <2>1, <2>2
    <2>4. QED
      BY <1>5, <2>1, <2>3
  <1>10. QED
    BY <1>9

\* What was shown stays right: nothing that was removed is forgotten, and the answers of later
\* exchanges have new keys.
LEMMA ShownStaysRight ==
    ASSUME Shape, PairInv, NoAnswerWithoutPrompt,
           removed \subseteq removed', given \subseteq given',
           \A x \in exchanges' \ exchanges : x[2] \notin Past \ given,
           NEW h \in Clients, shown'[h] = shown[h] /\ req'[h] = req[h],
           req'[h].op = "messages", Len(shown'[h]) < FullHistory,
           NEW x \in exchanges', x[2] \in Shown(h)', x[2] \notin given'
    PROVE  x[1] \in Shown(h)' \union removed' \union given'
  <1>1. Shown(h)' = Shown(h)
    BY DEF Shown
  <1>2. Shown(h) \subseteq Past
    BY DEF PairInv, KeysAreOld
  <1>3. x \in exchanges
    BY <1>1, <1>2
  <1>4. x[1] \in Shown(h) \union removed \union given
    BY <1>1, <1>3 DEF NoAnswerWithoutPrompt
  <1>5. QED
    BY <1>1, <1>4

\* Every step keeps prompts with their answers in what Messages returned.
LEMMA NextPrompts ==
    Shape /\ PairInv /\ NoAnswerWithoutPrompt /\ [Next]_vars => NoAnswerWithoutPrompt'
  <1> SUFFICES ASSUME Shape, PairInv, NoAnswerWithoutPrompt, [Next]_vars,
                      NEW h \in Clients, req'[h].op = "messages", Len(shown'[h]) < FullHistory,
                      NEW x \in exchanges', x[2] \in Shown(h)', x[2] \notin given'
               PROVE  x[1] \in Shown(h)' \union removed' \union given'
    BY DEF NoAnswerWithoutPrompt
  <1>1. removed \subseteq removed' /\ given \subseteq given'
    <2>1. CASE Tick \/ UNCHANGED vars \/ \E g \in Clients, q \in Requests : Begin(g, q)
      BY <2>1 DEF Tick, vars, Begin
    <2>2. ASSUME NEW g \in Clients, Embed(g) \/ Stamp(g) \/ HSet(g)
          PROVE  removed \subseteq removed' /\ given \subseteq given'
      BY <2>2 DEF Embed, Stamp, HSet
    <2>3. ASSUME NEW g \in Clients, Recent(g) \/ Messages(g) \/ GetRelevant(g) \/ ReadLatest(g)
          PROVE  removed \subseteq removed' /\ given \subseteq given'
      BY <2>3 DEF Recent, Messages, GetRelevant, ReadLatest
    <2>4. ASSUME NEW g \in Clients,
                 Del(g) \/ Empty(g) \/ New(g) \/ DropIndex(g) \/ Create(g)
          PROVE  removed \subseteq removed' /\ given \subseteq given'
      BY <2>4 DEF Del, Empty, RemoveKeys, New, DropIndex, Create
    <2>5. QED
      BY <2>1, <2>2, <2>3, <2>4 DEF Next, Step
  <1>2. UNCHANGED exchanges \/ \E g \in Clients : Stamp(g)
    BY DEF Next, Step, Begin, Embed, HSet, Recent, Messages, GetRelevant, ReadLatest, Del,
           Empty, New, DropIndex, Create, Tick, vars
  <1>3. \A y \in exchanges' \ exchanges : y[2] \notin Past \ given
    <2>1. CASE UNCHANGED exchanges
      BY <2>1
    <2>2. ASSUME NEW g \in Clients, Stamp(g), ~UNCHANGED exchanges
          PROVE  \A y \in exchanges' \ exchanges : y[2] \notin Past \ given
      <3>1. PICK e : Stamped(g, e)
        BY <2>2, StampEffect
      <3>2. /\ exchanges' = exchanges \union {<<queue[g][1].key, e.key>>}
            /\ e.key = lastId + 1
        BY <2>2, <3>1 DEF Stamped
      <3>3. lastId + 1 \notin Past \ given
        <4>1. lastId \in Nat
          BY DEF Shape, TypeOK
        <4>2. QED
          BY <4>1 DEF Past
      <3>4. QED
        BY <3>2, <3>3
    <2>3. QED
      BY <1>2, <2>1, <2>2
  <1>4. CASE shown'[h] = shown[h] /\ req'[h] = req[h]
    BY <1>1, <1>3, <1>4, ShownStaysRight
  <1>5. ASSUME NEW q \in Requests, Begin(h, q) PROVE FALSE
    <2>1. shown'[h] = <<>>
      BY <1>5 DEF Begin, Shape
    <2>2. QED
      BY <2>1 DEF Shown
  <1>6. CASE Messages(h) /\ ~UNCHANGED shown
    <2>1. UNCHANGED <<exchanges, removed>>
      BY <1>6 DEF Messages
    <2>2. given' = given
      BY <1>6 DEF Messages
    <2>3. QED
      BY <1>6, <2>1, <2>2, MessagesHasPrompts
  <1>7. ASSUME Recent(h) \/ GetRelevant(h) PROVE FALSE
    <2>1. req[h].op \in {"recent", "relevant"} /\ req' = req
      BY <1>7 DEF Recent, GetRelevant, Shape, CallAt
    <2>2. QED
      BY <2>1
  <1>8. ASSUME NEW g \in Clients \ {h}, Step(g) \/ \E q \in Requests : Begin(g, q)
        PROVE  shown'[h] = shown[h] /\ req'[h] = req[h]
    BY <1>8 DEF Step, Begin, Embed, Stamp, HSet, Recent, Messages, GetRelevant, Reply, ReadLatest,
           Del, Empty, New, DropIndex, Create, Shape
  <1>9. ASSUME Embed(h) \/ Stamp(h) \/ HSet(h) \/ (Messages(h) /\ UNCHANGED shown)
                 \/ ReadLatest(h) \/ Del(h) \/ Empty(h) \/ New(h) \/ DropIndex(h)
                 \/ Create(h) \/ Tick \/ UNCHANGED vars
        PROVE  shown'[h] = shown[h] /\ req'[h] = req[h]
    BY <1>9 DEF Embed, Stamp, HSet, Messages, ReadLatest, Del, Empty, New, DropIndex, Create,
                Tick, vars
  <1>10. QED
    <2>1. CASE \E g \in Clients \ {h} : Step(g) \/ \E q \in Requests : Begin(g, q)
      BY <1>4, <1>8, <2>1
    <2>2. CASE Tick \/ UNCHANGED vars
      BY <1>4, <1>9, <2>2
    <2>3. CASE Step(h) \/ \E q \in Requests : Begin(h, q)
      BY <1>4, <1>5, <1>6, <1>7, <1>9, <2>3 DEF Step
    <2>4. QED
      BY <2>1, <2>2, <2>3 DEF Next

\* However a Store (semantic.go) is cut off, and whatever others add, delete and clear in
\* between, Messages has no answer without its prompt, unless the prompt was deleted or refused
\* by Redis, or a caller gave the id of one of the two to a message of its own.
THEOREM PromptsStay == Spec => []NoAnswerWithoutPrompt
  <1>1. Init => NoAnswerWithoutPrompt
    BY DEF Init, NoAnswerWithoutPrompt
  <1>2. QED
    BY <1>1, InitShape, InitPairs, NextShape, NextPairs, NextPrompts, PTL DEF Spec
=============================================================================
